------------------------------- MODULE JpegColor -------------------------------
(***************************************************************************)
(* Color conversion, pixel by pixel: jccolor.c on the way into a file,     *)
(* jdcolor.c on the way out.  A pixel is a sequence of samples; fractions  *)
(* are scaled by 2^16, as FIX scales them.                                 *)
(***************************************************************************)
EXTENDS Integers, Sequences

MAXJSAMPLE == 255
CENTERJSAMPLE == 128
SCALE == 65536
ONE_HALF == 32768
CBCR_OFFSET == CENTERJSAMPLE * SCALE

Sample == 0..MAXJSAMPLE

-----------------------------------------------------------------------------
(* Into the file: jccolor.c *)

\* rgb_ycc_start and rgb_ycc_convert.  The last sum of Cb and of Cr is rounded by
\* a little less than a half, so that it need not be limited.
Y(r, g, b) == ((19595 * r) + (38470 * g) + (7471 * b) + ONE_HALF) \div SCALE
\* Mutant: rounded by a half.
CbHalf(r, g, b) == ((32768 * b) - (11059 * r) - (21709 * g) + CBCR_OFFSET + ONE_HALF) \div SCALE
Cb(r, g, b) == ((32768 * b) - (11059 * r) - (21709 * g) + CBCR_OFFSET + ONE_HALF - 1) \div SCALE
Cr(r, g, b) == ((32768 * r) - (27439 * g) - (5329 * b) + CBCR_OFFSET + ONE_HALF - 1) \div SCALE

RgbYcc(p) == <<Y(p[1], p[2], p[3]), Cb(p[1], p[2], p[3]), Cr(p[1], p[2], p[3])>>
RgbGray(p) == <<Y(p[1], p[2], p[3])>>
CmykYcck(p) == Append(RgbYcc([i \in 1..3 |-> MAXJSAMPLE - p[i]]), p[4])

\* The conversion jinit_color_converter chooses; "" where it has none.
ColorConverter(in, jpeg) ==
  CASE jpeg = "GRAYSCALE" /\ in = "RGB" -> "rgb_gray"
    [] jpeg = "GRAYSCALE" /\ in \in {"GRAYSCALE", "YCbCr"} -> "grayscale"
    [] jpeg = "YCbCr" /\ in = "RGB" -> "rgb_ycc"
    [] jpeg = "YCCK" /\ in = "CMYK" -> "cmyk_ycck"
    [] jpeg = in /\ jpeg # "GRAYSCALE" -> "null"
    [] OTHER -> ""
ColorConvert(p, in, jpeg) ==
  LET convert == ColorConverter(in, jpeg)
  IN  CASE convert = "rgb_gray" -> RgbGray(p)
        [] convert = "grayscale" -> <<p[1]>>
        [] convert = "rgb_ycc" -> RgbYcc(p)
        [] convert = "cmyk_ycck" -> CmykYcck(p)
        [] convert = "null" -> p

-----------------------------------------------------------------------------
(* Out of the file: jdcolor.c *)

\* sample_range_limit, as far as these sums go.
RangeLimit(v) == IF v < 0 THEN 0 ELSE IF v > MAXJSAMPLE THEN MAXJSAMPLE ELSE v

\* build_ycc_rgb_table: what is added to Y; R and B are rounded by themselves, G
\* is the sum of two parts.
CrR(cr) == ((91881 * (cr - CENTERJSAMPLE)) + ONE_HALF) \div SCALE
CbB(cb) == ((116130 * (cb - CENTERJSAMPLE)) + ONE_HALF) \div SCALE
CbCrG(cb, cr) == (ONE_HALF - (22554 * (cb - CENTERJSAMPLE)) - (46802 * (cr - CENTERJSAMPLE))) \div SCALE

YccRgb(p) ==
  <<RangeLimit(p[1] + CrR(p[3])), RangeLimit(p[1] + CbCrG(p[2], p[3])), RangeLimit(p[1] + CbB(p[2]))>>
YcckCmyk(p) ==
  <<RangeLimit(MAXJSAMPLE - (p[1] + CrR(p[3]))), RangeLimit(MAXJSAMPLE - (p[1] + CbCrG(p[2], p[3]))),
    RangeLimit(MAXJSAMPLE - (p[1] + CbB(p[2]))), p[4]>>

\* jinit_color_deconverter's choice; "" where it has none.
ColorDeconverter(jpeg, out) ==
  CASE out = "GRAYSCALE" /\ jpeg \in {"GRAYSCALE", "YCbCr"} -> "grayscale"
    [] out = "RGB" /\ jpeg = "YCbCr" -> "ycc_rgb"
    [] out = "RGB" /\ jpeg = "GRAYSCALE" -> "gray_rgb"
    [] out = "CMYK" /\ jpeg = "YCCK" -> "ycck_cmyk"
    [] out = jpeg /\ out # "GRAYSCALE" -> "null"
    [] OTHER -> ""
ColorDeconvert(p, jpeg, out) ==
  LET convert == ColorDeconverter(jpeg, out)
  IN  CASE convert = "grayscale" -> <<p[1]>>
        [] convert = "ycc_rgb" -> YccRgb(p)
        [] convert = "gray_rgb" -> <<p[1], p[1], p[1]>>
        [] convert = "ycck_cmyk" -> YcckCmyk(p)
        [] convert = "null" -> p

-----------------------------------------------------------------------------
(* Properties *)

Spaces == {"GRAYSCALE", "RGB", "YCbCr", "CMYK", "YCCK"}
Distance(a, b) == IF a < b THEN b - a ELSE a - b
Near(p, q, d) == Len(p) = Len(q) /\ \A i \in DOMAIN p : Distance(p[i], q[i]) <= d
Samples(p) == \A i \in DOMAIN p : p[i] \in Sample
Gray(p) == \A i \in 1..3 : p[i] = p[1]

\* For a pixel of one space, stored in each space it can be and given back in
\* each space that has: every sample fits its byte unlimited on the way in; in
\* the space it came from it is the same but for a rounding of at most one, and
\* exactly the same if nothing was converted or if it is a gray; and a file of
\* the gray alone shows what the gray of the color file would
\* (jccolor.c:27-41, 153-157; jdcolor.c:193-197).
PixelRestored(p, in) ==
  \A jpeg \in {s \in Spaces : ColorConverter(in, s) # ""} :
    LET stored == ColorConvert(p, in, jpeg)
    IN  /\ Samples(stored)
        /\ \A out \in {s \in Spaces : ColorDeconverter(jpeg, s) # ""} :
             LET shown == ColorDeconvert(stored, jpeg, out)
                 same == Gray(p) \/ jpeg = in
             IN  /\ Samples(shown)
                 /\ out = in /\ jpeg # "GRAYSCALE" => Near(shown, p, IF same THEN 0 ELSE 1)
                 /\ out = "GRAYSCALE" /\ in = "RGB" => shown = RgbGray(p)
=============================================================================
