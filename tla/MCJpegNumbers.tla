---------------------------- MODULE MCJpegNumbers ----------------------------
(* The parts of the codec that compute rather than interact: every case is a  *)
(* state, reached from the group it is in, and the properties say what the    *)
(* computation must give for it.                                              *)
EXTENDS Integers, Sequences, TLC

VARIABLE case

H == INSTANCE JpegHuffTables
F == INSTANCE JpegFrame WITH DCTSIZE <- 8
P == INSTANCE JpegProgressive WITH DCTSIZE2 <- 6, ZRL <- 2, MaxEOBRUN <- 3, MAX_CORR_BITS <- 8
P64 == INSTANCE JpegProgressive WITH DCTSIZE2 <- 64, ZRL <- 15, MaxEOBRUN <- 32767, MAX_CORR_BITS <- 1000
T == INSTANCE JpegTransform WITH DCTSIZE <- 2
S == INSTANCE JpegSampling WITH DCTSIZE <- 2
Q == INSTANCE JpegQuantize

-----------------------------------------------------------------------------
(* Huffman tables: counts of up to six symbols, among them those that grow so *)
(* fast that codes get longer than 16 bits.                                   *)

Fibonacci == <<1, 1, 2, 3, 5, 8, 13, 21, 34, 55, 89, 144, 233, 377, 610, 987, 1597, 2584, 4181, 6765, 10946>>
CountsOf(n, skip) == [s \in 0..255 |-> IF s \in 1..n /\ s # skip THEN Fibonacci[s] ELSE 0]
Tables ==
  {[kind |-> "table", counts |-> CountsOf(n, skip)] : n \in {2, 17, 21}, skip \in {0, 2}}
  \cup {[kind |-> "table", counts |-> [s \in 0..255 |-> IF s \in {0, 1, 16, 255} THEN f[s] ELSE 0]] :
          f \in {g \in [{0, 1, 16, 255} -> {0, 1, 9}] : \E s \in DOMAIN g : g[s] > 0}}

-----------------------------------------------------------------------------
(* Progressive scans: images of four blocks of two components.               *)

CoefBlock(dc, ac) == [k \in 0..5 |-> IF k = 0 THEN dc ELSE ac[k]]
Patterns == {<<0, 0, 0, 0, 0>>, <<0, 0, 0, 0, 1>>, <<5, 0, -1, 2, 0>>, <<-3, 3, 6, -7, 4>>, <<0, 0, 0, 4, 2>>}
Dcs == <<3, -4, -1, 0>>
Image(acs) == [m \in 1..4 |-> 1 :> CoefBlock(Dcs[m], acs[m]) @@ 2 :> CoefBlock(-Dcs[m], acs[1 + (m % 4)])]
Script ==
  <<F!AScan(<<1, 2>>, 0, 0, 0, 1), F!AScan(<<1>>, 1, 5, 0, 2), F!AScan(<<2>>, 1, 5, 0, 1),
    F!AScan(<<1>>, 1, 5, 2, 1), F!AScan(<<1, 2>>, 0, 0, 1, 0), F!AScan(<<1>>, 1, 2, 1, 0),
    F!AScan(<<2>>, 1, 5, 1, 0), F!AScan(<<1>>, 3, 5, 1, 0)>>
ProgressiveScans ==
  {[kind |-> "scans", acs |-> acs, interval |-> i, step |-> s] :
     acs \in [1..4 -> Patterns], i \in {0, 3}, s \in {1, 4}}

\* Scripts of two components.
AScans == {F!AScan(<<1, 2>>, 0, 0, 0, 1), F!AScan(<<1>>, 0, 0, 1, 0), F!AScan(<<1>>, 1, 63, 0, 2),
           F!AScan(<<1>>, 5, 63, 2, 1), F!AScan(<<1>>, 5, 63, 2, 0), F!AScan(<<2>>, 1, 63, 0, 0),
           F!AScan(<<1>>, 1, 4, 2, 1), F!AScan(<<1>>, 1, 63, 1, 0), F!AScan(<<1, 2>>, 0, 63, 0, 0)}
Scripts == {[kind |-> "script", n |-> 2, scans |-> s] : s \in UNION {[1..n -> AScans] : n \in 1..3}}
             \cup {[kind |-> "script", n |-> n, scans |-> F!SimpleProgression(n, y)] :
                     n \in 1..4, y \in {"YCbCr", "RGB"}}

-----------------------------------------------------------------------------
(* Transformations, on blocks of 2 x 2: their discrete cosine transform is the *)
(* sum and the difference, exact in integers.                                  *)

Basis(freq, at) == IF freq = 1 /\ at = 1 THEN -1 ELSE 1
SampleAt(block, quantval, y, x) ==
  LET part(i, j) == block[<<i, j>>] * quantval[<<i, j>>] * Basis(i, y) * Basis(j, x)
  IN  part(0, 0) + part(0, 1) + part(1, 0) + part(1, 1)
Freqs == (0..1) \X (0..1)
Quants == 0 :> [ij \in Freqs |-> 1 + (3 * ij[1]) + ij[2]] @@ 1 :> [ij \in Freqs |-> 2 + ij[1] + (4 * ij[2])]
Source(width, height, space, samp) ==
  [image_width |-> width, image_height |-> height, space |-> space, quant |-> Quants,
   comp_info |-> [T!SetColorspace(space, 3).comp_info EXCEPT ![1].h_samp_factor = samp[1],
                                                             ![1].v_samp_factor = samp[2]]]
Coefs(image) ==
  [c \in DOMAIN image.comp_info |->
     [yx \in T!Padded(image, c) |-> [ij \in Freqs |-> 1 + (100 * c) + (16 * yx[1]) + (4 * yx[2]) + (2 * ij[1]) + ij[2]]]]
Turns ==
  {[kind |-> "turn", image |-> Source(w, h, space, samp),
    info |-> [transform |-> t, trim |-> trim, force_grayscale |-> gray]] :
      w \in {3, 4, 9}, h \in {1, 6, 8}, space \in {"YCbCr", "GRAYSCALE"}, samp \in {<<1, 1>>, <<2, 1>>, <<2, 2>>},
      t \in T!Transforms, trim \in BOOLEAN, gray \in BOOLEAN}
SavedMarkers == [marker : {"COM", "APP0", "APP1"}, id : {"JFIF", "other"}] \cup {[marker |-> "APP14", id |-> "Adobe"]}
Copies ==
  {[kind |-> "copy", markers |-> m, option |-> o, dst |-> [write_JFIF_header |-> j, write_Adobe_marker |-> ~j]] :
     m \in UNION {[1..n -> SavedMarkers] : n \in 0..2}, o \in {"NONE", "COMMENTS", "ALL"}, j \in BOOLEAN}

-----------------------------------------------------------------------------
(* Pixels: colors at and between the ends of their range; planes that slope,  *)
(* and that jump.                                                             *)

Levels == {0, 1, 63, 64, 127, 128, 200, 254, 255}
Pixels ==
  {[kind |-> "pixel", in |-> in, samples |-> <<r, g, b>>] :
     in \in {"RGB", "YCbCr"}, r \in Levels, g \in Levels, b \in Levels}
  \cup {[kind |-> "pixel", in |-> "CMYK", samples |-> <<c, m, y, 77>>] : c \in Levels, m \in {0, 128, 255}, y \in Levels}
  \cup {[kind |-> "pixel", in |-> "GRAYSCALE", samples |-> <<g>>] : g \in Levels}

Jumps == [y \in 0..15 |-> [x \in 0..15 |-> ((37 * x * x) + (91 * y) + (13 * x * y)) % 256]]
Slope(rise) == [y \in 0..15 |-> [x \in 0..15 |-> (rise[1] * y) + (rise[2] * x)]]
CutTo(plane, w, h) == [y \in 0..h - 1 |-> [x \in 0..w - 1 |-> plane[y][x]]]
Planes ==
  {[kind |-> "plane", image |-> Source(w, h, "YCbCr", samp), rise |-> rise, smoothing |-> f, fancy |-> fancy] :
     w \in {1, 3, 4, 5, 13}, h \in {1, 4, 7}, samp \in {<<1, 1>>, <<2, 1>>, <<2, 2>>, <<1, 2>>, <<4, 1>>},
     rise \in {<<>>, <<0, 0>>, <<2, 3>>, <<11, 4>>}, f \in {0, 40, 100}, fancy \in BOOLEAN}

-----------------------------------------------------------------------------
(* Quantization: passes one after another over an image that changes, as more *)
(* of the file comes in, and is sometimes left after its first row.  Ordered   *)
(* dither is asked of either quantizer.                                       *)

Picture(k) ==
  [y \in 1..2 |-> [x \in 1..4 |->
     <<((53 * k * x) + (17 * y)) % 256, ((29 * y * x) + (90 * k)) % 256, ((71 * x) + (40 * y * k)) % 256>>]]
FewColors == [y \in 1..2 |-> [x \in 1..4 |-> <<(x % 2) * 200, y * 30, 100>>]]
Grays == [p \in 0..5 |-> <<50 * p, 50 * p, 50 * p>>]
Warm == [p \in 0..5 |-> <<255 - (17 * p), 47 * p, 20 * p>>]
APass(colors, dither, map, rows) == [colors |-> colors, dither |-> dither, map |-> map, rows |-> rows]
FirstPasses ==
  {APass(c, d, Grays, FewColors) : c \in {"one", "map"}, d \in {"none", "fs"}}
  \cup {APass("two", d, Grays, FewColors) : d \in {"none", "ordered"}}
LaterPasses(rows) ==
  {APass(c, d, Warm, rows) : c \in {"one", "same"}, d \in {"none", "ordered", "fs"}}
  \cup {APass(c, d, Warm, rows) : c \in {"two", "map"}, d \in {"none", "fs"}}
Sequences(rows) == {<<f, l>> : f \in FirstPasses, l \in LaterPasses(rows)}
PlainPasses ==
  {[kind |-> "passes", opts |-> [desired |-> 12, width |-> 4, dither |-> "none"], passes |-> p] :
     p \in Sequences(Picture(3))}
OrderedPasses ==
  {[kind |-> "passes", opts |-> [desired |-> 9, width |-> 4, dither |-> "ordered"],
    passes |-> Append(p, APass("map", "fs", Warm, FewColors))] :
     p \in Sequences(SubSeq(Picture(2), 1, 1))}
Maps ==
  {[kind |-> "ncolors", nc |-> ns[1], space |-> ns[2], desired |-> d] :
     ns \in {<<3, "RGB">>} \cup ((1..4) \X {"other"}), d \in {16, 17, 18, 27, 35, 63, 64, 100, 216, 255, 256}}
  \cup {[kind |-> "flat", n |-> n, level |-> l] : n \in {2, 3, 6, 8, 128}, l \in {0, 1, 60, 100, 127, 128, 200, 255}}

-----------------------------------------------------------------------------
Groups == <<Tables, ProgressiveScans, Scripts, Turns, Copies, Pixels, Planes, PlainPasses, OrderedPasses, Maps>>
CaseInit == \E g \in DOMAIN Groups : case = [kind |-> "group", of |-> g]
CaseNext == case.kind = "group" /\ case' \in Groups[case.of]
CaseSpec == CaseInit /\ [][CaseNext]_case

\* Every table made from counts codes each symbol that occurs, and no other, to
\* bits the decoder reads back, whatever bits come after (JpegHuffTables).
TablesDecode == case.kind = "table" => H!TableDecodes(case.counts)

\* The decoder has each scan's bits of every coefficient (JpegProgressive); and a
\* script the compressor accepts is one the decoder plays without a complaint
\* (jcmaster.c:163-330, jdphuff.c:103-146).
ScansAgree ==
  /\ case.kind = "scans" => P!ScansRestore(Image(case.acs), Script, case.interval, case.step)
  /\ case.kind = "script" =>
       (F!ValidateScript(case.n, case.scans) /\ F!Progressive(case.scans)
          => P64!PlayedClean(1..case.n, case.scans))

\* A transformed file shows the source, turned (JpegTransform).
TurnedAsAsked ==
  /\ case.kind = "turn" => T!SamplesMoved(case.image, Coefs(case.image), case.info, SampleAt)
  /\ case.kind = "copy" => T!MarkersCopied(case.markers, case.option, case.dst)

\* Pixels and planes are restored as far as what is stored of them allows, and
\* merged upsampling is the same as separate (JpegColor, JpegSampling).
PixelsRestored ==
  /\ case.kind = "pixel" => S!PixelRestored(case.samples, case.in)
  /\ case.kind = "plane" =>
       LET image == case.image
           plane == CutTo(IF case.rise = <<>> THEN Jumps ELSE Slope(case.rise), image.image_width, image.image_height)
       IN  /\ \A c \in 1..2 : S!PlaneRestored(plane, image, c, case.smoothing, case.fancy, case.rise)
           /\ S!MergedAsSeparate([c \in 1..3 |-> IF c = 2 THEN Jumps ELSE plane], image)

\* Passes that quantize colors are each as if there were no others, and the colors
\* they show are the nearest ones, for the first quantizer to within a level
\* (JpegQuantize).
ColorsQuantized ==
  /\ case.kind = "passes" => Q!PassesIndependent(Q!MasterSelection(case.opts), case.passes)
  /\ case.kind = "ncolors" => Q!NcolorsMaximal(case.nc, case.space, case.desired)
  /\ case.kind = "flat" => Q!FlatKept(case.n, case.level)

\* What jquant1.c:150 says of the first quantizer, "index of color closest to pixel
\* value" (JpegQuantize).
IndexClosest == case.kind = "flat" => Q!IndexOfClosest(case.n, case.level)
=============================================================================
