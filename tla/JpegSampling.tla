------------------------------ MODULE JpegSampling ------------------------------
(***************************************************************************)
(* Subsampling of components: jcsample.c makes them smaller, jdsample.c    *)
(* large again, or jdmerge.c together with the color conversion.  A plane  *)
(* is a function of rows and columns from 0.  Above the first row and      *)
(* below the last the controllers repeat it, as expand_right_edge repeats  *)
(* the last column; left of the first column the filters take the first.   *)
(***************************************************************************)
EXTENDS JpegFrame, JpegColor

\* jpeg_calc_output_dimensions, for an image shown as large as it is.
DownsampledWidth(image, c) ==
  DivRoundUp(image.image_width * image.comp_info[c].h_samp_factor, MaxH(image.comp_info))
DownsampledHeight(image, c) ==
  DivRoundUp(image.image_height * image.comp_info[c].v_samp_factor, MaxV(image.comp_info))

Height(plane) == Cardinality(DOMAIN plane)
Width(plane) == Cardinality(DOMAIN plane[0])
Within(v, n) == IF v < 0 THEN 0 ELSE IF v < n THEN v ELSE n - 1

\* The sample at a place that may be past an edge.
At(plane, y, x) == plane[Within(y, Height(plane))][Within(x, Width(plane))]
SumOver(S, of(_)) == FoldSet(LAMBDA s, sum : sum + of(s), 0, S)

-----------------------------------------------------------------------------
(* Smaller: jcsample.c.  For sample x, y of a component and its plane. *)

IntDownsample(p, y, x, h_expand, v_expand) ==
  LET numpix == h_expand * v_expand
      cell == (y * v_expand..(y + 1) * v_expand - 1) \X (x * h_expand..(x + 1) * h_expand - 1)
  IN  (SumOver(cell, LAMBDA yx : At(p, yx[1], yx[2])) + (numpix \div 2)) \div numpix

\* Halves are rounded up and down in turn.
H2v1Downsample(p, y, x) == (At(p, y, 2 * x) + At(p, y, 2 * x + 1) + (x % 2)) \div 2
H2v2Downsample(p, y, x) ==
  (SumOver({0, 1} \X {0, 1}, LAMBDA yx : At(p, 2 * y + yx[1], 2 * x + yx[2])) + 1 + (x % 2)) \div 4

\* With smoothing: of the pixels around the four, those at a side count twice.
H2v2SmoothDownsample(p, y, x, smoothing_factor) ==
  LET at(yx) == At(p, 2 * y + yx[1], 2 * x + yx[2])
      membersum == SumOver({0, 1} \X {0, 1}, at)
      sides == ({-1, 2} \X {0, 1}) \cup ({0, 1} \X {-1, 2})
      neighsum == (2 * SumOver(sides, at)) + SumOver({-1, 2} \X {-1, 2}, at)
  IN  ((membersum * (16384 - smoothing_factor * 80)) + (neighsum * smoothing_factor * 16) + ONE_HALF) \div SCALE
FullsizeSmoothDownsample(p, y, x, smoothing_factor) ==
  LET around == ({-1, 0, 1} \X {-1, 0, 1}) \ {<<0, 0>>}
      neighsum == SumOver(around, LAMBDA yx : At(p, y + yx[1], x + yx[2]))
  IN  ((At(p, y, x) * (SCALE - smoothing_factor * 512)) + (neighsum * smoothing_factor * 64) + ONE_HALF)
        \div SCALE

\* jinit_downsampler: the method for a component; "" is an error.
DownsampleMethod(comp_info, c, smoothing_factor) ==
  LET h == comp_info[c].h_samp_factor
      v == comp_info[c].v_samp_factor
      smooth == smoothing_factor # 0
  IN  CASE h = MaxH(comp_info) /\ v = MaxV(comp_info) -> IF smooth THEN "fullsize_smooth" ELSE "fullsize"
        [] 2 * h = MaxH(comp_info) /\ v = MaxV(comp_info) -> "h2v1"
        [] 2 * h = MaxH(comp_info) /\ 2 * v = MaxV(comp_info) -> IF smooth THEN "h2v2_smooth" ELSE "h2v2"
        [] OTHER -> IF MaxH(comp_info) % h = 0 /\ MaxV(comp_info) % v = 0 THEN "int" ELSE ""

\* sep_downsample, one component: as many columns as its blocks have.
Downsample(plane, image, c, smoothing_factor) ==
  LET comp_info == image.comp_info
      method == DownsampleMethod(comp_info, c, smoothing_factor)
      h_expand == MaxH(comp_info) \div comp_info[c].h_samp_factor
      v_expand == MaxV(comp_info) \div comp_info[c].v_samp_factor
      sample(y, x) ==
        CASE method = "fullsize" -> At(plane, y, x)
          [] method = "fullsize_smooth" -> FullsizeSmoothDownsample(plane, y, x, smoothing_factor)
          [] method = "h2v1" -> H2v1Downsample(plane, y, x)
          [] method = "h2v2" -> H2v2Downsample(plane, y, x)
          [] method = "h2v2_smooth" -> H2v2SmoothDownsample(plane, y, x, smoothing_factor)
          [] method = "int" -> IntDownsample(plane, y, x, h_expand, v_expand)
  IN  [y \in 0..HeightInBlocks(image, c) * DCTSIZE - 1 |->
         [x \in 0..WidthInBlocks(image, c) * DCTSIZE - 1 |-> sample(y, x)]]

-----------------------------------------------------------------------------
(* Larger: jdsample.c.  For sample x, y of the image and a component's plane. *)

\* A component without the padding of its blocks.
Cut(plane, image, c) ==
  [y \in 0..DownsampledHeight(image, c) - 1 |->
     [x \in 0..DownsampledWidth(image, c) - 1 |-> plane[y][x]]]

IntUpsample(p, y, x, h_expand, v_expand) == p[y \div v_expand][x \div h_expand]

\* Mutant: the next one is taken from the other side.
TowardOther(at) == IF at % 2 = 0 THEN 1 ELSE -1

\* Three quarters of the nearer sample, one of the next; halves in turn.
Toward(at) == IF at % 2 = 0 THEN -1 ELSE 1
Neighbor(at) == (at \div 2) + Toward(at)
H2v1FancyUpsample(p, y, x) ==
  ((3 * At(p, y, x \div 2)) + At(p, y, Neighbor(x)) + 1 + (x % 2)) \div 4
H2v2FancyUpsample(p, y, x) ==
  LET colsum(col) == (3 * At(p, y \div 2, col)) + At(p, Neighbor(y), col)
  IN  ((3 * colsum(x \div 2)) + colsum(Neighbor(x)) + 8 - (x % 2)) \div 16

\* jinit_upsampler, for a component needed and blocks shown as large as they are;
\* fancy upsampling only from three columns on.
UpsampleMethod(image, c, do_fancy) ==
  LET comp_info == image.comp_info
      h == comp_info[c].h_samp_factor
      v == comp_info[c].v_samp_factor
      fancy == do_fancy /\ DCTSIZE > 1 /\ DownsampledWidth(image, c) > 2
  IN  CASE h = MaxH(comp_info) /\ v = MaxV(comp_info) -> "fullsize"
        [] 2 * h = MaxH(comp_info) /\ v = MaxV(comp_info) -> IF fancy THEN "h2v1_fancy" ELSE "h2v1"
        [] 2 * h = MaxH(comp_info) /\ 2 * v = MaxV(comp_info) -> IF fancy THEN "h2v2_fancy" ELSE "h2v2"
        [] OTHER -> IF MaxH(comp_info) % h = 0 /\ MaxV(comp_info) % v = 0 THEN "int" ELSE ""

\* The columns a method writes: fancy ones two for each of the component's, the
\* others whole groups until the width is reached.
ColumnsWritten(image, c, method, h_expand) ==
  CASE method = "fullsize" -> DownsampledWidth(image, c)
    [] method \in {"h2v1_fancy", "h2v2_fancy"} -> 2 * DownsampledWidth(image, c)
    [] OTHER -> DivRoundUp(image.image_width, h_expand) * h_expand

Upsample(plane, image, c, do_fancy) ==
  LET comp_info == image.comp_info
      method == UpsampleMethod(image, c, do_fancy)
      h_expand == MaxH(comp_info) \div comp_info[c].h_samp_factor
      v_expand == MaxV(comp_info) \div comp_info[c].v_samp_factor
      sample(y, x) ==
        CASE method = "h2v1_fancy" -> H2v1FancyUpsample(plane, y, x)
          [] method = "h2v2_fancy" -> H2v2FancyUpsample(plane, y, x)
          [] OTHER -> IntUpsample(plane, y, x, h_expand, v_expand)
  IN  [y \in 0..image.image_height - 1 |->
         [x \in 0..ColumnsWritten(image, c, method, h_expand) - 1 |-> sample(y, x)]]

\* alloc_sarray for the component's color_buf.
ColorBufWidth(image) == DivRoundUp(image.image_width, MaxH(image.comp_info)) * MaxH(image.comp_info)

-----------------------------------------------------------------------------
(* Merged: jdmerge.c.  Rows of pixels made of planes 1, 2, 3. *)

\* Pairs of columns share their Cb and Cr; the last column of an odd width is
\* done by itself.
MergedUpsample(planes, image, v_expand) ==
  LET pairs == 0..2 * (image.image_width \div 2) - 1
      last == IF image.image_width % 2 = 1 THEN {image.image_width - 1} ELSE {}
      pixel(y, x) == YccRgb(<<planes[1][y][x], planes[2][y \div v_expand][x \div 2],
                              planes[3][y \div v_expand][x \div 2]>>)
  IN  [y \in 0..image.image_height - 1 |-> [x \in pairs \cup last |-> pixel(y, x)]]

\* use_merged_upsample: YCbCr to RGB, not fancy, 2h1v or 2h2v.
UseMergedUpsample(image, out, do_fancy) ==
  LET h(c) == image.comp_info[c].h_samp_factor
      v(c) == image.comp_info[c].v_samp_factor
  IN  /\ ~do_fancy /\ image.space = "YCbCr" /\ Len(image.comp_info) = 3 /\ out = "RGB"
      /\ h(1) = 2 /\ h(2) = 1 /\ h(3) = 1 /\ v(1) <= 2 /\ v(2) = 1 /\ v(3) = 1
-----------------------------------------------------------------------------
(* Properties *)

\* The samples an output sample may be made of: its own cell, the next ones with
\* fancy upsampling, and a pixel more if smoothed.
MadeOf(plane, y, x, H, V, cells, pixels) ==
  {At(plane, yy, xx) :
     yy \in V * ((y \div V) - cells[1]) - pixels..V * ((y \div V) + 1 + cells[1]) - 1 + pixels,
     xx \in H * ((x \div H) - cells[2]) - pixels..H * ((x \div H) + 1 + cells[2]) - 1 + pixels}

\* A component made smaller and larger again has every column and row of the
\* image, written within the row it is given; no sample is outside of what there
\* is around it, so what is flat stays as it is (jcsample.c:203-209, 304-324);
\* and in the middle of a slope of "rise" a sample stays within the rounding of
\* the true one, fancy, or within that and half its cell, not fancy.
PlaneRestored(plane, image, c, smoothing_factor, do_fancy, rise) ==
  LET small == Cut(Downsample(plane, image, c, smoothing_factor), image, c)
      large == Upsample(small, image, c, do_fancy)
      method == UpsampleMethod(image, c, do_fancy)
      H == MaxH(image.comp_info) \div image.comp_info[c].h_samp_factor
      V == MaxV(image.comp_info) \div image.comp_info[c].v_samp_factor
      cells == <<IF method = "h2v2_fancy" THEN 1 ELSE 0,
                 IF method \in {"h2v1_fancy", "h2v2_fancy"} THEN 1 ELSE 0>>
      pixels == IF smoothing_factor = 0 THEN 0 ELSE 1
      inside(at, size, cell) == at \in 2 * cell..size - (2 * cell) - 1
      astray == 1 + ((1 - cells[1]) * (V - 1) * rise[1]) + ((1 - cells[2]) * (H - 1) * rise[2])
      restored(l) ==
        /\ DOMAIN l = 0..image.image_height - 1
        /\ \A y \in DOMAIN l :
             /\ 0..image.image_width - 1 \subseteq DOMAIN l[y]
             /\ DOMAIN l[y] \subseteq 0..ColorBufWidth(image) - 1
             /\ \A x \in 0..image.image_width - 1 :
                  LET of == MadeOf(plane, y, x, H, V, cells, pixels)
                  IN  /\ Min(of) <= l[y][x] /\ l[y][x] <= Max(of)
                      /\ rise # <<>> /\ inside(y, image.image_height, V) /\ inside(x, image.image_width, H)
                           => Distance(l[y][x], plane[y][x]) <= astray
  IN  restored(large)

\* Merged upsampling, where it is used, gives pixel for pixel what the separate
\* steps give (jdmaster.c:47-69, jdmerge.c:20-25).
MergedAsSeparate(planes, image) ==
  UseMergedUpsample(image, "RGB", FALSE) =>
    LET small == [c \in 1..3 |-> Cut(Downsample(planes[c], image, c, 0), image, c)]
        large == [c \in 1..3 |-> Upsample(small[c], image, c, FALSE)]
    IN  MergedUpsample(small, image, MaxV(image.comp_info)) =
          [y \in 0..image.image_height - 1 |-> [x \in 0..image.image_width - 1 |->
             YccRgb([c \in 1..3 |-> large[c][y][x]])]]
=============================================================================
