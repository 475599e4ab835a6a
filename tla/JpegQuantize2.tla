---------------------------- MODULE JpegQuantize2 ----------------------------
(***************************************************************************)
(* Two-pass color quantization (jquant2.c): a pass that counts the colors, *)
(* a map chosen by cutting the space they take, and rows mapped to the     *)
(* nearest color of this map or of one that the program brings.  A cell of *)
(* the histogram that is not in its domain holds zero.                     *)
(***************************************************************************)
EXTENDS JpegQuantize1, FiniteSetsExt

Axes == 1..3
SCALE2 == <<2, 3, 1>>
HIST_BITS == <<5, 6, 5>>
C_SHIFT == [i \in Axes |-> 8 - HIST_BITS[i]]
BOX_LOG == [i \in Axes |-> HIST_BITS[i] - 3]
HISTCELL_MAX == 65535

Cell(p) == [i \in Axes |-> p[i] \div 2^C_SHIFT[i]]
Center(c) == [i \in Axes |-> (c[i] * 2^C_SHIFT[i]) + (2^C_SHIFT[i] \div 2)]

\* prescan_quantize.
Counted(histogram, c) ==
  IF c \in DOMAIN histogram THEN [histogram EXCEPT ![c] = Min({@ + 1, HISTCELL_MAX})]
  ELSE (c :> 1) @@ histogram
PrescanQuantize(quant, row) ==
  [quant EXCEPT !.histogram = FoldLeft(LAMBDA h, p : Counted(h, Cell(p)), @, row)]

-----------------------------------------------------------------------------
(* Choosing the colors *)

InBox(c, box) == \A i \in Axes : c[i] \in box.min[i]..box.max[i]
ColorsIn(histogram, box) == {c \in DOMAIN histogram : InBox(c, box)}
Side(box, i) == (box.max[i] - box.min[i]) * 2^C_SHIFT[i] * SCALE2[i]

\* update_box: shrunk to the colors it holds.
UpdateBox(histogram, box) ==
  LET colors == ColorsIn(histogram, box)
      along(i) == {c[i] : c \in colors}
      shrunk == IF colors = {} THEN box
                ELSE [box EXCEPT !.min = [i \in Axes |-> Min(along(i))], !.max = [i \in Axes |-> Max(along(i))]]
  IN  [shrunk EXCEPT !.volume = Side(shrunk, 1)^2 + Side(shrunk, 2)^2 + Side(shrunk, 3)^2,
                     !.colorcount = Cardinality(colors)]

\* find_biggest_color_pop and find_biggest_volume: the first of the largest boxes
\* that can be split, 0 if there is none.
FirstBiggest(boxes, size) ==
  LET splittable == {k \in DOMAIN boxes : boxes[k].volume > 0}
      biggest == {k \in splittable : \A j \in splittable : size[j] <= size[k]}
  IN  IF splittable = {} THEN 0 ELSE Min(biggest)
FindBiggestColorPop(boxes) == FirstBiggest(boxes, [k \in DOMAIN boxes |-> boxes[k].colorcount])
FindBiggestVolume(boxes) == FirstBiggest(boxes, [k \in DOMAIN boxes |-> boxes[k].volume])

\* The axis median_cut splits: the longest, green before red before blue.
LongestAxis(box) ==
  CHOOSE i \in Axes : \A j \in Axes \ {i} :
    \/ Side(box, i) > Side(box, j)
    \/ Side(box, i) = Side(box, j) /\ (i = 2 \/ j = 3)

\* median_cut, halfway along that axis.
RECURSIVE MedianCut(_, _, _)
MedianCut(histogram, boxes, desired) ==
  LET numboxes == Len(boxes)
      b1 == IF numboxes * 2 <= desired THEN FindBiggestColorPop(boxes) ELSE FindBiggestVolume(boxes)
      n == LongestAxis(boxes[b1])
      lb == (boxes[b1].max[n] + boxes[b1].min[n]) \div 2
      lower == UpdateBox(histogram, [boxes[b1] EXCEPT !.max[n] = lb])
      upper == UpdateBox(histogram, [boxes[b1] EXCEPT !.min[n] = lb + 1])
  IN  IF numboxes >= desired \/ b1 = 0 THEN boxes
      ELSE MedianCut(histogram, Append([boxes EXCEPT ![b1] = lower], upper), desired)

\* compute_color: the mean of the pixels, rounded.
ComputeColor(histogram, box) ==
  LET colors == ColorsIn(histogram, box)
      total == MapThenSumSet(LAMBDA c : histogram[c], colors)
      weighted(i) == MapThenSumSet(LAMBDA c : Center(c)[i] * histogram[c], colors)
  IN  [i \in Axes |-> (weighted(i) + (total \div 2)) \div total]

\* select_colors: the boxes, and the color of each.
Boxes(histogram, desired) ==
  LET whole == [min |-> [i \in Axes |-> 0], max |-> [i \in Axes |-> 2^HIST_BITS[i] - 1],
                volume |-> 0, colorcount |-> 0]
  IN  MedianCut(histogram, <<UpdateBox(histogram, whole)>>, desired)
SelectColors(histogram, desired) ==
  LET boxes == Boxes(histogram, desired)
  IN  [k \in 0..Len(boxes) - 1 |-> ComputeColor(histogram, boxes[k + 1])]

-----------------------------------------------------------------------------
(* The inverse map, kept in the histogram: one more than the index of the      *)
(* nearest color, filled in an eighth of each axis at a time.                  *)

\* find_nearby_colors: those that may be nearest to a cell between minc and maxc.
ToCenter(x, lo, hi) == x <= (lo + hi) \div 2
\* Mutant: the near end.
FarEndNear(x, lo, hi) == IF x < lo \/ (x <= hi /\ ToCenter(x, lo, hi)) THEN lo ELSE hi
FarEnd(x, lo, hi) == IF x < lo \/ (x <= hi /\ ToCenter(x, lo, hi)) THEN hi ELSE lo
NearEnd(x, lo, hi) == IF x < lo THEN lo ELSE IF x > hi THEN hi ELSE x
Squares(p, q) == LET d(i) == (p[i] - q[i]) * SCALE2[i] IN d(1)^2 + d(2)^2 + d(3)^2
MinDist(color, minc, maxc) == Squares(color, [i \in Axes |-> NearEnd(color[i], minc[i], maxc[i])])
MaxDist(color, minc, maxc) == Squares(color, [i \in Axes |-> FarEnd(color[i], minc[i], maxc[i])])
FindNearbyColors(colormap, minc) ==
  LET maxc == [i \in Axes |-> minc[i] + 2^(C_SHIFT[i] + BOX_LOG[i]) - 2^C_SHIFT[i]]
      minmaxdist == Min({MaxDist(colormap[k], minc, maxc) : k \in DOMAIN colormap})
  IN  {k \in DOMAIN colormap : MinDist(colormap[k], minc, maxc) <= minmaxdist}

\* The distance find_best_colors has reached n cells on along an axis: the distance
\* grows by an increment, the increment by a constant.
RECURSIVE Along(_, _, _, _)
Along(dist, inc, step, n) ==
  IF n = 0 THEN dist ELSE Along(dist + inc, inc + (2 * step * step), step, n - 1)
DistanceTo(color, minc, ic) ==
  LET along(i) ==
        LET step == 2^C_SHIFT[i] * SCALE2[i]
            first == (minc[i] - color[i]) * SCALE2[i]
        IN  Along(first^2, (first * 2 * step) + step^2, step, ic[i])
  IN  along(1) + along(2) + along(3)
\* find_best_colors: the first of the nearest colors, for each cell of the box.
BoxCells == (0..2^BOX_LOG[1] - 1) \X (0..2^BOX_LOG[2] - 1) \X (0..2^BOX_LOG[3] - 1)
FindBestColors(colormap, minc, nearby) ==
  [ic \in BoxCells |->
     LET dist == {<<DistanceTo(colormap[k], minc, ic), k>> : k \in nearby}
         least == Min({d[1] : d \in dist})
     IN  Min({d[2] : d \in {e \in dist : e[1] = least}})]

\* fill_inverse_cmap.
FillInverseCmap(histogram, colormap, c) ==
  LET base == [i \in Axes |-> (c[i] \div 2^BOX_LOG[i]) * 2^BOX_LOG[i]]
      minc == Center(base)
      best == FindBestColors(colormap, minc, FindNearbyColors(colormap, minc))
      cells == {[i \in Axes |-> base[i] + ic[i]] : ic \in BoxCells}
  IN  [cell \in cells |-> best[<<cell[1] - base[1], cell[2] - base[2], cell[3] - base[3]>>] + 1] @@ histogram

-----------------------------------------------------------------------------
(* Mapping rows *)

\* The entry of the cache for a color, filled in first if it is not.
Looked(quant, colormap, c) ==
  IF c \in DOMAIN quant.histogram THEN quant
  ELSE [quant EXCEPT !.histogram = FillInverseCmap(@, colormap, c)]
Entry(quant, c) == quant.histogram[c] - 1

\* pass2_no_dither.
Pass2NoDither(quant, colormap, row) ==
  FoldLeft(LAMBDA s, p : LET q == Looked(s.quant, colormap, Cell(p))
                         IN  [quant |-> q, out |-> Append(s.out, Entry(q, Cell(p)))],
           [quant |-> quant, out |-> <<>>], row)

\* init_error_limit: errors up to a sixteenth as they are, up to three at half
\* the rate, no more beyond.
ErrorLimit(in) ==
  LET step == (MAXJSAMPLE + 1) \div 16
      limited(e) == IF e < step THEN e
                    ELSE IF e < 3 * step THEN step + ((e - step) \div 2) ELSE 2 * step
  IN  IF in < 0 THEN -limited(-in) ELSE limited(in)

\* pass2_fs_dither.
Pass2FsDither(quant, colormap, row) ==
  LET columns == FsColumns(Len(row), quant.on_odd_row)
      dir == IF quant.on_odd_row THEN -1 ELSE 1
      column(s, x) ==
        LET err == FsError(s.fs, x)
            p == [i \in Axes |-> RangeLimit(row[x][i] + ErrorLimit(err[i]))]
            q == Looked(s.quant, colormap, Cell(p))
            code == Entry(q, Cell(p))
        IN  [quant |-> q, fs |-> FsCarry(s.fs, x, dir, Minus(p, colormap[code])),
             out |-> [s.out EXCEPT ![x] = code]]
      done == FoldLeft(column, [quant |-> quant, fs |-> FsFirst(quant.fserrors, 3), out |-> [x \in DOMAIN row |-> 0]],
                       columns)
  IN  [quant |-> [done.quant EXCEPT !.fserrors = FsLast(done.fs, columns), !.on_odd_row = ~@],
       out |-> done.out]

MapRow2(quant, colormap, dither_mode, row) ==
  IF dither_mode = "fs" THEN Pass2FsDither(quant, colormap, row) ELSE Pass2NoDither(quant, colormap, row)

-----------------------------------------------------------------------------
(* The quantizer *)

\* jinit_2pass_quantizer; no ordered dither.
Dither2(dither_mode) == IF dither_mode = "none" THEN "none" ELSE "fs"
Jinit2passQuantizer(desired) ==
  [desired |-> desired, histogram |-> <<>>, needs_zeroed |-> TRUE, fserrors |-> <<>>, on_odd_row |-> FALSE]

\* start_pass_2_quant, for the pass that counts and the one that maps.
Zeroed(quant) ==
  IF quant.needs_zeroed THEN [quant EXCEPT !.histogram = <<>>, !.needs_zeroed = FALSE] ELSE quant
StartPass2Quant(quant, dither_mode, width, is_pre_scan) ==
  IF is_pre_scan THEN Zeroed([quant EXCEPT !.needs_zeroed = TRUE])
  ELSE IF dither_mode = "fs"
       THEN Zeroed([quant EXCEPT !.fserrors = NoErrors(3, width), !.on_odd_row = FALSE])
       ELSE Zeroed(quant)

\* finish_pass1 (the colors it selects go to the decompressor), new_color_map_2_quant.
FinishPass1(quant) == [quant EXCEPT !.needs_zeroed = TRUE]
\* Mutant: the inverse map of the last colors is kept.
KeepCmap2Quant(quant) == quant
NewColorMap2Quant(quant) == [quant EXCEPT !.needs_zeroed = TRUE]
=============================================================================
