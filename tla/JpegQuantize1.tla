---------------------------- MODULE JpegQuantize1 ----------------------------
(***************************************************************************)
(* One-pass color quantization (jquant1.c): a fixed map of evenly spaced   *)
(* values of each component.  A row is a sequence of pixels, a pixel one of *)
(* samples; entries of a colormap are numbered from 0.                     *)
(***************************************************************************)
EXTENDS JpegColor, SequencesExt

ODITHER_SIZE == 16
ODITHER_CELLS == ODITHER_SIZE * ODITHER_SIZE

ProductOf(seq) == FoldLeft(LAMBDA a, b : a * b, 1, seq)

-----------------------------------------------------------------------------
(* The map *)

\* select_ncolors: the largest equal number of values for each component, then
\* one more as long as it fits, green first in RGB.
Turn(space, nc) == IF space = "RGB" THEN <<2, 1, 3>> ELSE [i \in 1..nc |-> i]
RECURSIVE Increment(_, _, _, _)
Increment(Ncolors, max_colors, turn, i) ==
  LET more == [Ncolors EXCEPT ![turn[i]] = @ + 1]
  IN  IF ProductOf(more) > max_colors
      THEN IF i = 1 THEN Ncolors ELSE Increment(Ncolors, max_colors, turn, 1)
      ELSE Increment(more, max_colors, turn, IF i = Len(turn) THEN 1 ELSE i + 1)
Iroot(nc, max_colors) ==
  CHOOSE r \in 1..max_colors : r^nc <= max_colors /\ (r + 1)^nc > max_colors
SelectNcolors(nc, space, max_colors) ==
  Increment([i \in 1..nc |-> Iroot(nc, max_colors)], max_colors, Turn(space, nc), 1)

\* output_value and largest_input_value: the j'th value of a component, and the
\* last sample it stands for.
OutputValue(j, maxj) == ((j * MAXJSAMPLE) + (maxj \div 2)) \div maxj
LargestInputValue(j, maxj) == ((((2 * j) + 1) * MAXJSAMPLE) + maxj) \div (2 * maxj)

\* create_colormap: the last component changes most rapidly.
BlockSize(Ncolors, i) == ProductOf([k \in 1..Len(Ncolors) - i |-> Ncolors[i + k]])
CreateColormap(Ncolors) ==
  [p \in 0..ProductOf(Ncolors) - 1 |->
     [i \in DOMAIN Ncolors |->
        OutputValue((p \div BlockSize(Ncolors, i)) % Ncolors[i], Ncolors[i] - 1)]]

\* create_colorindex: what a sample adds to the index, for ordered dither also for
\* samples out of range.
CreateColorindex(Ncolors, padded) ==
  [i \in DOMAIN Ncolors |->
     LET maxj == Ncolors[i] - 1
         size == BlockSize(Ncolors, i)
         largest == [v \in 0..maxj |-> LargestInputValue(v, maxj)]
         value(j) == CHOOSE v \in 0..maxj : j <= largest[v] /\ (v > 0 => j > largest[v - 1])
         index == [j \in Sample |-> value(j) * size]
     IN  IF padded THEN [j \in -MAXJSAMPLE..2 * MAXJSAMPLE |-> index[RangeLimit(j)]] ELSE index]

\* base_dither_matrix: each bit of the coordinates, from the lowest, decides a
\* quarter of what is left.
BaseDitherMatrix ==
  LET bit(v, b) == (v \div 2^b) % 2
      quarter(y, x, b) == (2 * ((bit(y, b) + bit(x, b)) % 2)) + bit(x, b)
  IN  [yx \in (0..ODITHER_SIZE - 1) \X (0..ODITHER_SIZE - 1) |->
         (64 * quarter(yx[1], yx[2], 0)) + (16 * quarter(yx[1], yx[2], 1))
           + (4 * quarter(yx[1], yx[2], 2)) + quarter(yx[1], yx[2], 3)]

\* make_odither_array, rounding towards zero; create_odither_tables.
MakeOditherArray(ncolors) ==
  LET den == 2 * ODITHER_CELLS * (ncolors - 1)
  IN  [yx \in DOMAIN BaseDitherMatrix |->
         LET n == (ODITHER_CELLS - 1 - (2 * BaseDitherMatrix[yx])) * MAXJSAMPLE
         IN  IF n < 0 THEN -((-n) \div den) ELSE n \div den]
CreateOditherTables(Ncolors) == [i \in DOMAIN Ncolors |-> MakeOditherArray(Ncolors[i])]

-----------------------------------------------------------------------------
(* Floyd-Steinberg dithering, of either quantizer: the errors of one row are   *)
(* kept, those of the next in the columns already done.  Errors are sixteenths. *)

Zero(nc) == [i \in 1..nc |-> 0]
NoErrors(nc, width) == [x \in 0..width + 1 |-> Zero(nc)]
FsColumns(width, odd) == [k \in 1..width |-> IF odd THEN width + 1 - k ELSE k]
FsFirst(errors, nc) ==
  [errors |-> errors, cur |-> Zero(nc), belowerr |-> Zero(nc), bpreverr |-> Zero(nc)]
FsError(fs, x) == [i \in DOMAIN fs.cur |-> (fs.cur[i] + fs.errors[x][i] + 8) \div 16]
FsCarry(fs, x, dir, err) ==
  [errors |-> [fs.errors EXCEPT ![x - dir] = [i \in DOMAIN err |-> fs.bpreverr[i] + (3 * err[i])]],
   bpreverr |-> [i \in DOMAIN err |-> fs.belowerr[i] + (5 * err[i])],
   belowerr |-> err,
   cur |-> [i \in DOMAIN err |-> 7 * err[i]]]
FsLast(fs, columns) == [fs.errors EXCEPT ![Last(columns)] = fs.bpreverr]
Minus(p, q) == [i \in DOMAIN p |-> p[i] - q[i]]

-----------------------------------------------------------------------------
(* Mapping rows: each gives the quantizer after it and the indexes put out.   *)

\* color_quantize and color_quantize3.
Code(quant, p) == FoldLeftDomain(LAMBDA sum, i : sum + quant.colorindex[i][p[i]], 0, p)
ColorQuantize(quant, row) == [quant |-> quant, out |-> [x \in DOMAIN row |-> Code(quant, row[x])]]

\* quantize_ord_dither and quantize3_ord_dither.
QuantizeOrdDither(quant, row) ==
  LET dithered(x) ==
        [i \in DOMAIN row[x] |->
           row[x][i] + quant.odither[i][<<quant.row_index, (x - 1) % ODITHER_SIZE>>]]
  IN  [quant |-> [quant EXCEPT !.row_index = (@ + 1) % ODITHER_SIZE],
       out |-> [x \in DOMAIN row |-> Code(quant, dithered(x))]]

\* quantize_fs_dither: the code of one component alone names its value in the map,
\* so the error can be taken from the color of all of them.
QuantizeFsDither(quant, row) ==
  LET columns == FsColumns(Len(row), quant.on_odd_row)
      dir == IF quant.on_odd_row THEN -1 ELSE 1
      column(s, x) ==
        LET err == FsError(s.fs, x)
            p == [i \in DOMAIN err |-> RangeLimit(row[x][i] + err[i])]
            code == Code(quant, p)
        IN  [fs |-> FsCarry(s.fs, x, dir, Minus(p, quant.sv_colormap[code])),
             out |-> [s.out EXCEPT ![x] = code]]
      done == FoldLeft(column, [fs |-> FsFirst(quant.fserrors, Len(quant.Ncolors)), out |-> [x \in DOMAIN row |-> 0]],
                       columns)
  IN  [quant |-> [quant EXCEPT !.fserrors = FsLast(done.fs, columns), !.on_odd_row = ~@],
       out |-> done.out]

MapRow1(quant, dither_mode, row) ==
  CASE dither_mode = "none" -> ColorQuantize(quant, row)
    [] dither_mode = "ordered" -> QuantizeOrdDither(quant, row)
    [] dither_mode = "fs" -> QuantizeFsDither(quant, row)

-----------------------------------------------------------------------------
(* The quantizer *)

\* jinit_1pass_quantizer.
Jinit1passQuantizer(nc, space, desired, dither_mode) ==
  LET Ncolors == SelectNcolors(nc, space, desired)
  IN  [Ncolors |-> Ncolors, sv_colormap |-> CreateColormap(Ncolors),
       is_padded |-> dither_mode = "ordered",
       colorindex |-> CreateColorindex(Ncolors, dither_mode = "ordered"),
       odither |-> <<>>, row_index |-> 0, fserrors |-> <<>>, on_odd_row |-> FALSE]

\* Mutant: the errors and the direction of the last row are kept.
StartPass1Keep(quant, dither_mode, width) ==
  CASE dither_mode = "none" -> quant
    [] dither_mode = "ordered" ->
         [quant EXCEPT !.row_index = 0, !.is_padded = TRUE,
                       !.colorindex = IF quant.is_padded THEN @ ELSE CreateColorindex(quant.Ncolors, TRUE),
                       !.odither = IF @ = <<>> THEN CreateOditherTables(quant.Ncolors) ELSE @]
    [] dither_mode = "fs" ->
         [quant EXCEPT !.fserrors = IF @ = <<>> THEN NoErrors(Len(quant.Ncolors), width) ELSE @]
\* start_pass_1_quant, but for the colormap it installs (StartPass in JpegQuantize).
StartPass1Quant(quant, dither_mode, width) ==
  CASE dither_mode = "none" -> quant
    [] dither_mode = "ordered" ->
         [quant EXCEPT !.row_index = 0, !.is_padded = TRUE,
                       !.colorindex = IF quant.is_padded THEN @ ELSE CreateColorindex(quant.Ncolors, TRUE),
                       !.odither = IF @ = <<>> THEN CreateOditherTables(quant.Ncolors) ELSE @]
    [] dither_mode = "fs" ->
         [quant EXCEPT !.on_odd_row = FALSE, !.fserrors = NoErrors(Len(quant.Ncolors), width)]
=============================================================================
