----------------------------- MODULE JpegQuantize -----------------------------
(***************************************************************************)
(* Output passes with few colors (jdmaster.c): which quantizer maps the    *)
(* rows of a pass, when a program in buffered-image mode asks for other    *)
(* colors and another dithering before each.  A pass is a record of what   *)
(* is asked - colors: "one", "two", "map" (one of the program's) or "same" *)
(* - and of the rows the image has by then.                                *)
(***************************************************************************)
EXTENDS JpegQuantize2

NoMap == <<>>

\* master_selection, with both quantizers enabled where the second can be.
MasterSelection(opts) ==
  [opts |-> opts, colormap |-> NoMap, is_dummy_pass |-> FALSE, dither_mode |-> Dither2(opts.dither), cquantize |-> "two",
   quantizer_1pass |-> Jinit1passQuantizer(3, "RGB", opts.desired, opts.dither),
   quantizer_2pass |-> Jinit2passQuantizer(opts.desired)]

\* jpeg_new_colormap.
JpegNewColormap(c, map) ==
  [c EXCEPT !.colormap = map, !.cquantize = "two", !.is_dummy_pass = FALSE,
            !.quantizer_2pass = NewColorMap2Quant(@)]
\* What the program does before a pass (libjpeg.doc:2014, 2063-2074).
Asked(c, pass) ==
  LET d == [c EXCEPT !.dither_mode = pass.dither]
  IN  CASE pass.colors = "same" -> d
        [] pass.colors = "map" -> JpegNewColormap(d, pass.map)
        [] OTHER -> [d EXCEPT !.colormap = NoMap]

\* The quantizer's start_pass.
StartPass(c) ==
  LET mode == Dither2(c.dither_mode)
  IN  IF c.cquantize = "one"
      THEN [c EXCEPT !.quantizer_1pass = StartPass1Quant(@, c.dither_mode, c.opts.width),
                     !.colormap = c.quantizer_1pass.sv_colormap]
      ELSE [c EXCEPT !.dither_mode = mode,
                     !.quantizer_2pass = StartPass2Quant(@, mode, c.opts.width, c.is_dummy_pass)]

\* prepare_for_output_pass and finish_output_pass, as far as they concern colors.
PrepareForOutputPass(c, two_pass_quantize) ==
  StartPass(
    CASE c.is_dummy_pass -> [c EXCEPT !.is_dummy_pass = FALSE]
      [] ~c.is_dummy_pass /\ c.colormap # NoMap -> c
      [] ~c.is_dummy_pass /\ c.colormap = NoMap ->
           IF two_pass_quantize THEN [c EXCEPT !.cquantize = "two", !.is_dummy_pass = TRUE]
           ELSE [c EXCEPT !.cquantize = "one"])
FinishOutputPass(c) ==
  IF c.is_dummy_pass
  THEN [c EXCEPT !.colormap = SelectColors(c.quantizer_2pass.histogram, c.quantizer_2pass.desired),
                 !.quantizer_2pass = FinishPass1(@)]
  ELSE c

\* A row more put out, by either quantizer.
MapRow(s, row) ==
  IF s.c.cquantize = "one"
  THEN LET put(m) == [c |-> [s.c EXCEPT !.quantizer_1pass = m.quant], out |-> Append(s.out, m.out)]
       IN  put(MapRow1(s.c.quantizer_1pass, s.c.dither_mode, row))
  ELSE LET put(m) == [c |-> [s.c EXCEPT !.quantizer_2pass = m.quant], out |-> Append(s.out, m.out)]
       IN  put(MapRow2(s.c.quantizer_2pass, s.c.colormap, s.c.dither_mode, row))

\* A pass, from what the program asks to its last row: the decompressor after it,
\* and the rows of indexes put out.
Prescanned(c, rows) ==
  IF c.is_dummy_pass
  THEN PrepareForOutputPass(
         FinishOutputPass(
           [c EXCEPT !.quantizer_2pass = FoldLeft(LAMBDA q, row : PrescanQuantize(q, row), @, rows)]), TRUE)
  ELSE c
OutputPass(c, pass) ==
  LET finished(s) == [s EXCEPT !.c = FinishOutputPass(@)]
      ready == Prescanned(PrepareForOutputPass(Asked(c, pass), pass.colors = "two"), pass.rows)
  IN  finished(FoldLeft(MapRow, [c |-> ready, out |-> <<>>], pass.rows))
-----------------------------------------------------------------------------
(* Properties *)

\* The color a row asks for at each pixel, once its dithering is counted in, by the
\* definition of the dithering: y counts the rows of the pass from 1, wanted holds
\* the errors of the row above and what it asked for.
Ordered(c, row, y) ==
  LET d == CreateOditherTables(c.quantizer_1pass.Ncolors)
      cell(x) == <<(y - 1) % ODITHER_SIZE, (x - 1) % ODITHER_SIZE>>
  IN  [x \in DOMAIN row |-> [i \in DOMAIN row[x] |-> RangeLimit(row[x][i] + d[i][cell(x)])]]
Diffused(c, row, y, above, out) ==
  LET dir(r) == IF r % 2 = 1 THEN 1 ELSE -1
      up(x) == IF x \in DOMAIN above THEN above[x] ELSE Zero(3)
      limit(e) == IF c.cquantize = "two" THEN ErrorLimit(e) ELSE e
      at(k) == IF dir(y) = 1 THEN k ELSE Len(row) + 1 - k
      spread(x, last) ==
        [i \in 1..3 |-> (7 * last[i]) + (3 * up(x + dir(y - 1))[i]) + (5 * up(x)[i]) + up(x - dir(y - 1))[i]]
      asks(x, last) == [i \in 1..3 |-> RangeLimit(row[x][i] + limit((spread(x, last)[i] + 8) \div 16))]
      along[k \in 0..Len(row)] ==
        IF k = 0 THEN [asked |-> <<>>, error |-> Zero(3)]
        ELSE LET asked == asks(at(k), along[k - 1].error)
             IN  [asked |-> asked, error |-> Minus(asked, c.colormap[out[at(k)]])]
      done == [k \in DOMAIN row |-> along[k]]
  IN  [asked |-> [x \in DOMAIN row |-> done[at(x)].asked], error |-> [x \in DOMAIN row |-> done[at(x)].error]]
\* The second quantizer gives Floyd-Steinberg for ordered dither (jquant2.c:1174).
Given(c, dither) == IF c.cquantize = "two" /\ dither = "ordered" THEN "fs" ELSE dither
RowsAsked(c, pass, out) ==
  FoldLeftDomain(LAMBDA s, y :
      CASE Given(c, pass.dither) = "none" -> [s EXCEPT !.asked = Append(@, pass.rows[y])]
        [] Given(c, pass.dither) = "ordered" -> [s EXCEPT !.asked = Append(@, Ordered(c, pass.rows[y], y))]
        [] Given(c, pass.dither) = "fs" ->
             LET d == Diffused(c, pass.rows[y], y, s.error, out[y])
             IN  [asked |-> Append(s.asked, d.asked), error |-> d.error],
    [asked |-> <<>>, error |-> <<>>], pass.rows).asked

\* How far the color shown may be from the one asked for.  The second quantizer
\* shows the nearest of the map to the cell of that color, by weighted squares;
\* the first, component by component, a value up to a level farther off than the
\* nearest: its breakpoints are not halfway but rounded (jquant1.c:263), and a
\* level at a breakpoint goes to the value below.
CloseEnough(c, asked, code) ==
  IF c.cquantize = "two"
  THEN \A k \in DOMAIN c.colormap : Squares(Center(Cell(asked)), c.colormap[code]) <= Squares(Center(Cell(asked)), c.colormap[k])
  ELSE \A i \in 1..3, k \in DOMAIN c.colormap :
         Distance(asked[i], c.colormap[code][i]) <= Distance(asked[i], c.colormap[k][i]) + 1

\* Every row put out shows colors near to those of the image, dithered as was
\* asked, but for the second quantizer's ordered dither; a map made for the pass
\* has no more colors than desired, and if those are as many as the image has,
\* shows each (jquant2.c:574-576, 761-763, 1174, jquant1.c:263).
ColorsNear(c, pass, out) ==
  LET asked == RowsAsked(c, pass, out)
      pixels == UNION {Range(pass.rows[y]) : y \in DOMAIN pass.rows}
      cells == {Cell(p) : p \in pixels}
  IN  /\ \A y \in DOMAIN pass.rows, x \in DOMAIN pass.rows[1] : CloseEnough(c, asked[y][x], out[y][x])
      /\ pass.colors \in {"one", "two"} => Cardinality(DOMAIN c.colormap) <= c.opts.desired
      /\ pass.colors = "two" /\ Cardinality(cells) <= c.opts.desired => Range(c.colormap) = {Center(k) : k \in cells}

\* What jquant1.c:150 says of colorindex, "index of color closest to pixel value":
\* of n values of a component, none is closer to the level than the one it gives.
IndexOfClosest(n, level) ==
  LET value == OutputValue(CreateColorindex(<<n>>, FALSE)[1][level], n - 1)
  IN  \A j \in 0..n - 1 : Distance(level, value) <= Distance(level, OutputValue(j, n - 1))

\* A pass is what it would be if it were the only one, whatever was mapped before it
\* (libjpeg.doc:2014-2019, 2060-2081).
Alone(c, pass) ==
  LET same == IF c.cquantize = "one" THEN [pass EXCEPT !.colors = "one"]
              ELSE [pass EXCEPT !.colors = "map", !.map = c.colormap]
  IN  OutputPass(MasterSelection([c.opts EXCEPT !.dither = pass.dither]),
                 IF pass.colors = "same" THEN same ELSE pass)
\* Passes after one another, all as they should be.
PassesIndependent(c, passes) ==
  LET judged(s, pass, done, alone) ==
        [c |-> done.c,
         ok |-> s.ok /\ done.out = alone.out /\ done.c.colormap = alone.c.colormap
                     /\ ColorsNear(done.c, pass, done.out)]
      next(s, pass) == judged(s, pass, OutputPass(s.c, pass), Alone(s.c, pass))
  IN  FoldLeft(next, [c |-> c, ok |-> TRUE], passes).ok

\* select_ncolors uses the colors there are: none of the components can have one
\* value more (jquant1.c:219-223).
NcolorsMaximal(nc, space, desired) ==
  LET n == SelectNcolors(nc, space, desired)
  IN  /\ ProductOf(n) <= desired
      /\ \A i \in 1..nc : n[i] >= 2 /\ ProductOf([n EXCEPT ![i] = @ + 1]) > desired

\* A flat area keeps its level under ordered dither: over the cells of the matrix
\* the values shown differ from it by less than two on average (jquant1.c:60, 405-407).
FlatKept(n, level) ==
  LET index == CreateColorindex(<<n>>, TRUE)[1]
      d == MakeOditherArray(n)
      row(y) == MapThenSumSet(LAMBDA x : OutputValue(index[level + d[<<y, x>>]], n - 1), 0..ODITHER_SIZE - 1)
      total == MapThenSumSet(row, 0..ODITHER_SIZE - 1)
  IN  Distance(total, ODITHER_CELLS * level) < 2 * ODITHER_CELLS
=============================================================================
