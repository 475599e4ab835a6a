---------------------------- MODULE JpegDecompress ----------------------------
(***************************************************************************)
(* The decompressor of the JPEG library as an application drives it: the   *)
(* calls of jdapimin.c, jdapistd.c and jdtrans.c, the input controller of  *)
(* jdinput.c, the coefficients of jdcoefct.c, the row buffers of           *)
(* jdmainct.c, the rows of the upsamplers (jdsample.c, jdmerge.c) and of   *)
(* jdpostct.c, and the passes of jdmaster.c.                               *)
(*                                                                         *)
(* The file is a sequence of items, of which a source that suspends has    *)
(* "avail" so far.  The blocks of coefficients are told apart by the MCUs  *)
(* they were read from, samples by their block, their row in it and the    *)
(* table they were dequantized with.                                       *)
(***************************************************************************)
EXTENDS JpegFrame, TLC

CONSTANTS
  Jobs,      \* files and what the application asks of them
  Supplies,  \* how many items may arrive at a time
  Chunks     \* how many lines the application may ask for at a time

VARIABLE cinfo   \* the decompression object, its source and what it returned

NoTable == "none"
NoSample == [data |-> {}, table |-> NoTable, near |-> <<>>, row |-> -1]
Components(c) == DOMAIN c.image.comp_info
Vsamp(c, ci) == c.image.comp_info[ci].v_samp_factor
MaxVert(c) == MaxV(c.image.comp_info)

Then(c, Op(_)) == IF c.error THEN c ELSE Op(c)
Fail(c) == [c EXCEPT !.error = TRUE, !.ret = "error"]
Answers(c, ret) == [c EXCEPT !.ret = ret]

-----------------------------------------------------------------------------
(* Dimensions of the output: jdmaster.c *)

\* min_DCT_scaled_size.
MinSize(c) == DCTSIZE \div c.opts.scale

\* A component of lower resolution is reduced less, by powers of two as long as
\* it stays below the output.
ScaledSize(c, ci) ==
  LET fits(n) == /\ n <= DCTSIZE
                 /\ c.image.comp_info[ci].h_samp_factor * n <= MaxH(c.image.comp_info) * MinSize(c)
                 /\ Vsamp(c, ci) * n <= MaxVert(c) * MinSize(c)
  IN  Max({n \in {MinSize(c), 2 * MinSize(c), 4 * MinSize(c), 8 * MinSize(c)} :
             n = MinSize(c) \/ fits(n)})

OutputHeight(c) == DivRoundUp(c.image.image_height, c.opts.scale)
DownsampledHeight(c, ci) ==
  DivRoundUp(c.image.image_height * Vsamp(c, ci) * ScaledSize(c, ci), MaxVert(c) * DCTSIZE)

\* Rows of a component in a row group, and in an iMCU row.
RowGroup(c, ci) == (Vsamp(c, ci) * ScaledSize(c, ci)) \div MinSize(c)
IMCUHeight(c, ci) == Vsamp(c, ci) * ScaledSize(c, ci)

-----------------------------------------------------------------------------
(* Input: jdinput.c, jdmarker.c as far as its markers change the state here *)

Supplied(c) == IF c.suspends THEN c.avail ELSE Len(c.items)
NextIs(c, kinds) == c.pos <= Supplied(c) /\ c.items[c.pos].t \in kinds
Taken(c) == [c EXCEPT !.pos = @ + 1]

\* start_input_pass: geometry, the tables of components seen for the first time,
\* and what the scan brings (coef_bits, of the DC and of the AC).
LatchQuantTables(c) ==
  [c EXCEPT !.quant_table = [ci \in Components(c) |->
     IF ci \in Range(c.scan.comps) /\ c.quant_table[ci] = NoTable
     THEN c.quant[c.image.comp_info[ci].quant_tbl_no] ELSE c.quant_table[ci]]]

CoefBits(c) ==
  [c EXCEPT !.coef_bits = [ci \in Components(c) |->
     IF ci \notin Range(c.scan.comps) THEN c.coef_bits[ci]
     ELSE IF c.scan.Ss = 0 THEN [c.coef_bits[ci] EXCEPT !.dc = c.scan.Al]
     ELSE [c.coef_bits[ci] EXCEPT !.ac = c.scan.Al]]]

StartIMCURow(c) ==
  [c EXCEPT !.MCU_rows_per_iMCU_row =
              IF Len(c.scan.comps) > 1 THEN 1
              ELSE IF c.input_iMCU_row < TotalIMCURows(c.image) - 1 THEN Vsamp(c, c.scan.comps[1])
              ELSE c.geometry.last_row_height[1],
            !.MCU_ctr = 0, !.MCU_vert_offset = 0]

StartInputPass(c) ==
  IF \/ ~LegalScan(c.image, c.scan)
     \/ \E ci \in Range(c.scan.comps) : c.quant[c.image.comp_info[ci].quant_tbl_no] = NoTable
  THEN Fail(c)
  ELSE StartIMCURow([CoefBits(LatchQuantTables(c)) EXCEPT
         !.geometry = PerScanSetup(c.image, c.scan), !.input_iMCU_row = 0, !.consume_input = "data"])

\* initial_setup, at the first SOS.
InitialSetup(c) ==
  IF ~LegalImage(c.image) THEN Fail(c)
  ELSE [c EXCEPT !.inheaders = FALSE,
                 !.quant_table = [ci \in Components(c) |-> NoTable],
                 !.coef_bits = [ci \in Components(c) |-> [dc |-> -1, ac |-> -1]],
                 !.has_multiple_scans = Len(c.scan.comps) < Len(c.image.comp_info) \/ c.image.progressive]

\* Mutant: the target of an output pass is not moved back to the last scan.
ReachedEoiFar(c) ==
  IF c.inheaders /\ c.image # <<>> THEN Fail(c) ELSE [c EXCEPT !.eoi_reached = TRUE]

ReachedEoi(c) ==
  IF c.inheaders /\ c.image # <<>> THEN Fail(c)
  ELSE [c EXCEPT !.eoi_reached = TRUE,
                 !.output_scan_number = IF c.inheaders THEN @ ELSE Min({@, c.input_scan_number})]

ReachedSos(c) ==
  IF c.inheaders THEN InitialSetup(c)
  ELSE IF ~c.has_multiple_scans THEN Fail(c) ELSE StartInputPass(c)

\* A marker that brings tables or the frame, or data the decoder left over.
GetMarker(c) ==
  LET item == c.items[c.pos]
  IN  CASE item.t = "SOI" -> IF c.saw_SOI THEN Fail(c) ELSE [Taken(c) EXCEPT !.saw_SOI = TRUE]
        [] item.t = "DQT" -> [Taken(c) EXCEPT !.quant[item.slot] = item.content]
        [] item.t = "SOF" -> IF c.image # <<>> THEN Fail(c) ELSE [Taken(c) EXCEPT !.image = item.image]
        [] OTHER -> Taken(c)

\* read_markers and consume_markers.  A source that does not suspend makes up an
\* EOI at the end of the file.
RECURSIVE ConsumeMarkers(_)
ConsumeMarkers(c) ==
  IF c.eoi_reached THEN Answers(c, "EOI")
  ELSE IF NextIs(c, {"SOI", "DQT", "SOF", "MCU"}) THEN Then(GetMarker(c), ConsumeMarkers)
  ELSE IF NextIs(c, {"SOS"})
       THEN IF c.image = <<>> THEN Fail(c)
            ELSE ReachedSos([Taken(c) EXCEPT !.scan = c.items[c.pos].scan, !.scans = Append(@, c.items[c.pos].scan),
                                             !.input_scan_number = @ + 1, !.ret = "SOS"])
  ELSE IF NextIs(c, {"EOI"}) THEN ReachedEoi(Answers(Taken(c), "EOI"))
  ELSE IF c.suspends THEN Answers(c, "suspended") ELSE ReachedEoi(Answers(c, "EOI"))

-----------------------------------------------------------------------------
(* Coefficients: jdcoefct.c *)

\* decode_mcu on the n-th MCU from here: its data, or nothing once a marker or
\* the end of the file is in its place.
McuData(c, n) ==
  IF \A p \in c.pos..c.pos + n - 1 : p <= Len(c.items) /\ c.items[p].t = "MCU"
  THEN {<<c.input_scan_number, c.items[c.pos + n - 1].n>>} ELSE {}
Decodable(c, many) ==
  IF ~c.suspends \/ (\E p \in c.pos..c.avail : c.items[p].t # "MCU") THEN many
  ELSE Min({many, c.avail - c.pos + 1})
DataIn(c, many) == Cardinality({n \in 1..many : McuData(c, n) # {}})

\* The MCUs of the iMCU row that are still to be read: vertical offset, column.
MCUsLeft(c) ==
  LET from == c.MCU_vert_offset * c.geometry.MCUs_per_row + c.MCU_ctr
  IN  [n \in 1..c.MCU_rows_per_iMCU_row * c.geometry.MCUs_per_row - from |->
         <<(from + n - 1) \div c.geometry.MCUs_per_row, (from + n - 1) % c.geometry.MCUs_per_row>>]

\* The places of the blocks of an MCU: index in the scan, row, column, number.
Places(c) ==
  LET across(i) == c.geometry.MCU_width[i]
      of(i) == [n \in 1..across(i) * c.geometry.MCU_height[i] |->
                  <<i, (n - 1) \div across(i), (n - 1) % across(i)>>]
      all == FlattenSeq([i \in DOMAIN c.scan.comps |-> of(i)])
  IN  {Append(all[b], b) : b \in DOMAIN all}

\* The blocks read: component, row in the iMCU row, column, and what was read.
Blocks(c, mcus, places) ==
  {<<c.scan.comps[place[1]], mcus[n][1] + place[2],
     mcus[n][2] * c.geometry.MCU_width[place[1]] + place[3],
     {<<x[1], x[2], place[4]>> : x \in McuData(c, n)}>> : n \in DOMAIN mcus, place \in places}

WaitAt(c, mcu) ==
  Answers([c EXCEPT !.MCU_vert_offset = mcu[1], !.MCU_ctr = mcu[2]], "suspended")

\* After the last MCU of an iMCU row.
RowRead(c) ==
  IF c.input_iMCU_row + 1 < TotalIMCURows(c.image)
  THEN StartIMCURow(Answers([c EXCEPT !.input_iMCU_row = @ + 1], "row"))
  ELSE Answers([c EXCEPT !.input_iMCU_row = @ + 1, !.consume_input = "markers"], "scan")

SomeRead(c, left, many) == IF many = Len(left) THEN RowRead(c) ELSE WaitAt(c, left[many + 1])
ReadSome(c, left, many, Put(_, _)) ==
  SomeRead([Put(c, Blocks(c, SubSeq(left, 1, many), Places(c))) EXCEPT !.pos = @ + DataIn(c, many)],
           left, many)
ReadLeft(c, left, Put(_, _)) == ReadSome(c, left, Decodable(c, Len(left)), Put)
ReadMCUs(c, Put(_, _)) == ReadLeft(c, MCUsLeft(c), Put)

\* consume_data: into the arrays of the whole image, over what is there.
StoreBlocks(c, blocks) ==
  [c EXCEPT !.whole_image = [ci \in Components(c) |->
     LET top == c.input_iMCU_row * Vsamp(c, ci)
         new(x) == UNION {b[4] : b \in {d \in blocks : d[1] = ci /\ top + d[2] = x[1] /\ d[3] = x[2]}}
     IN  [x \in DOMAIN c.whole_image[ci] |-> c.whole_image[ci][x] \cup new(x)]]]

ConsumeInput(c) ==
  CASE c.consume_input = "markers" -> ConsumeMarkers(c)
    [] c.full_buffer -> ReadMCUs(c, StoreBlocks)
    [] OTHER -> Answers(c, "suspended")

\* The rows of samples of a buffer the next iMCU row goes to.
Physical(c, ci, row) == IF c.opts.upsampler = "context" THEN c.xbuffer[c.whichptr][ci][row] ELSE row

\* inverse_DCT of blocks into the buffer; without a table all samples are grey.
NewSample(c, old, table, size, new) ==
  IF new = {} THEN old
  ELSE CHOOSE s \in {[data |-> IF table = NoTable THEN {} ELSE x[1][4], table |-> table,
                      near |-> x[1][5], row |-> x[2] % size] : x \in new} : TRUE
PutBlocks(c, blocks) ==
  [c EXCEPT !.buffer = [ci \in Components(c) |->
     [p \in DOMAIN c.buffer[ci] |-> [col \in DOMAIN c.buffer[ci][p] |->
        NewSample(c, c.buffer[ci][p][col], c.dct_table[ci], ScaledSize(c, ci),
                  {<<b, row>> \in blocks \X (0..IMCUHeight(c, ci) - 1) :
                     /\ b[1] = ci /\ b[3] = col /\ b[2] = row \div ScaledSize(c, ci)
                     /\ Physical(c, ci, row) = p})]]]]

\* decompress_onepass: the blocks of the MCUs that are in the image.
InImage(c, b) ==
  /\ c.input_iMCU_row * Vsamp(c, b[1]) + b[2] < HeightInBlocks(c.image, b[1])
  /\ b[3] < WidthInBlocks(c.image, b[1])
PutRead(c, blocks) == PutBlocks(c, {Append(b, <<>>) : b \in {d \in blocks : InImage(c, d)}})
PassedOne(c) == IF c.ret = "suspended" THEN c ELSE [c EXCEPT !.output_iMCU_row = @ + 1]
OnePass(c) == PassedOne(ReadMCUs(c, PutRead))

\* Mutant: the row below is not waited for.
BehindOneRow(c) ==
  \/ c.input_scan_number < c.output_scan_number
  \/ c.input_scan_number = c.output_scan_number /\ c.input_iMCU_row <= c.output_iMCU_row

\* The input must be ahead of the output: of the row to be put out, and of the
\* row below it too where the DCs around a block are looked at.
Behind(c) ==
  IF c.smooth
  THEN /\ c.input_scan_number <= c.output_scan_number /\ ~c.eoi_reached
       /\ \/ c.input_scan_number # c.output_scan_number
          \/ c.input_iMCU_row <= c.output_iMCU_row + (IF c.scan.Ss = 0 THEN 1 ELSE 0)
  ELSE \/ c.input_scan_number < c.output_scan_number
       \/ c.input_scan_number = c.output_scan_number /\ c.input_iMCU_row <= c.output_iMCU_row

Wanted(c, goal) ==
  CASE goal = "EOI" -> ~c.eoi_reached
    [] goal = "scan" -> c.input_scan_number <= c.output_scan_number /\ ~c.eoi_reached
    [] goal = "row" -> Behind(c)

\* The loops that read on until they are far enough.  At the end of the file
\* consume_input changes nothing any more: a loop that goes on then never ends.
RECURSIVE ConsumeUntil(_, _)
ReadOn(c, goal) ==
  IF c.ret = "suspended" THEN c
  ELSE IF c.ret = "EOI" /\ Wanted(c, goal) THEN [c EXCEPT !.hangs = TRUE]
  ELSE ConsumeUntil(c, goal)
ConsumeUntil(c, goal) ==
  IF Wanted(c, goal) THEN Then(ConsumeInput(c), LAMBDA d : ReadOn(d, goal)) ELSE Answers(c, "ok")

\* decompress_data and decompress_smooth_data: an iMCU row of the whole image;
\* smoothing looks at the DCs above and below.
DcOf(c, ci, row, col) == {x \in c.whole_image[ci][<<row, col>>] : c.scans[x[1]].Ss = 0}
RowsHere(c, ci) ==
  IF c.output_iMCU_row < TotalIMCURows(c.image) - 1 THEN Vsamp(c, ci)
  ELSE LastOf(HeightInBlocks(c.image, ci), Vsamp(c, ci))
StoredBlocks(c) ==
  LET top(ci) == c.output_iMCU_row * Vsamp(c, ci)
      above(ci, y) == IF top(ci) + y = 0 THEN 0 ELSE top(ci) + y - 1
      last(ci, y) == c.output_iMCU_row = TotalIMCURows(c.image) - 1 /\ y = RowsHere(c, ci) - 1
      below(ci, y) == IF last(ci, y) THEN top(ci) + y ELSE top(ci) + y + 1
      near(ci, y, col) == IF c.smooth THEN <<DcOf(c, ci, above(ci, y), col), DcOf(c, ci, below(ci, y), col)>>
                          ELSE <<>>
  IN  UNION {{<<ci, y, col, c.whole_image[ci][<<top(ci) + y, col>>], near(ci, y, col)>> :
                y \in 0..RowsHere(c, ci) - 1, col \in 0..WidthInBlocks(c.image, ci) - 1} :
             ci \in Components(c)}

FromStore(c) == [PutBlocks(c, StoredBlocks(c)) EXCEPT !.output_iMCU_row = @ + 1]
DecompressData(c) ==
  IF ~c.full_buffer THEN OnePass(c)
  ELSE Then(ConsumeUntil(c, "row"), LAMBDA d :
         IF d.ret = "suspended" \/ d.hangs THEN d ELSE FromStore(d))

\* smoothing_ok: a progressive file with every DC known and not all of the AC.
SmoothingOk(c) ==
  /\ c.image.progressive
  /\ \A ci \in Components(c) : c.quant_table[ci] # NoTable /\ c.coef_bits[ci].dc >= 0
  /\ \E ci \in Components(c) : c.coef_bits[ci].ac # 0

-----------------------------------------------------------------------------
(* Buffers of rows: jdmainct.c *)

Groups(c) == IF c.opts.upsampler = "context" THEN MinSize(c) + 2 ELSE MinSize(c)
EmptyBuffer(c) ==
  [ci \in Components(c) |-> [p \in 0..RowGroup(c, ci) * Groups(c) - 1 |->
     [col \in 0..WidthInBlocks(c.image, ci) - 1 |-> NoSample]]]

\* make_funny_pointers: two ways to see the buffer, in which the last two row
\* groups and the two before are exchanged; the first row is also above itself.
FunnyPointers(c) ==
  LET m == MinSize(c)
      rg(ci) == RowGroup(c, ci)
      of(ci, which, i) ==
        IF i < 0 THEN 0
        ELSE IF which = 1 /\ i \in rg(ci) * (m - 2)..rg(ci) * m - 1 THEN i + 2 * rg(ci)
        ELSE IF which = 1 /\ i \in rg(ci) * m..rg(ci) * (m + 2) - 1 THEN i - 2 * rg(ci)
        ELSE i
  IN  [which \in {0, 1} |-> [ci \in Components(c) |->
        [i \in -rg(ci)..rg(ci) * (m + 3) - 1 |-> of(ci, which, i)]]]

\* set_wraparound_pointers: above and below there are the groups next to them,
\* from the second iMCU row on.
Wraparound(c) ==
  LET m == MinSize(c)
      rg(ci) == RowGroup(c, ci)
      of(old, ci, i) == IF i < 0 THEN old[i + rg(ci) * (m + 2)]
                        ELSE IF i >= rg(ci) * (m + 2) THEN old[i - rg(ci) * (m + 2)] ELSE old[i]
  IN  IF c.iMCU_row_ctr # 1 THEN c
      ELSE [c EXCEPT !.xbuffer = [which \in {0, 1} |-> [ci \in Components(c) |->
              [i \in DOMAIN c.xbuffer[which][ci] |-> of(c.xbuffer[which][ci], ci, i)]]]]

\* set_bottom_pointers: the last row of the image is repeated below it.
RowsLeft(c, ci) ==
  IF DownsampledHeight(c, ci) % IMCUHeight(c, ci) = 0 THEN IMCUHeight(c, ci)
  ELSE DownsampledHeight(c, ci) % IMCUHeight(c, ci)
Bottom(c) ==
  [c EXCEPT !.rowgroups_avail = (RowsLeft(c, 1) - 1) \div RowGroup(c, 1) + 1,
            !.xbuffer[c.whichptr] = [ci \in Components(c) |->
              [i \in DOMAIN c.xbuffer[c.whichptr][ci] |->
                 IF i \in RowsLeft(c, ci)..RowsLeft(c, ci) + 2 * RowGroup(c, ci) - 1
                 THEN c.xbuffer[c.whichptr][ci][RowsLeft(c, ci) - 1] ELSE c.xbuffer[c.whichptr][ci][i]]]]

-----------------------------------------------------------------------------
(* Lines from row groups: jdsample.c, jdmerge.c *)

\* The rows of a component that line v of row group g is made of, a fancy
\* upsampler blending in the one above or below.
RowsFor(c, ci, v, g) ==
  LET row == g * RowGroup(c, ci) + (v * RowGroup(c, ci)) \div MaxVert(c)
      next == IF v % 2 = 0 THEN row - 1 ELSE row + 1
  IN  IF c.opts.upsampler = "context" /\ 2 * RowGroup(c, ci) = MaxVert(c) THEN <<row, next>> ELSE <<row>>
GroupLines(c) ==
  [v \in 1..MaxVert(c) |-> [ci \in Components(c) |->
     LET rows == RowsFor(c, ci, v - 1, c.rowgroup_ctr)
     IN  [n \in DOMAIN rows |-> c.buffer[ci][Physical(c, ci, rows[n])]]]]

\* sep_upsample: at most "room" lines of the group go to c.got.
EmitRows(c, many) ==
  [c EXCEPT !.got = SubSeq(c.color_buf, c.next_row_out + 1, c.next_row_out + many),
            !.rows_to_go = @ - many, !.next_row_out = @ + many,
            !.rowgroup_ctr = IF c.next_row_out + many >= MaxVert(c) THEN @ + 1 ELSE @]
EmitGroup(c, room) == EmitRows(c, Min({MaxVert(c) - c.next_row_out, c.rows_to_go, room}))
SepUpsample(c, room) ==
  EmitGroup(IF c.next_row_out < MaxVert(c) THEN c
            ELSE [c EXCEPT !.color_buf = GroupLines(c), !.next_row_out = 0], room)

\* merged_2v_upsample, merged_1v_upsample: both lines of a group at a time; the
\* one there is no room for is spared.
SpareLine(c) == [c EXCEPT !.got = c.spare, !.spare = <<>>, !.rows_to_go = @ - 1, !.rowgroup_ctr = @ + 1]
TwoLines(c, lines, many) ==
  [c EXCEPT !.got = SubSeq(lines, 1, many), !.rows_to_go = @ - many,
            !.spare = IF many > 1 THEN <<>> ELSE <<lines[2]>>,
            !.rowgroup_ctr = IF many > 1 THEN @ + 1 ELSE @]
MergedUpsample(c, room) ==
  IF MaxVert(c) = 1 THEN [c EXCEPT !.got = GroupLines(c), !.rowgroup_ctr = @ + 1]
  ELSE IF c.spare # <<>> THEN SpareLine(c)
  ELSE TwoLines(c, GroupLines(c), Min({2, c.rows_to_go, room}))

Upsample(c, room) == IF c.opts.upsampler = "merged" THEN MergedUpsample(c, room) ELSE SepUpsample(c, room)
StartPassUpsample(c) ==
  [c EXCEPT !.next_row_out = MaxVert(c), !.rows_to_go = OutputHeight(c), !.spare = <<>>]

-----------------------------------------------------------------------------
(* Quantization of colors: jdpostct.c *)

\* A line put out is [rows, map], where map is what the colors were chosen from.
Mapped(c, lines) == [n \in DOMAIN lines |-> [rows |-> lines[n], map |-> c.colormap]]

PutOut(c, lines) == [c EXCEPT !.out = @ \o Mapped(c, lines)]
Got(c) == PutOut(c, c.got)
OnePassPost(c, room) == Got(Upsample(c, room))

\* post_process_prepass: lines are kept, and their colors counted.
Strip(c, rows) ==
  IF c.next_row + rows >= MaxVert(c)
  THEN [c EXCEPT !.starting_row = @ + MaxVert(c), !.next_row = 0]
  ELSE [c EXCEPT !.next_row = @ + rows]
Kept(c, first) ==
  Strip([c EXCEPT !.whole_output = [n \in first + 1..first + Len(c.got) |-> c.got[n - first]] @@ @,
                  !.histogram = @ \cup {first + n : n \in 1..Len(c.got)},
                  !.output_scanline = @ + Len(c.got)], Len(c.got))
Prepass(c) == Kept(Upsample(c, MaxVert(c) - c.next_row), c.starting_row + c.next_row)

\* post_process_2pass: the lines kept, in the colors chosen.
PutKept(c, many) ==
  Strip(PutOut(c, [n \in 1..many |-> c.whole_output[c.starting_row + c.next_row + n]]), many)
SecondPass(c, room) ==
  PutKept(c, Min({MaxVert(c) - c.next_row, room, OutputHeight(c) - c.starting_row}))

PostProcess(c, room) ==
  CASE c.post = "pass_thru" -> OnePassPost(c, room - Len(c.out))
    [] c.post = "save_and_pass" -> Prepass(c)
    [] c.post = "crank_dest" -> SecondPass(c, room - Len(c.out))

\* process_data_simple_main.
Emptied(c) ==
  IF c.rowgroup_ctr >= MinSize(c) THEN [c EXCEPT !.buffer_full = FALSE, !.rowgroup_ctr = 0] ELSE c
SimpleMain(c, room) == Emptied(PostProcess(c, room))

\* Mutant: the buffer is not exchanged.
NextIMCURowSame(c) ==
  [Wraparound(c) EXCEPT
     !.buffer_full = FALSE, !.rowgroup_ctr = MinSize(c) + 1,
     !.rowgroups_avail = MinSize(c) + 2, !.context_state = "POSTPONED_ROW"]

\* process_data_context_main: the last row group of an iMCU row waits for the
\* rows of the next one.
NextIMCURow(c) ==
  [Wraparound(c) EXCEPT
     !.whichptr = 1 - @, !.buffer_full = FALSE, !.rowgroup_ctr = MinSize(c) + 1,
     !.rowgroups_avail = MinSize(c) + 2, !.context_state = "POSTPONED_ROW"]
IsThrough(c) == c.rowgroup_ctr >= c.rowgroups_avail
IMCUProcessed(c) == IF IsThrough(c) THEN NextIMCURow(c) ELSE c
AtBottom(c) == IF c.iMCU_row_ctr = TotalIMCURows(c.image) THEN Bottom(c) ELSE c
PrepareForIMCU(c) ==
  IF c.context_state # "PREPARE_FOR_IMCU" THEN c
  ELSE AtBottom([c EXCEPT !.rowgroup_ctr = 0, !.rowgroups_avail = MinSize(c) - 1,
                          !.context_state = "PROCESS_IMCU"])
PostponedDone(c) == IF IsThrough(c) THEN [c EXCEPT !.context_state = "PREPARE_FOR_IMCU"] ELSE c
PostponedRow(c, room) ==
  IF c.context_state # "POSTPONED_ROW" THEN c ELSE PostponedDone(PostProcess(c, room))
Processed(c, room, postponed) ==
  IF c.context_state = "POSTPONED_ROW" \/ (postponed /\ Len(c.out) >= room) THEN c
  ELSE IMCUProcessed(PostProcess(PrepareForIMCU(c), room))
ContextMain(c, room) == Processed(PostponedRow(c, room), room, c.context_state = "POSTPONED_ROW")

Filled(c) ==
  IF c.buffer_full THEN c
  ELSE Then(DecompressData(c), LAMBDA d :
         IF d.ret = "suspended" \/ d.hangs THEN d
         ELSE [d EXCEPT !.buffer_full = TRUE, !.iMCU_row_ctr = @ + 1])
ProcessData(c, room) ==
  IF c.post = "crank_dest" THEN PostProcess(c, room)
  ELSE Then(Filled(c), LAMBDA d :
         IF ~d.buffer_full THEN d
         ELSE IF c.opts.upsampler = "context" THEN ContextMain(d, room) ELSE SimpleMain(d, room))

-----------------------------------------------------------------------------
(* Output passes: jdmaster.c *)

StartPassMain(c) ==
  [c EXCEPT !.buffer_full = FALSE, !.rowgroup_ctr = 0, !.iMCU_row_ctr = 0, !.whichptr = 0,
            !.context_state = "PREPARE_FOR_IMCU",
            !.xbuffer = IF c.opts.upsampler = "context" THEN FunnyPointers(c) ELSE <<>>]
StartPassPost(c, mode) == [c EXCEPT !.post = mode, !.starting_row = 0, !.next_row = 0]

\* start_pass of the inverse DCT: multipliers are made once a component's table
\* is known, and start_output_pass.
StartPassDct(c) ==
  [c EXCEPT !.dct_table = [ci \in Components(c) |->
     IF c.dct_table[ci] = NoTable THEN c.quant_table[ci] ELSE c.dct_table[ci]]]
StartOutputPass(c) ==
  [c EXCEPT !.output_iMCU_row = 0, !.smooth = c.full_buffer /\ c.opts.smoothing /\ SmoothingOk(c)]

\* Colors: the choice of one pass, or a dummy pass to count them all.
StartQuantizer(c) ==
  CASE c.opts.quantize = "none" \/ c.colormap # {} -> [c EXCEPT !.is_dummy_pass = FALSE]
    [] c.opts.quantize = "one" -> [c EXCEPT !.colormap = {0}]
    [] c.opts.quantize = "two" -> [c EXCEPT !.is_dummy_pass = TRUE, !.histogram = {}]

StartRows(c) ==
  IF c.opts.raw_data_out THEN c
  ELSE StartPassMain(StartPassPost(StartPassUpsample(c),
         IF c.is_dummy_pass THEN "save_and_pass" ELSE "pass_thru"))
PrepareForOutputPass(c) ==
  IF c.is_dummy_pass THEN StartPassPost([c EXCEPT !.is_dummy_pass = FALSE], "crank_dest")
  ELSE StartRows(StartOutputPass(StartPassDct(StartQuantizer(c))))

\* finish_output_pass: the colors counted become the colormap.
FinishOutputPass(c) == IF c.is_dummy_pass THEN [c EXCEPT !.colormap = c.histogram] ELSE c

\* output_pass_setup: the dummy pass is done here, as far as the input goes.
RECURSIVE DummyPass(_)
Progress(c, d) == IF d.output_scanline = c.output_scanline \/ d.hangs THEN Answers(d, "suspended") ELSE DummyPass(d)
DummyPass(c) ==
  IF c.output_scanline < OutputHeight(c) THEN Then(ProcessData(c, 0), LAMBDA d : Progress(c, d))
  ELSE Answers([PrepareForOutputPass(FinishOutputPass(c)) EXCEPT !.output_scanline = 0], "ok")

DummyDone(c) ==
  IF c.ret = "suspended" THEN c
  ELSE [c EXCEPT !.global_state = IF c.opts.raw_data_out THEN "RAW_OK" ELSE "SCANNING", !.ret = "ok"]
SetUp(c) == IF c.is_dummy_pass THEN DummyPass(c) ELSE Answers(c, "ok")
OutputPassSetup(c) ==
  Then(SetUp(IF c.global_state = "PRESCAN" THEN c
             ELSE [PrepareForOutputPass(c) EXCEPT !.output_scanline = 0, !.global_state = "PRESCAN",
                                                  !.complete = c.eoi_reached]), DummyDone)

\* master_selection, and transdecode_master_selection for a transcoder.
MasterSelection(c, full_buffer) ==
  StartInputPass([c EXCEPT
    !.full_buffer = full_buffer, !.colormap = {}, !.is_dummy_pass = FALSE,
    !.buffer = EmptyBuffer(c), !.dct_table = [ci \in Components(c) |-> NoTable],
    !.whole_image = IF full_buffer
      THEN [ci \in Components(c) |->
              [x \in (0..TotalIMCURows(c.image) * Vsamp(c, ci) - 1)
                     \X (0..DivRoundUp(c.image.image_width, MaxH(c.image.comp_info) * DCTSIZE)
                              * c.image.comp_info[ci].h_samp_factor - 1) |-> {}]]
      ELSE <<>>])

-----------------------------------------------------------------------------
(* Calls *)

\* jpeg_abort and reset_input_controller: the tables stay.
Reset(c) ==
  [c EXCEPT !.global_state = "START", !.image = <<>>, !.scan = <<>>, !.scans = <<>>, !.saw_SOI = FALSE,
            !.input_scan_number = 0, !.output_scan_number = 0, !.eoi_reached = FALSE,
            !.inheaders = TRUE, !.has_multiple_scans = FALSE, !.consume_input = "markers",
            !.full_buffer = FALSE, !.opts = <<>>, !.geometry = <<>>, !.input_iMCU_row = 0,
            !.MCU_ctr = 0, !.MCU_vert_offset = 0, !.MCU_rows_per_iMCU_row = 0,
            !.output_iMCU_row = 0, !.smooth = FALSE, !.coef_bits = <<>>, !.quant_table = <<>>,
            !.dct_table = <<>>, !.whole_image = <<>>, !.buffer = <<>>, !.xbuffer = <<>>,
            !.whichptr = 0, !.context_state = "", !.buffer_full = FALSE, !.rowgroup_ctr = 0,
            !.rowgroups_avail = 0, !.iMCU_row_ctr = 0, !.next_row_out = 0, !.rows_to_go = 0,
            !.spare = <<>>, !.color_buf = <<>>, !.got = <<>>, !.post = "", !.starting_row = 0,
            !.next_row = 0, !.whole_output = <<>>, !.histogram = {}, !.colormap = {},
            !.is_dummy_pass = FALSE, !.output_scanline = 0, !.complete = FALSE]

\* jpeg_CreateDecompress and a source.
Init ==
  \E job \in Jobs, suspends \in BOOLEAN :
    cinfo = [items |-> job.items, may |-> job.opts, whole |-> job.whole, suspends |-> suspends,
             avail |-> 0, pos |-> 1, error |-> FALSE, ret |-> "", hangs |-> FALSE,
             quant |-> [s \in {0, 1} |-> NoTable], out |-> <<>>, first |-> 0,
             global_state |-> "START", image |-> <<>>, scan |-> <<>>, scans |-> <<>>, saw_SOI |-> FALSE,
             input_scan_number |-> 0, output_scan_number |-> 0, eoi_reached |-> FALSE,
             inheaders |-> TRUE, has_multiple_scans |-> FALSE, consume_input |-> "markers",
             full_buffer |-> FALSE, opts |-> <<>>, geometry |-> <<>>, input_iMCU_row |-> 0,
             MCU_ctr |-> 0, MCU_vert_offset |-> 0, MCU_rows_per_iMCU_row |-> 0,
             output_iMCU_row |-> 0, smooth |-> FALSE, coef_bits |-> <<>>, quant_table |-> <<>>,
             dct_table |-> <<>>, whole_image |-> <<>>, buffer |-> <<>>, xbuffer |-> <<>>,
             whichptr |-> 0, context_state |-> "", buffer_full |-> FALSE, rowgroup_ctr |-> 0,
             rowgroups_avail |-> 0, iMCU_row_ctr |-> 0, next_row_out |-> 0, rows_to_go |-> 0,
             spare |-> <<>>, color_buf |-> <<>>, got |-> <<>>, post |-> "", starting_row |-> 0,
             next_row |-> 0, whole_output |-> <<>>, histogram |-> {}, colormap |-> {},
             is_dummy_pass |-> FALSE, output_scanline |-> 0, complete |-> FALSE]

Running(states) == ~cinfo.error /\ ~cinfo.hangs /\ cinfo.global_state \in states
Quiet(c) == [c EXCEPT !.out = <<>>, !.got = <<>>]

\* jpeg_read_header.  A file of tables only leaves the object as it was.
HeaderRead(c, require_image) ==
  CASE c.ret = "SOS" -> [c EXCEPT !.global_state = "READY"]
    [] c.ret = "EOI" -> IF require_image THEN Fail(c) ELSE Reset(c)
    [] OTHER -> c
ReadHeader ==
  /\ Running({"START", "INHEADER"}) /\ cinfo.pos <= Len(cinfo.items)
  /\ \E require_image \in BOOLEAN :
       cinfo' = Then(ConsumeMarkers([cinfo EXCEPT !.global_state = "INHEADER"]),
                     LAMBDA c : HeaderRead(c, require_image))

\* jpeg_start_decompress: an image of several scans is read first, unless the
\* application wants to see the scans as they come.
Preloaded(c) ==
  IF c.ret = "suspended" \/ c.hangs THEN c
  ELSE OutputPassSetup([c EXCEPT !.output_scan_number = c.input_scan_number])
StartPreload(c) ==
  Then(IF c.has_multiple_scans THEN ConsumeUntil(c, "EOI") ELSE Answers(c, "ok"), Preloaded)
Selected(c) ==
  IF c.opts.buffered_image THEN Answers([c EXCEPT !.global_state = "BUFIMAGE"], "ok")
  ELSE StartPreload([c EXCEPT !.global_state = "PRELOAD"])
StartReady(c) ==
  IF c.opts.upsampler = "context" /\ MinSize(c) < 2 THEN Fail(c)
  ELSE Then(MasterSelection(c, c.has_multiple_scans \/ c.opts.buffered_image), Selected)

StartDecompress ==
  \/ /\ Running({"READY"})
     /\ \E opts \in cinfo.may : cinfo' = StartReady([cinfo EXCEPT !.opts = opts])
  \/ Running({"PRELOAD"}) /\ cinfo' = StartPreload(cinfo)
  \/ Running({"PRESCAN"}) /\ ~cinfo.opts.buffered_image /\ cinfo' = OutputPassSetup(cinfo)

\* jpeg_read_scanlines.
LinesRead(c, n) ==
  [c EXCEPT !.output_scanline = @ + Len(c.out), !.ret = IF c.out = <<>> THEN "suspended" ELSE "ok", !.got = <<>>]
ReadScanlines(n) ==
  /\ Running({"SCANNING"}) /\ cinfo.output_scanline < OutputHeight(cinfo)
  /\ cinfo' = Then(ProcessData([Quiet(cinfo) EXCEPT !.first = cinfo.output_scanline], n),
                   LAMBDA c : LinesRead(c, n))

\* jpeg_read_raw_data: an iMCU row as it comes.
RawLines(c) ==
  FlattenSeq([g \in 1..MinSize(c) |-> Mapped(c, GroupLines([c EXCEPT !.rowgroup_ctr = g - 1]))])
RawRead(c) ==
  IF c.ret = "suspended" \/ c.hangs THEN c
  ELSE [c EXCEPT !.out = RawLines(c), !.first = c.output_scanline, !.ret = "ok",
                 !.output_scanline = @ + MaxVert(c) * MinSize(c)]
ReadRawData ==
  /\ Running({"RAW_OK"}) /\ cinfo.output_scanline < OutputHeight(cinfo)
  /\ cinfo' = Then(DecompressData(Quiet(cinfo)), RawRead)

\* jpeg_start_output: a scan beyond the last one becomes the last one.
StartOutput ==
  /\ Running({"BUFIMAGE", "PRESCAN"}) /\ cinfo.opts.buffered_image
  /\ \E scan_number \in {cinfo.input_scan_number, cinfo.input_scan_number + 1, 1} :
       cinfo' = OutputPassSetup([Quiet(cinfo) EXCEPT
         !.output_scan_number = IF cinfo.eoi_reached THEN Min({scan_number, cinfo.input_scan_number})
                                ELSE scan_number])

\* jpeg_finish_output: on to the next scan.
OutputFinished(c) ==
  IF c.ret = "suspended" \/ c.hangs THEN c ELSE [c EXCEPT !.global_state = "BUFIMAGE"]
FinishOutput ==
  /\ Running({"SCANNING", "RAW_OK", "BUFPOST"}) /\ cinfo.opts.buffered_image
  /\ LET c == IF cinfo.global_state = "BUFPOST" THEN cinfo
              ELSE [FinishOutputPass(Quiet(cinfo)) EXCEPT !.global_state = "BUFPOST"]
     IN  cinfo' = Then(ConsumeUntil(c, "scan"), OutputFinished)

\* jpeg_consume_input, by an application that reads ahead.  Where the image is
\* not buffered dummy_consume_data stands in for the data of a scan: it answers
\* JPEG_SUSPENDED whatever the source has, which is told apart here as "dummy".
Dummy(c) == c.consume_input = "data" /\ ~c.full_buffer
ConsumeAhead ==
  /\ Running({"PRELOAD", "PRESCAN", "SCANNING", "RAW_OK", "BUFIMAGE", "BUFPOST", "STOPPING"})
  /\ cinfo' = IF Dummy(cinfo) THEN Answers(Quiet(cinfo), "dummy") ELSE ConsumeInput(Quiet(cinfo))

\* jpeg_read_coefficients.
CoefficientsRead(c) ==
  IF c.ret = "suspended" \/ c.hangs THEN c ELSE [c EXCEPT !.global_state = "STOPPING"]
ReadCoefficients ==
  \/ /\ Running({"READY"})
     /\ \E opts \in cinfo.may :
          /\ opts.buffered_image
          /\ cinfo' = Then(Then(MasterSelection([cinfo EXCEPT !.opts = opts], TRUE), LAMBDA c :
                              ConsumeUntil([c EXCEPT !.global_state = "RDCOEFS"], "EOI")),
                           CoefficientsRead)
  \/ Running({"RDCOEFS"}) /\ cinfo' = Then(ConsumeUntil(cinfo, "EOI"), CoefficientsRead)

\* jpeg_finish_decompress: the file is read to its end.
Ended(c) == IF c.ret = "suspended" \/ c.hangs THEN c ELSE Quiet(Reset(c))
FinishDecompress ==
  /\ \/ Running({"SCANNING", "RAW_OK"}) /\ ~cinfo.opts.buffered_image
     \/ Running({"BUFIMAGE", "STOPPING"})
  /\ cinfo' =
       IF cinfo.global_state \in {"SCANNING", "RAW_OK"} /\ cinfo.output_scanline < OutputHeight(cinfo)
       THEN Fail(cinfo)
       ELSE Then(ConsumeUntil([Quiet(cinfo) EXCEPT !.global_state = "STOPPING"], "EOI"), Ended)

\* jpeg_abort_decompress; the application turns to the next image, if any.
NextImage(c) ==
  LET next == {n \in c.pos..Len(c.items) : c.items[n].t = "SOI"}
  IN  IF next = {} THEN Len(c.items) + 1 ELSE Min(next)
Abort ==
  /\ cinfo.global_state # "START" /\ ~cinfo.hangs
  /\ cinfo' = [Quiet(Reset(cinfo)) EXCEPT !.error = FALSE, !.pos = NextImage(cinfo)]

\* More of the file arrives at a source that suspends.
Supply ==
  /\ cinfo.suspends /\ ~cinfo.error /\ cinfo.avail < Len(cinfo.items)
  /\ \E n \in Supplies :
       cinfo' = [cinfo EXCEPT !.avail = Min({@ + n, Len(cinfo.items)}), !.ret = ""]

Next ==
  \/ ReadHeader \/ StartDecompress \/ (\E n \in Chunks : ReadScanlines(n)) \/ ReadRawData
  \/ StartOutput \/ FinishOutput \/ ConsumeAhead \/ ReadCoefficients \/ FinishDecompress
  \/ Abort \/ Supply

Spec == Init /\ [][Next]_cinfo

-----------------------------------------------------------------------------
(* Properties *)

\* What scan s holds of a block, if anything: the number of its MCU, and of the
\* block in it.
RefData(c, s, ci, row, col) ==
  LET scan == c.scans[s]
      h(k) == c.image.comp_info[k].h_samp_factor
      across == DivRoundUp(c.image.image_width, MaxH(c.image.comp_info) * DCTSIZE)
      before == {k \in Range(scan.comps) : k < ci}
      offset == MapThenSumSet(LAMBDA k : h(k) * Vsamp(c, k), before)
  IN  IF ci \notin Range(scan.comps) THEN {}
      ELSE IF Len(scan.comps) = 1 THEN {<<s, row * WidthInBlocks(c.image, ci) + col + 1, 1>>}
      ELSE {<<s, (row \div Vsamp(c, ci)) * across + (col \div h(ci)) + 1,
              offset + (row % Vsamp(c, ci)) * h(ci) + (col % h(ci)) + 1>>}
AllData(c, scans, ci, row, col) == UNION {RefData(c, s, ci, row, col) : s \in scans}

\* The rows of a component that line n of the image, counted from 0, is made of.
RefRows(c, ci, n) ==
  LET row == (n * RowGroup(c, ci)) \div MaxVert(c)
      next == IF n % 2 = 0 THEN row - 1 ELSE row + 1
  IN  IF c.opts.upsampler = "context" /\ 2 * RowGroup(c, ci) = MaxVert(c)
      THEN <<row, Max({0, Min({next, DownsampledHeight(c, ci) - 1})})>> ELSE <<row>>

\* The quantization table in force at the first scan of a component.
RefTable(c, ci) ==
  LET sos == {n \in DOMAIN c.items : c.items[n].t = "SOS" /\ ci \in Range(c.items[n].scan.comps)}
      dqt == {n \in DOMAIN c.items : /\ c.items[n].t = "DQT" /\ n < Min(sos)
                                     /\ c.items[n].slot = c.image.comp_info[ci].quant_tbl_no}
  IN  c.items[Max(dqt)].content

\* Every sample of the lines the last call put out satisfies Good.
EverySample(c, Good(_, _, _, _)) ==
  \A i \in DOMAIN c.out : c.first + i - 1 < OutputHeight(c) =>
    \A ci \in Components(c) :
      LET ref == RefRows(c, ci, c.first + i - 1)
      IN  /\ Len(c.out[i].rows[ci]) = Len(ref)
          /\ \A k \in DOMAIN ref : \A col \in 0..WidthInBlocks(c.image, ci) - 1 :
               Good(ci, ref[k], col, c.out[i].rows[ci][k][col])

\* Every line put out is the next one of the image, made of the rows of samples
\* that belong to it and of nothing else, from the blocks at their place and
\* the table of the component's first scan: in whatever chunks it is read,
\* wherever the input had to wait, at every scale, with rows blended in from
\* the neighbours or not (jdmainct.c, "funny pointers"; jdmerge.c, the spare row).
LinesInPlace ==
  LET good(ci, row, col, x) ==
        /\ x.row = row % ScaledSize(cinfo, ci)
        /\ x.data \subseteq AllData(cinfo, DOMAIN cinfo.scans, ci, row \div ScaledSize(cinfo, ci), col)
        /\ x.table \in {NoTable, RefTable(cinfo, ci)}
  IN  EverySample(cinfo, good)

Shown(c) == IF c.complete \/ ~c.opts.buffered_image THEN DOMAIN c.scans ELSE 1..c.output_scan_number
Dcs(c, scans) == {s \in scans : c.scans[s].Ss = 0}

\* Of a file that is whole, the lines put out show all of the scan that was asked
\* for, of the components known when the pass began; blocks smoothed are smoothed
\* from DCs of that scan; two-pass colors are chosen from the whole image; and
\* the coefficients given to a transcoder are all there.
LinesComplete ==
  LET near(x, k, ci, row, col) ==
        AllData(cinfo, Dcs(cinfo, Shown(cinfo)), ci, row, col) \subseteq x.near[k]
      high(ci) == HeightInBlocks(cinfo.image, ci)
      good(ci, row, col, x) ==
        LET r == row \div ScaledSize(cinfo, ci)
        IN  x.table # NoTable =>
              /\ AllData(cinfo, Shown(cinfo), ci, r, col) \subseteq x.data
              /\ x.near # <<>> => /\ near(x, 1, ci, Max({0, r - 1}), col)
                                 /\ near(x, 2, ci, Min({high(ci) - 1, r + 1}), col)
      mapped(line) == cinfo.opts.quantize = "two" => line.map = 1..OutputHeight(cinfo)
  IN  cinfo.whole =>
        /\ EverySample(cinfo, good)
        /\ \A i \in DOMAIN cinfo.out : mapped(cinfo.out[i])
        /\ (cinfo.full_buffer /\ cinfo.eoi_reached) =>
             \A ci \in Components(cinfo) :
               \A row \in 0..high(ci) - 1, col \in 0..WidthInBlocks(cinfo.image, ci) - 1 :
                 cinfo.whole_image[ci][<<row, col>>] = AllData(cinfo, DOMAIN cinfo.scans, ci, row, col)

\* A call that ends without a result waits for input that has not come yet, and
\* none waits forever for input that will not come (jdinput.c:319-323,
\* jdapistd.c:119, jdcoefct.c:329).  jpeg_consume_input is the exception where the
\* image is not buffered: it waits for nothing (jdcoefct.c:227-231).
NeverHangs ==
  /\ ~cinfo.hangs
  /\ cinfo.ret = "suspended" => cinfo.suspends /\ cinfo.pos > cinfo.avail

\* What libjpeg.doc:1850 says of jpeg_consume_input: "JPEG_SUSPENDED can occur only
\* if a suspending data source is used."  Its answer for an image that is not
\* buffered is JPEG_SUSPENDED, from any source.
SuspendsOnlyForInput == cinfo.ret \in {"suspended", "dummy"} => cinfo.suspends
=============================================================================
