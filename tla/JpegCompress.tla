----------------------------- MODULE JpegCompress -----------------------------
(***************************************************************************)
(* The compressor of the JPEG library as an application drives it: the     *)
(* calls of jcapimin.c, jcapistd.c and jctrans.c, the passes of jcmaster.c,*)
(* the row buffers of jcmainct.c and jcprepct.c, the coefficients of       *)
(* jccoefct.c, the markers of jcmarker.c, and the tables that stay in the  *)
(* object from one image to the next.                                      *)
(*                                                                         *)
(* Samples are told apart by the scanlines they are made of, coefficient   *)
(* blocks by their samples, tables by when they were made.  The file is a  *)
(* sequence of tokens.  "room" is what the destination still takes; a      *)
(* destination that suspends takes no more until the application has taken *)
(* the data, any other one empties itself.                                 *)
(***************************************************************************)
EXTENDS JpegFrame, Loops

CONSTANTS
  Images,      \* the parameter sets an application may ask for
  Qualities,   \* the quantization tables an application may ask for
  Chunks,      \* how many scanlines it may write at a time
  Rooms,       \* what a suspending destination takes before it is full
  MaxFiles     \* how many times a file is started

\* The parameters are of the types jpeglib.h gives them, and name tables that
\* the object has a place for.
Slots == {0, 1}
Components == [id : Int, h_samp_factor : Int, v_samp_factor : Int,
               quant_tbl_no : Slots, dc_tbl_no : Slots, ac_tbl_no : Slots]
Scans == [comps : Seq(Int), Ss : Int, Se : Int, Ah : Int, Al : Int]
Parameters ==
  [image_width : Nat, image_height : Nat, comp_info : Seq(Components), scan_info : Seq(Scans),
   optimize_coding : BOOLEAN, raw_data_in : BOOLEAN, context_rows : BOOLEAN,
   restart_interval : Nat, restart_in_rows : Nat,
   write_JFIF_header : BOOLEAN, write_Adobe_marker : BOOLEAN]

ASSUME ImagesAssumption == \A image \in Images : image \in Parameters
ASSUME RoomsAssumption == \A room \in Rooms : room \in Nat

VARIABLES
  cinfo,   \* the compression object
  known,   \* what a decoder of the finished files knows: the tables
  calls    \* started: files begun; whole: every file was finished so far

vars == <<cinfo, known, calls>>

NoTable == [content |-> <<>>, sent_table |-> FALSE]
NoTables == [s \in Slots |-> NoTable]
Nothing == [quant |-> [s \in Slots |-> <<>>], dc |-> [s \in Slots |-> <<>>],
            ac |-> [s \in Slots |-> <<>>]]
Unlimited == 1000000

MaxVert(c) == c.max_v_samp_factor
ProgressiveMode(c) == Progressive(c.image.scan_info)
OptimizeCoding(c) == c.image.optimize_coding \/ ProgressiveMode(c)
FullBuffer(c) == NumScans(c.image) > 1 \/ OptimizeCoding(c)

\* What f gives, and g where f gives nothing.
Over(f, g) == [x \in DOMAIN f \cup DOMAIN g |-> IF x \in DOMAIN f THEN f[x] ELSE g[x]]

Then(c, Op(_)) == IF c.error THEN c ELSE Op(c)
Fail(c) == [c EXCEPT !.error = TRUE]

-----------------------------------------------------------------------------
(* What the blocks of an image are made of *)

\* The scanlines a sample row i of a component is made of, counted from 1.  The
\* last line is repeated below the image; a whole row group below it repeats
\* the last row of samples, unless rows are made with those around them.
RefRow(image, ci, i) ==
  LET v == image.comp_info[ci].v_samp_factor
      many == MaxV(image.comp_info) \div v
      last == DivRoundUp(image.image_height, MaxV(image.comp_info)) * v
      j == IF image.context_rows THEN i ELSE Min({i, last})
      clip(n) == Max({1, Min({n, image.image_height})})
      around == IF image.context_rows THEN 1 ELSE 0
  IN  [k \in 1..many + 2 * around |-> clip(many * (j - 1) + k - around)]
RefLines(image, ci, row) == [r \in 1..DCTSIZE |-> RefRow(image, ci, row * DCTSIZE + r)]

\* A block: its component, its place, the sample rows it was made of (none for a
\* dummy, which has only the DC of the block it names).
DctBlock(ci, row, col, lines) == [comp |-> ci, row |-> row, col |-> col, lines |-> lines]
Dummy(block) == [block EXCEPT !.lines = <<>>]
RefBlock(image, ci, row, col) == DctBlock(ci, row, col, RefLines(image, ci, row))

\* The coefficients an application has read from another file.
SourceCoefficients(image) ==
  [ci \in DOMAIN image.comp_info |->
     [x \in (0..HeightInBlocks(image, ci) - 1) \X (0..WidthInBlocks(image, ci) - 1) |->
        RefBlock(image, ci, x[1], x[2])]]

-----------------------------------------------------------------------------
(* Markers: jcmarker.c *)

\* Markers cannot wait: with no room left for them the file is given up.
Emit(c, tokens) ==
  IF c.room = 0 THEN Fail(c) ELSE [c EXCEPT !.file = @ \o tokens, !.room = @ - 1]

WriteFileHeader(c) ==
  LET jfif == IF c.image.write_JFIF_header THEN <<[t |-> "APP0"]>> ELSE <<>>
      adobe == IF c.image.write_Adobe_marker THEN <<[t |-> "APP14"]>> ELSE <<>>
  IN  Emit([c EXCEPT !.last_restart_interval = 0], <<[t |-> "SOI"]>> \o jfif \o adobe)

\* emit_dqt, emit_dht: a table that was sent is not sent again.
Define(kind, tbls, used, s) ==
  IF s \in used /\ ~tbls[s].sent_table
  THEN <<[t |-> kind, slot |-> s, content |-> tbls[s].content]>> ELSE <<>>
Definitions(kind, tbls, used) == Define(kind, tbls, used, 0) \o Define(kind, tbls, used, 1)
MarkSent(tbls, used) ==
  [s \in Slots |-> IF s \in used THEN [tbls[s] EXCEPT !.sent_table = TRUE] ELSE tbls[s]]

\* write_frame_header: the quantization tables, then the frame.
FrameHeader(c, used) ==
  IF \E s \in used : c.quant[s] = NoTable THEN Fail(c)
  ELSE Emit([c EXCEPT !.quant = MarkSent(@, used)],
            Definitions("DQT", c.quant, used)
            \o <<[t |-> "SOF", quant |-> [s \in used |-> c.quant[s].content],
                  progressive |-> ProgressiveMode(c)]>>)
WriteFrameHeader(c) ==
  FrameHeader(c, {c.image.comp_info[ci].quant_tbl_no : ci \in DOMAIN c.image.comp_info})

\* The Huffman tables a scan is coded with.
DcSlots(c) ==
  IF ProgressiveMode(c) /\ (c.scan.Ss # 0 \/ c.scan.Ah # 0) THEN {}
  ELSE {c.image.comp_info[ci].dc_tbl_no : ci \in Range(c.scan.comps)}
AcSlots(c) ==
  IF ProgressiveMode(c) /\ c.scan.Ss = 0 THEN {}
  ELSE {c.image.comp_info[ci].ac_tbl_no : ci \in Range(c.scan.comps)}

\* The restart interval is written if it is another one than the file's last.
RestartMarker(c) ==
  IF c.restart_interval = c.last_restart_interval THEN <<>>
  ELSE <<[t |-> "DRI", interval |-> c.restart_interval]>>

\* write_scan_header: the tables, the restart interval, and the scan.
ScanHeader(c, dc, ac) ==
  Emit([c EXCEPT !.dc = MarkSent(@, dc), !.ac = MarkSent(@, ac),
                 !.last_restart_interval = c.restart_interval],
       Definitions("DHT_DC", c.dc, dc) \o Definitions("DHT_AC", c.ac, ac) \o RestartMarker(c)
       \o <<[t |-> "SOS", scan |-> c.scan_number + 1, interval |-> c.restart_interval,
             dc |-> c.coding.dc, ac |-> c.coding.ac]>>)
WriteScanHeader(c) == ScanHeader(c, DcSlots(c), AcSlots(c))

\* write_tables_only: every table there is that was not sent yet.
WriteTablesOnly(c) ==
  LET there(tbls) == {s \in Slots : tbls[s].content # <<>>}
  IN  Emit([c EXCEPT !.quant = MarkSent(@, there(@)), !.dc = MarkSent(@, there(@)),
                     !.ac = MarkSent(@, there(@))],
           <<[t |-> "SOI"]>> \o Definitions("DQT", c.quant, there(c.quant))
           \o Definitions("DHT_DC", c.dc, there(c.dc))
           \o Definitions("DHT_AC", c.ac, there(c.ac)) \o <<[t |-> "EOI"]>>)

-----------------------------------------------------------------------------
(* Rows: jcprepct.c and jcmainct.c *)

\* start_pass_prep, and the color buffer: three row groups if the downsampler
\* wants the rows around a group, else one.
BufHeight(c) == IF c.image.context_rows THEN 3 * MaxVert(c) ELSE MaxVert(c)
StartPassPrep(c) ==
  [c EXCEPT !.color_buf = [i \in 0..BufHeight(c) - 1 |-> 0],
            !.rows_to_go = c.image.image_height, !.next_buf_row = 0, !.this_row_group = 0,
            !.next_buf_stop = 2 * MaxVert(c)]

\* Scanlines of the caller go into the color buffer.
ConvertRows(c, numrows) ==
  [c EXCEPT !.color_buf = [i \in 0..BufHeight(c) - 1 |->
              IF i \in c.next_buf_row..c.next_buf_row + numrows - 1
              THEN c.next_scanline + c.in_row_ctr + i - c.next_buf_row + 1 ELSE c.color_buf[i]],
            !.in_row_ctr = @ + numrows, !.next_buf_row = @ + numrows, !.rows_to_go = @ - numrows]

\* expand_bottom_edge on the color buffer, up to row "stop".
ExpandColor(c, stop) ==
  [c EXCEPT !.color_buf = [i \in 0..BufHeight(c) - 1 |->
              IF i \in c.next_buf_row..stop - 1 THEN c.color_buf[(c.next_buf_row - 1) % BufHeight(c)]
              ELSE c.color_buf[i]],
            !.next_buf_row = stop]

\* downsample: row group "rowgroup_ctr" of each component, from the rows of the
\* color buffer that start at "first"; the buffer wraps around.
Downsample(c, first) ==
  LET v(ci) == c.image.comp_info[ci].v_samp_factor
      many(ci) == MaxVert(c) \div v(ci)
      around == IF c.image.context_rows THEN 1 ELSE 0
      row(ci, j) == [k \in 1..many(ci) + 2 * around |->
                       c.color_buf[(first + (j - 1) * many(ci) + k - 1 - around) % BufHeight(c)]]
      old(ci) == c.rowgroup_ctr * v(ci)
  IN  [c EXCEPT !.main_buffer = [ci \in DOMAIN c.image.comp_info |->
              [r \in 1..v(ci) * DCTSIZE |->
                 IF r - old(ci) \in 1..v(ci) THEN row(ci, r - old(ci)) ELSE c.main_buffer[ci][r]]],
            !.rowgroup_ctr = @ + 1]

\* expand_bottom_edge on what is left of the iMCU row.
ExpandOutput(c) ==
  [c EXCEPT !.main_buffer = [ci \in DOMAIN c.image.comp_info |->
              LET last == c.rowgroup_ctr * c.image.comp_info[ci].v_samp_factor
              IN  [r \in DOMAIN c.main_buffer[ci] |-> c.main_buffer[ci][IF r > last THEN last ELSE r]]],
            !.rowgroup_ctr = DCTSIZE]

\* Without context: a group is downsampled as soon as its rows are there.
SimpleGroup(c) ==
  IF c.next_buf_row < MaxVert(c) THEN c
  ELSE [Downsample(c, 0) EXCEPT !.next_buf_row = 0]

BottomOrMore(c) == IF c.rows_to_go = 0 /\ c.rowgroup_ctr < DCTSIZE THEN ExpandOutput(c) ELSE c
LastRows(c) == IF c.rows_to_go = 0 THEN ExpandColor(c, MaxVert(c)) ELSE c
SimpleRows(c) ==
  IF c.in_row_ctr >= c.in_rows_avail \/ c.rowgroup_ctr >= DCTSIZE THEN c
  ELSE BottomOrMore(SimpleGroup(LastRows(ConvertRows(c,
         Min({MaxVert(c) - c.next_buf_row, c.in_rows_avail - c.in_row_ctr})))))

\* With context: the first rows are copied above themselves, a group waits for
\* the rows below it, and the three groups are used in turn.
FirstAbove(c) ==
  [c EXCEPT !.color_buf = [i \in 0..BufHeight(c) - 1 |->
              IF i >= 2 * MaxVert(c) THEN c.color_buf[0] ELSE c.color_buf[i]]]

\* Both places in the buffer wrap around.
NextGroup(c, next_row) ==
  [c EXCEPT !.this_row_group = (@ + MaxVert(c)) % BufHeight(c), !.next_buf_row = next_row % BufHeight(c),
            !.next_buf_stop = (next_row % BufHeight(c)) + MaxVert(c)]
ContextGroup(c) ==
  IF c.next_buf_row < c.next_buf_stop THEN c
  ELSE NextGroup(Downsample(c, c.this_row_group), c.next_buf_row)

ContextRows(c) ==
  LET read == ConvertRows(c, Min({c.next_buf_stop - c.next_buf_row, c.in_rows_avail - c.in_row_ctr}))
  IN  IF c.in_row_ctr >= c.in_rows_avail THEN ExpandColor(c, c.next_buf_stop)
      ELSE IF c.rows_to_go = c.image.image_height THEN FirstAbove(read) ELSE read

ContextStep(c) ==
  IF c.rowgroup_ctr >= DCTSIZE \/ (c.in_row_ctr >= c.in_rows_avail /\ c.rows_to_go # 0) THEN c
  ELSE ContextGroup(ContextRows(c))

\* A round of either loop takes a line of the caller's or ends a row group, so
\* that no loop goes round more often than there are lines and row groups.
PreProcessData(c) ==
  LET rounds == c.image.image_height + DCTSIZE
  IN  IF c.rowgroup_ctr >= DCTSIZE THEN c
      ELSE IF c.image.context_rows THEN Repeat(ContextStep, c, rounds)
      ELSE Repeat(SimpleRows, c, rounds)

-----------------------------------------------------------------------------
(* Coefficients: jccoefct.c and jctrans.c *)

\* forward_DCT of row y of blocks of the iMCU row in the buffer.
Lines(c, ci, y) == [r \in 1..DCTSIZE |-> c.main_buffer[ci][y * DCTSIZE + r]]

\* The blocks in an iMCU row of a component, and those an MCU row is padded to.
RowsHere(c, ci) ==
  IF c.iMCU_row_num < c.total_iMCU_rows - 1 THEN c.image.comp_info[ci].v_samp_factor
  ELSE LastOf(HeightInBlocks(c.image, ci), c.image.comp_info[ci].v_samp_factor)
PaddedWidth(c, ci) ==
  DivRoundUp(WidthInBlocks(c.image, ci), c.image.comp_info[ci].h_samp_factor)
    * c.image.comp_info[ci].h_samp_factor

\* compress_first_pass: the iMCU row is stored, padded with dummies to the right
\* with the DC of the row's last block, below with that of the MCU's above.
StoredRows(c) ==
  LET h(ci) == c.image.comp_info[ci].h_samp_factor
      v(ci) == c.image.comp_info[ci].v_samp_factor
      top(ci) == c.iMCU_row_num * v(ci)
      real(ci, y, col) == DctBlock(ci, top(ci) + y, col, Lines(c, ci, y))
      stored(ci, y, col) == IF col < WidthInBlocks(c.image, ci) THEN real(ci, y, col)
                            ELSE Dummy(real(ci, y, WidthInBlocks(c.image, ci) - 1))
      below(ci, col) == Dummy(stored(ci, RowsHere(c, ci) - 1, (col \div h(ci)) * h(ci) + h(ci) - 1))
      row(ci) == [x \in (0..v(ci) - 1) \X (0..PaddedWidth(c, ci) - 1) |->
                    IF x[1] < RowsHere(c, ci) THEN stored(ci, x[1], x[2]) ELSE below(ci, x[2])]
  IN  [ci \in DOMAIN c.image.comp_info |->
         Over([x \in {<<top(ci) + y, col>> : y \in 0..v(ci) - 1, col \in 0..PaddedWidth(c, ci) - 1} |->
                 row(ci)[<<x[1] - top(ci), x[2]>>]],
              c.whole_image[ci])]
StoreIMCURow(c) == [c EXCEPT !.whole_image = StoredRows(c)]

\* The places of the blocks of an MCU: index in the scan, row in the MCU, column.
Places(c) ==
  FlattenSeq([i \in DOMAIN c.scan.comps |->
    [n \in 1..c.scan.MCU_width[i] * c.scan.MCU_height[i] |->
       <<i, (n - 1) \div c.scan.MCU_width[i], (n - 1) % c.scan.MCU_width[i]>>]])

\* Whether there is a block at a place of the MCU at yoffset, col.  The blocks
\* stored by compress_first_pass have their dummies already.
IsThere(c, place, yoffset, col) ==
  \/ c.compress_data = "compress_output"
  \/ /\ \/ c.iMCU_row_num < c.total_iMCU_rows - 1
        \/ place[2] + yoffset < c.scan.last_row_height[place[1]]
     /\ \/ col < c.scan.MCUs_per_row - 1
        \/ place[3] < c.scan.last_col_width[place[1]]

BlockAt(c, ci, y, x) ==
  LET row == c.iMCU_row_num * c.image.comp_info[ci].v_samp_factor + y
  IN  IF c.compress_data = "compress_data" THEN DctBlock(ci, row, x, Lines(c, ci, y))
      ELSE c.whole_image[ci][<<row, x>>]

\* An MCU: where there is no block, the DC of the one before it is repeated.
MCUOf(c, places, yoffset, col) ==
  LET there == {n \in DOMAIN places : IsThere(c, places[n], yoffset, col)}
      block(place) == BlockAt(c, c.scan.comps[place[1]], place[2] + yoffset,
                              col * c.scan.MCU_width[place[1]] + place[3])
  IN  [n \in DOMAIN places |->
         IF n \in there THEN block(places[n]) ELSE Dummy(block(places[Max({m \in there : m < n})]))]

\* The MCUs of the iMCU row that are still to be coded.
MCUsLeft(c) ==
  LET from == c.MCU_vert_offset * c.scan.MCUs_per_row + c.mcu_ctr
  IN  [n \in 1..c.MCU_rows_per_iMCU_row * c.scan.MCUs_per_row - from |->
         <<(from + n - 1) \div c.scan.MCUs_per_row, (from + n - 1) % c.scan.MCUs_per_row>>]

StartIMCURow(c) ==
  [c EXCEPT !.MCU_rows_per_iMCU_row =
              IF Len(c.scan.comps) > 1 THEN 1
              ELSE IF c.iMCU_row_num < c.total_iMCU_rows - 1
                   THEN c.image.comp_info[c.scan.comps[1]].v_samp_factor
              ELSE c.scan.last_row_height[1],
            !.mcu_ctr = 0, !.MCU_vert_offset = 0]

\* Mutant: an MCU row that waited starts from its first MCU.
WaitAtRow(c, mcu) == [c EXCEPT !.MCU_vert_offset = mcu[1], !.done = FALSE]

WaitAt(c, mcu) == [c EXCEPT !.MCU_vert_offset = mcu[1], !.mcu_ctr = mcu[2], !.done = FALSE]

\* encode_mcu writes nothing while it gathers statistics.
EncodeMCUs(c, mcus, places) ==
  IF c.coding.gather THEN c
  ELSE [c EXCEPT !.room = @ - Len(mcus),
                 !.file = @ \o [n \in DOMAIN mcus |->
                    [t |-> "MCU", blocks |-> MCUOf(c, places, mcus[n][1], mcus[n][2])]]]

\* compress_data: the MCUs are coded as long as the destination takes them.
CompressSome(c, left, many) ==
  IF many = Len(left)
  THEN StartIMCURow([EncodeMCUs(c, left, Places(c)) EXCEPT !.iMCU_row_num = @ + 1, !.done = TRUE])
  ELSE WaitAt(EncodeMCUs(c, SubSeq(left, 1, many), Places(c)), left[many + 1])
CompressLeft(c, left) ==
  CompressSome(c, left, IF c.coding.gather THEN Len(left) ELSE Min({Len(left), c.room}))
CompressMCUs(c) == CompressLeft(c, MCUsLeft(c))

\* The method start_pass_coef chose.  In the first of several passes the row is
\* stored before it is coded, again if it had to wait.
CompressData(c) ==
  LET first == c.compress_data = "compress_first_pass"
  IN  [CompressMCUs(IF first THEN [StoreIMCURow(c) EXCEPT !.compress_data = "compress_output"] ELSE c)
         EXCEPT !.compress_data = c.compress_data]

-----------------------------------------------------------------------------
(* Passes: jcmaster.c *)

\* start_pass of the entropy coder: the tables it codes with must be there.
StartPassEntropy(c, gather) ==
  LET used(tbls, slots) == [s \in slots |-> tbls[s].content]
      missing == <<>> \in Range(used(c.dc, DcSlots(c))) \cup Range(used(c.ac, AcSlots(c)))
  IN  IF ~gather /\ missing THEN Fail(c)
      ELSE [c EXCEPT !.coding = [gather |-> gather, dc |-> used(c.dc, DcSlots(c)),
                                 ac |-> used(c.ac, AcSlots(c))]]

StartPassCoef(c, method) == StartIMCURow([c EXCEPT !.iMCU_row_num = 0, !.compress_data = method])

\* start_pass_main.
StartPassMain(c) == [c EXCEPT !.cur_iMCU_row = 0, !.rowgroup_ctr = 0, !.suspended = FALSE]

PrepareMainPass(c) ==
  Then(StartPassEntropy(c, OptimizeCoding(c)), LAMBDA d :
    [StartPassMain(StartPassCoef(StartPassPrep(d),
         IF c.total_passes > 1 THEN "compress_first_pass" ELSE "compress_data"))
       EXCEPT !.call_pass_startup = ~OptimizeCoding(c)])

Crank(c) ==
  StartPassCoef([c EXCEPT !.call_pass_startup = FALSE],
                IF c.global_state = "WRCOEFS" THEN "transencode" ELSE "compress_output")

PrepareOptPass(c) == Then(StartPassEntropy(c, TRUE), Crank)

PrepareOutputPass(c) ==
  Then(Then(StartPassEntropy(c, FALSE), LAMBDA d :
         IF d.scan_number = 0 THEN WriteFrameHeader(Crank(d)) ELSE Crank(d)),
       WriteScanHeader)

\* select_scan_parameters and per_scan_setup.
SetScan(c, scan) ==
  LET geometry == PerScanSetup(c.image, scan)
  IN  IF ~LegalScan(c.image, scan) THEN Fail(c)
      ELSE [c EXCEPT !.scan = Over(scan, geometry),
                     !.restart_interval = RestartInterval(c.image, geometry.MCUs_per_row)]

\* prepare_for_pass: a DC refinement needs no table of its own, and its pass for
\* the statistics is skipped.
SkipsOpt(c) ==
  IF c.pass_type = "huff_opt_pass" /\ c.scan.Ss = 0 /\ c.scan.Ah # 0
  THEN [c EXCEPT !.pass_type = "output_pass", !.pass_number = @ + 1] ELSE c
Prepared(c) ==
  CASE c.pass_type = "main_pass" -> PrepareMainPass(c)
    [] c.pass_type = "huff_opt_pass" -> PrepareOptPass(c)
    [] OTHER -> PrepareOutputPass(c)
PrepareForPass(c) ==
  Then(SetScan(c, ScanOf(c.image, c.scan_number + 1)), LAMBDA d :
    Then(Prepared(SkipsOpt(d)), LAMBDA e :
      [e EXCEPT !.is_last_pass = e.pass_number = e.total_passes - 1]))

\* pass_startup: the headers of a file written in one pass come with its first
\* scanlines, so that the application may write markers before.
PassStartup(c) ==
  IF ~c.call_pass_startup THEN c
  ELSE Then(WriteFrameHeader([c EXCEPT !.call_pass_startup = FALSE]), WriteScanHeader)

\* Mutant: new tables count as sent.
FinishEntropySent(c) ==
  LET new(tbls, slots) == [s \in Slots |-> IF s \in slots
        THEN [content |-> <<calls.started, c.scan_number>>, sent_table |-> tbls[s].sent_table]
        ELSE tbls[s]]
  IN  IF c.coding.gather THEN [c EXCEPT !.dc = new(@, DcSlots(c)), !.ac = new(@, AcSlots(c))]
      ELSE Emit(c, <<>>)

\* finish_pass of the entropy coder: new tables, or the last bits.
FinishEntropy(c) ==
  LET new(tbls, slots) == [s \in Slots |-> IF s \in slots
        THEN [content |-> <<calls.started, c.scan_number>>, sent_table |-> FALSE] ELSE tbls[s]]
  IN  IF c.coding.gather THEN [c EXCEPT !.dc = new(@, DcSlots(c)), !.ac = new(@, AcSlots(c))]
      ELSE Emit(c, <<>>)

\* Mutant: the single pass of a scan does not count it.
FinishPassMasterMain(c) ==
  LET next == IF c.pass_type = "output_pass" /\ OptimizeCoding(c) THEN "huff_opt_pass"
              ELSE "output_pass"
  IN  Then(FinishEntropy(c), LAMBDA d :
        [d EXCEPT !.pass_type = next, !.pass_number = @ + 1,
                  !.scan_number = IF c.pass_type = "output_pass" THEN @ + 1 ELSE @])

\* finish_pass_master: a pass that coded a scan goes on to the next one.
FinishPassMaster(c) ==
  LET coded == c.pass_type = "output_pass" \/ (c.pass_type = "main_pass" /\ ~OptimizeCoding(c))
      next == IF c.pass_type = "output_pass" /\ OptimizeCoding(c) THEN "huff_opt_pass"
              ELSE "output_pass"
  IN  Then(FinishEntropy(c), LAMBDA d :
        [d EXCEPT !.pass_type = next, !.pass_number = @ + 1,
                  !.scan_number = IF coded THEN @ + 1 ELSE @])

\* jinit_downsampler: every component is the finest one made coarser by whole
\* numbers of samples.
WholeRatios(comp_info) ==
  \A c \in Range(comp_info) :
    MaxH(comp_info) % c.h_samp_factor = 0 /\ MaxV(comp_info) % c.v_samp_factor = 0

\* jinit_c_master_control and the modules it is followed by.
InitMaster(c, transcode) ==
  IF ~LegalImage(c.image)
     \/ (~transcode /\ ~c.image.raw_data_in /\ ~WholeRatios(c.image.comp_info))
     \/ (c.image.scan_info # <<>> /\ ~ValidateScript(Len(c.image.comp_info), c.image.scan_info))
  THEN Fail(c)
  ELSE WriteFileHeader([c EXCEPT
         !.pass_type = IF ~transcode THEN "main_pass"
                       ELSE IF OptimizeCoding(c) THEN "huff_opt_pass" ELSE "output_pass",
         !.scan_number = 0, !.pass_number = 0, !.is_last_pass = FALSE,
         !.total_passes = IF OptimizeCoding(c) THEN 2 * NumScans(c.image) ELSE NumScans(c.image),
         !.max_v_samp_factor = MaxV(c.image.comp_info), !.total_iMCU_rows = TotalIMCURows(c.image),
         !.main_buffer = [ci \in DOMAIN c.image.comp_info |->
            [r \in 1..c.image.comp_info[ci].v_samp_factor * DCTSIZE |-> <<>>]],
         !.whole_image = IF transcode THEN SourceCoefficients(c.image)
                         ELSE [ci \in DOMAIN c.image.comp_info |-> <<>>]])

-----------------------------------------------------------------------------
(* Calls *)

\* jpeg_set_defaults and the parameters the application sets after it.
DefaultTables(content) == [s \in Slots |-> [content |-> <<content>>, sent_table |-> FALSE]]

\* Fields of the image are freed with it; the tables stay.
JpegAbort(c) ==
  [c EXCEPT !.global_state = "START", !.next_scanline = 0, !.in_row_ctr = 0, !.in_rows_avail = 0,
            !.pass_type = "none", !.pass_number = 0, !.total_passes = 0, !.scan_number = 0,
            !.is_last_pass = FALSE, !.call_pass_startup = FALSE,
            !.cur_iMCU_row = 0, !.rowgroup_ctr = 0, !.suspended = FALSE, !.main_buffer = <<>>,
            !.rows_to_go = 0, !.next_buf_row = 0, !.this_row_group = 0, !.next_buf_stop = 0,
            !.color_buf = <<>>, !.iMCU_row_num = 0, !.mcu_ctr = 0, !.MCU_vert_offset = 0,
            !.MCU_rows_per_iMCU_row = 0, !.whole_image = <<>>, !.compress_data = "none",
            !.coding = <<>>, !.last_restart_interval = 0, !.done = FALSE, !.scan = <<>>,
            !.restart_interval = 0, !.max_v_samp_factor = 0, !.total_iMCU_rows = 0]

\* jpeg_CreateCompress, jpeg_stdio_dest or a destination that suspends, and
\* jpeg_set_defaults.
Init ==
  /\ \E image \in Images, q \in Qualities, suspends \in BOOLEAN, room \in Rooms :
       cinfo = [image |-> image, suspends |-> suspends, error |-> FALSE,
                room |-> IF suspends THEN room ELSE Unlimited, file |-> <<>>, all |-> FALSE,
                quant |-> DefaultTables(q), dc |-> DefaultTables("std"), ac |-> DefaultTables("std"),
                global_state |-> "START", next_scanline |-> 0, in_row_ctr |-> 0,
                in_rows_avail |-> 0, pass_type |-> "none", pass_number |-> 0, total_passes |-> 0,
                scan_number |-> 0, is_last_pass |-> FALSE, call_pass_startup |-> FALSE,
                cur_iMCU_row |-> 0, rowgroup_ctr |-> 0, suspended |-> FALSE,
                main_buffer |-> <<>>, rows_to_go |-> 0, next_buf_row |-> 0,
                this_row_group |-> 0, next_buf_stop |-> 0, color_buf |-> <<>>,
                iMCU_row_num |-> 0, mcu_ctr |-> 0, MCU_vert_offset |-> 0,
                MCU_rows_per_iMCU_row |-> 0, whole_image |-> <<>>, compress_data |-> "none",
                coding |-> <<>>, last_restart_interval |-> 0, done |-> FALSE, scan |-> <<>>,
                restart_interval |-> 0, max_v_samp_factor |-> 0, total_iMCU_rows |-> 0]
  /\ known = Nothing
  /\ calls = [started |-> 0, whole |-> TRUE]

Idle == cinfo.global_state = "START" /\ ~cinfo.error
Settled(c) == IF c.suspends THEN c ELSE [c EXCEPT !.room = Unlimited]

\* Parameters for the next image; a table that is set again is to be sent again.
SetParameters ==
  /\ Idle /\ calls.started < MaxFiles
  /\ \E image \in Images, q \in Qualities :
       cinfo' = [cinfo EXCEPT !.image = image, !.file = <<>>, !.quant = DefaultTables(q)]
  /\ UNCHANGED <<known, calls>>

\* jpeg_copy_critical_parameters, from a file that was read: the components and
\* the quantization tables are its own, everything else is a default again.
CopyCriticalParameters ==
  /\ Idle /\ calls.started < MaxFiles
  /\ \E image \in Images, q \in Qualities :
       cinfo' = [cinfo EXCEPT
         !.image = [image EXCEPT !.scan_info = <<>>, !.optimize_coding = FALSE, !.raw_data_in = FALSE,
                                 !.restart_interval = 0, !.restart_in_rows = 0],
         !.file = <<>>, !.quant = DefaultTables(q),
         !.dc = DefaultTables("std"), !.ac = DefaultTables("std")]
  /\ UNCHANGED <<known, calls>>

\* jpeg_suppress_tables, by an application whose decoder has the tables.
SuppressTables ==
  /\ Idle
  /\ \A s \in Slots : /\ known.quant[s] = cinfo.quant[s].content
                      /\ known.dc[s] = cinfo.dc[s].content /\ known.ac[s] = cinfo.ac[s].content
  /\ cinfo' = [cinfo EXCEPT !.quant = MarkSent(@, Slots), !.dc = MarkSent(@, Slots),
                            !.ac = MarkSent(@, Slots)]
  /\ UNCHANGED <<known, calls>>

Unsuppressed(c) ==
  LET unsent(tbls) == [s \in Slots |-> [tbls[s] EXCEPT !.sent_table = FALSE]]
  IN  [c EXCEPT !.quant = unsent(@), !.dc = unsent(@), !.ac = unsent(@)]

\* What the decoder of a file knows after it: the last table the file defines
\* in a place, or what was there before.
LastDefined(file, kind, s, old) ==
  LET at == {n \in DOMAIN file : file[n].t = kind /\ file[n].slot = s}
  IN  IF at = {} THEN old ELSE file[Max(at)].content
After(file, tables) ==
  [quant |-> [s \in Slots |-> LastDefined(file, "DQT", s, tables.quant[s])],
   dc |-> [s \in Slots |-> LastDefined(file, "DHT_DC", s, tables.dc[s])],
   ac |-> [s \in Slots |-> LastDefined(file, "DHT_AC", s, tables.ac[s])]]

\* A call that ends in an error leaves the object to be aborted.
Called(c) == cinfo' = Settled(c)

\* The decoder reads a finished file.
Finished(c) ==
  /\ Called(IF c.error THEN c ELSE JpegAbort(c))
  /\ known' = IF c.error THEN known ELSE After(c.file, known)

WriteTables ==
  /\ Idle /\ calls.started < MaxFiles
  /\ Finished(WriteTablesOnly([cinfo EXCEPT !.file = <<>>]))
  /\ calls' = [calls EXCEPT !.started = @ + 1]

StartCompress ==
  /\ Idle /\ calls.started < MaxFiles
  /\ \E all \in BOOLEAN :
       LET fresh == [IF all THEN Unsuppressed(cinfo) ELSE cinfo EXCEPT !.file = <<>>, !.all = all]
       IN  Called(Then(InitMaster(fresh, FALSE), LAMBDA c :
             [PrepareForPass(c) EXCEPT
                !.global_state = IF c.image.raw_data_in THEN "RAW_OK" ELSE "SCANNING"]))
  /\ calls' = [calls EXCEPT !.started = @ + 1]
  /\ UNCHANGED known

\* jpeg_write_coefficients: all tables are written.
WriteCoefficients ==
  /\ Idle /\ calls.started < MaxFiles
  /\ LET fresh == [Unsuppressed(cinfo) EXCEPT !.file = <<>>, !.all = TRUE]
     IN  Called(Then(InitMaster(fresh, TRUE), LAMBDA c : [c EXCEPT !.global_state = "WRCOEFS"]))
  /\ calls' = [calls EXCEPT !.started = @ + 1]
  /\ UNCHANGED known

Tokens(kinds) == {n \in DOMAIN cinfo.file : cinfo.file[n].t \in kinds}
Running(states) == ~cinfo.error /\ cinfo.global_state \in states

\* jpeg_write_marker, before the first scanlines as its comment asks.  The check
\* of next_scanline alone does not tell: it is still 0 when the first iMCU row
\* had to wait after the headers were written.
WriteMarker ==
  /\ Running({"SCANNING", "RAW_OK", "WRCOEFS"}) /\ cinfo.next_scanline = 0
  /\ Tokens({"COM", "SOS"}) = {}
  /\ Called(Emit(cinfo, <<[t |-> "COM"]>>))
  /\ UNCHANGED <<known, calls>>

\* process_data_simple_main.  An iMCU row that has to wait keeps one line of the
\* caller's back, so that the caller calls again.
NextIMCURow(d) ==
  [d EXCEPT !.in_row_ctr = IF d.suspended THEN @ + 1 ELSE @, !.suspended = FALSE,
            !.rowgroup_ctr = 0, !.cur_iMCU_row = @ + 1]
WaitForRoom(d) ==
  IF d.suspended THEN d ELSE [d EXCEPT !.in_row_ctr = @ - 1, !.suspended = TRUE]

\* One round of its loop, over the object and whether it goes on.
RowsOrReturn(x) ==
  LET c == PreProcessData(x.c)
      d == CompressData(c)
  IN  IF ~x.goes_on \/ x.c.cur_iMCU_row >= x.c.total_iMCU_rows THEN x
      ELSE IF c.rowgroup_ctr # DCTSIZE THEN [c |-> c, goes_on |-> FALSE]
      ELSE IF d.done THEN [c |-> NextIMCURow(d), goes_on |-> TRUE]
      ELSE [c |-> WaitForRoom(d), goes_on |-> FALSE]
ProcessData(c) == Repeat(RowsOrReturn, [c |-> c, goes_on |-> TRUE], c.total_iMCU_rows).c

RowsTaken(c) ==
  [c EXCEPT !.next_scanline = @ + c.in_row_ctr, !.in_row_ctr = 0, !.in_rows_avail = 0]

\* jpeg_write_scanlines, with n lines from where the library says it is.
WriteScanlines(n) ==
  /\ Running({"SCANNING"}) /\ cinfo.next_scanline < cinfo.image.image_height
  /\ Called(Then(PassStartup(cinfo), LAMBDA c :
       RowsTaken(ProcessData([c EXCEPT !.in_row_ctr = 0,
         !.in_rows_avail = Min({n, c.image.image_height - c.next_scanline})]))))
  /\ UNCHANGED <<known, calls>>

\* jpeg_write_raw_data: the iMCU row comes as it is to be coded.
RawRows(c) ==
  [c EXCEPT !.main_buffer = [ci \in DOMAIN c.image.comp_info |->
     LET v == c.image.comp_info[ci].v_samp_factor
     IN  [r \in 1..v * DCTSIZE |->
            RefRow(c.image, ci, (c.next_scanline \div (MaxVert(c) * DCTSIZE)) * v * DCTSIZE + r)]]]

RawTaken(c) == IF c.done THEN [c EXCEPT !.next_scanline = @ + MaxVert(c) * DCTSIZE] ELSE c

WriteRawData ==
  /\ Running({"RAW_OK"}) /\ cinfo.next_scanline < cinfo.image.image_height
  /\ Called(Then(PassStartup(cinfo), LAMBDA c :
       RawTaken(CompressData(RawRows(c)))))
  /\ UNCHANGED <<known, calls>>

\* jpeg_finish_compress: the passes after the first, which cannot wait.
NextRow(c) == IF c.done THEN c ELSE Fail(c)
OneRow(c) == Then(c, LAMBDA d : NextRow(CompressData(d)))
AllRows(c) == Repeat(OneRow, c, c.total_iMCU_rows)

\* Each round makes a pass, and is_last_pass is set by the last of total_passes,
\* which counts the passes that are skipped as well.
OnePass(c) ==
  IF c.error \/ c.is_last_pass THEN c
  ELSE Then(Then(PrepareForPass(c), AllRows), FinishPassMaster)
RemainingPasses(c) == Repeat(OnePass, c, c.total_passes)

FirstPassDone(c) ==
  IF c.global_state = "WRCOEFS" THEN c
  ELSE IF c.next_scanline < c.image.image_height THEN Fail(c) ELSE FinishPassMaster(c)
FinishCompress ==
  /\ Running({"SCANNING", "RAW_OK", "WRCOEFS"})
  /\ Finished(Then(Then(FirstPassDone(cinfo), RemainingPasses), LAMBDA d : Emit(d, <<[t |-> "EOI"]>>)))
  /\ UNCHANGED calls

\* jpeg_abort_compress: the file is given up.
Abort ==
  /\ cinfo.error \/ cinfo.global_state # "START"
  /\ cinfo' = [JpegAbort(cinfo) EXCEPT !.error = FALSE, !.file = <<>>]
  /\ calls' = [calls EXCEPT !.whole = FALSE]
  /\ UNCHANGED known

\* The application takes the data of a suspending destination.
TakeOutput ==
  /\ cinfo.suspends /\ ~cinfo.error
  /\ \E room \in Rooms : room > cinfo.room /\ cinfo' = [cinfo EXCEPT !.room = room]
  /\ UNCHANGED <<known, calls>>

Next ==
  \/ SetParameters \/ CopyCriticalParameters \/ SuppressTables \/ WriteTables \/ StartCompress \/ WriteCoefficients
  \/ WriteMarker \/ (\E n \in Chunks : WriteScanlines(n)) \/ WriteRawData
  \/ FinishCompress \/ Abort \/ TakeOutput

Spec == Init /\ [][Next]_vars

-----------------------------------------------------------------------------
(* Properties *)

\* MCU k of a scan, counted from 1, as the format defines it: the blocks of each
\* component left to right and top to bottom, dummies outside of the image.
RefMCU(image, scan, k) ==
  LET one == Len(scan.comps) = 1
      h(i) == IF one THEN 1 ELSE image.comp_info[scan.comps[i]].h_samp_factor
      v(i) == IF one THEN 1 ELSE image.comp_info[scan.comps[i]].v_samp_factor
      across == IF one THEN WidthInBlocks(image, scan.comps[1])
                ELSE DivRoundUp(image.image_width, MaxH(image.comp_info) * DCTSIZE)
      my == (k - 1) \div across
      mx == (k - 1) % across
      of(i) == [n \in 1..h(i) * v(i) |->
                  <<scan.comps[i], my * v(i) + (n - 1) \div h(i), (mx * h(i)) + ((n - 1) % h(i))>>]
      places == FlattenSeq([i \in DOMAIN scan.comps |-> of(i)])
      real(n) == /\ places[n][2] < HeightInBlocks(image, places[n][1])
                 /\ places[n][3] < WidthInBlocks(image, places[n][1])
      source(n) == places[Max({m \in 1..n : real(m)})]
      block(n) == RefBlock(image, source(n)[1], source(n)[2], source(n)[3])
  IN  [n \in DOMAIN places |-> IF real(n) THEN block(n) ELSE Dummy(block(n))]

MCUsInScan(image, scan) ==
  IF Len(scan.comps) = 1
  THEN WidthInBlocks(image, scan.comps[1]) * HeightInBlocks(image, scan.comps[1])
  ELSE DivRoundUp(image.image_width, MaxH(image.comp_info) * DCTSIZE) * TotalIMCURows(image)

StartOfScan(n) == Max({m \in Tokens({"SOS"}) : m < n})

\* Every MCU of the file is the one the format wants at its place, made of the
\* scanlines it covers: none is lost, repeated or mixed up, in however many
\* calls and passes the image is written, wherever the destination has to wait
\* (jccoefct.c:131, jcmainct.c:136-141 "we didn't consume the last input row yet").
FileIsImage ==
  /\ \A n \in Tokens({"MCU"}) :
       LET sos == StartOfScan(n)
       IN  cinfo.file[n].blocks
             = RefMCU(cinfo.image, ScanOf(cinfo.image, cinfo.file[sos].scan), n - sos)
  /\ \A n \in Tokens({"SOS"}) :
       LET next == {m \in DOMAIN cinfo.file : m > n /\ cinfo.file[m].t # "MCU"}
       IN  next # {} => Min(next) - n - 1
                          = MCUsInScan(cinfo.image, ScanOf(cinfo.image, cinfo.file[n].scan))

\* A finished file has its frame and then each of its scans once, in order.
ScansInOrder ==
  LET scans == Tokens({"SOS"})
      frame == Tokens({"SOF"})
  IN  /\ \A n \in scans : cinfo.file[n].scan = Cardinality({m \in scans : m <= n})
      /\ scans # {} => Cardinality(frame) = 1 /\ \A n \in scans : Max(frame) < n
      /\ Tokens({"EOI"}) # {} /\ scans # {} => Cardinality(scans) = NumScans(cinfo.image)

\* At each scan the decoder of the file has the tables and the restart interval
\* the scan is coded with, those sent in earlier files included, unless a file
\* was given up and this one was not asked to write them all
\* (jcapimin.c:107-117, jcmaster.c:400-475, jcmarker.c:551-594).
TablesInForce ==
  cinfo.all \/ calls.whole =>
    \A n \in Tokens({"SOS"}) :
      LET s == cinfo.file[n]
          have == After(SubSeq(cinfo.file, 1, n), known)
          sof == cinfo.file[Max({m \in Tokens({"SOF"}) : m < n})]
          dri == {m \in Tokens({"DRI"}) : m < n}
      IN  /\ \A k \in DOMAIN s.dc : have.dc[k] = s.dc[k]
          /\ \A k \in DOMAIN s.ac : have.ac[k] = s.ac[k]
          /\ \A k \in DOMAIN sof.quant : have.quant[k] = sof.quant[k]
          /\ s.interval = IF dri = {} THEN 0 ELSE cinfo.file[Max(dri)].interval
=============================================================================
