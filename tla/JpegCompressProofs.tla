-------------------------- MODULE JpegCompressProofs --------------------------
(***************************************************************************)
(* What is proved of the compressor of the JPEG library.                   *)
(***************************************************************************)
EXTENDS JpegCompress, TLAPS, FiniteSetTheorems, SequenceTheorems

-----------------------------------------------------------------------------
(* What an operation leaves alone *)

\* d is c but for the fields of S.
SameBut(c, d, S) == DOMAIN d = DOMAIN c /\ \A x \in DOMAIN c \ S : d[x] = c[x]

LEMMA SameButItself == ASSUME NEW c, NEW S PROVE SameBut(c, c, S)
BY DEF SameBut

LEMMA SameButTwice ==
  ASSUME NEW c, NEW d, NEW e, NEW S, SameBut(c, d, S), SameBut(d, e, S)
  PROVE  SameBut(c, e, S)
BY DEF SameBut

LEMMA SameButMore ==
  ASSUME NEW c, NEW d, NEW S, NEW T, SameBut(c, d, S), S \subseteq T
  PROVE  SameBut(c, d, T)
BY DEF SameBut

\* The rows on their way to the coefficient buffer.
RowFields == {"color_buf", "rows_to_go", "next_buf_row", "this_row_group", "next_buf_stop",
              "in_row_ctr", "main_buffer", "rowgroup_ctr"}

LEMMA ConvertRowsKeeps ==
  ASSUME NEW c, NEW n PROVE SameBut(c, ConvertRows(c, n), RowFields)
BY DEF SameBut, ConvertRows, RowFields
LEMMA ExpandColorKeeps ==
  ASSUME NEW c, NEW n PROVE SameBut(c, ExpandColor(c, n), RowFields)
BY DEF SameBut, ExpandColor, RowFields
LEMMA DownsampleKeeps ==
  ASSUME NEW c, NEW n PROVE SameBut(c, Downsample(c, n), RowFields)
BY DEF SameBut, Downsample, RowFields
LEMMA ExpandOutputKeeps ==
  ASSUME NEW c PROVE SameBut(c, ExpandOutput(c), RowFields)
BY DEF SameBut, ExpandOutput, RowFields
LEMMA SimpleGroupKeeps ==
  ASSUME NEW c PROVE SameBut(c, SimpleGroup(c), RowFields)
<1> DEFINE d == Downsample(c, 0)
<1>1. SameBut(c, d, RowFields)
  BY DownsampleKeeps
<1> HIDE DEF d
<1>2. SameBut(d, [d EXCEPT !.next_buf_row = 0], RowFields)
  BY DEF SameBut, RowFields
<1>3. SameBut(c, [d EXCEPT !.next_buf_row = 0], RowFields)
  BY <1>1, <1>2, SameButTwice
<1> QED BY <1>3, SameButItself DEF SimpleGroup, d
LEMMA SimpleRowsKeeps ==
  ASSUME NEW c PROVE SameBut(c, SimpleRows(c), RowFields)
<1> DEFINE d == ConvertRows(c, Min({MaxVert(c) - c.next_buf_row, c.in_rows_avail - c.in_row_ctr}))
           e == LastRows(d)
           f == SimpleGroup(e)
<1>1. SameBut(c, d, RowFields)
  BY ConvertRowsKeeps
<1> HIDE DEF d
<1>2. SameBut(d, e, RowFields)
  BY ExpandColorKeeps, SameButItself DEF LastRows
<1> HIDE DEF e
<1>3. SameBut(e, f, RowFields)
  BY SimpleGroupKeeps
<1> HIDE DEF f
<1>4. SameBut(f, BottomOrMore(f), RowFields)
  BY ExpandOutputKeeps, SameButItself DEF BottomOrMore
<1>5. SameBut(c, BottomOrMore(f), RowFields)
  BY <1>1, <1>2, <1>3, <1>4, SameButTwice
<1>6. SimpleRows(c) = c \/ SimpleRows(c) = BottomOrMore(f)
  BY DEF SimpleRows, f, e, d
<1> QED BY <1>5, <1>6, SameButItself

LEMMA ContextGroupKeeps ==
  ASSUME NEW c PROVE SameBut(c, ContextGroup(c), RowFields)
<1> DEFINE d == Downsample(c, c.this_row_group)
<1>1. SameBut(c, d, RowFields)
  BY DownsampleKeeps
<1> HIDE DEF d
<1>2. SameBut(d, NextGroup(d, c.next_buf_row), RowFields)
  BY DEF SameBut, RowFields, NextGroup
<1>3. SameBut(c, NextGroup(d, c.next_buf_row), RowFields)
  BY <1>1, <1>2, SameButTwice
<1> QED BY <1>3, SameButItself DEF ContextGroup, d

LEMMA ContextRowsKeeps ==
  ASSUME NEW c PROVE SameBut(c, ContextRows(c), RowFields)
<1> DEFINE d == ConvertRows(c, Min({c.next_buf_stop - c.next_buf_row, c.in_rows_avail - c.in_row_ctr}))
<1>1. SameBut(c, d, RowFields)
  BY ConvertRowsKeeps
<1> HIDE DEF d
<1>2. SameBut(d, FirstAbove(d), RowFields)
  BY DEF SameBut, RowFields, FirstAbove
<1>3. SameBut(c, FirstAbove(d), RowFields)
  BY <1>1, <1>2, SameButTwice
<1>4. SameBut(c, ExpandColor(c, c.next_buf_stop), RowFields)
  BY ExpandColorKeeps
<1> QED BY <1>1, <1>3, <1>4 DEF ContextRows, d

LEMMA ContextStepKeeps ==
  ASSUME NEW c PROVE SameBut(c, ContextStep(c), RowFields)
<1>1. SameBut(c, ContextRows(c), RowFields)
  BY ContextRowsKeeps
<1>2. SameBut(ContextRows(c), ContextGroup(ContextRows(c)), RowFields)
  BY ContextGroupKeeps
<1>3. SameBut(c, ContextGroup(ContextRows(c)), RowFields)
  BY <1>1, <1>2, SameButTwice
<1> QED BY <1>3, SameButItself DEF ContextStep

RowsOnly(c, k, d) == SameBut(c, d, RowFields)
SimpleLoop == INSTANCE LoopProofs WITH Step <- SimpleRows, P <- RowsOnly
ContextLoop == INSTANCE LoopProofs WITH Step <- ContextStep, P <- RowsOnly

LEMMA PreProcessKeeps ==
  ASSUME NEW c, c.image.image_height \in Nat
  PROVE  SameBut(c, PreProcessData(c), RowFields)
<1> DEFINE n == c.image.image_height + DCTSIZE
<1>1. n \in Nat
  BY DctsizeAssumption
<1> HIDE DEF n
<1>2. SameBut(c, c, RowFields)
  BY SameButItself
<1>3. \A x : SameBut(c, x, RowFields) => SameBut(c, SimpleRows(x), RowFields)
  BY SimpleRowsKeeps, SameButTwice
<1>4. \A x : SameBut(c, x, RowFields) => SameBut(c, ContextStep(x), RowFields)
  BY ContextStepKeeps, SameButTwice
<1>5. SameBut(c, Repeat(SimpleRows, c, n), RowFields)
  <2>1. RowsOnly(c, 0, c) /\ \A k \in Nat : \A x : RowsOnly(c, k, x) => RowsOnly(c, k + 1, SimpleRows(x))
    BY <1>2, <1>3 DEF RowsOnly
  <2>2. RowsOnly(c, n, Repeat(SimpleRows, c, n))
    BY <1>1, <2>1, SimpleLoop!Repeated DEF Repeat, SimpleLoop!Repeat
  <2> QED BY <2>2 DEF RowsOnly
<1>6. SameBut(c, Repeat(ContextStep, c, n), RowFields)
  <2>1. RowsOnly(c, 0, c) /\ \A k \in Nat : \A x : RowsOnly(c, k, x) => RowsOnly(c, k + 1, ContextStep(x))
    BY <1>2, <1>4 DEF RowsOnly
  <2>2. RowsOnly(c, n, Repeat(ContextStep, c, n))
    BY <1>1, <2>1, ContextLoop!Repeated DEF Repeat, ContextLoop!Repeat
  <2> QED BY <2>2 DEF RowsOnly
<1> QED BY <1>2, <1>5, <1>6 DEF PreProcessData, n
-----------------------------------------------------------------------------
(* The invariant: what a file says *)

OfKind(f, kinds) == {n \in DOMAIN f : f[n].t \in kinds}
Defs(f, kind, s) == {n \in DOMAIN f : f[n].t = kind /\ f[n].slot = s}
KindBefore(f, kinds, n) == {m \in OfKind(f, kinds) : m < n}
DefsUpTo(f, kind, s, n) == {m \in Defs(f, kind, s) : m <= n}
IsFile(f) == f \in Seq(Range(f))
NumSOS(f) == Cardinality(OfKind(f, {"SOS"}))
NumSOF(f) == Cardinality(OfKind(f, {"SOF"}))

\* The scans are numbered as they come, and come after the one frame.
Ordered(f) ==
  /\ \A n \in OfKind(f, {"SOS"}) : f[n].scan = Cardinality({m \in OfKind(f, {"SOS"}) : m <= n})
  /\ OfKind(f, {"SOS"}) # {} =>
       NumSOF(f) = 1 /\ \A n \in OfKind(f, {"SOS"}) : Max(OfKind(f, {"SOF"})) < n

\* Each scan has the interval of the last DRI before it.
LastInterval(f, n) ==
  LET dri == KindBefore(f, {"DRI"}, n)
  IN  IF dri = {} THEN 0 ELSE f[Max(dri)].interval
Intervals(f) == \A n \in OfKind(f, {"SOS"}) : f[n].interval = LastInterval(f, n)

\* Up to n the file has v in place k, or it says nothing of k anywhere and v is
\* what the decoder had.
InForceAt(f, n, kind, k, v, old) ==
  LET at == DefsUpTo(f, kind, k, n)
  IN  IF at # {} THEN f[Max(at)].content = v ELSE v = old /\ Defs(f, kind, k) = {}

\* The tables a scan is coded with, by the marker that defines them.
Coded(kind, sos) == IF kind = "DHT_DC" THEN sos.dc ELSE sos.ac
ForceIn(f, kind, olds) ==
  \A n \in OfKind(f, {"SOS"}) : \A k \in DOMAIN Coded(kind, f[n]) :
    k \in Slots /\ InForceAt(f, n, kind, k, Coded(kind, f[n])[k], olds[k])
FrameOf(f, n) == f[Max(KindBefore(f, {"SOF"}, n))]
QuantIn(f, olds) ==
  \A n \in OfKind(f, {"SOS"}) : \A k \in DOMAIN FrameOf(f, n).quant :
    k \in Slots /\ InForceAt(f, n, "DQT", k, FrameOf(f, n).quant[k], olds[k])
AllInForce(f, tables) ==
  ForceIn(f, "DHT_DC", tables.dc) /\ ForceIn(f, "DHT_AC", tables.ac) /\ QuantIn(f, tables.quant)

\* What holds of the file of an object, whatever it has come to.
FileInv(c, tables, claim) ==
  /\ IsFile(c.file) /\ Ordered(c.file) /\ Intervals(c.file)
  /\ claim => AllInForce(c.file, tables)
  /\ OfKind(c.file, {"EOI"}) # {} /\ OfKind(c.file, {"SOS"}) # {} => NumSOS(c.file) = NumScans(c.image)

-----------------------------------------------------------------------------
(* The invariant: the tables of the object and the file *)

\* A table that counts as sent is what the decoder has.
SentIn(f, kind, tbls, olds) ==
  \A s \in Slots : tbls[s].sent_table => LastDefined(f, kind, s, olds[s]) = tbls[s].content
AllSent(c, tables) ==
  /\ SentIn(c.file, "DQT", c.quant, tables.quant)
  /\ SentIn(c.file, "DHT_DC", c.dc, tables.dc)
  /\ SentIn(c.file, "DHT_AC", c.ac, tables.ac)

\* A scan whose table is not in the file has one that will not be: no new tables
\* are made, and this one counts as sent.
Borrowed(f, kind, tbls, optimize) ==
  \A n \in OfKind(f, {"SOS"}) : \A k \in DOMAIN Coded(kind, f[n]) :
    k \in Slots /\ (DefsUpTo(f, kind, k, n) # {} \/ (~optimize /\ tbls[k].sent_table))

\* The frame has the quantization tables in force.
FrameIn(f, olds) ==
  OfKind(f, {"SOF"}) # {} =>
    LET quant == f[Max(OfKind(f, {"SOF"}))].quant
    IN  \A k \in DOMAIN quant : k \in Slots /\ LastDefined(f, "DQT", k, olds[k]) = quant[k]

TablesInv(c, tables, claim) ==
  /\ claim => AllSent(c, tables) /\ FrameIn(c.file, tables.quant)
  /\ Borrowed(c.file, "DHT_DC", c.dc, OptimizeCoding(c))
  /\ Borrowed(c.file, "DHT_AC", c.ac, OptimizeCoding(c))
  /\ c.last_restart_interval = LastInterval(c.file, Len(c.file) + 1)
  /\ OfKind(c.file, {"EOI"}) = {}

-----------------------------------------------------------------------------
(* The invariant: the object *)

Fields == {
  "image", "suspends", "error", "room", "file", "all", "quant", "dc", "ac", "global_state",
  "next_scanline", "in_row_ctr", "in_rows_avail", "pass_type", "pass_number", "total_passes",
  "scan_number", "is_last_pass", "call_pass_startup", "cur_iMCU_row", "rowgroup_ctr", "suspended",
  "main_buffer", "rows_to_go", "next_buf_row", "this_row_group", "next_buf_stop", "color_buf",
  "iMCU_row_num", "mcu_ctr", "MCU_vert_offset", "MCU_rows_per_iMCU_row", "whole_image",
  "compress_data", "coding", "last_restart_interval", "done", "scan", "restart_interval",
  "max_v_samp_factor", "total_iMCU_rows"}

IsTables(tbls) ==
  DOMAIN tbls = Slots /\ \A s \in Slots : /\ DOMAIN tbls[s] = {"content", "sent_table"}
                                          /\ tbls[s].sent_table \in BOOLEAN
ObjectType(c) ==
  /\ DOMAIN c = Fields
  /\ c.image \in Parameters /\ c.room \in Nat
  /\ c.suspends \in BOOLEAN /\ c.error \in BOOLEAN /\ c.all \in BOOLEAN
  /\ IsTables(c.quant) /\ IsTables(c.dc) /\ IsTables(c.ac)

\* What initial_setup and validate_script have checked, and what follows from it.
Checked(c) ==
  /\ LegalImage(c.image)
  /\ c.image.scan_info # <<>> => ValidateScript(Len(c.image.comp_info), c.image.scan_info)
  /\ c.total_iMCU_rows = TotalIMCURows(c.image)
  /\ c.total_passes = IF OptimizeCoding(c) THEN 2 * NumScans(c.image) ELSE NumScans(c.image)

\* The scan whose turn it is, set up.
Coming(c) == ScanOf(c.image, c.scan_number + 1)
ScanSet(c) == c.scan = Over(Coming(c), PerScanSetup(c.image, Coming(c)))
RowsSet(c) == c.MCU_vert_offset \in Int /\ c.mcu_ctr \in Int /\ c.MCU_rows_per_iMCU_row \in Int

\* The slots of a scan's tables.
DcOf(image, scan) ==
  IF Progressive(image.scan_info) /\ (scan.Ss # 0 \/ scan.Ah # 0) THEN {}
  ELSE {image.comp_info[ci].dc_tbl_no : ci \in Range(scan.comps)}
AcOf(image, scan) ==
  IF Progressive(image.scan_info) /\ scan.Ss = 0 THEN {}
  ELSE {image.comp_info[ci].ac_tbl_no : ci \in Range(scan.comps)}

Unsent(tbls, slots) == \A s \in slots : ~tbls[s].sent_table

\* New tables for the scan whose turn it is were made for it, and are to be sent.
NewTables(c) ==
  Unsent(c.dc, DcOf(c.image, Coming(c))) /\ Unsent(c.ac, AcOf(c.image, Coming(c)))

\* The entropy coder has the tables of the object.
Contents(tbls, slots) == [s \in slots |-> tbls[s].content]
CodingSet(c) ==
  c.coding.dc = Contents(c.dc, DcSlots(c)) /\ c.coding.ac = Contents(c.ac, AcSlots(c))

\* Once the application has given all lines: scan_number scans are in the file
\* before the pass that is next, and the passes that were made are theirs.
Turn(c) ==
  /\ c.scan_number \in Nat /\ c.pass_number \in Nat
  /\ NumSOS(c.file) = c.scan_number
  /\ NumSOF(c.file) = IF c.scan_number = 0 THEN 0 ELSE 1
  /\ c.pass_type \in {"huff_opt_pass", "output_pass"}
  /\ c.pass_number = IF ~OptimizeCoding(c) THEN c.scan_number
                     ELSE IF c.pass_type = "output_pass" THEN 2 * c.scan_number + 1
                     ELSE 2 * c.scan_number
  /\ ~OptimizeCoding(c) => c.pass_type = "output_pass"
  /\ OptimizeCoding(c) /\ c.pass_type = "output_pass" => NewTables(c)
  /\ c.pass_number <= c.total_passes
Between(c) == Turn(c) /\ c.is_last_pass = (c.pass_number = c.total_passes)

\* In the first pass, which takes the lines.
MainPass(c) ==
  /\ c.pass_type = "main_pass" /\ c.scan_number = 0 /\ c.pass_number = 0
  /\ ScanSet(c) /\ RowsSet(c)
  /\ c.is_last_pass = (c.total_passes = 1)
  /\ c.coding.gather = OptimizeCoding(c)
  /\ c.call_pass_startup => ~OptimizeCoding(c) /\ CodingSet(c) /\ c.next_scanline = 0
  /\ LET written == IF OptimizeCoding(c) \/ c.call_pass_startup THEN 0 ELSE 1
     IN  NumSOS(c.file) = written /\ NumSOF(c.file) = written

\* Between files: what counts as sent the decoder has, if every file was finished.
Rest(c, tables, whole) ==
  whole => /\ \A s \in Slots : c.quant[s].sent_table => tables.quant[s] = c.quant[s].content
           /\ \A s \in Slots : c.dc[s].sent_table => tables.dc[s] = c.dc[s].content
           /\ \A s \in Slots : c.ac[s].sent_table => tables.ac[s] = c.ac[s].content

ObjectInv(c, tables, whole) ==
  /\ ObjectType(c)
  /\ FileInv(c, tables, c.all \/ whole)
  /\ c.global_state \in {"START", "SCANNING", "RAW_OK", "WRCOEFS"}
  /\ ~c.error /\ c.global_state = "START" => Rest(c, tables, whole) /\ c.next_scanline = 0
  /\ ~c.error /\ c.global_state # "START" => Checked(c) /\ TablesInv(c, tables, c.all \/ whole)
  /\ ~c.error /\ c.global_state \in {"SCANNING", "RAW_OK"} => MainPass(c)
  /\ ~c.error /\ c.global_state = "WRCOEFS" => Between(c) /\ c.scan_number = 0

CallsType == calls \in [started : Nat, whole : BOOLEAN]
CompressInv == CallsType /\ ObjectInv(cinfo, known, calls.whole)

-----------------------------------------------------------------------------
(* Files that grow *)

LEMMA EmptyFile == IsFile(<< >>) /\ Len(<< >>) = 0 /\ DOMAIN << >> = {}
BY DEF IsFile

LEMMA OneToken ==
  ASSUME NEW x
  PROVE  IsFile(<<x>>) /\ Len(<<x>>) = 1 /\ DOMAIN <<x>> = {1} /\ <<x>>[1] = x
BY DEF IsFile, Range

LEMMA FileFacts ==
  ASSUME NEW f, IsFile(f)
  PROVE  Len(f) \in Nat /\ DOMAIN f = 1..Len(f)
BY DEF IsFile

LEMMA Grown ==
  ASSUME NEW f, NEW g, IsFile(f), IsFile(g)
  PROVE  /\ IsFile(f \o g)
         /\ Len(f) \in Nat /\ Len(g) \in Nat
         /\ Len(f \o g) = Len(f) + Len(g)
         /\ DOMAIN f = 1..Len(f) /\ DOMAIN g = 1..Len(g)
         /\ DOMAIN (f \o g) = 1..Len(f) + Len(g)
         /\ \A n \in 1..Len(f) : (f \o g)[n] = f[n]
         /\ \A n \in 1..Len(g) : (f \o g)[Len(f) + n] = g[n]
<1> DEFINE S == Range(f) \cup Range(g)
           h == f \o g
<1>1. f \in Seq(S) /\ g \in Seq(S)
  BY DEF IsFile
<1>2. /\ h \in Seq(S) /\ Len(h) = Len(f) + Len(g)
      /\ Len(f) \in Nat /\ Len(g) \in Nat
      /\ DOMAIN f = 1..Len(f) /\ DOMAIN g = 1..Len(g) /\ DOMAIN h = 1..Len(f) + Len(g)
      /\ \A n \in 1..Len(f) : h[n] = f[n]
      /\ \A n \in 1..Len(g) : h[Len(f) + n] = g[n]
  <2> HIDE DEF S
  <2> QED BY <1>1
<1>3. IsFile(h)
  <2> HIDE DEF h
  <2>1. \A n \in 1..Len(h) : h[n] \in Range(h)
    BY <1>2 DEF Range
  <2> QED BY <1>2, <2>1 DEF IsFile
<1> QED BY <1>2, <1>3

LEMMA GrownTwice ==
  ASSUME NEW f, NEW g, NEW h, IsFile(f), IsFile(g), IsFile(h)
  PROVE  f \o (g \o h) = (f \o g) \o h
<1> DEFINE S == Range(f) \cup Range(g) \cup Range(h)
<1>1. f \in Seq(S) /\ g \in Seq(S) /\ h \in Seq(S)
  BY DEF IsFile
<1> HIDE DEF S
<1> QED BY <1>1

\* The places A of one file and B of the one that follows it.
Joined(A, len, B) == A \cup {len + n : n \in B}

\* Where the tokens of a kind are, the definitions among them.
LEMMA GrownKinds ==
  ASSUME NEW f, NEW g, IsFile(f), IsFile(g), NEW K
  PROVE  OfKind(f \o g, K) = Joined(OfKind(f, K), Len(f), OfKind(g, K))
<1> DEFINE h == f \o g
<1>1. /\ Len(f) \in Nat /\ Len(g) \in Nat /\ DOMAIN f = 1..Len(f) /\ DOMAIN g = 1..Len(g)
      /\ DOMAIN h = 1..Len(f) + Len(g)
      /\ \A n \in 1..Len(f) : h[n] = f[n]
      /\ \A n \in 1..Len(g) : h[Len(f) + n] = g[n]
  BY Grown
<1> HIDE DEF h
<1>2. \A n \in 1..Len(f) + Len(g) : n \in 1..Len(f) \/ (n - Len(f) \in 1..Len(g) /\ Len(f) + (n - Len(f)) = n)
  BY <1>1
<1>3. OfKind(h, K) \subseteq OfKind(f, K) \cup {Len(f) + n : n \in OfKind(g, K)}
  BY <1>1, <1>2 DEF OfKind
<1>4. \A n \in 1..Len(g) : Len(f) + n \in 1..Len(f) + Len(g)
  BY <1>1
<1>5. OfKind(f, K) \cup {Len(f) + n : n \in OfKind(g, K)} \subseteq OfKind(h, K)
  BY <1>1, <1>4 DEF OfKind
<1> QED BY <1>3, <1>5 DEF h, Joined

LEMMA GrownDefs ==
  ASSUME NEW f, NEW g, IsFile(f), IsFile(g), NEW kind, NEW s
  PROVE  Defs(f \o g, kind, s) = Joined(Defs(f, kind, s), Len(f), Defs(g, kind, s))
<1> DEFINE h == f \o g
<1>1. /\ Len(f) \in Nat /\ Len(g) \in Nat /\ DOMAIN f = 1..Len(f) /\ DOMAIN g = 1..Len(g)
      /\ DOMAIN h = 1..Len(f) + Len(g)
      /\ \A n \in 1..Len(f) : h[n] = f[n]
      /\ \A n \in 1..Len(g) : h[Len(f) + n] = g[n]
  BY Grown
<1> HIDE DEF h
<1>2. \A n \in 1..Len(f) + Len(g) : n \in 1..Len(f) \/ (n - Len(f) \in 1..Len(g) /\ Len(f) + (n - Len(f)) = n)
  BY <1>1
<1>3. ASSUME NEW n \in Defs(h, kind, s)
      PROVE  n \in Defs(f, kind, s) \cup {Len(f) + m : m \in Defs(g, kind, s)}
  <2>1. n \in 1..Len(f) + Len(g) /\ h[n].t = kind /\ h[n].slot = s
    BY <1>1 DEF Defs
  <2>2. CASE n \in 1..Len(f)
    BY <1>1, <2>1, <2>2 DEF Defs
  <2>3. CASE n - Len(f) \in 1..Len(g) /\ Len(f) + (n - Len(f)) = n
    <3>1. n - Len(f) \in Defs(g, kind, s)
      BY <1>1, <2>1, <2>3 DEF Defs
    <3> QED BY <2>3, <3>1
  <2> QED BY <1>2, <2>1, <2>2, <2>3
<1>4. \A n \in 1..Len(g) : Len(f) + n \in 1..Len(f) + Len(g)
  BY <1>1
<1>5. Defs(f, kind, s) \cup {Len(f) + n : n \in Defs(g, kind, s)} \subseteq Defs(h, kind, s)
  BY <1>1, <1>4 DEF Defs
<1> QED BY <1>3, <1>5 DEF h, Joined

\* Positions in a file: a set of them has a last one.
Positions(S) == \E n \in Nat : S \subseteq 1..n

LEMMA Largest ==
  ASSUME NEW S, Positions(S), S # {}
  PROVE  Max(S) \in S /\ Max(S) \in Nat /\ \A x \in S : x <= Max(S)
<1> DEFINE T == {k \in Nat : \A U \in SUBSET (1..k) : U # {} => \E m \in U : \A x \in U : x <= m}
<1>1. 0 \in T
  <2>1. \A U \in SUBSET (1..0) : U = {}
    OBVIOUS
  <2> QED BY <2>1
<1>2. ASSUME NEW k \in Nat, k \in T PROVE k + 1 \in T
  <2> SUFFICES ASSUME NEW U \in SUBSET (1..k + 1), U # {}
               PROVE  \E m \in U : \A x \in U : x <= m
    OBVIOUS
  <2>1. CASE k + 1 \in U
    BY <2>1
  <2>2. CASE k + 1 \notin U
    <3>1. \A x \in U : x \in 1..k
      BY <2>2
    <3>2. U \in SUBSET (1..k)
      BY <3>1
    <3> QED BY <1>2, <3>2
  <2> QED BY <2>1, <2>2
<1> HIDE DEF T
<1>3. Nat \subseteq T
  BY <1>1, <1>2, SimpleLoop!CountedUp
<1>4. PICK n \in Nat : S \subseteq 1..n
  BY DEF Positions
<1>5. PICK m \in S : \A x \in S : x <= m
  BY <1>3, <1>4 DEF T
<1>6. \E m1 \in S : \A x \in S : m1 >= x
  BY <1>4, <1>5
<1>7. Max(S) \in S /\ \A x \in S : Max(S) >= x
  BY <1>6 DEF Max
<1>8. Max(S) \in 1..n /\ \A x \in S : x \in 1..n
  BY <1>4, <1>7
<1>9. ASSUME NEW x \in S PROVE x <= Max(S)
  BY <1>7, <1>8
<1> QED BY <1>7, <1>8, <1>9

LEMMA LastIs ==
  ASSUME NEW S, S \subseteq Int, NEW m \in S, \A x \in S : x <= m
  PROVE  Max(S) = m
<1>1. \E m1 \in S : \A x \in S : m1 >= x
  OBVIOUS
<1>2. Max(S) \in S /\ \A x \in S : Max(S) >= x
  BY <1>1 DEF Max
<1>3. Max(S) <= m /\ m <= Max(S) /\ Max(S) \in Int /\ m \in Int
  BY <1>2
<1> QED BY <1>3

LEMMA LastGrown ==
  ASSUME NEW len \in Nat, NEW A, NEW B, A \subseteq 1..len, Positions(B)
  PROVE  /\ B = {} => Joined(A, len, B) = A
         /\ B # {} => /\ Joined(A, len, B) # {}
                      /\ Max(B) \in B /\ Max(B) \in Nat
                      /\ Max(Joined(A, len, B)) = len + Max(B)
<1> DEFINE C == Joined(A, len, B)
<1>1. B = {} => C = A
  BY DEF Joined
<1>2. ASSUME B # {}
      PROVE  C # {} /\ Max(B) \in B /\ Max(B) \in Nat /\ Max(C) = len + Max(B)
  <2>1. Max(B) \in B /\ Max(B) \in Nat /\ \A x \in B : x <= Max(B)
    BY <1>2, Largest
  <2> DEFINE m == Max(B)
  <2> HIDE DEF m
  <2>2. m \in B /\ m \in Nat /\ \A x \in B : x <= m /\ x \in Nat
    BY <2>1 DEF m, Positions
  <2>3. ASSUME NEW x \in C PROVE x <= len + m /\ x \in Int
    <3>1. CASE x \in A
      BY <2>2, <3>1
    <3>2. CASE x \in {len + n : n \in B}
      BY <2>2, <3>2
    <3> QED BY <2>3, <3>1, <3>2 DEF Joined
  <2>4. len + m \in C
    BY <2>2 DEF Joined
  <2> HIDE DEF C
  <2>5. Max(C) = len + m
    BY <2>3, <2>4, LastIs
  <2> QED BY <2>1, <2>4, <2>5 DEF m
<1> QED BY <1>1, <1>2

LEMMA KindPositions ==
  ASSUME NEW f, IsFile(f), NEW K
  PROVE  /\ Positions(OfKind(f, K)) /\ OfKind(f, K) \subseteq 1..Len(f)
         /\ OfKind(f, K) \subseteq Nat \ {0}
<1>1. OfKind(f, K) \subseteq 1..Len(f)
  BY FileFacts DEF OfKind
<1>2. Len(f) \in Nat
  BY FileFacts
<1> QED BY <1>1, <1>2 DEF Positions

LEMMA DefPositions ==
  ASSUME NEW f, IsFile(f), NEW kind, NEW s
  PROVE  /\ Positions(Defs(f, kind, s)) /\ Defs(f, kind, s) \subseteq 1..Len(f)
         /\ Defs(f, kind, s) \subseteq Nat \ {0}
<1>1. Defs(f, kind, s) \subseteq 1..Len(f)
  BY FileFacts DEF Defs
<1>2. Len(f) \in Nat
  BY FileFacts
<1> QED BY <1>1, <1>2 DEF Positions

\* What the file says last of a place.
LEMMA LastDefinedGrown ==
  ASSUME NEW f, NEW g, IsFile(f), IsFile(g), NEW kind, NEW s, NEW old
  PROVE  /\ Defs(g, kind, s) = {} => LastDefined(f \o g, kind, s, old) = LastDefined(f, kind, s, old)
         /\ Defs(g, kind, s) # {} => LastDefined(f \o g, kind, s, old) = LastDefined(g, kind, s, old)
<1> DEFINE h == f \o g
           len == Len(f)
           k == Len(g)
           A == Defs(f, kind, s)
           B == Defs(g, kind, s)
           C == Defs(h, kind, s)
<1>1. /\ len \in Nat /\ k \in Nat /\ DOMAIN f = 1..len /\ DOMAIN g = 1..k
      /\ DOMAIN h = 1..len + k
      /\ \A n \in 1..len : h[n] = f[n]
      /\ \A n \in 1..k : h[len + n] = g[n]
  BY Grown
<1>2. C = Joined(A, len, B)
  BY GrownDefs
<1>3. A \subseteq 1..len /\ Positions(A) /\ B \subseteq 1..k /\ Positions(B)
  BY DefPositions
<1>4. /\ LastDefined(f, kind, s, old) = IF A = {} THEN old ELSE f[Max(A)].content
      /\ LastDefined(g, kind, s, old) = IF B = {} THEN old ELSE g[Max(B)].content
      /\ LastDefined(h, kind, s, old) = IF C = {} THEN old ELSE h[Max(C)].content
  BY DEF LastDefined, Defs
<1> HIDE DEF h, A, B, C, len, k
<1>5. /\ B = {} => C = A
      /\ B # {} => C # {} /\ Max(B) \in B /\ Max(C) = len + Max(B)
  <2>1. len \in Nat
    BY <1>1
  <2> QED BY <2>1, <1>2, <1>3, LastGrown
<1>6. A # {} => Max(A) \in A
  BY <1>3, Largest
<1>8. ASSUME B = {} PROVE LastDefined(h, kind, s, old) = LastDefined(f, kind, s, old)
  <2>1. A # {} => h[Max(A)] = f[Max(A)]
    BY <1>1, <1>3, <1>6
  <2> QED BY <1>4, <1>5, <1>8, <2>1
<1>9. ASSUME B # {} PROVE LastDefined(h, kind, s, old) = LastDefined(g, kind, s, old)
  <2>1. C # {}
    BY <1>5, <1>9
  <2>2. h[Max(C)] = g[Max(B)]
    BY <1>1, <1>3, <1>5, <1>9
  <2> QED BY <1>4, <1>9, <2>1, <2>2
<1> QED BY <1>8, <1>9 DEF B, h

\* What comes before a place of the first file stays.
LEMMA BeforeGrown ==
  ASSUME NEW f, NEW g, IsFile(f), IsFile(g), NEW n \in 1..Len(f) + 1, NEW K
  PROVE  KindBefore(f \o g, K, n) = KindBefore(f, K, n)
<1> DEFINE h == f \o g
           len == Len(f)
           A == OfKind(f, K)
           B == OfKind(g, K)
<1>1. len \in Nat /\ A \subseteq 1..len /\ B \subseteq Nat \ {0}
  BY Grown, KindPositions
<1>2. OfKind(h, K) = Joined(A, len, B)
  BY GrownKinds
<1>3. n \in 1..len + 1
  OBVIOUS
<1> HIDE DEF h, len, A, B
<1>4. ASSUME NEW m, m < n, m \in Joined(A, len, B) PROVE m \in A
  BY <1>1, <1>3, <1>4 DEF Joined
<1>5. \A m \in A : m \in Joined(A, len, B)
  BY DEF Joined
<1>6. {m \in OfKind(h, K) : m < n} = {m \in A : m < n}
  BY <1>2, <1>4, <1>5
<1> QED BY <1>6 DEF h, A, KindBefore

LEMMA DefsBeforeGrown ==
  ASSUME NEW f, NEW g, IsFile(f), IsFile(g), NEW n \in 1..Len(f), NEW kind, NEW s
  PROVE  DefsUpTo(f \o g, kind, s, n) = DefsUpTo(f, kind, s, n)
<1> DEFINE h == f \o g
           len == Len(f)
           A == Defs(f, kind, s)
           B == Defs(g, kind, s)
<1>1. len \in Nat /\ A \subseteq 1..len /\ B \subseteq Nat \ {0}
  BY Grown, DefPositions
<1>2. Defs(h, kind, s) = Joined(A, len, B)
  BY GrownDefs
<1>3. n \in 1..len
  OBVIOUS
<1> HIDE DEF h, len, A, B
<1>4. ASSUME NEW m, m <= n, m \in Joined(A, len, B) PROVE m \in A
  BY <1>1, <1>3, <1>4 DEF Joined
<1>5. \A m \in A : m \in Joined(A, len, B)
  BY DEF Joined
<1>6. {m \in Defs(h, kind, s) : m <= n} = {m \in A : m <= n}
  BY <1>2, <1>4, <1>5
<1> QED BY <1>6 DEF h, A, DefsUpTo

LEMMA KindBeforeFacts ==
  ASSUME NEW f, IsFile(f), NEW K, NEW n
  PROVE  /\ KindBefore(f, K, n) \subseteq OfKind(f, K)
         /\ KindBefore(f, K, n) # {} => Max(KindBefore(f, K, n)) \in OfKind(f, K)
<1>1. KindBefore(f, K, n) \subseteq OfKind(f, K)
  BY DEF KindBefore
<1>2. Positions(KindBefore(f, K, n))
  BY <1>1, KindPositions DEF Positions
<1> QED BY <1>1, <1>2, Largest

LEMMA DefsUpToFacts ==
  ASSUME NEW f, IsFile(f), NEW kind, NEW s, NEW n
  PROVE  /\ DefsUpTo(f, kind, s, n) \subseteq Defs(f, kind, s)
         /\ DefsUpTo(f, kind, s, n) # {} => Max(DefsUpTo(f, kind, s, n)) \in Defs(f, kind, s)
<1>1. DefsUpTo(f, kind, s, n) \subseteq Defs(f, kind, s)
  BY DEF DefsUpTo
<1>2. Positions(DefsUpTo(f, kind, s, n))
  BY <1>1, DefPositions DEF Positions
<1> QED BY <1>1, <1>2, Largest

LEMMA JoinedNone == ASSUME NEW A, NEW len PROVE Joined(A, len, {}) = A
BY DEF Joined

LEMMA NoneGrown ==
  ASSUME NEW f, NEW g, IsFile(f), IsFile(g), NEW K, OfKind(g, K) = {}
  PROVE  OfKind(f \o g, K) = OfKind(f, K)
<1>1. OfKind(f \o g, K) = Joined(OfKind(f, K), Len(f), OfKind(g, K))
  BY GrownKinds
<1> QED BY <1>1, JoinedNone

LEMMA NoDefsGrown ==
  ASSUME NEW f, NEW g, IsFile(f), IsFile(g), NEW kind, NEW s, Defs(g, kind, s) = {}
  PROVE  Defs(f \o g, kind, s) = Defs(f, kind, s)
<1>1. IsFile(f) /\ IsFile(g)
  OBVIOUS
<1>2. Defs(f \o g, kind, s) = Joined(Defs(f, kind, s), Len(f), Defs(g, kind, s))
  BY ONLY <1>1, GrownDefs
<1> QED BY <1>2, JoinedNone

\* One token more.
LEMMA TokenKinds ==
  ASSUME NEW x, NEW K, NEW kind, NEW s
  PROVE  /\ OfKind(<<x>>, K) = IF x.t \in K THEN {1} ELSE {}
         /\ Defs(<<x>>, kind, s) = IF x.t = kind /\ x.slot = s THEN {1} ELSE {}
BY OneToken DEF OfKind, Defs

LEMMA TokenGrown ==
  ASSUME NEW f, IsFile(f), NEW x, NEW K, x.t \in K
  PROVE  OfKind(f \o <<x>>, K) = OfKind(f, K) \cup {Len(f) + 1}
BY GrownKinds, OneToken, TokenKinds DEF Joined

LEMMA FiniteKinds ==
  ASSUME NEW f, IsFile(f), NEW K
  PROVE  IsFiniteSet(OfKind(f, K)) /\ Cardinality(OfKind(f, K)) \in Nat
<1>1. IsFiniteSet(1..Len(f))
  BY FileFacts, FS_Interval
<1> QED BY <1>1, KindPositions, FS_Subset, FS_CardinalityType

LEMMA TokenCounted ==
  ASSUME NEW f, IsFile(f), NEW x, NEW K, x.t \in K
  PROVE  Cardinality(OfKind(f \o <<x>>, K)) = Cardinality(OfKind(f, K)) + 1
<1>1. Len(f) + 1 \notin OfKind(f, K)
  BY KindPositions, FileFacts
<1> QED BY <1>1, TokenGrown, FiniteKinds, FS_AddElement

-----------------------------------------------------------------------------
(* The scans of a file that grows *)

LEMMA OrderedGrown ==
  ASSUME NEW f, NEW g, IsFile(f), IsFile(g), Ordered(f),
         OfKind(g, {"SOS"}) = {}, OfKind(g, {"SOF"}) = {}
  PROVE  Ordered(f \o g) /\ NumSOS(f \o g) = NumSOS(f) /\ NumSOF(f \o g) = NumSOF(f)
<1> DEFINE h == f \o g
<1>1. OfKind(h, {"SOS"}) = OfKind(f, {"SOS"}) /\ OfKind(h, {"SOF"}) = OfKind(f, {"SOF"})
  BY NoneGrown
<1>2. \A n \in OfKind(f, {"SOS"}) : h[n] = f[n]
  BY Grown, KindPositions
<1> HIDE DEF h
<1> QED BY <1>1, <1>2 DEF Ordered, NumSOS, NumSOF, h

LEMMA OrderedFrame ==
  ASSUME NEW f, IsFile(f), NEW x, x.t = "SOF", OfKind(f, {"SOS"}) = {}
  PROVE  /\ Ordered(f \o <<x>>) /\ OfKind(f \o <<x>>, {"SOS"}) = {}
         /\ NumSOS(f \o <<x>>) = NumSOS(f) /\ NumSOF(f \o <<x>>) = NumSOF(f) + 1
<1>1. OfKind(<<x>>, {"SOS"}) = {}
  BY TokenKinds
<1>2. OfKind(f \o <<x>>, {"SOS"}) = {}
  BY <1>1, OneToken, NoneGrown
<1>3. NumSOF(f \o <<x>>) = NumSOF(f) + 1
  BY TokenCounted DEF NumSOF
<1> QED BY <1>2, <1>3 DEF Ordered, NumSOS

LEMMA OrderedScan ==
  ASSUME NEW f, IsFile(f), Ordered(f), NEW x, x.t = "SOS",
         x.scan = NumSOS(f) + 1, NumSOF(f) = 1
  PROVE  /\ Ordered(f \o <<x>>)
         /\ NumSOS(f \o <<x>>) = NumSOS(f) + 1 /\ NumSOF(f \o <<x>>) = 1
<1> DEFINE h == f \o <<x>>
           S == OfKind(f, {"SOS"})
           F == OfKind(f, {"SOF"})
           len == Len(f)
<1>1. OfKind(h, {"SOS"}) = S \cup {len + 1} /\ NumSOS(h) = NumSOS(f) + 1
  BY TokenGrown, TokenCounted DEF NumSOS
<1>2. OfKind(h, {"SOF"}) = F
  BY TokenKinds, OneToken, NoneGrown
<1>3. len \in Nat /\ S \subseteq 1..len /\ F \subseteq 1..len /\ Positions(F)
  BY FileFacts, KindPositions
<1>4. \A n \in S : h[n] = f[n]
  BY <1>3, OneToken, Grown
<1>5. h[len + 1] = x
  BY OneToken, Grown
<1>6. NumSOF(h) = 1 /\ F # {}
  BY <1>2, FS_EmptySet DEF NumSOF
<1>7. Max(F) \in F
  BY <1>3, <1>6, Largest
<1>8. NumSOS(f) = Cardinality(S)
  BY DEF NumSOS
<1> HIDE DEF h, S, F, len
<1>9. ASSUME NEW n \in S \cup {len + 1}
      PROVE  /\ h[n].scan = Cardinality({m \in S \cup {len + 1} : m <= n})
             /\ Max(F) < n
  <2>1. CASE n \in S
    <3>1. {m \in S \cup {len + 1} : m <= n} = {m \in S : m <= n}
      BY <1>3, <2>1
    <3>2. f[n].scan = Cardinality({m \in S : m <= n}) /\ Max(F) < n
      BY <2>1 DEF Ordered, S, F
    <3> QED BY <1>4, <2>1, <3>1, <3>2
  <2>2. CASE n = len + 1
    <3> \A m \in S \cup {len + 1} : m <= len + 1
      BY <1>3
    <3>1. {m \in S \cup {len + 1} : m <= n} = S \cup {len + 1}
      BY <2>2
    <3>2. Cardinality(S \cup {len + 1}) = NumSOS(f) + 1
      BY <1>1 DEF NumSOS
    <3>3. Max(F) < n
      <4>1. Max(F) \in 1..len
        BY <1>3, <1>7
      <4>2. Max(F) < len + 1
        BY <1>3, <4>1
      <4> QED BY <2>2, <4>2
    <3> QED BY <1>5, <2>2, <3>1, <3>2, <3>3
  <2> QED BY <1>9, <2>1, <2>2
<1>10. Ordered(h)
  BY <1>1, <1>2, <1>6, <1>9 DEF Ordered
<1> QED BY <1>1, <1>6, <1>10 DEF h

-----------------------------------------------------------------------------
(* The restart intervals of a file that grows *)

LEMMA IntervalBefore ==
  ASSUME NEW f, NEW g, IsFile(f), IsFile(g), NEW n \in 1..Len(f) + 1
  PROVE  LastInterval(f \o g, n) = LastInterval(f, n)
<1> DEFINE A == KindBefore(f, {"DRI"}, n)
<1>1. KindBefore(f \o g, {"DRI"}, n) = A
  BY BeforeGrown
<1>2. A # {} => Max(A) \in 1..Len(f)
  BY KindBeforeFacts, KindPositions
<1>3. A # {} => (f \o g)[Max(A)] = f[Max(A)]
  BY <1>2, Grown
<1> QED BY <1>1, <1>3 DEF LastInterval

LEMMA IntervalsGrown ==
  ASSUME NEW f, NEW g, IsFile(f), IsFile(g), Intervals(f), OfKind(g, {"SOS"}) = {}
  PROVE  Intervals(f \o g)
<1> DEFINE h == f \o g
<1>1. OfKind(h, {"SOS"}) = OfKind(f, {"SOS"})
  BY NoneGrown
<1>2. \A n \in OfKind(f, {"SOS"}) : h[n] = f[n]
  BY Grown, KindPositions
<1>3. \A n \in OfKind(f, {"SOS"}) : n \in 1..Len(f) + 1
  BY FileFacts, KindPositions
<1>4. \A n \in OfKind(f, {"SOS"}) : LastInterval(h, n) = LastInterval(f, n)
  BY <1>3, IntervalBefore
<1> HIDE DEF h
<1> QED BY <1>1, <1>2, <1>4 DEF Intervals, h

\* The last interval: as it was, or the one given now.
LEMMA LastIntervalKept ==
  ASSUME NEW f, NEW g, IsFile(f), IsFile(g), OfKind(g, {"DRI"}) = {}
  PROVE  LastInterval(f \o g, Len(f \o g) + 1) = LastInterval(f, Len(f) + 1)
<1> DEFINE h == f \o g
           A == OfKind(f, {"DRI"})
<1>1. OfKind(h, {"DRI"}) = A
  BY NoneGrown
<1>2. Len(f) \in Nat /\ Len(h) \in Nat /\ Len(f) <= Len(h) /\ A \subseteq 1..Len(f) /\ Positions(A)
  BY Grown, KindPositions
<1>3. \A m \in A : h[m] = f[m]
  BY Grown, KindPositions
<1> HIDE DEF h, A
<1>4. \A m \in A : m < Len(h) + 1 /\ m < Len(f) + 1
  BY <1>2
<1>5. KindBefore(h, {"DRI"}, Len(h) + 1) = A /\ KindBefore(f, {"DRI"}, Len(f) + 1) = A
  BY <1>1, <1>4 DEF KindBefore, A
<1>6. A # {} => Max(A) \in A
  BY <1>2, Largest
<1> QED BY <1>1, <1>3, <1>5, <1>6 DEF LastInterval, A, h

LEMMA LastIntervalNew ==
  ASSUME NEW f, IsFile(f), NEW x, x.t = "DRI"
  PROVE  LastInterval(f \o <<x>>, Len(f \o <<x>>) + 1) = x.interval
<1> DEFINE h == f \o <<x>>
           len == Len(f)
           A == OfKind(f, {"DRI"})
<1>1. OfKind(h, {"DRI"}) = A \cup {len + 1}
  BY TokenGrown
<1>2. len \in Nat /\ Len(h) = len + 1 /\ h[len + 1] = x
  BY OneToken, Grown
<1>3. A \subseteq 1..len
  BY KindPositions
<1> HIDE DEF h, A, len
<1>4. ASSUME NEW m \in A \cup {len + 1} PROVE m <= len + 1 /\ m < Len(h) + 1 /\ m \in Int
  <2>1. len \in Nat /\ Len(h) = len + 1
    BY <1>2
  <2>2. m \in 1..len \/ m = len + 1
    BY <1>3, <1>4
  <2> QED BY <2>1, <2>2
<1>5. KindBefore(h, {"DRI"}, Len(h) + 1) = A \cup {len + 1}
  BY <1>1, <1>4 DEF KindBefore
<1>6. Max(A \cup {len + 1}) = len + 1
  BY <1>4, LastIs
<1> QED BY <1>2, <1>5, <1>6 DEF LastInterval, h

LEMMA IntervalsScan ==
  ASSUME NEW f, IsFile(f), Intervals(f), NEW x, x.t = "SOS", x.interval = LastInterval(f, Len(f) + 1)
  PROVE  Intervals(f \o <<x>>)
<1> DEFINE h == f \o <<x>>
           len == Len(f)
           S == OfKind(f, {"SOS"})
<1>1. OfKind(h, {"SOS"}) = S \cup {len + 1}
  BY TokenGrown
<1>2. len \in Nat /\ h[len + 1] = x /\ \A n \in 1..len : h[n] = f[n]
  BY OneToken, Grown
<1>3. S \subseteq 1..len
  BY KindPositions
<1>4. \A n \in 1..len + 1 : LastInterval(h, n) = LastInterval(f, n)
  BY OneToken, IntervalBefore
<1>5. x.interval = LastInterval(f, len + 1) /\ \A n \in S : f[n].interval = LastInterval(f, n)
  BY DEF Intervals
<1> HIDE DEF h, len, S
<1>6. \A n \in S \cup {len + 1} : n \in 1..len + 1
  <2>1. len \in Nat
    BY <1>2
  <2>2. \A n \in S : n \in 1..len + 1
    BY <1>3, <2>1
  <2>3. len + 1 \in 1..len + 1
    BY <2>1
  <2> QED BY <2>2, <2>3
<1>7. \A n \in S : h[n] = f[n]
  BY <1>2, <1>3
<1> QED BY <1>1, <1>2, <1>4, <1>5, <1>6, <1>7 DEF Intervals, h

-----------------------------------------------------------------------------
(* The tables of a file that grows *)

LEMMA InForceGrown ==
  ASSUME NEW f, NEW g, IsFile(f), IsFile(g), NEW n \in 1..Len(f), NEW kind, NEW k, NEW v, NEW old,
         InForceAt(f, n, kind, k, v, old),
         Defs(g, kind, k) = {} \/ DefsUpTo(f, kind, k, n) # {}
  PROVE  InForceAt(f \o g, n, kind, k, v, old)
<1> DEFINE A == DefsUpTo(f, kind, k, n)
<1>1. DefsUpTo(f \o g, kind, k, n) = A
  BY DefsBeforeGrown
<1>2. A # {} => Max(A) \in 1..Len(f)
  BY DefsUpToFacts, DefPositions
<1>3. A # {} => (f \o g)[Max(A)] = f[Max(A)]
  BY <1>2, Grown
<1>4. Defs(g, kind, k) = {} => Defs(f \o g, kind, k) = Defs(f, kind, k)
  BY NoDefsGrown
<1> QED BY <1>1, <1>3, <1>4 DEF InForceAt

\* The scans of f are those of a file that goes on without another.
LEMMA ScansGrown ==
  ASSUME NEW f, NEW g, IsFile(f), IsFile(g), OfKind(g, {"SOS"}) = {}
  PROVE  /\ OfKind(f \o g, {"SOS"}) = OfKind(f, {"SOS"})
         /\ \A n \in OfKind(f, {"SOS"}) : n \in 1..Len(f) /\ (f \o g)[n] = f[n]
<1>1. OfKind(f \o g, {"SOS"}) = OfKind(f, {"SOS"})
  BY NoneGrown
<1>2. OfKind(f, {"SOS"}) \subseteq 1..Len(f)
  BY KindPositions
<1> QED BY <1>1, <1>2, Grown

LEMMA ForceInGrown ==
  ASSUME NEW f, NEW g, IsFile(f), IsFile(g), NEW kind, NEW olds, NEW tbls, NEW optimize,
         OfKind(g, {"SOS"}) = {}, ForceIn(f, kind, olds), Borrowed(f, kind, tbls, optimize),
         \A k : Defs(g, kind, k) # {} => optimize \/ ~tbls[k].sent_table
  PROVE  ForceIn(f \o g, kind, olds)
<1> DEFINE h == f \o g
<1>1. /\ OfKind(h, {"SOS"}) = OfKind(f, {"SOS"})
      /\ \A n \in OfKind(f, {"SOS"}) : n \in 1..Len(f) /\ h[n] = f[n]
  BY ScansGrown
<1>2. ASSUME NEW n \in OfKind(f, {"SOS"}), NEW k \in DOMAIN Coded(kind, f[n])
      PROVE  k \in Slots /\ InForceAt(h, n, kind, k, Coded(kind, f[n])[k], olds[k])
  <2>1. k \in Slots /\ InForceAt(f, n, kind, k, Coded(kind, f[n])[k], olds[k])
    BY <1>2 DEF ForceIn
  <2>2. Defs(g, kind, k) = {} \/ DefsUpTo(f, kind, k, n) # {}
    BY <1>2 DEF Borrowed
  <2>3. n \in 1..Len(f)
    BY <1>1, <1>2
  <2> QED BY <2>1, <2>2, <2>3, InForceGrown
<1> HIDE DEF h
<1> QED BY <1>1, <1>2 DEF ForceIn, h

LEMMA BorrowedGrown ==
  ASSUME NEW f, NEW g, IsFile(f), IsFile(g), NEW kind, NEW tbls, NEW optimize,
         OfKind(g, {"SOS"}) = {}, Borrowed(f, kind, tbls, optimize)
  PROVE  Borrowed(f \o g, kind, tbls, optimize)
<1> DEFINE h == f \o g
<1>1. /\ OfKind(h, {"SOS"}) = OfKind(f, {"SOS"})
      /\ \A n \in OfKind(f, {"SOS"}) : n \in 1..Len(f) /\ h[n] = f[n]
  BY ScansGrown
<1>2. \A n \in OfKind(f, {"SOS"}) : \A k : DefsUpTo(h, kind, k, n) = DefsUpTo(f, kind, k, n)
  BY <1>1, DefsBeforeGrown
<1> HIDE DEF h
<1> QED BY <1>1, <1>2 DEF Borrowed, h

LEMMA FrameBefore ==
  ASSUME NEW f, IsFile(f), Ordered(f), NEW n \in OfKind(f, {"SOS"})
  PROVE  KindBefore(f, {"SOF"}, n) # {}
<1>1. NumSOF(f) = 1 /\ Max(OfKind(f, {"SOF"})) < n
  BY DEF Ordered
<1>2. OfKind(f, {"SOF"}) # {}
  BY <1>1, FS_EmptySet DEF NumSOF
<1>3. Max(OfKind(f, {"SOF"})) \in OfKind(f, {"SOF"})
  BY <1>2, KindPositions, Largest
<1> QED BY <1>1, <1>3 DEF KindBefore

LEMMA FrameKept ==
  ASSUME NEW f, NEW g, IsFile(f), IsFile(g), Ordered(f), NEW n \in OfKind(f, {"SOS"})
  PROVE  FrameOf(f \o g, n) = FrameOf(f, n)
<1>1. KindBefore(f, {"SOF"}, n) # {}
  BY FrameBefore
<1>2. n \in 1..Len(f) + 1
  BY KindPositions, FileFacts
<1>3. KindBefore(f \o g, {"SOF"}, n) = KindBefore(f, {"SOF"}, n)
  BY <1>2, BeforeGrown
<1>4. Max(KindBefore(f, {"SOF"}, n)) \in 1..Len(f)
  BY <1>1, KindBeforeFacts, KindPositions
<1>5. (f \o g)[Max(KindBefore(f, {"SOF"}, n))] = f[Max(KindBefore(f, {"SOF"}, n))]
  BY <1>4, Grown
<1> QED BY <1>3, <1>5 DEF FrameOf

LEMMA QuantInGrown ==
  ASSUME NEW f, NEW g, IsFile(f), IsFile(g), NEW olds, Ordered(f),
         OfKind(g, {"SOS"}) = {}, QuantIn(f, olds),
         OfKind(f, {"SOS"}) = {} \/ \A k : Defs(g, "DQT", k) = {}
  PROVE  QuantIn(f \o g, olds)
<1> DEFINE h == f \o g
<1>1. /\ OfKind(h, {"SOS"}) = OfKind(f, {"SOS"})
      /\ \A n \in OfKind(f, {"SOS"}) : n \in 1..Len(f) /\ h[n] = f[n]
  BY ScansGrown
<1>2. \A n \in OfKind(f, {"SOS"}) : FrameOf(h, n) = FrameOf(f, n)
  BY FrameKept
<1>3. ASSUME NEW n \in OfKind(f, {"SOS"}), NEW k \in DOMAIN FrameOf(f, n).quant
      PROVE  k \in Slots /\ InForceAt(h, n, "DQT", k, FrameOf(f, n).quant[k], olds[k])
  <2>1. k \in Slots /\ InForceAt(f, n, "DQT", k, FrameOf(f, n).quant[k], olds[k])
    BY <1>3 DEF QuantIn
  <2>2. Defs(g, "DQT", k) = {}
    BY <1>3
  <2>3. n \in 1..Len(f)
    BY <1>1, <1>3
  <2> QED BY <2>1, <2>2, <2>3, InForceGrown
<1> HIDE DEF h
<1> QED BY <1>1, <1>2, <1>3 DEF QuantIn, h

LEMMA SentInGrown ==
  ASSUME NEW f, NEW g, IsFile(f), IsFile(g), NEW kind, NEW tbls, NEW olds,
         SentIn(f, kind, tbls, olds), \A k : Defs(g, kind, k) = {}
  PROVE  SentIn(f \o g, kind, tbls, olds)
<1>1. \A s \in Slots : LastDefined(f \o g, kind, s, olds[s]) = LastDefined(f, kind, s, olds[s])
  BY LastDefinedGrown
<1> QED BY <1>1 DEF SentIn

LEMMA FrameInGrown ==
  ASSUME NEW f, NEW g, IsFile(f), IsFile(g), NEW olds, FrameIn(f, olds),
         OfKind(g, {"SOF"}) = {}, \A k : Defs(g, "DQT", k) = {}
  PROVE  FrameIn(f \o g, olds)
<1>1. \A s : LastDefined(f \o g, "DQT", s, olds[s]) = LastDefined(f, "DQT", s, olds[s])
  BY LastDefinedGrown
<1>2. OfKind(f \o g, {"SOF"}) = OfKind(f, {"SOF"})
  BY NoneGrown
<1>3. OfKind(f, {"SOF"}) # {} => Max(OfKind(f, {"SOF"})) \in 1..Len(f)
  BY KindPositions, Largest
<1>4. OfKind(f, {"SOF"}) # {} => (f \o g)[Max(OfKind(f, {"SOF"}))] = f[Max(OfKind(f, {"SOF"}))]
  BY <1>3, Grown
<1> QED BY <1>1, <1>2, <1>4 DEF FrameIn

\* A scan whose tables are the ones the file has come to.
LEMMA InForceNow ==
  ASSUME NEW f, IsFile(f), NEW x, NEW kind, x.t # kind, NEW k, NEW v, NEW old,
         LastDefined(f, kind, k, old) = v
  PROVE  InForceAt(f \o <<x>>, Len(f) + 1, kind, k, v, old)
<1> DEFINE h == f \o <<x>>
           len == Len(f)
           A == Defs(f, kind, k)
<1>1. Defs(h, kind, k) = A
  BY OneToken, TokenKinds, NoDefsGrown
<1>2. A \subseteq 1..len /\ Positions(A)
  BY DefPositions
<1>3. \A m \in 1..len : h[m] = f[m]
  BY OneToken, Grown
<1>4. LastDefined(f, kind, k, old) = IF A = {} THEN old ELSE f[Max(A)].content
  BY DEF LastDefined, Defs
<1>5. len \in Nat
  BY FileFacts
<1> HIDE DEF h, len, A
<1>6. \A m \in A : m <= len + 1
  BY <1>2, <1>5
<1>7. DefsUpTo(h, kind, k, len + 1) = A
  BY <1>1, <1>6 DEF DefsUpTo
<1>8. A # {} => h[Max(A)] = f[Max(A)]
  BY <1>2, <1>3, Largest
<1> QED BY <1>1, <1>4, <1>7, <1>8 DEF InForceAt, h, len

LEMMA ScanGrown ==
  ASSUME NEW f, IsFile(f), NEW x, x.t = "SOS"
  PROVE  /\ OfKind(f \o <<x>>, {"SOS"}) = OfKind(f, {"SOS"}) \cup {Len(f) + 1}
         /\ (f \o <<x>>)[Len(f) + 1] = x
         /\ \A n \in OfKind(f, {"SOS"}) : n \in 1..Len(f) /\ (f \o <<x>>)[n] = f[n]
<1>1. OfKind(f \o <<x>>, {"SOS"}) = OfKind(f, {"SOS"}) \cup {Len(f) + 1}
  BY TokenGrown
<1>2. (f \o <<x>>)[Len(f) + 1] = x /\ \A n \in 1..Len(f) : (f \o <<x>>)[n] = f[n]
  BY OneToken, Grown
<1>3. OfKind(f, {"SOS"}) \subseteq 1..Len(f)
  BY KindPositions
<1> QED BY <1>1, <1>2, <1>3

LEMMA ForceInScan ==
  ASSUME NEW f, IsFile(f), NEW x, x.t = "SOS", NEW kind \in {"DHT_DC", "DHT_AC"}, NEW olds,
         ForceIn(f, kind, olds),
         \A k \in DOMAIN Coded(kind, x) :
           k \in Slots /\ LastDefined(f, kind, k, olds[k]) = Coded(kind, x)[k]
  PROVE  ForceIn(f \o <<x>>, kind, olds)
<1> DEFINE h == f \o <<x>>
<1>1. /\ OfKind(h, {"SOS"}) = OfKind(f, {"SOS"}) \cup {Len(f) + 1} /\ h[Len(f) + 1] = x
      /\ \A n \in OfKind(f, {"SOS"}) : n \in 1..Len(f) /\ h[n] = f[n]
  BY ScanGrown
<1>2. ASSUME NEW n \in OfKind(f, {"SOS"}), NEW k \in DOMAIN Coded(kind, f[n])
      PROVE  k \in Slots /\ InForceAt(h, n, kind, k, Coded(kind, f[n])[k], olds[k])
  <2>1. k \in Slots /\ InForceAt(f, n, kind, k, Coded(kind, f[n])[k], olds[k])
    BY <1>2 DEF ForceIn
  <2>2. Defs(<<x>>, kind, k) = {}
    BY TokenKinds
  <2>3. n \in 1..Len(f)
    BY <1>1, <1>2
  <2> QED BY <2>1, <2>2, <2>3, OneToken, InForceGrown
<1>3. ASSUME NEW k \in DOMAIN Coded(kind, x)
      PROVE  k \in Slots /\ InForceAt(h, Len(f) + 1, kind, k, Coded(kind, x)[k], olds[k])
  BY InForceNow
<1> HIDE DEF h
<1> QED BY <1>1, <1>2, <1>3 DEF ForceIn, h

LEMMA BorrowedScan ==
  ASSUME NEW f, IsFile(f), NEW x, x.t = "SOS", NEW kind \in {"DHT_DC", "DHT_AC"},
         NEW tbls, NEW optimize, Borrowed(f, kind, tbls, optimize),
         \A k \in DOMAIN Coded(kind, x) :
           k \in Slots /\ (Defs(f, kind, k) # {} \/ (~optimize /\ tbls[k].sent_table))
  PROVE  Borrowed(f \o <<x>>, kind, tbls, optimize)
<1> DEFINE h == f \o <<x>>
           len == Len(f)
<1>1. /\ OfKind(h, {"SOS"}) = OfKind(f, {"SOS"}) \cup {len + 1} /\ h[len + 1] = x
      /\ \A n \in OfKind(f, {"SOS"}) : n \in 1..len /\ h[n] = f[n]
  BY ScanGrown
<1>2. \A n \in OfKind(f, {"SOS"}) : \A k : DefsUpTo(h, kind, k, n) = DefsUpTo(f, kind, k, n)
  BY <1>1, OneToken, DefsBeforeGrown
<1>3. ASSUME NEW k PROVE Defs(f, kind, k) # {} => DefsUpTo(h, kind, k, len + 1) # {}
  <2>1. Defs(h, kind, k) = Defs(f, kind, k)
    BY TokenKinds, OneToken, NoDefsGrown
  <2>2. Defs(f, kind, k) \subseteq 1..len /\ len \in Nat
    BY DefPositions, FileFacts
  <2> HIDE DEF h, len
  <2>3. \A m \in Defs(f, kind, k) : m <= len + 1
    BY <2>2
  <2> QED BY <2>1, <2>3 DEF DefsUpTo
<1> HIDE DEF h, len
<1> QED BY <1>1, <1>2, <1>3 DEF Borrowed, h

LEMMA QuantInScan ==
  ASSUME NEW f, IsFile(f), NEW x, x.t = "SOS", NEW olds, Ordered(f),
         QuantIn(f, olds), FrameIn(f, olds), OfKind(f, {"SOF"}) # {}
  PROVE  QuantIn(f \o <<x>>, olds)
<1> DEFINE h == f \o <<x>>
           len == Len(f)
           F == OfKind(f, {"SOF"})
<1>1. /\ OfKind(h, {"SOS"}) = OfKind(f, {"SOS"}) \cup {len + 1}
      /\ \A n \in OfKind(f, {"SOS"}) : n \in 1..len
  BY ScanGrown
<1>2. \A n \in OfKind(f, {"SOS"}) : FrameOf(h, n) = FrameOf(f, n)
  BY OneToken, FrameKept
<1>3. ASSUME NEW n \in OfKind(f, {"SOS"}), NEW k \in DOMAIN FrameOf(f, n).quant
      PROVE  k \in Slots /\ InForceAt(h, n, "DQT", k, FrameOf(f, n).quant[k], olds[k])
  <2>1. k \in Slots /\ InForceAt(f, n, "DQT", k, FrameOf(f, n).quant[k], olds[k])
    BY <1>3 DEF QuantIn
  <2>2. Defs(<<x>>, "DQT", k) = {}
    BY TokenKinds
  <2>3. n \in 1..Len(f)
    BY <1>1, <1>3
  <2> QED BY <2>1, <2>2, <2>3, OneToken, InForceGrown
<1>4. FrameOf(h, len + 1) = f[Max(F)]
  <2>1. OfKind(h, {"SOF"}) = F
    BY TokenKinds, OneToken, NoneGrown
  <2>2. F \subseteq 1..len /\ len \in Nat /\ Max(F) \in F
    BY KindPositions, FileFacts, Largest
  <2>3. h[Max(F)] = f[Max(F)]
    BY <2>2, OneToken, Grown
  <2> HIDE DEF h, len, F
  <2>4. \A m \in F : m < len + 1
    BY <2>2
  <2>5. KindBefore(h, {"SOF"}, len + 1) = F
    BY <2>1, <2>4 DEF KindBefore
  <2> QED BY <2>3, <2>5 DEF FrameOf
<1>5. ASSUME NEW k \in DOMAIN f[Max(F)].quant
      PROVE  k \in Slots /\ InForceAt(h, len + 1, "DQT", k, f[Max(F)].quant[k], olds[k])
  <2>1. k \in Slots /\ LastDefined(f, "DQT", k, olds[k]) = f[Max(F)].quant[k]
    BY <1>5 DEF FrameIn
  <2> QED BY <2>1, InForceNow
<1> HIDE DEF h, len, F
<1> QED BY <1>1, <1>2, <1>3, <1>4, <1>5 DEF QuantIn, h

LEMMA FrameInFrame ==
  ASSUME NEW f, IsFile(f), NEW x, x.t = "SOF", NEW olds,
         \A k \in DOMAIN x.quant : k \in Slots /\ LastDefined(f, "DQT", k, olds[k]) = x.quant[k]
  PROVE  FrameIn(f \o <<x>>, olds)
<1> DEFINE h == f \o <<x>>
           len == Len(f)
           F == OfKind(f, {"SOF"})
<1>1. OfKind(h, {"SOF"}) = F \cup {len + 1} /\ h[len + 1] = x
  BY TokenGrown, OneToken, Grown
<1>2. F \subseteq 1..len /\ len \in Nat
  BY KindPositions, FileFacts
<1>3. \A k : LastDefined(h, "DQT", k, olds[k]) = LastDefined(f, "DQT", k, olds[k])
  BY TokenKinds, OneToken, LastDefinedGrown
<1> HIDE DEF h, len, F
<1>4. \A m \in F \cup {len + 1} : m <= len + 1 /\ m \in Int
  <2>1. \A m \in F : m <= len + 1 /\ m \in Int
    BY <1>2
  <2> QED BY <1>2, <2>1
<1>5. Max(F \cup {len + 1}) = len + 1
  BY <1>4, LastIs
<1> QED BY <1>1, <1>3, <1>5 DEF FrameIn, h

-----------------------------------------------------------------------------
(* Tables that are sent *)

\* g defines the tables of S and says nothing else.
Says(g, kind, tbls, S) ==
  /\ IsFile(g)
  /\ \A K : kind \notin K => OfKind(g, K) = {}
  /\ \A other, k : other # kind => Defs(g, other, k) = {}
  /\ \A k : Defs(g, kind, k) # {} <=> k \in S
  /\ \A k, old : k \in S => LastDefined(g, kind, k, old) = tbls[k].content
ToSend(tbls, used) == {s \in used : ~tbls[s].sent_table}

LEMMA DefineSays ==
  ASSUME NEW kind, NEW tbls, NEW used, NEW s
  PROVE  Says(Define(kind, tbls, used, s), kind, tbls, ToSend(tbls, used) \cap {s})
<1> DEFINE x == [t |-> kind, slot |-> s, content |-> tbls[s].content]
           S == ToSend(tbls, used) \cap {s}
<1>1. CASE s \in used /\ ~tbls[s].sent_table
  <2>1. Define(kind, tbls, used, s) = <<x>> /\ S = {s}
    BY <1>1 DEF Define, ToSend
  <2>2. x.t = kind /\ x.slot = s /\ x.content = tbls[s].content
    OBVIOUS
  <2> HIDE DEF x, S
  <2>3. IsFile(<<x>>) /\ <<x>>[1] = x
    BY OneToken
  <2>4. \A K : kind \notin K => OfKind(<<x>>, K) = {}
    BY <2>2, TokenKinds
  <2>5. \A other, k : Defs(<<x>>, other, k) = IF kind = other /\ s = k THEN {1} ELSE {}
    BY <2>2, TokenKinds
  <2>6. Max({1}) = 1
    BY LastIs
  <2>7. \A old : LastDefined(<<x>>, kind, s, old) = tbls[s].content
    <3>1. Defs(<<x>>, kind, s) = {1}
      BY <2>5
    <3>2. \A old : LastDefined(<<x>>, kind, s, old)
                      = IF Defs(<<x>>, kind, s) = {} THEN old ELSE <<x>>[Max(Defs(<<x>>, kind, s))].content
      BY DEF LastDefined, Defs
    <3>3. \A old : LastDefined(<<x>>, kind, s, old) = <<x>>[Max({1})].content
      BY <3>1, <3>2
    <3>4. <<x>>[Max({1})] = x
      BY <2>3, <2>6
    <3> QED BY <3>3, <3>4, <2>2
  <2> DEFINE p == Define(kind, tbls, used, s)
             T == ToSend(tbls, used) \cap {s}
  <2>8. p = <<x>> /\ T = {s}
    BY <2>1 DEF S
  <2> HIDE DEF p, T
  <2>9. /\ IsFile(p) /\ \A K : kind \notin K => OfKind(p, K) = {}
        /\ \A other, k : other # kind => Defs(p, other, k) = {}
    BY <2>8, <2>3, <2>4, <2>5
  <2>10. \A k : Defs(p, kind, k) # {} <=> k \in T
    BY <2>8, <2>5
  <2>11. \A k, old : k \in T => LastDefined(p, kind, k, old) = tbls[k].content
    BY <2>8, <2>7
  <2>12. Says(p, kind, tbls, T)
    BY <2>9, <2>10, <2>11 DEF Says
  <2> QED BY <2>12 DEF p, T
<1>2. CASE ~ (s \in used /\ ~tbls[s].sent_table)
  <2>1. Define(kind, tbls, used, s) = << >> /\ S = {}
    BY <1>2 DEF Define, ToSend
  <2>2. \A K : OfKind(<< >>, K) = {}
    BY EmptyFile DEF OfKind
  <2>3. \A other, k : Defs(<< >>, other, k) = {}
    BY EmptyFile DEF Defs
  <2> QED BY <2>1, <2>2, <2>3, EmptyFile DEF Says
<1> QED BY <1>1, <1>2

LEMMA SaysMore ==
  ASSUME NEW g, NEW h, NEW kind, NEW tbls, NEW S, NEW T, Says(g, kind, tbls, S), Says(h, kind, tbls, T)
  PROVE  Says(g \o h, kind, tbls, S \cup T)
<1> DEFINE f == g \o h
<1>1. IsFile(g) /\ IsFile(h) /\ IsFile(f)
  BY Grown DEF Says
<1>2. \A K : OfKind(f, K) = Joined(OfKind(g, K), Len(g), OfKind(h, K))
  BY <1>1, GrownKinds
<1>3. \A other, k : Defs(f, other, k) = Joined(Defs(g, other, k), Len(g), Defs(h, other, k))
  BY <1>1, GrownDefs
<1>4. \A k, old : /\ Defs(h, kind, k) = {} => LastDefined(f, kind, k, old) = LastDefined(g, kind, k, old)
                  /\ Defs(h, kind, k) # {} => LastDefined(f, kind, k, old) = LastDefined(h, kind, k, old)
  BY <1>1, LastDefinedGrown
<1> HIDE DEF f
<1>5. \A A, len, B : Joined(A, len, B) = {} <=> A = {} /\ B = {}
  BY DEF Joined
<1>6. \A K : kind \notin K => OfKind(f, K) = {}
  BY <1>2, <1>5 DEF Says
<1>7. \A other, k : other # kind => Defs(f, other, k) = {}
  BY <1>3, <1>5 DEF Says
<1>8. \A k : Defs(f, kind, k) # {} <=> k \in S \cup T
  BY <1>3, <1>5 DEF Says
<1>9. \A k, old : k \in S \cup T => LastDefined(f, kind, k, old) = tbls[k].content
  BY <1>4 DEF Says
<1> QED BY <1>1, <1>6, <1>7, <1>8, <1>9 DEF Says, f

LEMMA DefinitionsSay ==
  ASSUME NEW kind, NEW tbls, NEW used, used \subseteq Slots
  PROVE  Says(Definitions(kind, tbls, used), kind, tbls, ToSend(tbls, used))
<1> DEFINE U == ToSend(tbls, used)
<1>1. U = (U \cap {0}) \cup (U \cap {1})
  BY DEF ToSend, Slots
<1> HIDE DEF U
<1>2. /\ Says(Define(kind, tbls, used, 0), kind, tbls, U \cap {0})
      /\ Says(Define(kind, tbls, used, 1), kind, tbls, U \cap {1})
  BY DefineSays DEF U
<1>3. Says(Definitions(kind, tbls, used), kind, tbls, (U \cap {0}) \cup (U \cap {1}))
  BY <1>2, SaysMore DEF Definitions
<1> QED BY <1>1, <1>3 DEF U

LEMMA MarkedSent ==
  ASSUME NEW tbls, NEW used, IsTables(tbls)
  PROVE  /\ IsTables(MarkSent(tbls, used))
         /\ \A s \in Slots : /\ MarkSent(tbls, used)[s].content = tbls[s].content
                             /\ MarkSent(tbls, used)[s].sent_table <=> s \in used \/ tbls[s].sent_table
<1>1. ASSUME NEW s \in Slots
      PROVE  /\ MarkSent(tbls, used)[s] = IF s \in used THEN [tbls[s] EXCEPT !.sent_table = TRUE] ELSE tbls[s]
             /\ DOMAIN tbls[s] = {"content", "sent_table"} /\ tbls[s].sent_table \in BOOLEAN
  BY DEF MarkSent, IsTables
<1>2. DOMAIN MarkSent(tbls, used) = Slots
  BY DEF MarkSent
<1>3. ASSUME NEW s \in Slots
      PROVE  /\ DOMAIN MarkSent(tbls, used)[s] = {"content", "sent_table"}
             /\ MarkSent(tbls, used)[s].content = tbls[s].content
             /\ MarkSent(tbls, used)[s].sent_table <=> s \in used \/ tbls[s].sent_table
             /\ MarkSent(tbls, used)[s].sent_table \in BOOLEAN
  <2>1. CASE s \in used
    BY <1>1, <2>1
  <2>2. CASE s \notin used
    BY <1>1, <2>2
  <2> QED BY <2>1, <2>2
<1> QED BY <1>2, <1>3 DEF IsTables

LEMMA SentInSays ==
  ASSUME NEW f, NEW g, NEW kind, NEW tbls, NEW used, NEW olds,
         IsFile(f), IsTables(tbls), SentIn(f, kind, tbls, olds), Says(g, kind, tbls, ToSend(tbls, used))
  PROVE  SentIn(f \o g, kind, MarkSent(tbls, used), olds)
<1>1. IsFile(g)
  BY DEF Says
<1>2. ASSUME NEW s \in Slots, MarkSent(tbls, used)[s].sent_table
      PROVE  LastDefined(f \o g, kind, s, olds[s]) = MarkSent(tbls, used)[s].content
  <2>1. MarkSent(tbls, used)[s].content = tbls[s].content /\ (s \in used \/ tbls[s].sent_table)
    BY <1>2, MarkedSent
  <2>2. CASE s \in ToSend(tbls, used)
    <3>1. Defs(g, kind, s) # {} /\ LastDefined(g, kind, s, olds[s]) = tbls[s].content
      BY <2>2 DEF Says
    <3> QED BY <2>1, <3>1, <1>1, LastDefinedGrown
  <2>3. CASE s \notin ToSend(tbls, used)
    <3>1. Defs(g, kind, s) = {}
      BY <2>3 DEF Says
    <3>2. tbls[s].sent_table
      BY <2>1, <2>3 DEF ToSend
    <3>3. LastDefined(f, kind, s, olds[s]) = tbls[s].content
      BY <3>2 DEF SentIn
    <3> QED BY <2>1, <3>1, <3>3, <1>1, LastDefinedGrown
  <2> QED BY <2>2, <2>3
<1> QED BY <1>2 DEF SentIn

LEMMA BorrowedMarked ==
  ASSUME NEW f, NEW kind, NEW tbls, NEW used, NEW optimize, IsTables(tbls),
         Borrowed(f, kind, tbls, optimize)
  PROVE  Borrowed(f, kind, MarkSent(tbls, used), optimize)
<1>1. \A s \in Slots : tbls[s].sent_table => MarkSent(tbls, used)[s].sent_table
  BY MarkedSent
<1> QED BY <1>1 DEF Borrowed

-----------------------------------------------------------------------------
(* A file that is being written *)

\* FileInv and TablesInv of an object with the file f, the tables q, d and a, and
\* the last restart interval i.
Body(f, q, d, a, i, optimize, tables, claim) ==
  /\ IsFile(f) /\ Ordered(f) /\ Intervals(f)
  /\ claim => AllInForce(f, tables)
  /\ claim => /\ SentIn(f, "DQT", q, tables.quant) /\ SentIn(f, "DHT_DC", d, tables.dc)
              /\ SentIn(f, "DHT_AC", a, tables.ac) /\ FrameIn(f, tables.quant)
  /\ Borrowed(f, "DHT_DC", d, optimize) /\ Borrowed(f, "DHT_AC", a, optimize)
  /\ i = LastInterval(f, Len(f) + 1)
  /\ OfKind(f, {"EOI"}) = {}

LEMMA BodyOf ==
  ASSUME NEW c, NEW tables, NEW claim
  PROVE  /\ FileInv(c, tables, claim) /\ TablesInv(c, tables, claim)
            => Body(c.file, c.quant, c.dc, c.ac, c.last_restart_interval, OptimizeCoding(c), tables, claim)
         /\ Body(c.file, c.quant, c.dc, c.ac, c.last_restart_interval, OptimizeCoding(c), tables, claim)
            => FileInv(c, tables, claim) /\ TablesInv(c, tables, claim)
BY DEF Body, FileInv, TablesInv, AllSent

\* A file says the same with tokens that are none of a header.
HeaderKinds == {"SOS", "SOF", "DRI", "EOI", "DQT", "DHT_DC", "DHT_AC"}
Plain(g) == IsFile(g) /\ OfKind(g, HeaderKinds) = {}

LEMMA PlainFacts ==
  ASSUME NEW g, Plain(g)
  PROVE  /\ IsFile(g)
         /\ \A K : K \subseteq HeaderKinds => OfKind(g, K) = {}
         /\ \A kind \in HeaderKinds : \A k : Defs(g, kind, k) = {}
<1>1. \A n \in DOMAIN g : g[n].t \notin HeaderKinds
  BY DEF Plain, OfKind
<1> QED BY <1>1 DEF Plain, OfKind, Defs

LEMMA PlainToken ==
  ASSUME NEW x, x.t \notin HeaderKinds PROVE Plain(<<x>>)
BY TokenKinds, OneToken DEF Plain

LEMMA PlainMore ==
  ASSUME NEW g, NEW h, Plain(g), Plain(h) PROVE Plain(g \o h)
BY NoneGrown, Grown DEF Plain

LEMMA NothingPlain == Plain(<< >>)
BY EmptyFile DEF Plain, OfKind

LEMMA BodyPlain ==
  ASSUME NEW f, NEW g, NEW q, NEW d, NEW a, NEW i, NEW optimize, NEW tables, NEW claim,
         Body(f, q, d, a, i, optimize, tables, claim), Plain(g)
  PROVE  /\ Body(f \o g, q, d, a, i, optimize, tables, claim)
         /\ NumSOS(f \o g) = NumSOS(f) /\ NumSOF(f \o g) = NumSOF(f)
<1>1. /\ IsFile(f) /\ IsFile(g) /\ IsFile(f \o g)
      /\ OfKind(g, {"SOS"}) = {} /\ OfKind(g, {"SOF"}) = {} /\ OfKind(g, {"DRI"}) = {}
      /\ OfKind(g, {"EOI"}) = {}
  BY Grown, PlainFacts DEF Body, HeaderKinds
<1>2. /\ \A k : Defs(g, "DQT", k) = {}
      /\ \A k : Defs(g, "DHT_DC", k) = {}
      /\ \A k : Defs(g, "DHT_AC", k) = {}
  BY PlainFacts DEF HeaderKinds
<1>3. Ordered(f \o g) /\ NumSOS(f \o g) = NumSOS(f) /\ NumSOF(f \o g) = NumSOF(f)
  BY <1>1, OrderedGrown DEF Body
<1>4. Intervals(f \o g)
  BY <1>1, IntervalsGrown DEF Body
<1>5. /\ Borrowed(f \o g, "DHT_DC", d, optimize) /\ Borrowed(f \o g, "DHT_AC", a, optimize)
  BY <1>1, BorrowedGrown DEF Body
<1>6. claim => AllInForce(f \o g, tables)
  <2> SUFFICES ASSUME claim PROVE AllInForce(f \o g, tables)
    OBVIOUS
  <2>1. ForceIn(f \o g, "DHT_DC", tables.dc)
    BY <1>1, <1>2, ForceInGrown DEF Body, AllInForce
  <2>2. ForceIn(f \o g, "DHT_AC", tables.ac)
    BY <1>1, <1>2, ForceInGrown DEF Body, AllInForce
  <2>3. QuantIn(f \o g, tables.quant)
    BY <1>1, <1>2, QuantInGrown DEF Body, AllInForce
  <2> QED BY <2>1, <2>2, <2>3 DEF AllInForce
<1>7. claim => /\ SentIn(f \o g, "DQT", q, tables.quant) /\ SentIn(f \o g, "DHT_DC", d, tables.dc)
               /\ SentIn(f \o g, "DHT_AC", a, tables.ac) /\ FrameIn(f \o g, tables.quant)
  BY <1>1, <1>2, SentInGrown, FrameInGrown DEF Body
<1>8. i = LastInterval(f \o g, Len(f \o g) + 1) /\ OfKind(f \o g, {"EOI"}) = {}
  BY <1>1, LastIntervalKept, NoneGrown DEF Body
<1> QED BY <1>1, <1>3, <1>4, <1>5, <1>6, <1>7, <1>8 DEF Body

LEMMA SaysFacts ==
  ASSUME NEW g, NEW kind \in {"DQT", "DHT_DC", "DHT_AC"}, NEW tbls, NEW S, Says(g, kind, tbls, S)
  PROVE  /\ IsFile(g)
         /\ OfKind(g, {"SOS"}) = {} /\ OfKind(g, {"SOF"}) = {} /\ OfKind(g, {"DRI"}) = {}
         /\ OfKind(g, {"EOI"}) = {}
BY DEF Says

\* Quantization tables come before the frame.
LEMMA BodyQuant ==
  ASSUME NEW f, NEW g, NEW q, NEW d, NEW a, NEW i, NEW optimize, NEW tables, NEW claim, NEW used,
         Body(f, q, d, a, i, optimize, tables, claim), Says(g, "DQT", q, ToSend(q, used)),
         IsTables(q), OfKind(f, {"SOF"}) = {}
  PROVE  /\ Body(f \o g, MarkSent(q, used), d, a, i, optimize, tables, claim)
         /\ NumSOS(f \o g) = NumSOS(f) /\ NumSOF(f \o g) = NumSOF(f)
         /\ OfKind(f \o g, {"SOF"}) = {}
<1>1. /\ IsFile(f) /\ IsFile(g) /\ IsFile(f \o g)
      /\ OfKind(g, {"SOS"}) = {} /\ OfKind(g, {"SOF"}) = {} /\ OfKind(g, {"DRI"}) = {}
      /\ OfKind(g, {"EOI"}) = {}
  BY Grown, SaysFacts DEF Body
<1>2. /\ \A k : Defs(g, "DHT_DC", k) = {}
      /\ \A k : Defs(g, "DHT_AC", k) = {}
  BY DEF Says
<1>3. OfKind(f, {"SOS"}) = {} /\ OfKind(f \o g, {"SOS"}) = {} /\ OfKind(f \o g, {"SOF"}) = {}
  <2>1. NumSOF(f) = 0
    BY FS_EmptySet DEF NumSOF
  <2>2. OfKind(f, {"SOS"}) = {}
    BY <2>1 DEF Body, Ordered
  <2> QED BY <1>1, <2>2, NoneGrown
<1>4. Ordered(f \o g) /\ NumSOS(f \o g) = NumSOS(f) /\ NumSOF(f \o g) = NumSOF(f)
  BY <1>1, OrderedGrown DEF Body
<1>5. Intervals(f \o g)
  BY <1>1, IntervalsGrown DEF Body
<1>6. /\ Borrowed(f \o g, "DHT_DC", d, optimize) /\ Borrowed(f \o g, "DHT_AC", a, optimize)
  BY <1>1, BorrowedGrown DEF Body
<1>7. AllInForce(f \o g, tables)
  BY <1>3 DEF AllInForce, ForceIn, QuantIn
<1>8. claim => /\ SentIn(f \o g, "DHT_DC", d, tables.dc) /\ SentIn(f \o g, "DHT_AC", a, tables.ac)
  BY <1>1, <1>2, SentInGrown DEF Body
<1>9. claim => SentIn(f \o g, "DQT", MarkSent(q, used), tables.quant)
  BY <1>1, SentInSays DEF Body
<1>10. FrameIn(f \o g, tables.quant)
  BY <1>3 DEF FrameIn
<1>11. i = LastInterval(f \o g, Len(f \o g) + 1) /\ OfKind(f \o g, {"EOI"}) = {}
  BY <1>1, LastIntervalKept, NoneGrown DEF Body
<1> QED BY <1>1, <1>3, <1>4, <1>5, <1>6, <1>7, <1>8, <1>9, <1>10, <1>11 DEF Body

\* Huffman tables may come anywhere: those of earlier scans stay in force.
LEMMA BodyDc ==
  ASSUME NEW f, NEW g, NEW q, NEW d, NEW a, NEW i, NEW optimize, NEW tables, NEW claim, NEW used,
         Body(f, q, d, a, i, optimize, tables, claim), Says(g, "DHT_DC", d, ToSend(d, used)),
         IsTables(d)
  PROVE  /\ Body(f \o g, q, MarkSent(d, used), a, i, optimize, tables, claim)
         /\ NumSOS(f \o g) = NumSOS(f) /\ NumSOF(f \o g) = NumSOF(f)
<1>1. /\ IsFile(f) /\ IsFile(g) /\ IsFile(f \o g)
      /\ OfKind(g, {"SOS"}) = {} /\ OfKind(g, {"SOF"}) = {} /\ OfKind(g, {"DRI"}) = {}
      /\ OfKind(g, {"EOI"}) = {}
  BY Grown, SaysFacts DEF Body
<1>2. /\ \A k : Defs(g, "DQT", k) = {}
      /\ \A k : Defs(g, "DHT_AC", k) = {}
      /\ \A k : Defs(g, "DHT_DC", k) # {} => ~d[k].sent_table
  BY DEF Says, ToSend
<1>3. Ordered(f \o g) /\ NumSOS(f \o g) = NumSOS(f) /\ NumSOF(f \o g) = NumSOF(f)
  BY <1>1, OrderedGrown DEF Body
<1>4. Intervals(f \o g)
  BY <1>1, IntervalsGrown DEF Body
<1>5. /\ Borrowed(f \o g, "DHT_DC", MarkSent(d, used), optimize)
      /\ Borrowed(f \o g, "DHT_AC", a, optimize)
  BY <1>1, BorrowedGrown, BorrowedMarked DEF Body
<1>6. claim => AllInForce(f \o g, tables)
  <2> SUFFICES ASSUME claim PROVE AllInForce(f \o g, tables)
    OBVIOUS
  <2>1. ForceIn(f \o g, "DHT_DC", tables.dc)
    BY <1>1, <1>2, ForceInGrown DEF Body, AllInForce
  <2>2. ForceIn(f \o g, "DHT_AC", tables.ac)
    BY <1>1, <1>2, ForceInGrown DEF Body, AllInForce
  <2>3. QuantIn(f \o g, tables.quant)
    BY <1>1, <1>2, QuantInGrown DEF Body, AllInForce
  <2> QED BY <2>1, <2>2, <2>3 DEF AllInForce
<1>7. claim => /\ SentIn(f \o g, "DQT", q, tables.quant)
               /\ SentIn(f \o g, "DHT_AC", a, tables.ac) /\ FrameIn(f \o g, tables.quant)
  BY <1>1, <1>2, SentInGrown, FrameInGrown DEF Body
<1>8. claim => SentIn(f \o g, "DHT_DC", MarkSent(d, used), tables.dc)
  BY <1>1, SentInSays DEF Body
<1>9. i = LastInterval(f \o g, Len(f \o g) + 1) /\ OfKind(f \o g, {"EOI"}) = {}
  BY <1>1, LastIntervalKept, NoneGrown DEF Body
<1> QED BY <1>1, <1>3, <1>4, <1>5, <1>6, <1>7, <1>8, <1>9 DEF Body

LEMMA BodyAc ==
  ASSUME NEW f, NEW g, NEW q, NEW d, NEW a, NEW i, NEW optimize, NEW tables, NEW claim, NEW used,
         Body(f, q, d, a, i, optimize, tables, claim), Says(g, "DHT_AC", a, ToSend(a, used)),
         IsTables(a)
  PROVE  /\ Body(f \o g, q, d, MarkSent(a, used), i, optimize, tables, claim)
         /\ NumSOS(f \o g) = NumSOS(f) /\ NumSOF(f \o g) = NumSOF(f)
<1>1. /\ IsFile(f) /\ IsFile(g) /\ IsFile(f \o g)
      /\ OfKind(g, {"SOS"}) = {} /\ OfKind(g, {"SOF"}) = {} /\ OfKind(g, {"DRI"}) = {}
      /\ OfKind(g, {"EOI"}) = {}
  BY Grown, SaysFacts DEF Body
<1>2. /\ \A k : Defs(g, "DQT", k) = {}
      /\ \A k : Defs(g, "DHT_DC", k) = {}
      /\ \A k : Defs(g, "DHT_AC", k) # {} => ~a[k].sent_table
  BY DEF Says, ToSend
<1>3. Ordered(f \o g) /\ NumSOS(f \o g) = NumSOS(f) /\ NumSOF(f \o g) = NumSOF(f)
  BY <1>1, OrderedGrown DEF Body
<1>4. Intervals(f \o g)
  BY <1>1, IntervalsGrown DEF Body
<1>5. /\ Borrowed(f \o g, "DHT_AC", MarkSent(a, used), optimize)
      /\ Borrowed(f \o g, "DHT_DC", d, optimize)
  BY <1>1, BorrowedGrown, BorrowedMarked DEF Body
<1>6. claim => AllInForce(f \o g, tables)
  <2> SUFFICES ASSUME claim PROVE AllInForce(f \o g, tables)
    OBVIOUS
  <2>1. ForceIn(f \o g, "DHT_DC", tables.dc)
    BY <1>1, <1>2, ForceInGrown DEF Body, AllInForce
  <2>2. ForceIn(f \o g, "DHT_AC", tables.ac)
    BY <1>1, <1>2, ForceInGrown DEF Body, AllInForce
  <2>3. QuantIn(f \o g, tables.quant)
    BY <1>1, <1>2, QuantInGrown DEF Body, AllInForce
  <2> QED BY <2>1, <2>2, <2>3 DEF AllInForce
<1>7. claim => /\ SentIn(f \o g, "DQT", q, tables.quant)
               /\ SentIn(f \o g, "DHT_DC", d, tables.dc) /\ FrameIn(f \o g, tables.quant)
  BY <1>1, <1>2, SentInGrown, FrameInGrown DEF Body
<1>8. claim => SentIn(f \o g, "DHT_AC", MarkSent(a, used), tables.ac)
  BY <1>1, SentInSays DEF Body
<1>9. i = LastInterval(f \o g, Len(f \o g) + 1) /\ OfKind(f \o g, {"EOI"}) = {}
  BY <1>1, LastIntervalKept, NoneGrown DEF Body
<1> QED BY <1>1, <1>3, <1>4, <1>5, <1>6, <1>7, <1>8, <1>9 DEF Body

\* One token, which is not a definition, leaves the tables as they are.
LEMMA TokenKeeps ==
  ASSUME NEW f, NEW x, NEW q, NEW d, NEW a, NEW i, NEW optimize, NEW tables, NEW claim,
         Body(f, q, d, a, i, optimize, tables, claim), x.t \in {"DRI", "SOF", "SOS", "EOI"}
  PROVE  /\ IsFile(f) /\ IsFile(<<x>>) /\ IsFile(f \o <<x>>)
         /\ \A k : Defs(<<x>>, "DQT", k) = {}
         /\ \A k : Defs(<<x>>, "DHT_DC", k) = {}
         /\ \A k : Defs(<<x>>, "DHT_AC", k) = {}
         /\ claim => /\ SentIn(f \o <<x>>, "DQT", q, tables.quant)
                     /\ SentIn(f \o <<x>>, "DHT_DC", d, tables.dc)
                     /\ SentIn(f \o <<x>>, "DHT_AC", a, tables.ac)
<1>1. IsFile(f) /\ IsFile(<<x>>) /\ IsFile(f \o <<x>>)
  BY Grown, OneToken DEF Body
<1>2. /\ \A k : Defs(<<x>>, "DQT", k) = {}
      /\ \A k : Defs(<<x>>, "DHT_DC", k) = {}
      /\ \A k : Defs(<<x>>, "DHT_AC", k) = {}
  BY TokenKinds
<1> QED BY <1>1, <1>2, SentInGrown DEF Body

\* One that is no scan, in a file whose frame stands, leaves the scans in force.
LEMMA TokenInForce ==
  ASSUME NEW f, NEW x, NEW q, NEW d, NEW a, NEW i, NEW optimize, NEW tables, NEW claim,
         Body(f, q, d, a, i, optimize, tables, claim), x.t \in {"DRI", "SOF", "EOI"}
  PROVE  /\ Intervals(f \o <<x>>)
         /\ Borrowed(f \o <<x>>, "DHT_DC", d, optimize) /\ Borrowed(f \o <<x>>, "DHT_AC", a, optimize)
         /\ claim => AllInForce(f \o <<x>>, tables)
<1>1. /\ IsFile(f) /\ IsFile(<<x>>)
      /\ \A k : Defs(<<x>>, "DQT", k) = {}
      /\ \A k : Defs(<<x>>, "DHT_DC", k) = {}
      /\ \A k : Defs(<<x>>, "DHT_AC", k) = {}
  BY TokenKeeps
<1>2. OfKind(<<x>>, {"SOS"}) = {}
  BY TokenKinds
<1>3. Intervals(f \o <<x>>)
  BY <1>1, <1>2, IntervalsGrown DEF Body
<1>4. Borrowed(f \o <<x>>, "DHT_DC", d, optimize) /\ Borrowed(f \o <<x>>, "DHT_AC", a, optimize)
  BY <1>1, <1>2, BorrowedGrown DEF Body
<1>5. claim => AllInForce(f \o <<x>>, tables)
  <2> SUFFICES ASSUME claim PROVE AllInForce(f \o <<x>>, tables)
    OBVIOUS
  <2>1. ForceIn(f \o <<x>>, "DHT_DC", tables.dc)
    BY <1>1, <1>2, ForceInGrown DEF Body, AllInForce
  <2>2. ForceIn(f \o <<x>>, "DHT_AC", tables.ac)
    BY <1>1, <1>2, ForceInGrown DEF Body, AllInForce
  <2>3. QuantIn(f \o <<x>>, tables.quant)
    BY <1>1, <1>2, QuantInGrown DEF Body, AllInForce
  <2> QED BY <2>1, <2>2, <2>3 DEF AllInForce
<1> QED BY <1>3, <1>4, <1>5

LEMMA BodyDri ==
  ASSUME NEW f, NEW x, NEW q, NEW d, NEW a, NEW i, NEW optimize, NEW tables, NEW claim,
         Body(f, q, d, a, i, optimize, tables, claim), x.t = "DRI"
  PROVE  /\ Body(f \o <<x>>, q, d, a, x.interval, optimize, tables, claim)
         /\ NumSOS(f \o <<x>>) = NumSOS(f) /\ NumSOF(f \o <<x>>) = NumSOF(f)
<1>1. /\ IsFile(f) /\ IsFile(<<x>>) /\ IsFile(f \o <<x>>)
      /\ \A k : Defs(<<x>>, "DQT", k) = {}
  BY TokenKeeps
<1>2. /\ OfKind(<<x>>, {"SOS"}) = {} /\ OfKind(<<x>>, {"SOF"}) = {} /\ OfKind(<<x>>, {"EOI"}) = {}
  BY TokenKinds
<1>3. Ordered(f \o <<x>>) /\ NumSOS(f \o <<x>>) = NumSOS(f) /\ NumSOF(f \o <<x>>) = NumSOF(f)
  BY <1>1, <1>2, OrderedGrown DEF Body
<1>4. claim => FrameIn(f \o <<x>>, tables.quant)
  BY <1>1, <1>2, FrameInGrown DEF Body
<1>5. OfKind(f \o <<x>>, {"EOI"}) = {}
  BY <1>1, <1>2, NoneGrown DEF Body
<1>6. x.interval = LastInterval(f \o <<x>>, Len(f \o <<x>>) + 1)
  BY <1>1, LastIntervalNew
<1>7. claim => /\ SentIn(f \o <<x>>, "DQT", q, tables.quant)
               /\ SentIn(f \o <<x>>, "DHT_DC", d, tables.dc)
               /\ SentIn(f \o <<x>>, "DHT_AC", a, tables.ac)
  BY TokenKeeps
<1>8. /\ Intervals(f \o <<x>>)
      /\ Borrowed(f \o <<x>>, "DHT_DC", d, optimize) /\ Borrowed(f \o <<x>>, "DHT_AC", a, optimize)
      /\ claim => AllInForce(f \o <<x>>, tables)
  BY TokenInForce
<1> QED BY <1>1, <1>3, <1>4, <1>5, <1>6, <1>7, <1>8 DEF Body

\* The frame, whose quantization tables were sent.
LEMMA BodyFrame ==
  ASSUME NEW f, NEW x, NEW q, NEW d, NEW a, NEW i, NEW optimize, NEW tables, NEW claim,
         Body(f, q, d, a, i, optimize, tables, claim), x.t = "SOF", OfKind(f, {"SOF"}) = {},
         \A k \in DOMAIN x.quant : k \in Slots /\ q[k].sent_table /\ q[k].content = x.quant[k]
  PROVE  /\ Body(f \o <<x>>, q, d, a, i, optimize, tables, claim)
         /\ NumSOS(f \o <<x>>) = 0 /\ NumSOF(f \o <<x>>) = 1
<1>1. /\ IsFile(f) /\ IsFile(<<x>>) /\ IsFile(f \o <<x>>)
      /\ \A k : Defs(<<x>>, "DQT", k) = {}
  BY TokenKeeps
<1>2. OfKind(<<x>>, {"SOS"}) = {} /\ OfKind(<<x>>, {"DRI"}) = {} /\ OfKind(<<x>>, {"EOI"}) = {}
  BY TokenKinds
<1>3. NumSOF(f) = 0 /\ OfKind(f, {"SOS"}) = {} /\ NumSOS(f) = 0
  <2>1. NumSOF(f) = 0
    BY FS_EmptySet DEF NumSOF
  <2>2. OfKind(f, {"SOS"}) = {}
    BY <2>1 DEF Body, Ordered
  <2> QED BY <2>1, <2>2, FS_EmptySet DEF NumSOS
<1>4. Ordered(f \o <<x>>) /\ NumSOS(f \o <<x>>) = 0 /\ NumSOF(f \o <<x>>) = 1
  BY <1>1, <1>3, OrderedFrame
<1>5. claim => FrameIn(f \o <<x>>, tables.quant)
  <2> SUFFICES ASSUME claim PROVE FrameIn(f \o <<x>>, tables.quant)
    OBVIOUS
  <2>1. \A k \in DOMAIN x.quant : k \in Slots /\ LastDefined(f, "DQT", k, tables.quant[k]) = x.quant[k]
    BY DEF Body, SentIn
  <2> QED BY <1>1, <2>1, FrameInFrame
<1>6. i = LastInterval(f \o <<x>>, Len(f \o <<x>>) + 1) /\ OfKind(f \o <<x>>, {"EOI"}) = {}
  <2>1. i = LastInterval(f, Len(f) + 1) /\ OfKind(f, {"EOI"}) = {}
    BY DEF Body
  <2>2. LastInterval(f \o <<x>>, Len(f \o <<x>>) + 1) = LastInterval(f, Len(f) + 1)
    BY <1>1, <1>2, LastIntervalKept
  <2>3. OfKind(f \o <<x>>, {"EOI"}) = {}
    BY <1>1, <1>2, <2>1, NoneGrown
  <2> QED BY <2>1, <2>2, <2>3
<1>7. claim => /\ SentIn(f \o <<x>>, "DQT", q, tables.quant)
               /\ SentIn(f \o <<x>>, "DHT_DC", d, tables.dc)
               /\ SentIn(f \o <<x>>, "DHT_AC", a, tables.ac)
  BY TokenKeeps
<1>8. /\ Intervals(f \o <<x>>)
      /\ Borrowed(f \o <<x>>, "DHT_DC", d, optimize) /\ Borrowed(f \o <<x>>, "DHT_AC", a, optimize)
      /\ claim => AllInForce(f \o <<x>>, tables)
  BY TokenInForce
<1> QED BY <1>1, <1>4, <1>5, <1>6, <1>7, <1>8 DEF Body

\* What a scan needs: its tables were sent, in this file if new ones are made.
Ready(f, kind, tbls, optimize, coded) ==
  \A k \in DOMAIN coded :
    /\ k \in Slots /\ tbls[k].sent_table /\ tbls[k].content = coded[k]
    /\ optimize => Defs(f, kind, k) # {}

LEMMA ReadyInForce ==
  ASSUME NEW f, NEW x, IsFile(f), x.t = "SOS", NEW kind \in {"DHT_DC", "DHT_AC"}, NEW tbls,
         NEW optimize \in BOOLEAN, NEW olds, Ready(f, kind, tbls, optimize, Coded(kind, x)),
         Borrowed(f, kind, tbls, optimize)
  PROVE  /\ Borrowed(f \o <<x>>, kind, tbls, optimize)
         /\ ForceIn(f, kind, olds) /\ SentIn(f, kind, tbls, olds) => ForceIn(f \o <<x>>, kind, olds)
<1>1. \A k \in DOMAIN Coded(kind, x) :
        k \in Slots /\ (Defs(f, kind, k) # {} \/ (~optimize /\ tbls[k].sent_table))
  BY DEF Ready
<1>2. SentIn(f, kind, tbls, olds) =>
        \A k \in DOMAIN Coded(kind, x) :
          k \in Slots /\ LastDefined(f, kind, k, olds[k]) = Coded(kind, x)[k]
  BY DEF Ready, SentIn
<1>3. Borrowed(f \o <<x>>, kind, tbls, optimize)
  BY <1>1, BorrowedScan
<1> QED BY <1>2, <1>3, ForceInScan

LEMMA BodyScan ==
  ASSUME NEW f, NEW x, NEW q, NEW d, NEW a, NEW i, NEW optimize \in BOOLEAN, NEW tables, NEW claim,
         Body(f, q, d, a, i, optimize, tables, claim), x.t = "SOS", x.interval = i,
         NumSOF(f) = 1, x.scan = NumSOS(f) + 1,
         Ready(f, "DHT_DC", d, optimize, x.dc), Ready(f, "DHT_AC", a, optimize, x.ac)
  PROVE  /\ Body(f \o <<x>>, q, d, a, i, optimize, tables, claim)
         /\ NumSOS(f \o <<x>>) = NumSOS(f) + 1 /\ NumSOF(f \o <<x>>) = 1
<1>1. /\ IsFile(f) /\ IsFile(<<x>>) /\ IsFile(f \o <<x>>)
      /\ \A k : Defs(<<x>>, "DQT", k) = {}
  BY TokenKeeps
<1>2. OfKind(<<x>>, {"SOF"}) = {} /\ OfKind(<<x>>, {"DRI"}) = {} /\ OfKind(<<x>>, {"EOI"}) = {}
  BY TokenKinds
<1>3. OfKind(f, {"SOF"}) # {}
  BY FS_EmptySet DEF NumSOF
<1>4. Ordered(f \o <<x>>) /\ NumSOS(f \o <<x>>) = NumSOS(f) + 1 /\ NumSOF(f \o <<x>>) = 1
  BY <1>1, OrderedScan DEF Body
<1>5. Intervals(f \o <<x>>)
  BY <1>1, IntervalsScan DEF Body
<1>6. Coded("DHT_DC", x) = x.dc /\ Coded("DHT_AC", x) = x.ac
  BY DEF Coded
<1>7. /\ Borrowed(f \o <<x>>, "DHT_DC", d, optimize)
      /\ ForceIn(f, "DHT_DC", tables.dc) /\ SentIn(f, "DHT_DC", d, tables.dc)
           => ForceIn(f \o <<x>>, "DHT_DC", tables.dc)
  BY <1>1, <1>6, ReadyInForce DEF Body
<1>8. /\ Borrowed(f \o <<x>>, "DHT_AC", a, optimize)
      /\ ForceIn(f, "DHT_AC", tables.ac) /\ SentIn(f, "DHT_AC", a, tables.ac)
           => ForceIn(f \o <<x>>, "DHT_AC", tables.ac)
  BY <1>1, <1>6, ReadyInForce DEF Body
<1>9. claim => QuantIn(f \o <<x>>, tables.quant)
  <2> SUFFICES ASSUME claim PROVE QuantIn(f \o <<x>>, tables.quant)
    OBVIOUS
  <2>1. QuantIn(f, tables.quant) /\ FrameIn(f, tables.quant) /\ Ordered(f)
    BY DEF Body, AllInForce
  <2> QED BY <1>1, <1>3, <2>1, QuantInScan
<1>10. claim => AllInForce(f \o <<x>>, tables)
  BY <1>7, <1>8, <1>9 DEF Body, AllInForce
<1>11. claim => FrameIn(f \o <<x>>, tables.quant)
  BY <1>1, <1>2, FrameInGrown DEF Body
<1>12. i = LastInterval(f \o <<x>>, Len(f \o <<x>>) + 1) /\ OfKind(f \o <<x>>, {"EOI"}) = {}
  <2>1. i = LastInterval(f, Len(f) + 1) /\ OfKind(f, {"EOI"}) = {}
    BY DEF Body
  <2>2. LastInterval(f \o <<x>>, Len(f \o <<x>>) + 1) = LastInterval(f, Len(f) + 1)
    BY <1>1, <1>2, LastIntervalKept
  <2>3. OfKind(f \o <<x>>, {"EOI"}) = {}
    BY <1>1, <1>2, <2>1, NoneGrown
  <2> QED BY <2>1, <2>2, <2>3
<1>13. claim => /\ SentIn(f \o <<x>>, "DQT", q, tables.quant)
                /\ SentIn(f \o <<x>>, "DHT_DC", d, tables.dc)
                /\ SentIn(f \o <<x>>, "DHT_AC", a, tables.ac)
  BY TokenKeeps
<1> QED BY <1>1, <1>4, <1>5, <1>7, <1>8, <1>10, <1>11, <1>12, <1>13 DEF Body

\* What is left of it at the end of the file.
LEMMA BodyEnd ==
  ASSUME NEW f, NEW x, NEW q, NEW d, NEW a, NEW i, NEW optimize, NEW tables, NEW claim,
         Body(f, q, d, a, i, optimize, tables, claim), x.t = "EOI"
  PROVE  /\ IsFile(f \o <<x>>) /\ Ordered(f \o <<x>>) /\ Intervals(f \o <<x>>)
         /\ claim => AllInForce(f \o <<x>>, tables)
         /\ claim => /\ SentIn(f \o <<x>>, "DQT", q, tables.quant)
                     /\ SentIn(f \o <<x>>, "DHT_DC", d, tables.dc)
                     /\ SentIn(f \o <<x>>, "DHT_AC", a, tables.ac)
         /\ NumSOS(f \o <<x>>) = NumSOS(f)
<1>1. /\ IsFile(f) /\ IsFile(<<x>>) /\ IsFile(f \o <<x>>)
      /\ claim => /\ SentIn(f \o <<x>>, "DQT", q, tables.quant)
                  /\ SentIn(f \o <<x>>, "DHT_DC", d, tables.dc)
                  /\ SentIn(f \o <<x>>, "DHT_AC", a, tables.ac)
  BY TokenKeeps
<1>2. OfKind(<<x>>, {"SOS"}) = {} /\ OfKind(<<x>>, {"SOF"}) = {}
  BY TokenKinds
<1>3. Ordered(f \o <<x>>) /\ NumSOS(f \o <<x>>) = NumSOS(f)
  BY <1>1, <1>2, OrderedGrown DEF Body
<1>4. /\ Intervals(f \o <<x>>)
      /\ claim => AllInForce(f \o <<x>>, tables)
  BY TokenInForce
<1> QED BY <1>1, <1>3, <1>4

-----------------------------------------------------------------------------
(* Headers *)

\* An object that writes a file, and what an operation on it comes to.
Writing(c, tables, claim) ==
  ObjectType(c) /\ Checked(c) /\ FileInv(c, tables, claim) /\ TablesInv(c, tables, claim)
Outcome(d, tables, claim) ==
  /\ ObjectType(d) /\ FileInv(d, tables, claim)
  /\ ~d.error => Checked(d) /\ TablesInv(d, tables, claim)

BodyHolds(c, tables, claim) ==
  Body(c.file, c.quant, c.dc, c.ac, c.last_restart_interval, OptimizeCoding(c), tables, claim)

EmitFields == {"error", "room", "file"}
HeaderFields == {"error", "room", "file", "quant", "dc", "ac", "last_restart_interval"}

\* The file f with g after it.
With(f, g) == f \o g

LEMMA EmitFacts ==
  ASSUME NEW c, NEW t, ObjectType(c)
  PROVE  /\ SameBut(c, Emit(c, t), EmitFields)
         /\ Emit(c, t).room \in Nat /\ Emit(c, t).error \in BOOLEAN
         /\ Emit(c, t).error => Emit(c, t).file = c.file \/ c.error
         /\ ~Emit(c, t).error => ~c.error /\ Emit(c, t).file = With(c.file, t)
         /\ Emit(c, t).file = c.file \/ Emit(c, t).file = With(c.file, t)
<1> DEFINE g == With(c.file, t)
<1>1. DOMAIN c = Fields /\ c.room \in Nat /\ c.error \in BOOLEAN
  BY DEF ObjectType
<1>2. CASE c.room = 0
  <2>1. Emit(c, t) = [c EXCEPT !.error = TRUE]
    BY <1>2 DEF Emit, Fail
  <2> DEFINE e == Emit(c, t)
  <2>2. /\ DOMAIN e = DOMAIN c /\ \A x \in DOMAIN c \ {"error"} : e[x] = c[x]
        /\ e.error = TRUE
    BY <2>1, <1>1 DEF Fields
  <2>3. e.file = c.file /\ e.room = c.room
    BY <2>1, <1>1 DEF Fields
  <2> HIDE DEF e
  <2>4. SameBut(c, e, EmitFields)
    BY <2>2 DEF SameBut, EmitFields
  <2> QED BY <2>2, <2>3, <2>4, <1>1 DEF e
<1>3. CASE c.room # 0
  <2>1. Emit(c, t) = [c EXCEPT !.file = g, !.room = c.room - 1]
    BY <1>3 DEF Emit, With
  <2> DEFINE e == Emit(c, t)
  <2> HIDE DEF g
  <2>a. DOMAIN e = DOMAIN c /\ \A x \in DOMAIN c \ {"file", "room"} : e[x] = c[x]
    BY <2>1
  <2>b. e.file = g /\ e.room = c.room - 1
    BY <2>1, <1>1 DEF Fields
  <2>c. e.error = c.error
    BY <2>a, <1>1 DEF Fields
  <2>2. /\ DOMAIN e = DOMAIN c /\ \A x \in DOMAIN c \ {"file", "room"} : e[x] = c[x]
        /\ e.file = g /\ e.room = c.room - 1 /\ e.error = c.error
    BY <2>a, <2>b, <2>c
  <2> HIDE DEF e
  <2>3. SameBut(c, e, EmitFields)
    BY <2>2 DEF SameBut, EmitFields
  <2>4. e.room \in Nat
    BY <2>2, <1>1, <1>3
  <2> QED BY <2>2, <2>3, <2>4, <1>1 DEF e, g
<1> QED BY <1>2, <1>3

\* What does not depend on what an operation changes.
LEMMA CheckedKept ==
  ASSUME NEW c, NEW d, Checked(c), d.image = c.image,
         d.total_iMCU_rows = c.total_iMCU_rows, d.total_passes = c.total_passes
  PROVE  Checked(d) /\ OptimizeCoding(d) = OptimizeCoding(c)
BY DEF Checked, OptimizeCoding, ProgressiveMode

LEMMA FileKept ==
  ASSUME NEW c, NEW d, NEW tables, NEW claim, FileInv(c, tables, claim),
         d.image = c.image, d.file = c.file
  PROVE  FileInv(d, tables, claim)
BY DEF FileInv

LEMMA TablesKept ==
  ASSUME NEW c, NEW d, NEW tables, NEW claim, TablesInv(c, tables, claim),
         d.image = c.image, d.file = c.file, d.quant = c.quant, d.dc = c.dc, d.ac = c.ac,
         d.last_restart_interval = c.last_restart_interval
  PROVE  TablesInv(d, tables, claim)
BY DEF TablesInv, AllSent, OptimizeCoding, ProgressiveMode

LEMMA TypeKept ==
  ASSUME NEW c, NEW d, ObjectType(c), DOMAIN d = DOMAIN c,
         d.image = c.image, d.suspends = c.suspends, d.all = c.all,
         d.room \in Nat, d.error \in BOOLEAN, IsTables(d.quant), IsTables(d.dc), IsTables(d.ac)
  PROVE  ObjectType(d)
BY DEF ObjectType

\* The fields that no part of the invariant of a file reads.
OtherFields ==
  Fields \ (HeaderFields \cup {"image", "suspends", "all", "total_iMCU_rows", "total_passes"})
LEMMA OthersKept ==
  ASSUME NEW c, NEW d, NEW tables, NEW claim, NEW S, Writing(c, tables, claim),
         SameBut(c, d, S), S \subseteq OtherFields \cup {"error"}, d.error \in BOOLEAN
  PROVE  Writing(d, tables, claim) /\ OptimizeCoding(d) = OptimizeCoding(c) /\ d.file = c.file
<1>1. DOMAIN c = Fields /\ c.error \in BOOLEAN
  BY DEF Writing, ObjectType
<1>2. /\ DOMAIN d = DOMAIN c
      /\ d.image = c.image /\ d.suspends = c.suspends /\ d.all = c.all
      /\ d.room = c.room /\ d.file = c.file
      /\ d.quant = c.quant /\ d.dc = c.dc /\ d.ac = c.ac
      /\ d.last_restart_interval = c.last_restart_interval
      /\ d.total_iMCU_rows = c.total_iMCU_rows /\ d.total_passes = c.total_passes
  BY <1>1 DEF SameBut, OtherFields, HeaderFields, Fields
<1>3. c.room \in Nat /\ IsTables(c.quant) /\ IsTables(c.dc) /\ IsTables(c.ac)
  BY DEF Writing, ObjectType
<1>4. ObjectType(d)
  BY <1>2, <1>3, TypeKept DEF Writing
<1>5. Checked(d) /\ OptimizeCoding(d) = OptimizeCoding(c)
  BY <1>2, CheckedKept DEF Writing
<1>6. FileInv(d, tables, claim)
  BY <1>2, FileKept DEF Writing
<1>7. TablesInv(d, tables, claim)
  BY <1>2, TablesKept DEF Writing
<1> QED BY <1>2, <1>4, <1>5, <1>6, <1>7 DEF Writing

LEMMA NoneCounted ==
  ASSUME NEW f, IsFile(f), NumSOF(f) = 0 PROVE OfKind(f, {"SOF"}) = {}
BY FiniteKinds, FS_EmptySet DEF NumSOF

LEMMA FailFacts ==
  ASSUME NEW c, ObjectType(c)
  PROVE  /\ SameBut(c, Fail(c), {"error"}) /\ Fail(c).error = TRUE /\ Fail(c).file = c.file
         /\ Fail(c).image = c.image
BY DEF SameBut, Fail, ObjectType, Fields

LEMMA OutcomeOfError ==
  ASSUME NEW c, NEW d, NEW tables, NEW claim, ObjectType(d), d.error,
         FileInv(c, tables, claim), d.image = c.image, d.file = c.file
  PROVE  Outcome(d, tables, claim)
BY FileKept DEF Outcome

LEMMA FailOutcome ==
  ASSUME NEW c, NEW tables, NEW claim, ObjectType(c), FileInv(c, tables, claim)
  PROVE  Outcome(Fail(c), tables, claim)
<1>1. /\ Fail(c).error = TRUE /\ Fail(c).file = c.file /\ Fail(c).image = c.image
      /\ DOMAIN Fail(c) = DOMAIN c /\ \A x \in DOMAIN c \ {"error"} : Fail(c)[x] = c[x]
  BY FailFacts DEF SameBut
<1>2. ObjectType(Fail(c))
  BY <1>1 DEF ObjectType, Fields
<1> QED BY <1>1, <1>2, OutcomeOfError

LEMMA WritingOutcome ==
  ASSUME NEW c, NEW tables, NEW claim, Outcome(c, tables, claim), ~c.error
  PROVE  Writing(c, tables, claim)
BY DEF Writing, Outcome

LEMMA FrameHeaderKeeps ==
  ASSUME NEW c, NEW tables, NEW claim, NEW used, used \subseteq Slots,
         Writing(c, tables, claim), ~c.error, NumSOF(c.file) = 0
  PROVE  /\ SameBut(c, FrameHeader(c, used), {"error", "room", "file", "quant"})
         /\ Outcome(FrameHeader(c, used), tables, claim)
         /\ ~FrameHeader(c, used).error =>
              NumSOS(FrameHeader(c, used).file) = 0 /\ NumSOF(FrameHeader(c, used).file) = 1
<1> DEFINE h == FrameHeader(c, used)
           D == Definitions("DQT", c.quant, used)
           x == [t |-> "SOF", quant |-> [s \in used |-> c.quant[s].content],
                 progressive |-> ProgressiveMode(c)]
           q == MarkSent(c.quant, used)
           e == [c EXCEPT !.quant = q]
<1>1. ObjectType(c) /\ FileInv(c, tables, claim) /\ TablesInv(c, tables, claim) /\ Checked(c)
  BY DEF Writing
<1>2. CASE \E s \in used : c.quant[s] = NoTable
  <2>1. h = Fail(c)
    BY <1>2 DEF FrameHeader
  <2>2. Fail(c).error = TRUE
    BY <1>1, FailFacts
  <2>3. SameBut(c, Fail(c), {"error", "room", "file", "quant"})
    BY <1>1, FailFacts, SameButMore
  <2>4. Outcome(Fail(c), tables, claim)
    BY <1>1, FailOutcome
  <2> HIDE DEF h
  <2>5. /\ SameBut(c, h, {"error", "room", "file", "quant"}) /\ Outcome(h, tables, claim) /\ h.error
    BY <2>1, <2>2, <2>3, <2>4
  <2> QED BY <2>5 DEF h
<1>3. CASE ~ \E s \in used : c.quant[s] = NoTable
  <2> DEFINE t == D \o <<x>>
  <2>1. h = Emit(e, t)
    BY <1>3 DEF FrameHeader
  <2>2. Says(D, "DQT", c.quant, ToSend(c.quant, used))
    BY DefinitionsSay
  <2>3. /\ IsTables(c.quant) /\ IsTables(q)
        /\ \A s \in used : s \in Slots /\ q[s].sent_table /\ q[s].content = c.quant[s].content
    BY <1>1, MarkedSent DEF ObjectType
  <2>4. x.t = "SOF" /\ \A k \in DOMAIN x.quant : k \in used /\ x.quant[k] = c.quant[k].content
    OBVIOUS
  <2> HIDE DEF D, x, q, t
  <2>5. DOMAIN e = DOMAIN c /\ e.quant = q /\ \A y \in DOMAIN c \ {"quant"} : e[y] = c[y]
    BY <1>1 DEF ObjectType, Fields
  <2> HIDE DEF e
  <2>6. ObjectType(e) /\ ~e.error /\ e.file = c.file /\ e.image = c.image
    BY <1>1, <2>3, <2>5 DEF ObjectType, Fields
  <2>7. /\ SameBut(e, h, EmitFields) /\ h.room \in Nat /\ h.error \in BOOLEAN
        /\ h.error => h.file = c.file
        /\ ~h.error => h.file = With(c.file, t)
    <3> DEFINE m == Emit(e, t)
    <3>1. /\ SameBut(e, m, EmitFields) /\ m.room \in Nat /\ m.error \in BOOLEAN
          /\ m.error => m.file = e.file \/ e.error
          /\ ~m.error => m.file = With(e.file, t)
      BY <2>6, EmitFacts
    <3> HIDE DEF m, h
    <3>2. m = h
      BY <2>1 DEF m
    <3> QED BY <2>6, <3>1, <3>2
  <2> HIDE DEF h
  <2>8. SameBut(c, h, {"error", "room", "file", "quant"})
    <3>1. SameBut(c, e, {"error", "room", "file", "quant"})
      BY <2>5 DEF SameBut
    <3>2. SameBut(e, h, {"error", "room", "file", "quant"})
      BY <2>7, SameButMore DEF EmitFields
    <3> QED BY <3>1, <3>2, SameButTwice
  <2>9. /\ h.image = c.image /\ h.quant = q /\ h.dc = c.dc /\ h.ac = c.ac
        /\ h.last_restart_interval = c.last_restart_interval
        /\ h.total_iMCU_rows = c.total_iMCU_rows /\ h.total_passes = c.total_passes
        /\ h.suspends = c.suspends /\ h.all = c.all /\ DOMAIN h = DOMAIN c
    <3>1. h.quant = e.quant
      BY <2>6, <2>7 DEF SameBut, EmitFields, ObjectType, Fields
    <3> QED BY <1>1, <3>1, <2>5, <2>8 DEF SameBut, ObjectType, Fields
  <2>10. ObjectType(h)
    <3>1. IsTables(h.dc) /\ IsTables(h.ac) /\ IsTables(h.quant)
      BY <1>1, <2>3, <2>9 DEF ObjectType
    <3> QED BY <1>1, <2>7, <2>9, <3>1, TypeKept
  <2>11. CASE h.error
    <3>1. Outcome(h, tables, claim)
      BY <1>1, <2>7, <2>9, <2>10, <2>11, OutcomeOfError
    <3> QED BY <2>8, <2>11, <3>1 DEF h
  <2>12. CASE ~h.error
    <3>1. IsFile(c.file) /\ IsFile(<<x>>) /\ OfKind(c.file, {"SOF"}) = {}
      BY <1>1, OneToken, NoneCounted DEF FileInv
    <3>2. h.file = (c.file \o D) \o <<x>>
      <4>1. IsFile(D)
        BY <2>2 DEF Says
      <4> DEFINE F == c.file
                 X == <<x>>
      <4>2. IsFile(F) /\ IsFile(X)
        BY <3>1
      <4>3. t = D \o X /\ h.file = With(F, t)
        BY <2>7, <2>12 DEF t
      <4> HIDE DEF F, X
      <4>4. F \o (D \o X) = (F \o D) \o X
        BY <4>1, <4>2, GrownTwice
      <4>5. h.file = (F \o D) \o X
        BY <4>3, <4>4 DEF With
      <4> QED BY <4>5 DEF F, X
    <3>3. BodyHolds(c, tables, claim)
      BY <1>1, BodyOf DEF BodyHolds
    <3> DEFINE O == OptimizeCoding(c)
    <3>4. O = OptimizeCoding(h)
      BY <2>9 DEF OptimizeCoding, ProgressiveMode
    <3>5. Body(c.file, c.quant, c.dc, c.ac, c.last_restart_interval, O, tables, claim)
      BY <3>3 DEF BodyHolds
    <3> HIDE DEF O
    <3> DEFINE f == c.file \o D
    <3>6. /\ Body(f, q, c.dc, c.ac, c.last_restart_interval, O, tables, claim)
          /\ OfKind(f, {"SOF"}) = {}
      BY <2>2, <2>3, <3>1, <3>5, BodyQuant DEF q
    <3> HIDE DEF f
    <3>7. \A k \in DOMAIN x.quant : k \in Slots /\ q[k].sent_table /\ q[k].content = x.quant[k]
      BY <2>3, <2>4
    <3>8. /\ Body(f \o <<x>>, q, c.dc, c.ac, c.last_restart_interval, O, tables, claim)
          /\ NumSOS(f \o <<x>>) = 0 /\ NumSOF(f \o <<x>>) = 1
      BY <2>4, <3>6, <3>7, BodyFrame
    <3>9. h.file = f \o <<x>>
      BY <3>2 DEF f
    <3>10. Body(h.file, h.quant, h.dc, h.ac, h.last_restart_interval, OptimizeCoding(h), tables, claim)
      BY <3>8, <3>9, <3>4, <2>9
    <3>11. FileInv(h, tables, claim) /\ TablesInv(h, tables, claim)
      BY <3>10, BodyOf
    <3>12. Checked(h)
      BY <1>1, <2>9, CheckedKept
    <3>13. Outcome(h, tables, claim)
      BY <2>10, <3>11, <3>12 DEF Outcome
    <3> QED BY <2>8, <3>13, <3>8, <3>9 DEF h
  <2> QED BY <2>11, <2>12
<1> QED BY <1>2, <1>3

Chain(a, b, r, x) == ((a \o b) \o r) \o x
Four(f, a, b, r, x) == (((f \o a) \o b) \o r) \o x

LEMMA GrownFour ==
  ASSUME NEW f, NEW a, NEW b, NEW r, NEW x, IsFile(f), IsFile(a), IsFile(b), IsFile(r), IsFile(x)
  PROVE  With(f, Chain(a, b, r, x)) = Four(f, a, b, r, x)
<1> DEFINE ab == a \o b
<1>1. IsFile(ab)
  BY Grown
<1> DEFINE abr == ab \o r
<1>2. IsFile(abr)
  BY <1>1, Grown
<1>3. f \o ab = (f \o a) \o b
  BY GrownTwice
<1> HIDE DEF ab
<1>4. f \o abr = (f \o ab) \o r
  BY <1>1, GrownTwice
<1> HIDE DEF abr
<1>5. f \o (abr \o x) = (f \o abr) \o x
  BY <1>2, GrownTwice
<1>6. f \o (abr \o x) = Four(f, a, b, r, x)
  BY <1>3, <1>4, <1>5 DEF ab, abr, Four
<1> QED BY <1>6 DEF With, Chain, ab, abr

LEMMA DefsStay ==
  ASSUME NEW f, NEW g, IsFile(f), IsFile(g), NEW kind, NEW s,
         Defs(f, kind, s) # {} \/ Defs(g, kind, s) # {}
  PROVE  Defs(f \o g, kind, s) # {}
<1>1. Defs(f \o g, kind, s) = Joined(Defs(f, kind, s), Len(f), Defs(g, kind, s))
  BY GrownDefs
<1> QED BY <1>1 DEF Joined

LEMMA BodyRestart ==
  ASSUME NEW c, NEW f, NEW q, NEW d, NEW a, NEW optimize, NEW tables, NEW claim,
         Body(f, q, d, a, c.last_restart_interval, optimize, tables, claim)
  PROVE  /\ IsFile(RestartMarker(c))
         /\ Body(f \o RestartMarker(c), q, d, a, c.restart_interval, optimize, tables, claim)
         /\ NumSOS(f \o RestartMarker(c)) = NumSOS(f) /\ NumSOF(f \o RestartMarker(c)) = NumSOF(f)
<1> DEFINE x == [t |-> "DRI", interval |-> c.restart_interval]
<1>1. CASE c.restart_interval = c.last_restart_interval
  <2>1. RestartMarker(c) = << >>
    BY <1>1 DEF RestartMarker
  <2>2. Body(f, q, d, a, c.restart_interval, optimize, tables, claim)
    BY <1>1
  <2> DEFINE R == RestartMarker(c)
  <2>3. Plain(R) /\ IsFile(R)
    BY <2>1, NothingPlain, EmptyFile
  <2> HIDE DEF R
  <2>4. /\ Body(f \o R, q, d, a, c.restart_interval, optimize, tables, claim)
        /\ NumSOS(f \o R) = NumSOS(f) /\ NumSOF(f \o R) = NumSOF(f)
    BY <2>2, <2>3, BodyPlain
  <2> QED BY <2>3, <2>4 DEF R
<1>2. CASE c.restart_interval # c.last_restart_interval
  <2>1. RestartMarker(c) = <<x>>
    BY <1>2 DEF RestartMarker
  <2>2. x.t = "DRI" /\ x.interval = c.restart_interval
    OBVIOUS
  <2> HIDE DEF x
  <2>3. /\ Body(f \o <<x>>, q, d, a, x.interval, optimize, tables, claim)
        /\ NumSOS(f \o <<x>>) = NumSOS(f) /\ NumSOF(f \o <<x>>) = NumSOF(f)
    BY <2>2, BodyDri
  <2>4. IsFile(<<x>>)
    BY OneToken
  <2> QED BY <2>1, <2>2, <2>3, <2>4
<1> QED BY <1>1, <1>2

\* The tokens of a scan's header after a file.
WithScan(c, f, dc, ac, x) ==
  Four(f, Definitions("DHT_DC", c.dc, dc), Definitions("DHT_AC", c.ac, ac), RestartMarker(c), <<x>>)
ScanBody(f, n, q, d, a, i, optimize, tables, claim) ==
  Body(f, q, d, a, i, optimize, tables, claim) /\ NumSOS(f) = n /\ NumSOF(f) = 1

LEMMA ScanHeaderBody ==
  ASSUME NEW c, NEW tables, NEW claim, NEW dc, NEW ac, dc \subseteq Slots, ac \subseteq Slots,
         BodyHolds(c, tables, claim), IsTables(c.dc), IsTables(c.ac), NumSOF(c.file) = 1,
         OptimizeCoding(c) => Unsent(c.dc, dc) /\ Unsent(c.ac, ac),
         NEW x, x.t = "SOS", x.scan = NumSOS(c.file) + 1, x.interval = c.restart_interval,
         x.dc = Contents(c.dc, dc), x.ac = Contents(c.ac, ac),
         NEW F, F = c.file
  PROVE  ScanBody(WithScan(c, F, dc, ac, x), NumSOS(F) + 1, c.quant, MarkSent(c.dc, dc),
                  MarkSent(c.ac, ac), c.restart_interval, OptimizeCoding(c), tables, claim)
<1> DEFINE A == Definitions("DHT_DC", c.dc, dc)
           B == Definitions("DHT_AC", c.ac, ac)
           R == RestartMarker(c)
           O == OptimizeCoding(c)
           i == c.last_restart_interval
           d == MarkSent(c.dc, dc)
           a == MarkSent(c.ac, ac)
<1>1. Says(A, "DHT_DC", c.dc, ToSend(c.dc, dc)) /\ Says(B, "DHT_AC", c.ac, ToSend(c.ac, ac))
  BY DefinitionsSay
<1>2. O \in BOOLEAN
  BY DEF OptimizeCoding
<1>3. Body(F, c.quant, c.dc, c.ac, i, O, tables, claim)
  BY DEF BodyHolds
<1>4. /\ \A s \in dc : s \in Slots /\ d[s].sent_table /\ d[s].content = c.dc[s].content
      /\ \A s \in ac : s \in Slots /\ a[s].sent_table /\ a[s].content = c.ac[s].content
  BY MarkedSent
<1>5. O => (\A s \in dc : s \in ToSend(c.dc, dc)) /\ (\A s \in ac : s \in ToSend(c.ac, ac))
  BY DEF ToSend, Unsent
<1>6. IsFile(R)
  BY <1>3, BodyRestart
<1> HIDE DEF A, B, R, O, i, d, a
<1>7. IsFile(F) /\ IsFile(A) /\ IsFile(B)
  BY <1>1, <1>3 DEF Says, Body
<1> DEFINE f1 == F \o A
           f2 == f1 \o B
           f3 == f2 \o R
<1>8. WithScan(c, F, dc, ac, x) = f3 \o <<x>>
  BY DEF WithScan, Four, A, B, R
<1>9. /\ Body(f1, c.quant, d, c.ac, i, O, tables, claim)
      /\ NumSOS(f1) = NumSOS(F) /\ NumSOF(f1) = NumSOF(F)
  BY <1>1, <1>3, BodyDc DEF d
<1>10. \A s \in dc : O => Defs(f1, "DHT_DC", s) # {}
  <2>1. \A s \in dc : O => Defs(A, "DHT_DC", s) # {}
    BY <1>1, <1>5 DEF Says
  <2> QED BY <2>1, <1>7, DefsStay
<1> HIDE DEF f1
<1>11. /\ Body(f2, c.quant, d, a, i, O, tables, claim)
       /\ NumSOS(f2) = NumSOS(f1) /\ NumSOF(f2) = NumSOF(f1)
  BY <1>1, <1>9, BodyAc DEF a
<1>12. IsFile(f1)
  BY <1>9 DEF Body
<1>13. /\ \A s \in dc : O => Defs(f2, "DHT_DC", s) # {}
       /\ \A s \in ac : O => Defs(f2, "DHT_AC", s) # {}
  <2>1. \A s \in ac : O => Defs(B, "DHT_AC", s) # {}
    BY <1>1, <1>5 DEF Says
  <2> QED BY <2>1, <1>7, <1>10, <1>12, DefsStay
<1> HIDE DEF f2
<1>14. IsFile(f2)
  BY <1>11 DEF Body
<1>15. /\ Body(f3, c.quant, d, a, c.restart_interval, O, tables, claim)
       /\ NumSOS(f3) = NumSOS(f2) /\ NumSOF(f3) = NumSOF(f2)
  BY <1>11, BodyRestart DEF R, i
<1>16. /\ \A s \in dc : O => Defs(f3, "DHT_DC", s) # {}
       /\ \A s \in ac : O => Defs(f3, "DHT_AC", s) # {}
  BY <1>6, <1>13, <1>14, DefsStay
<1> HIDE DEF f3
<1>17. Ready(f3, "DHT_DC", d, O, x.dc) /\ Ready(f3, "DHT_AC", a, O, x.ac)
  BY <1>4, <1>16 DEF Ready, Contents
<1>18. NumSOF(f3) = 1 /\ x.scan = NumSOS(f3) + 1
  BY <1>9, <1>11, <1>15
<1>19. /\ Body(f3 \o <<x>>, c.quant, d, a, c.restart_interval, O, tables, claim)
       /\ NumSOS(f3 \o <<x>>) = NumSOS(f3) + 1 /\ NumSOF(f3 \o <<x>>) = 1
  BY <1>2, <1>15, <1>17, <1>18, BodyScan
<1>20. WithScan(c, F, dc, ac, x) = f3 \o <<x>> /\ NumSOS(f3) = NumSOS(F)
  BY <1>8, <1>9, <1>11, <1>15
<1> QED BY <1>19, <1>20 DEF d, a, O, ScanBody

LEMMA ScanHeaderKeeps ==
  ASSUME NEW c, NEW tables, NEW claim, NEW dc, NEW ac, dc \subseteq Slots, ac \subseteq Slots,
         Writing(c, tables, claim), ~c.error, NumSOF(c.file) = 1, NumSOS(c.file) = c.scan_number,
         OptimizeCoding(c) => Unsent(c.dc, dc) /\ Unsent(c.ac, ac),
         c.coding.dc = Contents(c.dc, dc), c.coding.ac = Contents(c.ac, ac)
  PROVE  /\ SameBut(c, ScanHeader(c, dc, ac), HeaderFields)
         /\ Outcome(ScanHeader(c, dc, ac), tables, claim)
         /\ ~ScanHeader(c, dc, ac).error =>
              /\ NumSOS(ScanHeader(c, dc, ac).file) = c.scan_number + 1
              /\ NumSOF(ScanHeader(c, dc, ac).file) = 1
<1> DEFINE h == ScanHeader(c, dc, ac)
           F == c.file
           A == Definitions("DHT_DC", c.dc, dc)
           B == Definitions("DHT_AC", c.ac, ac)
           R == RestartMarker(c)
           x == [t |-> "SOS", scan |-> c.scan_number + 1, interval |-> c.restart_interval,
                 dc |-> c.coding.dc, ac |-> c.coding.ac]
           X == <<x>>
           t == ((A \o B) \o R) \o X
           d == MarkSent(c.dc, dc)
           a == MarkSent(c.ac, ac)
           e == [c EXCEPT !.dc = d, !.ac = a, !.last_restart_interval = c.restart_interval]
<1>1. ObjectType(c) /\ FileInv(c, tables, claim) /\ TablesInv(c, tables, claim) /\ Checked(c)
  BY DEF Writing
<1>2. h = Emit(e, t)
  BY DEF ScanHeader
<1>3. IsTables(c.dc) /\ IsTables(c.ac) /\ IsTables(d) /\ IsTables(a)
  BY <1>1, MarkedSent DEF ObjectType
<1>4. /\ x.t = "SOS" /\ x.scan = c.scan_number + 1 /\ x.interval = c.restart_interval
      /\ x.dc = c.coding.dc /\ x.ac = c.coding.ac
  OBVIOUS
<1> HIDE DEF x, d, a
<1>5. /\ DOMAIN e = DOMAIN c /\ e.dc = d /\ e.ac = a /\ e.last_restart_interval = c.restart_interval
      /\ \A y \in DOMAIN c \ {"dc", "ac", "last_restart_interval"} : e[y] = c[y]
  BY <1>1 DEF ObjectType, Fields
<1>6. BodyHolds(c, tables, claim)
  BY <1>1, BodyOf DEF BodyHolds
<1>7. /\ IsFile(F) /\ IsFile(A) /\ IsFile(B) /\ IsFile(R) /\ IsFile(X)
  <2>1. Says(A, "DHT_DC", c.dc, ToSend(c.dc, dc)) /\ Says(B, "DHT_AC", c.ac, ToSend(c.ac, ac))
    BY DefinitionsSay
  <2>2. IsFile(R)
    BY <1>6, BodyRestart DEF BodyHolds
  <2>3. IsFile(A) /\ IsFile(B)
    BY <2>1 DEF Says
  <2> QED BY <2>2, <2>3, <1>6, OneToken DEF BodyHolds, Body
<1>8. With(F, t) = WithScan(c, F, dc, ac, x)
  <2>0. t = Chain(A, B, R, X)
    BY DEF Chain
  <2> HIDE DEF F, A, B, R, X, t
  <2>1. With(F, t) = Four(F, A, B, R, X)
    BY <1>7, <2>0, GrownFour
  <2> QED BY <2>1 DEF WithScan, A, B, R, X
<1> HIDE DEF F, t, e
<1>9. ObjectType(e) /\ ~e.error /\ e.file = F /\ e.image = c.image
  BY <1>1, <1>3, <1>5 DEF ObjectType, Fields, F
<1>10. /\ SameBut(e, h, EmitFields) /\ h.room \in Nat /\ h.error \in BOOLEAN
       /\ h.error => h.file = F
       /\ ~h.error => h.file = With(F, t)
  <2> DEFINE m == Emit(e, t)
  <2>1. /\ SameBut(e, m, EmitFields) /\ m.room \in Nat /\ m.error \in BOOLEAN
        /\ m.error => m.file = e.file \/ e.error
        /\ ~m.error => m.file = With(e.file, t)
    BY <1>9, EmitFacts
  <2> HIDE DEF m, h
  <2>2. m = h
    BY <1>2 DEF m
  <2> QED BY <1>9, <2>1, <2>2
<1> HIDE DEF h
<1>11. SameBut(c, h, HeaderFields)
  <2>1. SameBut(c, e, HeaderFields)
    BY <1>5 DEF SameBut, HeaderFields
  <2>2. SameBut(e, h, HeaderFields)
    BY <1>10, SameButMore DEF EmitFields, HeaderFields
  <2> QED BY <2>1, <2>2, SameButTwice
<1>12. /\ h.image = c.image /\ h.quant = c.quant /\ h.dc = d /\ h.ac = a
       /\ h.last_restart_interval = c.restart_interval
       /\ h.total_iMCU_rows = c.total_iMCU_rows /\ h.total_passes = c.total_passes
       /\ h.suspends = c.suspends /\ h.all = c.all /\ DOMAIN h = DOMAIN c
  <2>1. /\ h.quant = e.quant /\ h.dc = e.dc /\ h.ac = e.ac
        /\ h.last_restart_interval = e.last_restart_interval
    BY <1>9, <1>10 DEF SameBut, EmitFields, ObjectType, Fields
  <2>2. e.quant = c.quant
    BY <1>1, <1>5 DEF ObjectType, Fields
  <2> QED BY <1>1, <2>1, <2>2, <1>5, <1>11 DEF SameBut, ObjectType, Fields, HeaderFields
<1>13. ObjectType(h)
  <2>1. IsTables(h.dc) /\ IsTables(h.ac) /\ IsTables(h.quant)
    BY <1>1, <1>3, <1>12 DEF ObjectType
  <2> QED BY <1>1, <1>10, <1>12, <2>1, TypeKept
<1>14. CASE h.error
  <2>1. Outcome(h, tables, claim)
    BY <1>1, <1>10, <1>12, <1>13, <1>14, OutcomeOfError DEF F
  <2> QED BY <1>11, <1>14, <2>1 DEF h
<1>15. CASE ~h.error
  <2> DEFINE O == OptimizeCoding(c)
  <2>1. O = OptimizeCoding(h)
    BY <1>12 DEF OptimizeCoding, ProgressiveMode
  <2>2. ScanBody(WithScan(c, F, dc, ac, x), NumSOS(F) + 1, c.quant, d, a, c.restart_interval, O, tables, claim)
    <3>1. x.t = "SOS" /\ x.scan = NumSOS(c.file) + 1
      BY <1>4
    <3>2. x.interval = c.restart_interval /\ x.dc = Contents(c.dc, dc) /\ x.ac = Contents(c.ac, ac)
      BY <1>4
    <3>3. F = c.file
      BY DEF F
    <3> QED BY <1>3, <1>6, <3>1, <3>2, <3>3, ScanHeaderBody DEF d, a
  <2> HIDE DEF O
  <2>3. h.file = WithScan(c, F, dc, ac, x)
    BY <1>8, <1>10, <1>15
  <2>4. Body(h.file, h.quant, h.dc, h.ac, h.last_restart_interval, OptimizeCoding(h), tables, claim)
    BY <2>1, <2>2, <2>3, <1>12 DEF ScanBody
  <2>5. FileInv(h, tables, claim) /\ TablesInv(h, tables, claim)
    BY <2>4, BodyOf
  <2>6. Checked(h)
    BY <1>1, <1>12, CheckedKept
  <2>7. Outcome(h, tables, claim)
    BY <1>13, <2>5, <2>6 DEF Outcome
  <2> QED BY <1>11, <2>7, <2>2, <2>3 DEF h, F, ScanBody
<1> QED BY <1>14, <1>15

-----------------------------------------------------------------------------
(* The scan whose turn it is *)

LEMMA RoundedUp ==
  ASSUME NEW a \in Nat \ {0}, NEW b \in Nat \ {0} PROVE DivRoundUp(a, b) \in Nat \ {0}
BY DEF DivRoundUp

LEMMA ImageFacts ==
  ASSUME NEW image \in Parameters
  PROVE  /\ image.image_width \in Nat /\ image.image_height \in Nat
         /\ image.comp_info \in Seq(Components) /\ image.scan_info \in Seq(Scans)
         /\ Len(image.comp_info) \in Nat /\ DOMAIN image.comp_info = 1..Len(image.comp_info)
         /\ \A ci \in 1..Len(image.comp_info) :
              /\ image.comp_info[ci].h_samp_factor \in Int /\ image.comp_info[ci].v_samp_factor \in Int
              /\ image.comp_info[ci].quant_tbl_no \in Slots
              /\ image.comp_info[ci].dc_tbl_no \in Slots /\ image.comp_info[ci].ac_tbl_no \in Slots
<1>1. /\ image.image_width \in Nat /\ image.image_height \in Nat
      /\ image.comp_info \in Seq(Components) /\ image.scan_info \in Seq(Scans)
  BY DEF Parameters
<1>2. \A ci \in 1..Len(image.comp_info) : image.comp_info[ci] \in Components
  BY <1>1
<1>3. \A x \in Components : /\ x.h_samp_factor \in Int /\ x.v_samp_factor \in Int
                            /\ x.quant_tbl_no \in Slots /\ x.dc_tbl_no \in Slots /\ x.ac_tbl_no \in Slots
  BY DEF Components
<1> QED BY <1>1, <1>2, <1>3

LEMMA DimensionPositive == \A m : m \in 1..JPEG_MAX_DIMENSION => m \in Nat \ {0}
<1>1. JPEG_MAX_DIMENSION \in Nat
  BY DEF JPEG_MAX_DIMENSION
<1>2. \A n \in Nat : \A m : m \in 1..n => m \in Nat \ {0}
  OBVIOUS
<1> QED BY <1>1, <1>2

\* The largest sampling factor is one of them.
LEMMA MaxVFacts ==
  ASSUME NEW image \in Parameters, LegalImage(image)
  PROVE  /\ MaxV(image.comp_info) \in Nat \ {0} /\ MaxH(image.comp_info) \in Nat \ {0}
         /\ TotalIMCURows(image) \in Nat
         /\ \A ci \in 1..Len(image.comp_info) :
              /\ WidthInBlocks(image, ci) \in Nat \ {0} /\ HeightInBlocks(image, ci) \in Nat \ {0}
              /\ image.comp_info[ci].v_samp_factor \in Nat \ {0}
<1> DEFINE comps == image.comp_info
           V == {c.v_samp_factor : c \in Range(comps)}
           H == {c.h_samp_factor : c \in Range(comps)}
<1>1. /\ comps \in Seq(Components) /\ Len(comps) \in 1..MAX_COMPONENTS /\ DOMAIN comps = 1..Len(comps)
      /\ image.image_width \in 1..JPEG_MAX_DIMENSION /\ image.image_height \in 1..JPEG_MAX_DIMENSION
      /\ \A c \in Range(comps) :
           c.h_samp_factor \in 1..MAX_SAMP_FACTOR /\ c.v_samp_factor \in 1..MAX_SAMP_FACTOR
  BY ImageFacts DEF LegalImage
<1>2. 1 \in DOMAIN comps /\ \A ci \in 1..Len(comps) : comps[ci] \in Range(comps)
  <2> HIDE DEF comps
  <2>1. 1 \in DOMAIN comps
    BY <1>1 DEF MAX_COMPONENTS
  <2>2. \A ci \in DOMAIN comps : comps[ci] \in Range(comps)
    BY DEF Range
  <2> QED BY <1>1, <2>1, <2>2
<1>3. V # {} /\ V \subseteq 1..4 /\ H # {} /\ H \subseteq 1..4
  BY <1>1, <1>2 DEF MAX_SAMP_FACTOR
<1>4. MaxV(comps) = Max(V) /\ MaxH(comps) = Max(H)
  BY DEF MaxV, MaxH
<1> HIDE DEF V, H
<1>5. Positions(V) /\ Positions(H)
  BY <1>3 DEF Positions
<1>6. MaxV(comps) \in Nat \ {0} /\ MaxH(comps) \in Nat \ {0}
  BY <1>3, <1>4, <1>5, Largest
<1>7. ASSUME NEW ci \in 1..Len(comps)
      PROVE  /\ WidthInBlocks(image, ci) \in Nat \ {0} /\ HeightInBlocks(image, ci) \in Nat \ {0}
             /\ comps[ci].v_samp_factor \in Nat \ {0}
  <2>1. comps[ci].v_samp_factor \in Nat \ {0} /\ comps[ci].h_samp_factor \in Nat \ {0}
    BY <1>1, <1>2 DEF MAX_SAMP_FACTOR
  <2> DEFINE a == image.image_width * comps[ci].h_samp_factor
             b == image.image_height * comps[ci].v_samp_factor
             h == MaxH(comps) * DCTSIZE
             v == MaxV(comps) * DCTSIZE
  <2>2. \A m, n \in Nat \ {0} : m * n \in Nat \ {0}
    OBVIOUS
  <2>3. a \in Nat \ {0} /\ b \in Nat \ {0} /\ h \in Nat \ {0} /\ v \in Nat \ {0}
    <3>1. \A m : m \in 1..JPEG_MAX_DIMENSION => m \in Nat \ {0}
      BY DimensionPositive
    <3>2. image.image_width \in Nat \ {0} /\ image.image_height \in Nat \ {0}
      BY <1>1, <3>1
    <3>3. DCTSIZE \in Nat \ {0}
      BY DctsizeAssumption
    <3>4. a \in Nat \ {0}
      BY <2>1, <2>2, <3>2
    <3>5. b \in Nat \ {0}
      BY <2>1, <2>2, <3>2
    <3>6. h \in Nat \ {0}
      BY <1>6, <2>2, <3>3
    <3>7. v \in Nat \ {0}
      BY <1>6, <2>2, <3>3
    <3> QED BY <3>4, <3>5, <3>6, <3>7
  <2>4. WidthInBlocks(image, ci) = DivRoundUp(a, h) /\ HeightInBlocks(image, ci) = DivRoundUp(b, v)
    BY DEF WidthInBlocks, HeightInBlocks
  <2> HIDE DEF a, b, h, v
  <2> QED BY <2>1, <2>3, <2>4, RoundedUp
<1>8. TotalIMCURows(image) \in Nat
  <2> DEFINE v == MaxV(comps) * DCTSIZE
  <2>1. v \in Nat \ {0} /\ image.image_height \in Nat \ {0}
    BY <1>1, <1>6, DctsizeAssumption
  <2>2. TotalIMCURows(image) = DivRoundUp(image.image_height, v)
    BY DEF TotalIMCURows
  <2> HIDE DEF v
  <2> QED BY <2>1, <2>2, RoundedUp
<1> QED BY <1>6, <1>7, <1>8

\* What the scans of an image that was checked are: of its components, with a
\* place in the script.
LegalScript(image) ==
  /\ LegalImage(image)
  /\ image.scan_info # <<>> => ValidateScript(Len(image.comp_info), image.scan_info)
ScanFields == {"comps", "Ss", "Se", "Ah", "Al"}
IsScan(image, s) ==
  /\ DOMAIN s = ScanFields
  /\ s.comps \in Seq(Int) /\ Len(s.comps) \in Nat \ {0}
  /\ \A i \in 1..Len(s.comps) : s.comps[i] \in 1..Len(image.comp_info)
  /\ ~Progressive(image.scan_info) => s.Ss = 0 /\ s.Ah = 0

LEMMA ScriptFacts ==
  ASSUME NEW image \in Parameters, LegalScript(image), NEW n \in 1..NumScans(image)
  PROVE  IsScan(image, ScanOf(image, n))
<1>1. /\ image.scan_info \in Seq(Scans) /\ image.comp_info \in Seq(Components)
      /\ Len(image.comp_info) \in 1..MAX_COMPONENTS
  BY ImageFacts DEF LegalScript, LegalImage
<1>2. CASE image.scan_info # << >>
  <2> DEFINE s == image.scan_info[n]
             many == Len(image.comp_info)
  <2>1. n \in DOMAIN image.scan_info /\ s \in Scans
    BY <1>1, <1>2 DEF NumScans
  <2>2. DOMAIN s = ScanFields /\ s.comps \in Seq(Int)
    BY <2>1 DEF Scans, ScanFields
  <2>3. ValidateScript(many, image.scan_info)
    BY <1>2 DEF LegalScript
  <2> HIDE DEF many
  <2>4. /\ Len(s.comps) \in 1..MAX_COMPS_IN_SCAN /\ Range(s.comps) \subseteq 1..many
        /\ IF Progressive(image.scan_info) THEN ProgressiveScan(image.scan_info, n)
           ELSE SequentialScan(image.scan_info, n)
    BY <2>1, <2>3 DEF ValidateScript
  <2>5. ~Progressive(image.scan_info) => s.Ss = 0 /\ s.Ah = 0
    BY <2>4 DEF SequentialScan
  <2> HIDE DEF s
  <2>6. \A i \in 1..Len(s.comps) : s.comps[i] \in 1..many
    BY <2>2, <2>4 DEF Range
  <2>7. Len(s.comps) \in Nat \ {0}
    BY <2>4 DEF MAX_COMPS_IN_SCAN
  <2>8. ScanOf(image, n) = s
    BY <1>2 DEF ScanOf, s
  <2> QED BY <2>2, <2>5, <2>6, <2>7, <2>8 DEF IsScan, many
<1>3. CASE image.scan_info = << >>
  <2> DEFINE s == ScanOf(image, n)
             many == Len(image.comp_info)
  <2>1. s = AScan([i \in DOMAIN image.comp_info |-> i], 0, 63, 0, 0)
    BY <1>3 DEF ScanOf
  <2>2. many \in Nat \ {0} /\ DOMAIN image.comp_info = 1..many
    <3>1. many \in Nat \ {0}
      <4>1. many \in 1..MAX_COMPONENTS
        BY <1>1
      <4> HIDE DEF many
      <4> QED BY <4>1 DEF MAX_COMPONENTS
    <3> QED BY <3>1, ImageFacts
  <2> HIDE DEF many
  <2>3. DOMAIN s = ScanFields /\ s.comps = [i \in 1..many |-> i] /\ s.Ss = 0 /\ s.Ah = 0
    BY <2>1, <2>2 DEF AScan, ScanFields
  <2> HIDE DEF s
  <2>4. s.comps \in Seq(Int) /\ Len(s.comps) = many
    BY <2>2, <2>3
  <2>5. \A i \in 1..many : s.comps[i] \in 1..many
    BY <2>3
  <2> QED BY <2>2, <2>3, <2>4, <2>5 DEF IsScan, s, many
<1> QED BY <1>2, <1>3

\* A scan's tables have a place.
LEMMA SlotsOf ==
  ASSUME NEW image \in Parameters, NEW s, IsScan(image, s)
  PROVE  DcOf(image, s) \subseteq Slots /\ AcOf(image, s) \subseteq Slots
<1>1. \A ci \in Range(s.comps) : ci \in 1..Len(image.comp_info)
  <2>1. DOMAIN s.comps = 1..Len(s.comps)
    BY DEF IsScan
  <2>2. \A ci \in Range(s.comps) : \E i \in DOMAIN s.comps : ci = s.comps[i]
    BY DEF Range
  <2> QED BY <2>1, <2>2 DEF IsScan
<1>2. \A ci \in Range(s.comps) : image.comp_info[ci].dc_tbl_no \in Slots /\ image.comp_info[ci].ac_tbl_no \in Slots
  BY <1>1, ImageFacts
<1> QED BY <1>2 DEF DcOf, AcOf

LEMMA QuantSlotsOf ==
  ASSUME NEW image \in Parameters
  PROVE  {image.comp_info[ci].quant_tbl_no : ci \in DOMAIN image.comp_info} \subseteq Slots
BY ImageFacts

\* The scan with its geometry has what the script says of it.
GeometryFields == {"MCUs_per_row", "MCU_width", "MCU_height", "last_col_width", "last_row_height"}
LEMMA GeometryFacts ==
  ASSUME NEW image \in Parameters, LegalImage(image), NEW s, IsScan(image, s)
  PROVE  /\ DOMAIN PerScanSetup(image, s) = GeometryFields
         /\ PerScanSetup(image, s).MCUs_per_row \in Nat \ {0}
         /\ Len(s.comps) = 1 => PerScanSetup(image, s).last_row_height[1] \in Nat
<1> DEFINE ci == s.comps[1]
           v == image.comp_info[ci].v_samp_factor
           h == HeightInBlocks(image, ci)
           w == WidthInBlocks(image, ci)
<1>1. ci \in 1..Len(image.comp_info)
  BY DEF IsScan
<1>2. v \in Nat \ {0} /\ h \in Nat \ {0} /\ w \in Nat \ {0}
  BY <1>1, MaxVFacts
<1>3. CASE Len(s.comps) = 1
  <2>1. PerScanSetup(image, s) =
          [MCUs_per_row |-> w, MCU_width |-> <<1>>, MCU_height |-> <<1>>, last_col_width |-> <<1>>,
           last_row_height |-> <<LastOf(h, v)>>]
    BY <1>3 DEF PerScanSetup, OneComponent
  <2> HIDE DEF h, v, w
  <2>2. LastOf(h, v) \in Nat
    BY <1>2 DEF LastOf
  <2>3. PerScanSetup(image, s).MCUs_per_row = w
    BY <2>1
  <2>4. PerScanSetup(image, s).last_row_height[1] = LastOf(h, v)
    BY <2>1
  <2>5. DOMAIN PerScanSetup(image, s) = GeometryFields
    BY <2>1 DEF GeometryFields
  <2> QED BY <1>2, <2>2, <2>3, <2>4, <2>5
<1>4. CASE Len(s.comps) # 1
  <2>1. PerScanSetup(image, s) = Interleaved(image, s)
    BY <1>4 DEF PerScanSetup
  <2>2. Interleaved(image, s).MCUs_per_row = DivRoundUp(image.image_width, MaxH(image.comp_info) * DCTSIZE)
    BY DEF Interleaved
  <2>3. DOMAIN Interleaved(image, s) = GeometryFields
    BY DEF Interleaved, GeometryFields
  <2>4. image.image_width \in Nat \ {0}
    <3>1. \A m : m \in 1..JPEG_MAX_DIMENSION => m \in Nat \ {0}
      BY DimensionPositive
    <3> QED BY <3>1 DEF LegalImage
  <2>5. MaxH(image.comp_info) * DCTSIZE \in Nat \ {0}
    <3>1. MaxH(image.comp_info) \in Nat \ {0}
      BY MaxVFacts
    <3> QED BY <3>1, DctsizeAssumption
  <2>6. DivRoundUp(image.image_width, MaxH(image.comp_info) * DCTSIZE) \in Nat \ {0}
    BY <2>4, <2>5, RoundedUp
  <2> QED BY <1>4, <2>1, <2>2, <2>3, <2>6
<1> QED BY <1>3, <1>4

LEMMA OverFacts ==
  ASSUME NEW f, NEW g
  PROVE  /\ \A x \in DOMAIN f : Over(f, g)[x] = f[x]
         /\ \A x \in DOMAIN g : x \notin DOMAIN f => Over(f, g)[x] = g[x]
BY DEF Over

\* The numbers the MCUs of the scan are counted by.
Countable(c) ==
  /\ c.scan.MCUs_per_row \in Nat \ {0} /\ Len(c.scan.comps) \in Nat \ {0}
  /\ c.image.comp_info[c.scan.comps[1]].v_samp_factor \in Nat
  /\ Len(c.scan.comps) = 1 => c.scan.last_row_height[1] \in Nat

\* The scan that is set up: its tables, and that its rows can be counted.
LEMMA ScanSetFacts ==
  ASSUME NEW c, ObjectType(c), Checked(c), ScanSet(c), c.scan_number \in Nat,
         c.scan_number < NumScans(c.image)
  PROVE  /\ DcSlots(c) = DcOf(c.image, Coming(c)) /\ AcSlots(c) = AcOf(c.image, Coming(c))
         /\ DcSlots(c) \subseteq Slots /\ AcSlots(c) \subseteq Slots
         /\ c.scan.Ss = Coming(c).Ss /\ c.scan.Ah = Coming(c).Ah
         /\ Countable(c) /\ IsScan(c.image, Coming(c))
<1> DEFINE s == Coming(c)
           g == PerScanSetup(c.image, s)
<1>1. c.image \in Parameters /\ LegalScript(c.image) /\ LegalImage(c.image)
  BY DEF ObjectType, Checked, LegalScript
<1>2. NumScans(c.image) \in Nat
  <2>1. c.image.scan_info \in Seq(Scans)
    BY <1>1, ImageFacts
  <2> QED BY <2>1 DEF NumScans
<1>3. IsScan(c.image, s)
  <2>1. c.scan_number + 1 \in 1..NumScans(c.image)
    BY <1>2
  <2> QED BY <1>1, <2>1, ScriptFacts DEF Coming
<1>4. /\ DOMAIN g = GeometryFields /\ g.MCUs_per_row \in Nat \ {0}
      /\ Len(s.comps) = 1 => g.last_row_height[1] \in Nat
  BY <1>1, <1>3, GeometryFacts
<1>5. DOMAIN s = ScanFields
  BY <1>3 DEF IsScan
<1>6. c.scan = Over(s, g)
  BY DEF ScanSet
<1> HIDE DEF s, g
<1>7. c.scan.comps = s.comps /\ c.scan.Ss = s.Ss /\ c.scan.Ah = s.Ah
  BY <1>5, <1>6, OverFacts DEF ScanFields
<1>8. c.scan.MCUs_per_row = g.MCUs_per_row /\ c.scan.last_row_height = g.last_row_height
  BY <1>4, <1>5, <1>6, OverFacts DEF ScanFields, GeometryFields
<1>9. DcSlots(c) = DcOf(c.image, s) /\ AcSlots(c) = AcOf(c.image, s)
  BY <1>7 DEF DcSlots, AcSlots, DcOf, AcOf, ProgressiveMode
<1>10. DcSlots(c) \subseteq Slots /\ AcSlots(c) \subseteq Slots
  BY <1>1, <1>3, <1>9, SlotsOf
<1>11. Len(s.comps) \in Nat \ {0} /\ s.comps[1] \in 1..Len(c.image.comp_info)
  BY <1>3 DEF IsScan
<1>12. c.image.comp_info[s.comps[1]].v_samp_factor \in Nat
  BY <1>1, <1>11, MaxVFacts
<1> QED BY <1>3, <1>4, <1>7, <1>8, <1>9, <1>10, <1>11, <1>12 DEF s, Countable

-----------------------------------------------------------------------------
(* Rows into the file *)

CodeFields == {"room", "file", "iMCU_row_num", "done", "MCU_rows_per_iMCU_row", "mcu_ctr",
               "MCU_vert_offset", "whole_image", "compress_data"}

\* A file that has grown by what does not matter to the tables, or not at all.
Longer(f, g) == g = f \/ \E h : Plain(h) /\ g = With(f, h)

\* c has coded some of its rows and become d.
Encoded(c, d) ==
  /\ SameBut(c, d, CodeFields) /\ d.room \in Nat /\ RowsSet(d)
  /\ c.coding.gather => d.file = c.file
  /\ Longer(c.file, d.file)

LEMMA RowStarts ==
  ASSUME NEW c, DOMAIN c = Fields, Countable(c)
  PROVE  /\ SameBut(c, StartIMCURow(c), {"MCU_rows_per_iMCU_row", "mcu_ctr", "MCU_vert_offset"})
         /\ RowsSet(StartIMCURow(c))
<1> DEFINE m == IF Len(c.scan.comps) > 1 THEN 1
                ELSE IF c.iMCU_row_num < c.total_iMCU_rows - 1
                     THEN c.image.comp_info[c.scan.comps[1]].v_samp_factor
                ELSE c.scan.last_row_height[1]
<1>1. m \in Nat
  <2> DEFINE n == Len(c.scan.comps)
             v == c.image.comp_info[c.scan.comps[1]].v_samp_factor
             r == c.scan.last_row_height[1]
  <2>1. n \in Nat \ {0} /\ v \in Nat /\ (n = 1 => r \in Nat)
    BY DEF Countable
  <2>2. m = 1 \/ m = v \/ (m = r /\ ~ (n > 1))
    OBVIOUS
  <2> HIDE DEF n, v, r, m
  <2> QED BY <2>1, <2>2
<1>2. StartIMCURow(c) = [c EXCEPT !.MCU_rows_per_iMCU_row = m, !.mcu_ctr = 0, !.MCU_vert_offset = 0]
  BY DEF StartIMCURow
<1> HIDE DEF m
<1>3. SameBut(c, StartIMCURow(c), {"MCU_rows_per_iMCU_row", "mcu_ctr", "MCU_vert_offset"})
  BY <1>2 DEF SameBut
<1>4. /\ StartIMCURow(c).MCU_rows_per_iMCU_row = m /\ StartIMCURow(c).mcu_ctr = 0
      /\ StartIMCURow(c).MCU_vert_offset = 0
  BY <1>2 DEF Fields
<1> QED BY <1>1, <1>3, <1>4 DEF RowsSet

LEMMA MCUTokens ==
  ASSUME NEW g, NEW n \in Nat, g \in [1..n -> Range(g)], \A k \in 1..n : g[k].t = "MCU"
  PROVE  Plain(g)
<1>1. IsFile(g) /\ DOMAIN g = 1..n
  BY DEF IsFile
<1>2. OfKind(g, HeaderKinds) = {}
  BY <1>1 DEF OfKind, HeaderKinds
<1> QED BY <1>1, <1>2 DEF Plain

LEMMA MCUsEncoded ==
  ASSUME NEW c, NEW mcus, NEW places, DOMAIN c = Fields, c.room \in Nat,
         Len(mcus) \in Nat, DOMAIN mcus = 1..Len(mcus), ~c.coding.gather => Len(mcus) <= c.room
  PROVE  /\ SameBut(c, EncodeMCUs(c, mcus, places), {"room", "file"})
         /\ EncodeMCUs(c, mcus, places).room \in Nat
         /\ c.coding.gather => EncodeMCUs(c, mcus, places).file = c.file
         /\ Longer(c.file, EncodeMCUs(c, mcus, places).file)
<1>1. CASE c.coding.gather
  <2>1. EncodeMCUs(c, mcus, places) = c
    BY <1>1 DEF EncodeMCUs
  <2> QED BY <2>1, SameButItself DEF Longer
<1>2. CASE ~c.coding.gather
  <2> DEFINE g == [n \in DOMAIN mcus |->
                     [t |-> "MCU", blocks |-> MCUOf(c, places, mcus[n][1], mcus[n][2])]]
             e == EncodeMCUs(c, mcus, places)
             m == Len(mcus)
  <2>1. e = [c EXCEPT !.room = @ - m, !.file = With(@, g)]
    BY <1>2 DEF EncodeMCUs, With
  <2>2. DOMAIN g = 1..m /\ \A n \in 1..m : g[n].t = "MCU"
    OBVIOUS
  <2>3. g \in [1..m -> Range(g)]
    <3>1. g = [n \in 1..m |-> g[n]]
      OBVIOUS
    <3> HIDE DEF g
    <3> QED BY <2>2, <3>1 DEF Range
  <2> HIDE DEF g, e, m
  <2>4. m \in Nat /\ m <= c.room
    BY <1>2 DEF m
  <2>5. Plain(g)
    BY <2>2, <2>3, <2>4, MCUTokens
  <2>6. SameBut(c, e, {"room", "file"})
    BY <2>1 DEF SameBut
  <2>7. e.room = c.room - m /\ e.file = With(c.file, g)
    BY <2>1 DEF Fields
  <2>8. e.room \in Nat
    BY <2>4, <2>7
  <2>9. Longer(c.file, e.file)
    BY <2>5, <2>7 DEF Longer
  <2> QED BY <1>2, <2>6, <2>8, <2>9 DEF e
<1> QED BY <1>1, <1>2

\* The MCUs that are left of an iMCU row, each by its row and column.
LEMMA LeftFacts ==
  ASSUME NEW c, Countable(c), RowsSet(c)
  PROVE  /\ IsFile(MCUsLeft(c)) /\ Len(MCUsLeft(c)) \in Nat
         /\ DOMAIN MCUsLeft(c) = 1..Len(MCUsLeft(c))
         /\ \A k \in 1..Len(MCUsLeft(c)) : MCUsLeft(c)[k][1] \in Int /\ MCUsLeft(c)[k][2] \in Int
<1> DEFINE w == c.scan.MCUs_per_row
           from == c.MCU_vert_offset * w + c.mcu_ctr
           all == c.MCU_rows_per_iMCU_row * w - from
           left == MCUsLeft(c)
<1>1. w \in Nat \ {0} /\ c.MCU_vert_offset \in Int /\ c.mcu_ctr \in Int /\ c.MCU_rows_per_iMCU_row \in Int
  BY DEF Countable, RowsSet
<1>2. left = [n \in 1..all |-> <<(from + n - 1) \div w, (from + n - 1) % w>>]
  BY DEF MCUsLeft
<1> HIDE DEF left, w
<1>3. from \in Int /\ all \in Int
  BY <1>1
<1> HIDE DEF from, all
<1>4. PICK m \in Nat : 1..all = 1..m
  <2>1. CASE all > 0
    BY <1>3, <2>1
  <2>2. CASE all <= 0
    <3>1. 1..all = 1..0
      BY <1>3, <2>2
    <3> QED BY <3>1
  <2> QED BY <1>3, <2>1, <2>2
<1>5. \A n \in 1..m : (from + n - 1) \div w \in Int /\ (from + n - 1) % w \in Int
  <2> SUFFICES ASSUME NEW n \in 1..m PROVE (from + n - 1) \div w \in Int /\ (from + n - 1) % w \in Int
    OBVIOUS
  <2>1. from + n - 1 \in Int
    BY <1>3
  <2> QED BY <1>1, <2>1
<1>6. DOMAIN left = 1..m /\ \A n \in 1..m : left[n][1] \in Int /\ left[n][2] \in Int
  BY <1>2, <1>4, <1>5
<1>7. IsFile(left) /\ Len(left) = m
  <2>1. left \in Seq(Range(left))
    <3>1. left \in [1..m -> Range(left)]
      <4>1. left = [n \in 1..m |-> left[n]]
        BY <1>2, <1>4
      <4> QED BY <1>6, <4>1 DEF Range
    <3> QED BY <3>1
  <2> QED BY <1>6, <2>1 DEF IsFile
<1> QED BY <1>6, <1>7 DEF left

LEMMA LongerSame ==
  ASSUME NEW c, NEW d, NEW e, SameBut(c, d, {"room", "file"}), d.room \in Nat,
         c.coding.gather => d.file = c.file, Longer(c.file, d.file),
         SameBut(d, e, CodeFields \ {"room", "file"}), RowsSet(e), DOMAIN c = Fields
  PROVE  Encoded(c, e)
<1>1. SameBut(c, e, CodeFields)
  BY DEF SameBut, CodeFields
<1>2. e.room = d.room /\ e.file = d.file
  BY DEF SameBut, CodeFields, Fields
<1> QED BY <1>1, <1>2 DEF Encoded

LEMMA CountableKept ==
  ASSUME NEW c, NEW d, Countable(c), d.scan = c.scan, d.image = c.image
  PROVE  Countable(d)
BY DEF Countable

LEMMA MCUsCoded ==
  ASSUME NEW c, NEW left, NEW many \in Nat, DOMAIN c = Fields, c.room \in Nat, Countable(c), RowsSet(c),
         IsFile(left), many <= Len(left), ~c.coding.gather => many <= c.room,
         \A k \in 1..Len(left) : left[k][1] \in Int /\ left[k][2] \in Int
  PROVE  Encoded(c, CompressSome(c, left, many))
<1>1. Len(left) \in Nat /\ DOMAIN left = 1..Len(left) /\ left \in Seq(Range(left))
  BY DEF IsFile
<1>2. CASE many = Len(left)
  <2> DEFINE d == EncodeMCUs(c, left, Places(c))
             e == [d EXCEPT !.iMCU_row_num = @ + 1, !.done = TRUE]
             h == CompressSome(c, left, many)
  <2>1. /\ SameBut(c, d, {"room", "file"}) /\ d.room \in Nat /\ Longer(c.file, d.file)
        /\ c.coding.gather => d.file = c.file
    BY <1>1, <1>2, MCUsEncoded
  <2>2. h = StartIMCURow(e)
    BY <1>2 DEF CompressSome
  <2> HIDE DEF d, h
  <2>3. SameBut(d, e, {"iMCU_row_num", "done"}) /\ DOMAIN d = Fields
    BY <2>1 DEF SameBut
  <2> HIDE DEF e
  <2>4. e.scan = c.scan /\ e.image = c.image /\ DOMAIN e = Fields
    BY <2>1, <2>3 DEF SameBut, Fields
  <2>5. Countable(e)
    BY <2>4, CountableKept
  <2>6. SameBut(e, h, {"MCU_rows_per_iMCU_row", "mcu_ctr", "MCU_vert_offset"}) /\ RowsSet(h)
    BY <2>2, <2>4, <2>5, RowStarts
  <2>7. SameBut(d, h, CodeFields \ {"room", "file"})
    BY <2>3, <2>6 DEF SameBut, CodeFields
  <2>8. Encoded(c, h)
    BY <2>1, <2>6, <2>7, LongerSame
  <2> QED BY <2>8 DEF h
<1>3. CASE many # Len(left)
  <2> DEFINE mcus == SubSeq(left, 1, many)
             d == EncodeMCUs(c, mcus, Places(c))
             h == CompressSome(c, left, many)
             mcu == left[many + 1]
  <2>1. Len(mcus) = many /\ DOMAIN mcus = 1..many
    BY <1>1
  <2>2. mcu[1] \in Int /\ mcu[2] \in Int
    <3> DEFINE n == Len(left)
    <3>1. many < n
      <4>1. n \in Nat /\ many <= n /\ many # n
        BY <1>1, <1>3
      <4> HIDE DEF n
      <4> QED BY <4>1
    <3>2. many + 1 \in 1..n
      <4>1. n \in Nat
        BY <1>1
      <4> HIDE DEF n
      <4> QED BY <3>1, <4>1
    <3> QED BY <3>2
  <2>3. h = WaitAt(d, mcu)
    BY <1>3 DEF CompressSome
  <2> HIDE DEF mcus
  <2>4. /\ SameBut(c, d, {"room", "file"}) /\ d.room \in Nat /\ Longer(c.file, d.file)
        /\ c.coding.gather => d.file = c.file
    BY <2>1, MCUsEncoded
  <2> HIDE DEF d, h, mcu
  <2>5. DOMAIN d = Fields
    BY <2>4 DEF SameBut
  <2>6. SameBut(d, h, {"MCU_vert_offset", "mcu_ctr", "done"})
    BY <2>3 DEF SameBut, WaitAt
  <2>7. h.MCU_vert_offset = mcu[1] /\ h.mcu_ctr = mcu[2]
    BY <2>3, <2>5 DEF WaitAt, Fields
  <2>8. h.MCU_rows_per_iMCU_row = c.MCU_rows_per_iMCU_row
    BY <2>4, <2>6, <2>5 DEF SameBut, Fields
  <2>9. RowsSet(h)
    BY <2>2, <2>7, <2>8 DEF RowsSet
  <2>10. SameBut(d, h, CodeFields \ {"room", "file"})
    BY <2>6 DEF SameBut, CodeFields
  <2>11. Encoded(c, h)
    BY <2>4, <2>9, <2>10, LongerSame
  <2> QED BY <2>11 DEF h
<1> QED BY <1>2, <1>3

LEMMA LesserOf ==
  ASSUME NEW a \in Nat, NEW b \in Nat
  PROVE  Min({a, b}) \in Nat /\ Min({a, b}) <= a /\ Min({a, b}) <= b
<1>1. \E m \in {a, b} : \A x \in {a, b} : m <= x
  <2>1. CASE a <= b
    BY <2>1
  <2>2. CASE b <= a
    BY <2>2
  <2> QED BY <2>1, <2>2
<1>2. Min({a, b}) \in {a, b} /\ \A x \in {a, b} : Min({a, b}) <= x
  BY <1>1 DEF Min
<1> QED BY <1>2

LEMMA LeftCoded ==
  ASSUME NEW c, DOMAIN c = Fields, c.room \in Nat, Countable(c), RowsSet(c)
  PROVE  Encoded(c, CompressMCUs(c))
<1> DEFINE left == MCUsLeft(c)
           many == IF c.coding.gather THEN Len(left) ELSE Min({Len(left), c.room})
<1>1. /\ IsFile(left) /\ Len(left) \in Nat
      /\ \A k \in 1..Len(left) : left[k][1] \in Int /\ left[k][2] \in Int
  BY LeftFacts
<1>2. CompressMCUs(c) = CompressSome(c, left, many)
  BY DEF CompressMCUs, CompressLeft
<1> HIDE DEF left
<1>3. many \in Nat /\ many <= Len(left) /\ (~c.coding.gather => many <= c.room)
  BY <1>1, LesserOf
<1> HIDE DEF many
<1> QED BY <1>1, <1>2, <1>3, MCUsCoded

\* compress_data leaves all but the coefficients and the file alone.
LEMMA DataCoded ==
  ASSUME NEW c, DOMAIN c = Fields, c.room \in Nat, Countable(c), RowsSet(c)
  PROVE  Encoded(c, CompressData(c))
<1> DEFINE s == [StoreIMCURow(c) EXCEPT !.compress_data = "compress_output"]
           d == IF c.compress_data = "compress_first_pass" THEN s ELSE c
           e == CompressMCUs(d)
           h == CompressData(c)
<1>1. h = [e EXCEPT !.compress_data = c.compress_data]
  BY DEF CompressData
<1>2. SameBut(c, s, {"whole_image", "compress_data"})
  BY DEF SameBut, StoreIMCURow
<1> HIDE DEF s
<1>3. SameBut(c, d, {"whole_image", "compress_data"})
  BY <1>2, SameButItself
<1> HIDE DEF d
<1>4. /\ DOMAIN d = Fields /\ d.room = c.room /\ d.scan = c.scan /\ d.image = c.image
      /\ d.MCU_vert_offset = c.MCU_vert_offset /\ d.mcu_ctr = c.mcu_ctr
      /\ d.MCU_rows_per_iMCU_row = c.MCU_rows_per_iMCU_row
      /\ d.coding = c.coding /\ d.file = c.file
  BY <1>3 DEF SameBut, Fields
<1>5. Countable(d) /\ RowsSet(d)
  BY <1>4, CountableKept DEF RowsSet
<1>6. Encoded(d, e)
  BY <1>4, <1>5, LeftCoded
<1> HIDE DEF e, h
<1>7. SameBut(e, h, {"compress_data"}) /\ DOMAIN e = Fields
  BY <1>1, <1>4, <1>6 DEF SameBut, Encoded
<1>8. /\ h.room = e.room /\ h.file = e.file /\ h.MCU_vert_offset = e.MCU_vert_offset
      /\ h.mcu_ctr = e.mcu_ctr /\ h.MCU_rows_per_iMCU_row = e.MCU_rows_per_iMCU_row
  BY <1>7 DEF SameBut, Fields
<1>9. SameBut(c, h, CodeFields)
  BY <1>3, <1>6, <1>7 DEF SameBut, Encoded, CodeFields
<1>10. Encoded(c, h)
  BY <1>4, <1>6, <1>8, <1>9 DEF Encoded, RowsSet
<1> QED BY <1>10 DEF h

\* d has written as much as c, and what more it wrote does not matter.
StillWrites(c, d, tables, claim) ==
  /\ Writing(d, tables, claim) /\ OptimizeCoding(d) = OptimizeCoding(c)
  /\ NumSOS(d.file) = NumSOS(c.file) /\ NumSOF(d.file) = NumSOF(c.file)
  /\ d.error = c.error

LEMMA EncodedWrites ==
  ASSUME NEW c, NEW d, NEW tables, NEW claim, Writing(c, tables, claim), Longer(c.file, d.file),
         d.room \in Nat, SameBut(c, d, OtherFields \cup {"room", "file"})
  PROVE  StillWrites(c, d, tables, claim)
<1>1. ObjectType(c) /\ DOMAIN c = Fields
  BY DEF Writing, ObjectType
<1>2. /\ DOMAIN d = DOMAIN c /\ d.image = c.image /\ d.suspends = c.suspends /\ d.all = c.all
      /\ d.error = c.error /\ d.quant = c.quant /\ d.dc = c.dc /\ d.ac = c.ac
      /\ d.last_restart_interval = c.last_restart_interval
      /\ d.total_iMCU_rows = c.total_iMCU_rows /\ d.total_passes = c.total_passes
  BY <1>1 DEF SameBut, OtherFields, HeaderFields, Fields
<1>3. ObjectType(d)
  BY <1>1, <1>2, TypeKept DEF ObjectType
<1>4. Checked(d) /\ OptimizeCoding(d) = OptimizeCoding(c)
  BY <1>2, CheckedKept DEF Writing
<1>5. BodyHolds(c, tables, claim)
  BY BodyOf DEF Writing, BodyHolds
<1> DEFINE F == c.file
           G == d.file
           o == OptimizeCoding(c)
<1>6. Longer(F, G) /\ Body(F, c.quant, c.dc, c.ac, c.last_restart_interval, o, tables, claim)
  BY <1>5 DEF BodyHolds
<1> HIDE DEF F, G, o
<1>7. /\ Body(G, c.quant, c.dc, c.ac, c.last_restart_interval, o, tables, claim)
      /\ NumSOS(G) = NumSOS(F) /\ NumSOF(G) = NumSOF(F)
  <2>1. CASE G = F
    BY <1>6, <2>1
  <2>2. CASE G # F
    <3>1. PICK h : Plain(h) /\ G = With(F, h)
      BY <1>6, <2>2 DEF Longer
    <3>2. G = F \o h
      BY <3>1 DEF With
    <3> QED BY <1>6, <3>1, <3>2, BodyPlain
  <2> QED BY <2>1, <2>2
<1>8. FileInv(d, tables, claim) /\ TablesInv(d, tables, claim)
  BY <1>2, <1>4, <1>7, BodyOf DEF G, o
<1> QED BY <1>2, <1>3, <1>4, <1>7, <1>8 DEF Writing, F, G, StillWrites

LEMMA LongerTwice ==
  ASSUME NEW f, NEW g, NEW h, IsFile(f), Longer(f, g), Longer(g, h)
  PROVE  Longer(f, h) /\ IsFile(g)
<1>1. IsFile(g)
  <2>1. CASE g = f
    BY <2>1
  <2>2. CASE g # f
    <3>1. PICK a : Plain(a) /\ g = f \o a
      BY <2>2 DEF Longer, With
    <3>2. IsFile(a)
      BY <3>1, PlainFacts
    <3> QED BY <3>1, <3>2, Grown
  <2> QED BY <2>1, <2>2
<1>2. CASE g = f \/ h = g
  BY <1>1, <1>2 DEF Longer
<1>3. CASE g # f /\ h # g
  <2>1. PICK a : Plain(a) /\ g = f \o a
    BY <1>3 DEF Longer, With
  <2>2. PICK b : Plain(b) /\ h = g \o b
    BY <1>3 DEF Longer, With
  <2>3. Plain(a \o b) /\ IsFile(a) /\ IsFile(b)
    BY <2>1, <2>2, PlainMore, PlainFacts
  <2>4. h = f \o (a \o b)
    BY <2>1, <2>2, <2>3, GrownTwice
  <2> QED BY <1>1, <2>3, <2>4 DEF Longer, With
<1> QED BY <1>1, <1>2, <1>3

-----------------------------------------------------------------------------
(* Rows of the caller's *)

RowsFields == CodeFields \cup RowFields \cup {"suspended", "cur_iMCU_row"}
Fit(c) ==
  /\ DOMAIN c = Fields /\ c.room \in Nat /\ c.image \in Parameters /\ IsFile(c.file)
  /\ Countable(c) /\ RowsSet(c)

\* c has taken some rows and become d.
Advanced(c, d) ==
  /\ SameBut(c, d, RowsFields) /\ d.room \in Nat /\ RowsSet(d)
  /\ c.coding.gather => d.file = c.file
  /\ Longer(c.file, d.file)

LEMMA AdvancedFit == ASSUME NEW c, NEW d, Fit(c), Advanced(c, d) PROVE Fit(d)
<1>1. d.scan = c.scan /\ d.image = c.image /\ DOMAIN d = Fields
  BY DEF Fit, Advanced, SameBut, RowsFields, CodeFields, RowFields, Fields
<1>2. IsFile(d.file)
  <2> DEFINE F == c.file
             G == d.file
  <2>1. Longer(F, G) /\ IsFile(F)
    BY DEF Fit, Advanced
  <2> HIDE DEF F, G
  <2>2. IsFile(G)
    BY <2>1, LongerTwice DEF Longer
  <2> QED BY <2>2 DEF G
<1>3. Countable(d)
  BY <1>1, CountableKept DEF Fit
<1> QED BY <1>1, <1>2, <1>3 DEF Fit, Advanced

LEMMA AdvancedTwice ==
  ASSUME NEW c, NEW d, NEW e, Fit(c), Advanced(c, d), Advanced(d, e)
  PROVE  Advanced(c, e)
<1>1. SameBut(c, e, RowsFields)
  BY SameButTwice DEF Advanced
<1>2. d.coding = c.coding
  BY DEF Fit, Advanced, SameBut, RowsFields, CodeFields, RowFields, Fields
<1>3. Longer(c.file, e.file)
  <2> DEFINE F == c.file
             G == d.file
             H == e.file
  <2>1. IsFile(F) /\ Longer(F, G) /\ Longer(G, H)
    BY DEF Fit, Advanced
  <2> HIDE DEF F, G, H
  <2>2. Longer(F, H)
    BY <2>1, LongerTwice
  <2> QED BY <2>2 DEF F, H
<1> QED BY <1>1, <1>2, <1>3 DEF Advanced

LEMMA AdvancedPlain ==
  ASSUME NEW c, NEW d, Fit(c), NEW S, SameBut(c, d, S), S \subseteq RowFields \cup {"suspended", "cur_iMCU_row"}
  PROVE  Advanced(c, d)
<1>1. SameBut(c, d, RowsFields)
  BY DEF SameBut, RowsFields
<1>2. /\ d.room = c.room /\ d.file = c.file /\ d.MCU_vert_offset = c.MCU_vert_offset
      /\ d.mcu_ctr = c.mcu_ctr /\ d.MCU_rows_per_iMCU_row = c.MCU_rows_per_iMCU_row
  BY DEF Fit, SameBut, RowFields, Fields
<1> QED BY <1>1, <1>2 DEF Advanced, Fit, RowsSet, Longer

LEMMA AdvancedCoded == ASSUME NEW c, Fit(c) PROVE Advanced(c, CompressData(c))
<1>1. Encoded(c, CompressData(c))
  BY DataCoded DEF Fit
<1>2. SameBut(c, CompressData(c), RowsFields)
  BY <1>1 DEF Encoded, SameBut, RowsFields
<1> QED BY <1>1, <1>2 DEF Encoded, Advanced

LEMMA AdvancedItself == ASSUME NEW c, Fit(c) PROVE Advanced(c, c)
BY SameButItself DEF Fit, Advanced, Longer

\* A round of process_data_simple_main.
LEMMA RoundAdvances ==
  ASSUME NEW x, Fit(x.c)
  PROVE  Advanced(x.c, RowsOrReturn(x).c)
<1> DEFINE c == PreProcessData(x.c)
           d == CompressData(c)
<1>1. Advanced(x.c, c) /\ Fit(c)
  <2>1. x.c.image.image_height \in Nat
    BY ImageFacts DEF Fit
  <2>2. SameBut(x.c, c, RowFields)
    BY <2>1, PreProcessKeeps
  <2> HIDE DEF c
  <2>3. Advanced(x.c, c)
    BY <2>2, AdvancedPlain
  <2> QED BY <2>3, AdvancedFit
<1> HIDE DEF c
<1>2. Advanced(c, d)
  BY <1>1, AdvancedCoded
<1>3. Advanced(x.c, d) /\ Fit(d)
  BY <1>1, <1>2, AdvancedTwice, AdvancedFit
<1> HIDE DEF d
<1>4. Advanced(x.c, NextIMCURow(d))
  <2>1. SameBut(d, NextIMCURow(d), {"in_row_ctr", "suspended", "rowgroup_ctr", "cur_iMCU_row"})
    BY DEF SameBut, NextIMCURow
  <2>2. Advanced(d, NextIMCURow(d))
    BY <1>3, <2>1, AdvancedPlain DEF RowFields
  <2> QED BY <1>3, <2>2, AdvancedTwice
<1>5. Advanced(x.c, WaitForRoom(d))
  <2>1. SameBut(d, WaitForRoom(d), {"in_row_ctr", "suspended"})
    BY DEF SameBut, WaitForRoom
  <2>2. Advanced(d, WaitForRoom(d))
    BY <1>3, <2>1, AdvancedPlain DEF RowFields
  <2> QED BY <1>3, <2>2, AdvancedTwice
<1>6. Advanced(x.c, x.c)
  BY AdvancedItself
<1>7. \/ RowsOrReturn(x) = x \/ RowsOrReturn(x) = [c |-> c, goes_on |-> FALSE]
      \/ RowsOrReturn(x) = [c |-> NextIMCURow(d), goes_on |-> TRUE]
      \/ RowsOrReturn(x) = [c |-> WaitForRoom(d), goes_on |-> FALSE]
  BY DEF RowsOrReturn, c, d
<1> QED BY <1>1, <1>4, <1>5, <1>6, <1>7

AdvancedBy(a, k, x) == Fit(a.c) => Advanced(a.c, x.c)
RowsLoop == INSTANCE LoopProofs WITH Step <- RowsOrReturn, P <- AdvancedBy

LEMMA ProcessAdvances ==
  ASSUME NEW c, Fit(c), c.total_iMCU_rows \in Nat
  PROVE  Advanced(c, ProcessData(c))
<1> DEFINE a == [c |-> c, goes_on |-> TRUE]
           n == c.total_iMCU_rows
<1>1. AdvancedBy(a, 0, a)
  BY AdvancedItself DEF AdvancedBy
<1>2. a.c = c
  OBVIOUS
<1> HIDE DEF a, n
<1>3. \A k \in Nat : \A x : AdvancedBy(a, k, x) => AdvancedBy(a, k + 1, RowsOrReturn(x))
  <2> SUFFICES ASSUME NEW k \in Nat, NEW x, AdvancedBy(a, k, x), Fit(a.c)
               PROVE  Advanced(a.c, RowsOrReturn(x).c)
    BY DEF AdvancedBy
  <2>1. Advanced(a.c, x.c) /\ Fit(x.c)
    BY AdvancedFit DEF AdvancedBy
  <2>2. Advanced(x.c, RowsOrReturn(x).c)
    BY <2>1, RoundAdvances
  <2> QED BY <2>1, <2>2, AdvancedTwice
<1>4. n \in Nat
  BY DEF n
<1>5. AdvancedBy(a, n, Repeat(RowsOrReturn, a, n))
  BY <1>1, <1>3, <1>4, RowsLoop!Repeated DEF Repeat, RowsLoop!Repeat
<1>6. ProcessData(c) = Repeat(RowsOrReturn, a, n).c
  BY DEF ProcessData, a, n
<1> QED BY <1>2, <1>5, <1>6 DEF AdvancedBy

-----------------------------------------------------------------------------
(* Headers of a pass *)

LEMMA SomeScans == ASSUME NEW image \in Parameters PROVE NumScans(image) \in Nat \ {0}
<1>1. image.scan_info \in Seq(Scans)
  BY ImageFacts
<1>2. image.scan_info # << >> => Len(image.scan_info) \in Nat \ {0}
  BY <1>1
<1> QED BY <1>2 DEF NumScans

\* d is what c has come to, with so many scans in its file.
Headed(c, d, tables, claim, S, scans) ==
  /\ SameBut(c, d, S) /\ Outcome(d, tables, claim)
  /\ ~d.error => NumSOS(d.file) = scans /\ NumSOF(d.file) = 1

LEMMA FrameWritten ==
  ASSUME NEW c, NEW tables, NEW claim, Writing(c, tables, claim), ~c.error, NumSOF(c.file) = 0
  PROVE  /\ Headed(c, WriteFrameHeader(c), tables, claim, HeaderFields, 0)
         /\ SameBut(c, WriteFrameHeader(c), {"error", "room", "file", "quant"})
<1> DEFINE used == {c.image.comp_info[ci].quant_tbl_no : ci \in DOMAIN c.image.comp_info}
<1>1. used \subseteq Slots
  BY QuantSlotsOf DEF Writing, ObjectType
<1>2. WriteFrameHeader(c) = FrameHeader(c, used)
  BY DEF WriteFrameHeader
<1> HIDE DEF used
<1>3. /\ SameBut(c, FrameHeader(c, used), {"error", "room", "file", "quant"})
      /\ Outcome(FrameHeader(c, used), tables, claim)
      /\ ~FrameHeader(c, used).error =>
           NumSOS(FrameHeader(c, used).file) = 0 /\ NumSOF(FrameHeader(c, used).file) = 1
  BY <1>1, FrameHeaderKeeps
<1>4. SameBut(c, FrameHeader(c, used), HeaderFields)
  BY <1>3, SameButMore DEF HeaderFields
<1> QED BY <1>2, <1>3, <1>4 DEF Headed

\* The scan whose turn it is can be coded.
Codable(c) ==
  /\ ScanSet(c) /\ CodingSet(c) /\ c.scan_number \in Nat /\ c.scan_number < NumScans(c.image)
  /\ OptimizeCoding(c) => NewTables(c)

LEMMA ScanWritten ==
  ASSUME NEW c, NEW tables, NEW claim, Writing(c, tables, claim), ~c.error, Codable(c),
         NumSOF(c.file) = 1, NumSOS(c.file) = c.scan_number
  PROVE  Headed(c, WriteScanHeader(c), tables, claim, HeaderFields, c.scan_number + 1)
<1> DEFINE dc == DcSlots(c)
           ac == AcSlots(c)
<1>1. /\ dc = DcOf(c.image, Coming(c)) /\ ac = AcOf(c.image, Coming(c))
      /\ dc \subseteq Slots /\ ac \subseteq Slots
  BY ScanSetFacts DEF Writing, Codable
<1>2. c.coding.dc = Contents(c.dc, dc) /\ c.coding.ac = Contents(c.ac, ac)
  BY DEF Codable, CodingSet
<1>3. WriteScanHeader(c) = ScanHeader(c, dc, ac)
  BY DEF WriteScanHeader
<1> HIDE DEF dc, ac
<1>4. OptimizeCoding(c) => Unsent(c.dc, dc) /\ Unsent(c.ac, ac)
  BY <1>1 DEF Codable, NewTables
<1>5. /\ SameBut(c, ScanHeader(c, dc, ac), HeaderFields)
      /\ Outcome(ScanHeader(c, dc, ac), tables, claim)
      /\ ~ScanHeader(c, dc, ac).error =>
           /\ NumSOS(ScanHeader(c, dc, ac).file) = c.scan_number + 1
           /\ NumSOF(ScanHeader(c, dc, ac).file) = 1
  BY <1>1, <1>2, <1>4, ScanHeaderKeeps
<1> QED BY <1>3, <1>5 DEF Headed

LEMMA CodableKept ==
  ASSUME NEW c, NEW d, Codable(c), d.scan = c.scan, d.coding = c.coding, d.image = c.image,
         d.scan_number = c.scan_number, d.dc = c.dc, d.ac = c.ac
  PROVE  Codable(d)
<1>1. Coming(d) = Coming(c) /\ DcSlots(d) = DcSlots(c) /\ AcSlots(d) = AcSlots(c)
      /\ OptimizeCoding(d) = OptimizeCoding(c)
  BY DEF Coming, DcSlots, AcSlots, ProgressiveMode, OptimizeCoding
<1> QED BY <1>1 DEF Codable, ScanSet, CodingSet, NewTables

\* What stands in a header's way is an error, and the headers come in their order.
LEMMA HeadersWritten ==
  ASSUME NEW c, NEW tables, NEW claim, Writing(c, tables, claim), ~c.error, Codable(c),
         NumSOF(c.file) = 0, c.scan_number = 0
  PROVE  Headed(c, Then(WriteFrameHeader(c), WriteScanHeader), tables, claim, HeaderFields, 1)
<1> DEFINE d == WriteFrameHeader(c)
           e == WriteScanHeader(d)
           r == Then(d, WriteScanHeader)
<1>1. /\ Headed(c, d, tables, claim, HeaderFields, 0)
      /\ SameBut(c, d, {"error", "room", "file", "quant"})
  BY FrameWritten
<1>2. DOMAIN c = Fields
  BY DEF Writing, ObjectType
<1>3. r = IF d.error THEN d ELSE e
  BY DEF Then
<1> HIDE DEF d, r
<1>4. CASE d.error
  <2>1. Headed(c, r, tables, claim, HeaderFields, 1)
    BY <1>1, <1>3, <1>4 DEF Headed
  <2> QED BY <2>1 DEF r, d
<1>5. CASE ~d.error
  <2>1. Writing(d, tables, claim) /\ NumSOS(d.file) = 0 /\ NumSOF(d.file) = 1
    BY <1>1, <1>5, WritingOutcome DEF Headed
  <2>2. /\ d.scan = c.scan /\ d.coding = c.coding /\ d.image = c.image
        /\ d.scan_number = c.scan_number /\ d.dc = c.dc /\ d.ac = c.ac
    BY <1>1, <1>2 DEF SameBut, Fields
  <2>3. Codable(d)
    BY <2>2, CodableKept
  <2>4. Headed(d, e, tables, claim, HeaderFields, 1)
    <3>1. d.scan_number + 1 = 1
      BY <2>2
    <3>2. Headed(d, e, tables, claim, HeaderFields, d.scan_number + 1)
      BY <1>5, <2>1, <2>2, <2>3, ScanWritten
    <3> QED BY <3>1, <3>2
  <2> HIDE DEF e
  <2>5. SameBut(c, e, HeaderFields)
    BY <1>1, <2>4, SameButTwice DEF Headed
  <2>6. Headed(c, r, tables, claim, HeaderFields, 1)
    BY <1>3, <1>5, <2>4, <2>5 DEF Headed
  <2> QED BY <2>6 DEF r, d
<1> QED BY <1>4, <1>5

-----------------------------------------------------------------------------
(* The first pass *)

LEMMA MainPassKept ==
  ASSUME NEW c, NEW d, DOMAIN c = Fields, MainPass(c), NEW S, SameBut(c, d, S),
         S \subseteq RowsFields \cup {"error", "next_scanline", "in_rows_avail"}, RowsSet(d),
         NumSOS(d.file) = NumSOS(c.file), NumSOF(d.file) = NumSOF(c.file),
         c.call_pass_startup => d.next_scanline = 0
  PROVE  MainPass(d)
<1>1. /\ d.pass_type = c.pass_type /\ d.scan_number = c.scan_number /\ d.pass_number = c.pass_number
      /\ d.scan = c.scan /\ d.image = c.image /\ d.is_last_pass = c.is_last_pass
      /\ d.total_passes = c.total_passes /\ d.coding = c.coding /\ d.dc = c.dc /\ d.ac = c.ac
      /\ d.call_pass_startup = c.call_pass_startup
  BY DEF SameBut, RowsFields, CodeFields, RowFields, Fields
<1>2. /\ Coming(d) = Coming(c) /\ DcSlots(d) = DcSlots(c) /\ AcSlots(d) = AcSlots(c)
      /\ OptimizeCoding(d) = OptimizeCoding(c)
  BY <1>1 DEF Coming, DcSlots, AcSlots, ProgressiveMode, OptimizeCoding
<1>3. ScanSet(d) /\ (d.call_pass_startup => ~OptimizeCoding(d) /\ CodingSet(d) /\ d.next_scanline = 0)
  BY <1>1, <1>2 DEF MainPass, ScanSet, CodingSet
<1>4. /\ d.pass_type = "main_pass" /\ d.scan_number = 0 /\ d.pass_number = 0
      /\ d.is_last_pass = (d.total_passes = 1) /\ d.coding.gather = OptimizeCoding(d)
  BY <1>1, <1>2 DEF MainPass
<1>5. LET written == IF OptimizeCoding(d) \/ d.call_pass_startup THEN 0 ELSE 1
      IN  NumSOS(d.file) = written /\ NumSOF(d.file) = written
  BY <1>1, <1>2 DEF MainPass
<1> QED BY <1>3, <1>4, <1>5 DEF MainPass

\* What the first pass does between two lines of the caller's keeps it.
InMain(c, tables, claim) ==
  Outcome(c, tables, claim) /\ (~c.error => MainPass(c))
Settling(c, tables, claim) == Writing(c, tables, claim) /\ ~c.error /\ MainPass(c) /\ ~c.call_pass_startup

LEMMA MainFit ==
  ASSUME NEW c, NEW tables, NEW claim, Writing(c, tables, claim), MainPass(c)
  PROVE  Fit(c) /\ c.total_iMCU_rows \in Nat
<1>1. ObjectType(c) /\ Checked(c) /\ ScanSet(c) /\ c.scan_number = 0 /\ RowsSet(c) /\ IsFile(c.file)
  BY DEF Writing, MainPass, FileInv
<1>2. NumScans(c.image) \in Nat \ {0} /\ c.image \in Parameters /\ LegalImage(c.image)
  BY <1>1, SomeScans DEF ObjectType, Checked
<1>3. Countable(c)
  BY <1>1, <1>2, ScanSetFacts
<1>4. TotalIMCURows(c.image) \in Nat
  BY <1>2, MaxVFacts
<1>5. c.total_iMCU_rows \in Nat
  BY <1>1, <1>4 DEF Checked
<1> QED BY <1>1, <1>2, <1>3, <1>5 DEF Fit, ObjectType

LEMMA AdvancedMain ==
  ASSUME NEW c, NEW d, NEW tables, NEW claim, Settling(c, tables, claim), Advanced(c, d)
  PROVE  Settling(d, tables, claim)
<1>1. Writing(c, tables, claim) /\ MainPass(c) /\ ~c.error /\ ~c.call_pass_startup /\ DOMAIN c = Fields
  BY DEF Settling, Writing, ObjectType
<1>2. SameBut(c, d, RowsFields) /\ d.room \in Nat /\ RowsSet(d) /\ Longer(c.file, d.file)
  BY DEF Advanced
<1>3. RowsFields \subseteq OtherFields \cup {"room", "file"}
  BY DEF RowsFields, CodeFields, RowFields, OtherFields, HeaderFields, Fields
<1>4. /\ Writing(d, tables, claim) /\ ~d.error
      /\ NumSOS(d.file) = NumSOS(c.file) /\ NumSOF(d.file) = NumSOF(c.file)
  <2>1. SameBut(c, d, OtherFields \cup {"room", "file"})
    BY <1>2, <1>3, SameButMore
  <2>2. StillWrites(c, d, tables, claim)
    BY <1>1, <1>2, <2>1, EncodedWrites
  <2> QED BY <1>1, <2>2 DEF StillWrites
<1>5. MainPass(d)
  BY <1>1, <1>2, <1>4, MainPassKept
<1>6. d.call_pass_startup = c.call_pass_startup
  BY <1>1, <1>2 DEF SameBut, RowsFields, CodeFields, RowFields, Fields
<1> QED BY <1>1, <1>4, <1>5, <1>6 DEF Settling

\* pass_startup writes the headers, once.
LEMMA StartupKeeps ==
  ASSUME NEW c, NEW tables, NEW claim, Writing(c, tables, claim), ~c.error, MainPass(c)
  PROVE  /\ SameBut(c, PassStartup(c), HeaderFields \cup {"call_pass_startup"})
         /\ Outcome(PassStartup(c), tables, claim)
         /\ ~PassStartup(c).error => Settling(PassStartup(c), tables, claim)
<1> DEFINE d == [c EXCEPT !.call_pass_startup = FALSE]
           e == Then(WriteFrameHeader(d), WriteScanHeader)
           r == PassStartup(c)
<1>1. r = IF ~c.call_pass_startup THEN c ELSE e
  BY DEF PassStartup
<1>2. DOMAIN c = Fields
  BY DEF Writing, ObjectType
<1>3. CASE ~c.call_pass_startup
  <2>1. r = c
    BY <1>1, <1>3
  <2>2. Outcome(c, tables, claim) /\ Settling(c, tables, claim)
    BY <1>3 DEF Outcome, Writing, Settling
  <2> HIDE DEF r
  <2>3. SameBut(c, r, HeaderFields \cup {"call_pass_startup"})
    BY <2>1, SameButItself
  <2> QED BY <2>1, <2>2, <2>3 DEF r
<1>4. CASE c.call_pass_startup
  <2>1. SameBut(c, d, {"call_pass_startup"})
    BY DEF SameBut
  <2>2. d.call_pass_startup = FALSE
    BY <1>2 DEF Fields
  <2> HIDE DEF d
  <2>3. Writing(d, tables, claim) /\ d.file = c.file
    <3>1. d.error \in BOOLEAN
      BY <1>2, <2>1 DEF SameBut, Fields, Writing, ObjectType
    <3>2. {"call_pass_startup"} \subseteq OtherFields \cup {"error"}
      BY DEF OtherFields, HeaderFields, Fields
    <3> QED BY <2>1, <3>1, <3>2, OthersKept
  <2>4. /\ d.pass_type = c.pass_type /\ d.scan_number = c.scan_number /\ d.pass_number = c.pass_number
        /\ d.scan = c.scan /\ d.image = c.image /\ d.is_last_pass = c.is_last_pass
        /\ d.total_passes = c.total_passes /\ d.coding = c.coding /\ d.dc = c.dc /\ d.ac = c.ac
        /\ d.error = c.error
        /\ d.MCU_vert_offset = c.MCU_vert_offset /\ d.mcu_ctr = c.mcu_ctr
        /\ d.MCU_rows_per_iMCU_row = c.MCU_rows_per_iMCU_row
    BY <1>2, <2>1 DEF SameBut, Fields
  <2>5. Codable(c) /\ NumSOF(c.file) = 0 /\ ~OptimizeCoding(c)
    <3>1. 0 < NumScans(c.image)
      BY SomeScans DEF Writing, ObjectType
    <3> QED BY <1>4, <3>1 DEF MainPass, Codable
  <2>6. Codable(d) /\ NumSOF(d.file) = 0 /\ d.scan_number = 0
    BY <2>3, <2>4, <2>5, CodableKept DEF MainPass
  <2>7. Headed(d, e, tables, claim, HeaderFields, 1)
    BY <2>3, <2>4, <2>6, HeadersWritten
  <2> HIDE DEF e, r
  <2>8. r = e
    BY <1>1, <1>4
  <2>9. SameBut(c, e, HeaderFields \cup {"call_pass_startup"}) /\ DOMAIN d = Fields
    BY <1>2, <2>1, <2>7 DEF SameBut, Headed
  <2>10. ASSUME ~e.error PROVE Settling(e, tables, claim)
    <3>1. Writing(e, tables, claim) /\ NumSOS(e.file) = 1 /\ NumSOF(e.file) = 1
      BY <2>7, <2>10, WritingOutcome DEF Headed
    <3>2. /\ e.pass_type = d.pass_type /\ e.scan_number = d.scan_number /\ e.pass_number = d.pass_number
          /\ e.scan = d.scan /\ e.image = d.image /\ e.is_last_pass = d.is_last_pass
          /\ e.total_passes = d.total_passes /\ e.coding = d.coding
          /\ e.MCU_vert_offset = d.MCU_vert_offset /\ e.mcu_ctr = d.mcu_ctr
          /\ e.MCU_rows_per_iMCU_row = d.MCU_rows_per_iMCU_row
          /\ e.call_pass_startup = d.call_pass_startup
      BY <2>7, <2>9 DEF Headed, SameBut, HeaderFields, Fields
    <3>3. Coming(e) = Coming(c) /\ (OptimizeCoding(e) <=> OptimizeCoding(c))
      BY <2>4, <3>2 DEF Coming, OptimizeCoding, ProgressiveMode
    <3>4. ScanSet(e) /\ RowsSet(e)
      BY <2>4, <3>2, <3>3 DEF MainPass, ScanSet, RowsSet
    <3>5. MainPass(e)
      <4>1. /\ e.pass_type = "main_pass" /\ e.scan_number = 0 /\ e.pass_number = 0
            /\ e.is_last_pass = (e.total_passes = 1) /\ e.coding.gather = OptimizeCoding(e)
        <5>1. e.is_last_pass = c.is_last_pass /\ e.total_passes = c.total_passes /\ e.coding = c.coding
              /\ e.pass_type = c.pass_type /\ e.scan_number = c.scan_number /\ e.pass_number = c.pass_number
              /\ e.image = c.image
          BY <2>4, <3>2
        <5>2. OptimizeCoding(e) = OptimizeCoding(c)
          BY <5>1 DEF OptimizeCoding, ProgressiveMode
        <5> QED BY <5>1, <5>2 DEF MainPass
      <4>2. ~e.call_pass_startup /\ ~OptimizeCoding(e)
        BY <2>2, <2>5, <3>2, <3>3
      <4> QED BY <3>1, <3>4, <4>1, <4>2 DEF MainPass
    <3> QED BY <2>2, <2>10, <3>1, <3>2, <3>5 DEF Settling
  <2> QED BY <2>7, <2>8, <2>9, <2>10 DEF Headed, r
<1> QED BY <1>3, <1>4

\* Fields a call changes while lines are written.
CallFields == RowsFields \cup HeaderFields \cup {"call_pass_startup", "next_scanline", "in_rows_avail"}

LEMMA SettlingKept ==
  ASSUME NEW c, NEW d, NEW tables, NEW claim, Settling(c, tables, claim),
         SameBut(c, d, {"next_scanline", "in_row_ctr", "in_rows_avail", "main_buffer"})
  PROVE  Settling(d, tables, claim)
<1> DEFINE S == {"next_scanline", "in_row_ctr", "in_rows_avail", "main_buffer"}
<1>1. Writing(c, tables, claim) /\ ~c.error /\ MainPass(c) /\ ~c.call_pass_startup /\ DOMAIN c = Fields
  BY DEF Settling, Writing, ObjectType
<1>2. /\ d.error = c.error /\ d.call_pass_startup = c.call_pass_startup /\ d.file = c.file
      /\ d.MCU_vert_offset = c.MCU_vert_offset /\ d.mcu_ctr = c.mcu_ctr
      /\ d.MCU_rows_per_iMCU_row = c.MCU_rows_per_iMCU_row
  BY <1>1 DEF SameBut, Fields
<1>3. Writing(d, tables, claim)
  <2>1. S \subseteq OtherFields \cup {"error"}
    BY DEF OtherFields, HeaderFields, Fields
  <2>2. d.error \in BOOLEAN
    BY <1>1, <1>2 DEF Writing, ObjectType
  <2> QED BY <1>1, <2>1, <2>2, OthersKept
<1>4. MainPass(d)
  <2>1. S \subseteq RowsFields \cup {"error", "next_scanline", "in_rows_avail"}
    BY DEF RowsFields, RowFields
  <2>2. RowsSet(d)
    BY <1>1, <1>2 DEF MainPass, RowsSet
  <2> QED BY <1>1, <1>2, <2>1, <2>2, MainPassKept
<1> QED BY <1>1, <1>2, <1>3, <1>4 DEF Settling

\* What is done with the lines once the headers are written.
LinesIn(c, n) ==
  RowsTaken(ProcessData([c EXCEPT !.in_row_ctr = 0,
    !.in_rows_avail = Min({n, c.image.image_height - c.next_scanline})]))
RawIn(c) == RawTaken(CompressData(RawRows(c)))

LEMMA LinesKeep ==
  ASSUME NEW c, NEW n, NEW tables, NEW claim, Settling(c, tables, claim)
  PROVE  Settling(LinesIn(c, n), tables, claim) /\ SameBut(c, LinesIn(c, n), CallFields)
<1> DEFINE S == {"next_scanline", "in_row_ctr", "in_rows_avail", "main_buffer"}
           d == [c EXCEPT !.in_row_ctr = 0, !.in_rows_avail = Min({n, c.image.image_height - c.next_scanline})]
           e == ProcessData(d)
           r == RowsTaken(e)
<1>1. SameBut(c, d, S)
  BY DEF SameBut
<1>2. r = LinesIn(c, n)
  BY DEF LinesIn
<1> HIDE DEF d
<1>3. Settling(d, tables, claim)
  BY <1>1, SettlingKept
<1>4. Advanced(d, e)
  <2>1. Fit(d) /\ d.total_iMCU_rows \in Nat
    BY <1>3, MainFit DEF Settling
  <2> QED BY <2>1, ProcessAdvances
<1> HIDE DEF e
<1>5. Settling(e, tables, claim)
  BY <1>3, <1>4, AdvancedMain
<1>6. SameBut(e, r, S)
  BY DEF SameBut, RowsTaken
<1> HIDE DEF r
<1>7. Settling(r, tables, claim)
  BY <1>5, <1>6, SettlingKept
<1>8. SameBut(c, r, CallFields)
  <2>1. SameBut(d, e, RowsFields)
    BY <1>4 DEF Advanced
  <2>2. S \subseteq CallFields /\ RowsFields \subseteq CallFields
    BY DEF CallFields, RowsFields, RowFields
  <2>3. SameBut(c, d, CallFields) /\ SameBut(d, e, CallFields) /\ SameBut(e, r, CallFields)
    BY <1>1, <1>6, <2>1, <2>2, SameButMore
  <2> QED BY <2>3, SameButTwice
<1> QED BY <1>2, <1>7, <1>8

LEMMA RawKeeps ==
  ASSUME NEW c, NEW tables, NEW claim, Settling(c, tables, claim)
  PROVE  Settling(RawIn(c), tables, claim) /\ SameBut(c, RawIn(c), CallFields)
<1> DEFINE S == {"next_scanline", "in_row_ctr", "in_rows_avail", "main_buffer"}
           d == RawRows(c)
           e == CompressData(d)
           r == RawTaken(e)
<1>1. SameBut(c, d, S)
  BY DEF SameBut, RawRows
<1>2. r = RawIn(c)
  BY DEF RawIn
<1> HIDE DEF d
<1>3. Settling(d, tables, claim)
  BY <1>1, SettlingKept
<1>4. Advanced(d, e)
  <2>1. Fit(d)
    BY <1>3, MainFit DEF Settling
  <2> QED BY <2>1, AdvancedCoded
<1> HIDE DEF e
<1>5. Settling(e, tables, claim)
  BY <1>3, <1>4, AdvancedMain
<1>6. SameBut(e, r, S)
  BY DEF SameBut, RawTaken
<1> HIDE DEF r
<1>7. Settling(r, tables, claim)
  BY <1>5, <1>6, SettlingKept
<1>8. SameBut(c, r, CallFields)
  <2>1. SameBut(d, e, RowsFields)
    BY <1>4 DEF Advanced
  <2>2. S \subseteq CallFields /\ RowsFields \subseteq CallFields
    BY DEF CallFields, RowsFields, RowFields
  <2>3. SameBut(c, d, CallFields) /\ SameBut(d, e, CallFields) /\ SameBut(e, r, CallFields)
    BY <1>1, <1>6, <2>1, <2>2, SameButMore
  <2> QED BY <2>3, SameButTwice
<1> QED BY <1>2, <1>7, <1>8

\* The object between two calls that take lines.
LEMMA MainInv ==
  ASSUME NEW c, NEW tables, NEW whole, NEW claim, claim <=> c.all \/ whole,
         Outcome(c, tables, claim), c.global_state \in {"SCANNING", "RAW_OK"},
         ~c.error => MainPass(c)
  PROVE  ObjectInv(c, tables, whole)
<1>1. /\ FileInv(c, tables, claim) => FileInv(c, tables, c.all \/ whole)
      /\ TablesInv(c, tables, claim) => TablesInv(c, tables, c.all \/ whole)
  BY DEF FileInv, TablesInv
<1> QED BY <1>1 DEF Outcome, ObjectInv

LEMMA CallEnds ==
  ASSUME NEW c, NEW s, NEW d, NEW tables, NEW whole, ObjectInv(c, tables, whole), ~c.error,
         c.global_state \in {"SCANNING", "RAW_OK"},
         s = PassStartup(c), s.error => d = s,
         ~s.error /\ Settling(s, tables, c.all \/ whole)
           => Settling(d, tables, c.all \/ whole) /\ SameBut(s, d, CallFields)
  PROVE  ObjectInv(d, tables, whole)
<1> DEFINE claim == c.all \/ whole
<1>1. Writing(c, tables, claim) /\ MainPass(c) /\ DOMAIN c = Fields
  BY DEF ObjectInv, Writing, ObjectType
<1>2. /\ SameBut(c, s, HeaderFields \cup {"call_pass_startup"})
      /\ Outcome(s, tables, claim) /\ (~s.error => Settling(s, tables, claim))
  BY <1>1, StartupKeeps
<1>3. DOMAIN s = Fields /\ s.all = c.all /\ s.global_state = c.global_state
  BY <1>1, <1>2 DEF SameBut, HeaderFields, Fields
<1>4. CASE s.error
  <2>1. claim <=> s.all \/ whole
    BY <1>3
  <2> HIDE DEF claim
  <2> QED BY <1>2, <1>3, <1>4, <2>1, MainInv
<1>5. CASE ~s.error
  <2>1. Settling(d, tables, claim) /\ SameBut(s, d, CallFields)
    BY <1>2, <1>5
  <2>2. d.all = s.all /\ d.global_state = s.global_state
    BY <1>3, <2>1 DEF SameBut, CallFields, RowsFields, CodeFields, RowFields, HeaderFields, Fields
  <2>3. claim <=> d.all \/ whole
    BY <1>3, <2>2
  <2> HIDE DEF claim
  <2>4. Outcome(d, tables, claim) /\ MainPass(d)
    BY <2>1 DEF Settling, Writing, Outcome
  <2> QED BY <1>3, <2>2, <2>3, <2>4, MainInv
<1> QED BY <1>4, <1>5

-----------------------------------------------------------------------------
(* Between two passes *)

LEMMA TurnKept ==
  ASSUME NEW c, NEW d, Turn(c), d.scan_number = c.scan_number, d.pass_number = c.pass_number,
         d.pass_type = c.pass_type, d.image = c.image, d.total_passes = c.total_passes,
         d.dc = c.dc, d.ac = c.ac,
         NumSOS(d.file) = NumSOS(c.file), NumSOF(d.file) = NumSOF(c.file)
  PROVE  Turn(d)
<1>1. /\ Coming(d) = Coming(c) /\ OptimizeCoding(d) = OptimizeCoding(c)
  BY DEF Coming, OptimizeCoding, ProgressiveMode
<1> QED BY <1>1 DEF Turn, NewTables

LEMMA BetweenKept ==
  ASSUME NEW c, NEW d, Between(c), DOMAIN c = Fields,
         SameBut(c, d, {"error", "room", "file"}),
         NumSOS(d.file) = NumSOS(c.file), NumSOF(d.file) = NumSOF(c.file)
  PROVE  Between(d) /\ d.scan_number = c.scan_number
<1>1. /\ d.scan_number = c.scan_number /\ d.pass_number = c.pass_number /\ d.pass_type = c.pass_type
      /\ d.image = c.image /\ d.total_passes = c.total_passes /\ d.dc = c.dc /\ d.ac = c.ac
      /\ d.is_last_pass = c.is_last_pass
  BY DEF SameBut, Fields
<1>2. Turn(d)
  BY <1>1, TurnKept DEF Between
<1> QED BY <1>1, <1>2 DEF Between

\* Room in the destination changes nothing else.
LEMMA RoomKept ==
  ASSUME NEW c, NEW d, NEW tables, NEW whole, ObjectInv(c, tables, whole), SameBut(c, d, {"room"}),
         d.room \in Nat
  PROVE  ObjectInv(d, tables, whole)
<1> DEFINE claim == c.all \/ whole
<1>1. ObjectType(c) /\ DOMAIN c = Fields
  BY DEF ObjectInv, ObjectType
<1>2. /\ DOMAIN d = DOMAIN c /\ d.image = c.image /\ d.suspends = c.suspends /\ d.all = c.all
      /\ d.error = c.error /\ d.quant = c.quant /\ d.dc = c.dc /\ d.ac = c.ac /\ d.file = c.file
      /\ d.last_restart_interval = c.last_restart_interval
      /\ d.total_iMCU_rows = c.total_iMCU_rows /\ d.total_passes = c.total_passes
      /\ d.global_state = c.global_state /\ d.next_scanline = c.next_scanline
      /\ d.MCU_vert_offset = c.MCU_vert_offset /\ d.mcu_ctr = c.mcu_ctr
      /\ d.MCU_rows_per_iMCU_row = c.MCU_rows_per_iMCU_row
  BY <1>1 DEF SameBut, Fields
<1>3. ObjectType(d)
  BY <1>1, <1>2, TypeKept DEF ObjectType
<1>4. FileInv(d, tables, claim)
  BY <1>2, FileKept DEF ObjectInv
<1>5. Rest(c, tables, whole) => Rest(d, tables, whole)
  BY <1>2 DEF Rest
<1>6. Checked(c) => Checked(d)
  BY <1>2, CheckedKept
<1>7. TablesInv(c, tables, claim) => TablesInv(d, tables, claim)
  BY <1>2, TablesKept
<1>8. MainPass(c) => MainPass(d)
  <2> SUFFICES ASSUME MainPass(c) PROVE MainPass(d)
    OBVIOUS
  <2>1. RowsSet(d)
    BY <1>2 DEF MainPass, RowsSet
  <2>2. {"room"} \subseteq RowsFields \cup {"error", "next_scanline", "in_rows_avail"}
    BY DEF RowsFields, CodeFields
  <2>3. c.call_pass_startup => d.next_scanline = 0
    BY <1>2 DEF MainPass
  <2> QED BY <1>1, <1>2, <2>1, <2>2, <2>3, MainPassKept
<1>9. Between(c) => Between(d) /\ d.scan_number = c.scan_number
  <2>1. SameBut(c, d, {"error", "room", "file"})
    BY SameButMore
  <2> QED BY <1>1, <1>2, <2>1, BetweenKept
<1> QED BY <1>2, <1>3, <1>4, <1>5, <1>6, <1>7, <1>8, <1>9 DEF ObjectInv

LEMMA SettledKeeps ==
  ASSUME NEW c, NEW tables, NEW whole, ObjectInv(c, tables, whole)
  PROVE  ObjectInv(Settled(c), tables, whole)
<1>1. Unlimited \in Nat
  BY DEF Unlimited
<1>2. DOMAIN c = Fields /\ c.room \in Nat
  BY DEF ObjectInv, ObjectType
<1>3. CASE c.suspends
  BY <1>3 DEF Settled
<1>4. CASE ~c.suspends
  <2> DEFINE d == [c EXCEPT !.room = Unlimited]
  <2>1. SameBut(c, d, {"room"})
    BY DEF SameBut
  <2>2. d.room = Unlimited
    BY <1>2 DEF Fields
  <2>3. Settled(c) = d
    BY <1>4 DEF Settled
  <2> HIDE DEF d
  <2>4. ObjectInv(d, tables, whole)
    BY <1>1, <2>1, <2>2, RoomKept
  <2> QED BY <2>3, <2>4
<1> QED BY <1>3, <1>4

\* A marker that does not matter to the tables.
LEMMA EmitPlain ==
  ASSUME NEW c, NEW t, NEW tables, NEW claim, Writing(c, tables, claim), ~c.error, Plain(t)
  PROVE  /\ SameBut(c, Emit(c, t), EmitFields)
         /\ Outcome(Emit(c, t), tables, claim)
         /\ ~Emit(c, t).error => StillWrites(c, Emit(c, t), tables, claim)
<1> DEFINE d == Emit(c, t)
<1>1. ObjectType(c) /\ DOMAIN c = Fields
  BY DEF Writing, ObjectType
<1>2. /\ SameBut(c, d, EmitFields) /\ d.room \in Nat /\ d.error \in BOOLEAN
      /\ d.error => d.file = c.file
      /\ ~d.error => d.file = With(c.file, t)
  BY <1>1, EmitFacts
<1> HIDE DEF d
<1>3. /\ DOMAIN d = Fields /\ d.image = c.image /\ d.suspends = c.suspends /\ d.all = c.all
      /\ d.quant = c.quant /\ d.dc = c.dc /\ d.ac = c.ac
  BY <1>1, <1>2 DEF SameBut, EmitFields, Fields
<1>4. ObjectType(d)
  BY <1>1, <1>2, <1>3, TypeKept DEF ObjectType
<1>5. CASE d.error
  <2>1. Outcome(d, tables, claim)
    BY <1>2, <1>3, <1>4, <1>5, OutcomeOfError DEF Writing
  <2> QED BY <1>2, <1>5, <2>1 DEF d
<1>6. CASE ~d.error
  <2>1. d.error = c.error
    BY <1>1, <1>2, <1>6 DEF ObjectType
  <2>2. SameBut(c, d, OtherFields \cup {"room", "file"})
    BY <1>1, <1>2, <2>1 DEF SameBut, EmitFields
  <2>3. Longer(c.file, d.file)
    BY <1>2, <1>6 DEF Longer
  <2>4. StillWrites(c, d, tables, claim)
    BY <1>2, <2>2, <2>3, EncodedWrites
  <2>5. Outcome(d, tables, claim)
    BY <2>4 DEF StillWrites, Writing, Outcome
  <2> QED BY <1>2, <2>4, <2>5 DEF d
<1> QED BY <1>5, <1>6

-----------------------------------------------------------------------------
(* A pass is prepared *)

LEMMA EntropyStarts ==
  ASSUME NEW c, DOMAIN c = Fields, NEW gather \in BOOLEAN
  PROVE  /\ SameBut(c, StartPassEntropy(c, gather), {"error", "coding"})
         /\ \/ StartPassEntropy(c, gather) = Fail(c) /\ ~gather
            \/ /\ CodingSet(StartPassEntropy(c, gather))
               /\ StartPassEntropy(c, gather).coding.gather = gather
               /\ StartPassEntropy(c, gather).error = c.error
<1> DEFINE e == StartPassEntropy(c, gather)
           dc == Contents(c.dc, DcSlots(c))
           ac == Contents(c.ac, AcSlots(c))
           coding == [gather |-> gather, dc |-> dc, ac |-> ac]
           d == [c EXCEPT !.coding = coding]
<1>1. (e = Fail(c) /\ ~gather) \/ e = d
  BY DEF StartPassEntropy, Contents
<1>2. SameBut(c, Fail(c), {"error", "coding"})
  BY DEF SameBut, Fail
<1>3. coding.gather = gather /\ coding.dc = dc /\ coding.ac = ac
  OBVIOUS
<1> HIDE DEF coding
<1>4. SameBut(c, d, {"error", "coding"}) /\ d.coding = coding /\ d.error = c.error
  BY DEF SameBut, Fields
<1>5. d.dc = c.dc /\ d.ac = c.ac /\ d.image = c.image /\ d.scan = c.scan
  BY <1>4 DEF SameBut, Fields
<1> HIDE DEF d
<1>6. DcSlots(d) = DcSlots(c) /\ AcSlots(d) = AcSlots(c)
  BY <1>5 DEF DcSlots, AcSlots, ProgressiveMode
<1>7. CodingSet(d) /\ d.coding.gather = gather
  BY <1>3, <1>4, <1>5, <1>6 DEF CodingSet
<1> HIDE DEF e
<1>8. SameBut(c, e, {"error", "coding"})
  BY <1>1, <1>2, <1>4
<1> QED BY <1>1, <1>4, <1>7, <1>8 DEF e

CoefFields == {"iMCU_row_num", "compress_data", "MCU_rows_per_iMCU_row", "mcu_ctr", "MCU_vert_offset"}
LEMMA CoefStarts ==
  ASSUME NEW c, DOMAIN c = Fields, Countable(c), NEW method
  PROVE  SameBut(c, StartPassCoef(c, method), CoefFields) /\ RowsSet(StartPassCoef(c, method))
<1> DEFINE d == [c EXCEPT !.iMCU_row_num = 0, !.compress_data = method]
           e == StartIMCURow(d)
<1>1. SameBut(c, d, {"iMCU_row_num", "compress_data"})
  BY DEF SameBut
<1>2. StartPassCoef(c, method) = e
  BY DEF StartPassCoef
<1> HIDE DEF d
<1>3. DOMAIN d = Fields /\ d.scan = c.scan /\ d.image = c.image
  BY <1>1 DEF SameBut, Fields
<1>4. SameBut(d, e, {"MCU_rows_per_iMCU_row", "mcu_ctr", "MCU_vert_offset"}) /\ RowsSet(e)
  BY <1>3, CountableKept, RowStarts
<1> HIDE DEF e
<1>5. SameBut(c, e, CoefFields)
  BY <1>1, <1>4 DEF SameBut, CoefFields
<1> QED BY <1>2, <1>4, <1>5

CrankFields == CoefFields \cup {"call_pass_startup"}
LEMMA Cranked ==
  ASSUME NEW c, DOMAIN c = Fields, Countable(c)
  PROVE  SameBut(c, Crank(c), CrankFields) /\ RowsSet(Crank(c))
<1> DEFINE d == [c EXCEPT !.call_pass_startup = FALSE]
           method == IF c.global_state = "WRCOEFS" THEN "transencode" ELSE "compress_output"
<1>1. SameBut(c, d, {"call_pass_startup"})
  BY DEF SameBut
<1>2. Crank(c) = StartPassCoef(d, method)
  BY DEF Crank
<1> HIDE DEF d, method
<1>3. DOMAIN d = Fields /\ d.scan = c.scan /\ d.image = c.image
  BY <1>1 DEF SameBut, Fields
<1>4. SameBut(d, Crank(c), CoefFields) /\ RowsSet(Crank(c))
  BY <1>2, <1>3, CountableKept, CoefStarts
<1>5. SameBut(c, Crank(c), CrankFields)
  BY <1>1, <1>4 DEF SameBut, CrankFields
<1> QED BY <1>4, <1>5

\* Fields that do not matter to the file, its tables or the turn of the scans.
WorkFields == RowsFields \cup {"call_pass_startup", "coding"}
LEMMA WorkKept ==
  ASSUME NEW c, NEW d, NEW tables, NEW claim, Writing(c, tables, claim), SameBut(c, d, WorkFields),
         d.room = c.room, d.file = c.file
  PROVE  StillWrites(c, d, tables, claim)
<1>1. c.room \in Nat
  BY DEF Writing, ObjectType
<1>2. WorkFields \subseteq OtherFields \cup {"room", "file"}
  BY DEF WorkFields, RowsFields, CodeFields, RowFields, OtherFields, HeaderFields, Fields
<1>3. SameBut(c, d, OtherFields \cup {"room", "file"})
  BY <1>2, SameButMore
<1>4. Longer(c.file, d.file)
  BY DEF Longer
<1> QED BY <1>1, <1>3, <1>4, EncodedWrites

\* The scan of the turn is set up; then its tables are known.
ScanReady(c) ==
  /\ ScanSet(c) /\ c.scan_number \in Nat /\ c.scan_number < NumScans(c.image)
  /\ OptimizeCoding(c) /\ c.pass_type = "output_pass" => NewTables(c)

LEMMA ScanReadyKept ==
  ASSUME NEW c, NEW d, ScanReady(c), d.scan = c.scan, d.image = c.image, d.scan_number = c.scan_number,
         d.pass_type = c.pass_type, d.dc = c.dc, d.ac = c.ac
  PROVE  ScanReady(d) /\ OptimizeCoding(d) = OptimizeCoding(c)
<1>1. Coming(d) = Coming(c) /\ OptimizeCoding(d) = OptimizeCoding(c)
  BY DEF Coming, ProgressiveMode, OptimizeCoding
<1> QED BY <1>1 DEF ScanReady, ScanSet, NewTables

\* c has prepared a pass and become r.
PassReady(c, r, tables, claim, gather, scans) ==
  /\ SameBut(c, r, WorkFields \cup HeaderFields) /\ Outcome(r, tables, claim)
  /\ ~r.error => /\ RowsSet(r) /\ r.coding.gather = gather
                 /\ NumSOS(r.file) = scans /\ NumSOF(r.file) = IF scans = 0 THEN 0 ELSE 1

\* The tables are chosen, and the row of MCUs the pass starts with.
LEMMA CrankedWrites ==
  ASSUME NEW c, NEW tables, NEW claim, NEW gather \in BOOLEAN, Writing(c, tables, claim), ~c.error,
         ScanReady(c), NEW d, d = StartPassEntropy(c, gather), ~d.error
  PROVE  /\ SameBut(c, Crank(d), WorkFields) /\ StillWrites(c, Crank(d), tables, claim)
         /\ RowsSet(Crank(d)) /\ Crank(d).coding.gather = gather
         /\ CodingSet(Crank(d)) /\ ScanReady(Crank(d))
         /\ Crank(d).pass_type = c.pass_type /\ Crank(d).scan_number = c.scan_number
         /\ Crank(d).file = c.file
<1> DEFINE e == Crank(d)
<1>1. DOMAIN c = Fields /\ ObjectType(c) /\ Checked(c)
  BY DEF Writing, ObjectType
<1>2. Countable(c)
  BY <1>1, ScanSetFacts DEF ScanReady
<1>3. SameBut(c, d, {"error", "coding"}) /\ CodingSet(d) /\ d.coding.gather = gather /\ d.error = c.error
  <2>1. ~ (d = Fail(c))
    BY <1>1, FailFacts
  <2> QED BY <1>1, <2>1, EntropyStarts
<1>4. /\ DOMAIN d = Fields /\ d.scan = c.scan /\ d.image = c.image /\ d.dc = c.dc /\ d.ac = c.ac
      /\ d.pass_type = c.pass_type /\ d.scan_number = c.scan_number
      /\ d.room = c.room /\ d.file = c.file
  BY <1>1, <1>3 DEF SameBut, Fields
<1>5. SameBut(d, e, CrankFields) /\ RowsSet(e)
  BY <1>2, <1>4, CountableKept, Cranked
<1> HIDE DEF e
<1>6. /\ e.scan = d.scan /\ e.image = d.image /\ e.dc = d.dc /\ e.ac = d.ac /\ e.coding = d.coding
      /\ e.pass_type = d.pass_type /\ e.scan_number = d.scan_number
      /\ e.room = d.room /\ e.file = d.file /\ e.error = d.error
  BY <1>4, <1>5 DEF SameBut, CrankFields, CoefFields, Fields
<1>7. SameBut(c, e, WorkFields)
  BY <1>1, <1>3, <1>5, <1>6 DEF SameBut, WorkFields, RowsFields, CodeFields, CrankFields, CoefFields
<1>8. StillWrites(c, e, tables, claim)
  BY <1>4, <1>6, <1>7, WorkKept
<1>9. CodingSet(e)
  <2>1. DcSlots(e) = DcSlots(d) /\ AcSlots(e) = AcSlots(d)
    BY <1>6 DEF DcSlots, AcSlots, ProgressiveMode
  <2> QED BY <1>3, <1>6, <2>1 DEF CodingSet
<1>10. ScanReady(e)
  BY <1>4, <1>6, ScanReadyKept
<1> QED BY <1>3, <1>4, <1>5, <1>6, <1>7, <1>8, <1>9, <1>10 DEF e

LEMMA FailReady ==
  ASSUME NEW c, NEW tables, NEW claim, NEW gather, NEW scans, Writing(c, tables, claim)
  PROVE  PassReady(c, Fail(c), tables, claim, gather, scans)
<1>1. ObjectType(c) /\ FileInv(c, tables, claim)
  BY DEF Writing
<1>2. SameBut(c, Fail(c), {"error"}) /\ Fail(c).error = TRUE
  BY <1>1, FailFacts
<1>3. SameBut(c, Fail(c), WorkFields \cup HeaderFields)
  BY <1>2, SameButMore DEF HeaderFields
<1>4. Outcome(Fail(c), tables, claim)
  BY <1>1, FailOutcome
<1> QED BY <1>2, <1>3, <1>4 DEF PassReady

LEMMA OptPassPrepared ==
  ASSUME NEW c, NEW tables, NEW claim, Writing(c, tables, claim), ~c.error, ScanReady(c), NEW n,
         NumSOS(c.file) = n, NumSOF(c.file) = IF n = 0 THEN 0 ELSE 1
  PROVE  PassReady(c, PrepareOptPass(c), tables, claim, TRUE, n)
<1> DEFINE d == StartPassEntropy(c, TRUE)
           r == PrepareOptPass(c)
<1>1. r = IF d.error THEN d ELSE Crank(d)
  BY DEF PrepareOptPass, Then
<1>2. DOMAIN c = Fields /\ ObjectType(c)
  BY DEF Writing, ObjectType
<1>3. d = Fail(c) \/ d.error = c.error
  BY <1>2, EntropyStarts
<1>4. CASE d.error
  <2>1. d = Fail(c)
    BY <1>3, <1>4
  <2> HIDE DEF d
  <2>2. r = Fail(c)
    BY <1>1, <1>4, <2>1
  <2> HIDE DEF r
  <2>3. PassReady(c, r, tables, claim, TRUE, n)
    BY <2>2, FailReady
  <2> QED BY <2>3 DEF r
<1>5. CASE ~d.error
  <2> HIDE DEF r
  <2>1. /\ SameBut(c, Crank(d), WorkFields) /\ StillWrites(c, Crank(d), tables, claim)
        /\ RowsSet(Crank(d)) /\ Crank(d).coding.gather = TRUE
    BY <1>5, CrankedWrites
  <2> HIDE DEF d
  <2>2. r = Crank(d)
    BY <1>1, <1>5
  <2>3. SameBut(c, r, WorkFields \cup HeaderFields)
    BY <2>1, <2>2, SameButMore
  <2>4. Outcome(r, tables, claim)
    BY <2>1, <2>2 DEF StillWrites, Writing, Outcome
  <2>5. NumSOS(r.file) = n /\ NumSOF(r.file) = IF n = 0 THEN 0 ELSE 1
    BY <2>1, <2>2 DEF StillWrites
  <2>6. PassReady(c, r, tables, claim, TRUE, n)
    BY <2>1, <2>2, <2>3, <2>4, <2>5 DEF PassReady
  <2> QED BY <2>6 DEF r
<1> QED BY <1>4, <1>5

LEMMA OutputPassPrepared ==
  ASSUME NEW c, NEW tables, NEW claim, Writing(c, tables, claim), ~c.error, ScanReady(c), NEW n,
         n = c.scan_number, c.pass_type = "output_pass",
         NumSOS(c.file) = n, NumSOF(c.file) = IF n = 0 THEN 0 ELSE 1
  PROVE  PassReady(c, PrepareOutputPass(c), tables, claim, FALSE, n + 1)
<1> DEFINE d == StartPassEntropy(c, FALSE)
           e == Crank(d)
           f == WriteFrameHeader(e)
           h == IF d.error THEN d ELSE IF d.scan_number = 0 THEN f ELSE e
           r == PrepareOutputPass(c)
<1>1. r = IF h.error THEN h ELSE WriteScanHeader(h)
  BY DEF PrepareOutputPass, Then
<1>2. DOMAIN c = Fields /\ ObjectType(c) /\ n \in Nat
  BY DEF Writing, ObjectType, ScanReady
<1>3. (d = Fail(c) \/ d.error = c.error) /\ d.scan_number = c.scan_number
  <2>1. SameBut(c, d, {"error", "coding"}) /\ (d = Fail(c) \/ d.error = c.error)
    BY <1>2, EntropyStarts
  <2> HIDE DEF d
  <2> QED BY <1>2, <2>1 DEF SameBut, Fields
<1>4. CASE d.error
  <2>1. d = Fail(c)
    BY <1>3, <1>4
  <2> HIDE DEF d, r
  <2>2. r = Fail(c)
    BY <1>1, <1>4, <2>1
  <2>3. PassReady(c, r, tables, claim, FALSE, n + 1)
    BY <2>2, FailReady
  <2> QED BY <2>3 DEF r
<1>5. CASE ~d.error
  <2>1. /\ SameBut(c, e, WorkFields) /\ StillWrites(c, e, tables, claim)
        /\ RowsSet(e) /\ e.coding.gather = FALSE /\ CodingSet(e) /\ ScanReady(e)
        /\ e.pass_type = c.pass_type /\ e.scan_number = c.scan_number /\ e.file = c.file
    BY <1>5, CrankedWrites
  <2> HIDE DEF d
  <2>2. Writing(e, tables, claim) /\ ~e.error /\ Codable(e) /\ DOMAIN e = Fields
    BY <2>1 DEF StillWrites, ScanReady, Codable, Writing, ObjectType
  <2>3. Headed(e, r, tables, claim, HeaderFields, n + 1)
    <3>1. CASE n = 0
      <4>1. r = Then(f, WriteScanHeader)
        BY <1>1, <1>3, <1>5, <3>1 DEF Then
      <4> HIDE DEF e, f, r
      <4>2. NumSOF(e.file) = 0 /\ e.scan_number = 0
        BY <2>1, <3>1
      <4>3. Headed(e, Then(WriteFrameHeader(e), WriteScanHeader), tables, claim, HeaderFields, 1)
        BY <2>2, <4>2, HeadersWritten
      <4>4. n + 1 = 1
        BY <3>1
      <4> QED BY <4>1, <4>3, <4>4 DEF f
    <3>2. CASE n # 0
      <4>1. h = e
        BY <1>3, <1>5, <3>2
      <4> HIDE DEF h, r, e
      <4>2. r = WriteScanHeader(e)
        BY <1>1, <2>2, <4>1
      <4>3. NumSOF(e.file) = 1 /\ NumSOS(e.file) = e.scan_number
        BY <2>1, <3>2
      <4>4. Headed(e, WriteScanHeader(e), tables, claim, HeaderFields, e.scan_number + 1)
        BY <2>2, <4>3, ScanWritten
      <4> QED BY <2>1, <4>2, <4>4
    <3> QED BY <3>1, <3>2
  <2> HIDE DEF e, f, h, r
  <2>4. SameBut(e, r, HeaderFields) /\ Outcome(r, tables, claim)
    BY <2>3 DEF Headed
  <2>5. SameBut(c, r, WorkFields \cup HeaderFields)
    <3>1. SameBut(c, e, WorkFields \cup HeaderFields) /\ SameBut(e, r, WorkFields \cup HeaderFields)
      BY <2>1, <2>4, SameButMore
    <3> QED BY <3>1, SameButTwice
  <2>6. /\ r.coding = e.coding /\ r.MCU_vert_offset = e.MCU_vert_offset /\ r.mcu_ctr = e.mcu_ctr
        /\ r.MCU_rows_per_iMCU_row = e.MCU_rows_per_iMCU_row
    BY <2>2, <2>4 DEF SameBut, HeaderFields, Fields
  <2>7. RowsSet(r) /\ r.coding.gather = FALSE
    BY <2>1, <2>6 DEF RowsSet
  <2>8. ~r.error => NumSOS(r.file) = n + 1 /\ NumSOF(r.file) = 1
    BY <2>3 DEF Headed
  <2>9. PassReady(c, r, tables, claim, FALSE, n + 1)
    <3>1. n + 1 # 0
      BY <1>2
    <3> QED BY <2>4, <2>5, <2>7, <2>8, <3>1 DEF PassReady
  <2> QED BY <2>9 DEF r
<1> QED BY <1>4, <1>5

LEMMA MainPassPrepared ==
  ASSUME NEW c, NEW tables, NEW claim, Writing(c, tables, claim), ~c.error, ScanReady(c),
         NumSOS(c.file) = 0, NumSOF(c.file) = 0
  PROVE  /\ PassReady(c, PrepareMainPass(c), tables, claim, OptimizeCoding(c), 0)
         /\ ~PrepareMainPass(c).error =>
              /\ PrepareMainPass(c).call_pass_startup = ~OptimizeCoding(c)
              /\ CodingSet(PrepareMainPass(c))
<1> DEFINE o == OptimizeCoding(c)
           d == StartPassEntropy(c, o)
           e == StartPassPrep(d)
           f == StartPassCoef(e, IF c.total_passes > 1 THEN "compress_first_pass" ELSE "compress_data")
           g == StartPassMain(f)
           h == [g EXCEPT !.call_pass_startup = ~OptimizeCoding(c)]
           r == PrepareMainPass(c)
<1>1. r = IF d.error THEN d ELSE h
  BY DEF PrepareMainPass, Then
<1>2. DOMAIN c = Fields /\ ObjectType(c) /\ Checked(c) /\ o \in BOOLEAN
  <2>1. c.image.optimize_coding \in BOOLEAN
    BY DEF Writing, ObjectType, Parameters
  <2> QED BY <2>1 DEF Writing, ObjectType, OptimizeCoding, ProgressiveMode, Progressive
<1> HIDE DEF r, o
<1>3. SameBut(c, d, {"error", "coding"})
      /\ (d = Fail(c) \/ (CodingSet(d) /\ d.coding.gather = o /\ d.error = c.error))
  BY <1>2, EntropyStarts
<1> HIDE DEF d
<1>4. CASE d = Fail(c)
  <2>1. d.error
    BY <1>2, <1>4, FailFacts
  <2>2. r = Fail(c)
    BY <1>1, <1>4, <2>1
  <2>3. PassReady(c, r, tables, claim, o, 0) /\ r.error
    BY <1>4, <2>1, <2>2, FailReady
  <2> QED BY <2>3 DEF r, o
<1>5. CASE d # Fail(c)
  <2>1. CodingSet(d) /\ d.coding.gather = o /\ d.error = c.error
    BY <1>3, <1>5
  <2>2. /\ DOMAIN d = Fields /\ d.scan = c.scan /\ d.image = c.image /\ d.dc = c.dc /\ d.ac = c.ac
    BY <1>2, <1>3 DEF SameBut, Fields
  <2>3. SameBut(d, e, {"color_buf", "rows_to_go", "next_buf_row", "this_row_group", "next_buf_stop"})
    BY DEF SameBut, StartPassPrep
  <2> HIDE DEF e
  <2>4. DOMAIN e = Fields /\ e.scan = c.scan /\ e.image = c.image
    BY <2>2, <2>3 DEF SameBut, Fields
  <2>5. Countable(e)
    <3>1. Countable(c)
      BY <1>2, ScanSetFacts DEF ScanReady
    <3> QED BY <2>4, <3>1, CountableKept
  <2>6. SameBut(e, f, CoefFields) /\ RowsSet(f)
    BY <2>4, <2>5, CoefStarts
  <2> HIDE DEF f
  <2>7. SameBut(f, g, {"cur_iMCU_row", "rowgroup_ctr", "suspended"})
    BY DEF SameBut, StartPassMain
  <2> HIDE DEF g
  <2>8. SameBut(g, h, {"call_pass_startup"})
    BY DEF SameBut
  <2>9. DOMAIN g = Fields
    BY <2>4, <2>6, <2>7 DEF SameBut
  <2>10. h.call_pass_startup = ~OptimizeCoding(c)
    BY <2>9 DEF Fields
  <2> HIDE DEF h
  <2>11. SameBut(d, h, RowsFields \cup {"call_pass_startup"})
    BY <2>3, <2>6, <2>7, <2>8 DEF SameBut, RowsFields, RowFields, CodeFields, CoefFields
  <2>12. /\ h.MCU_vert_offset = f.MCU_vert_offset /\ h.mcu_ctr = f.mcu_ctr
         /\ h.MCU_rows_per_iMCU_row = f.MCU_rows_per_iMCU_row
    BY <2>9, <2>7, <2>8 DEF SameBut, Fields
  <2>13. RowsSet(h)
    BY <2>6, <2>12 DEF RowsSet
  <2>14. /\ h.room = d.room /\ h.file = d.file
    BY <2>2, <2>3, <2>6, <2>7, <2>8 DEF SameBut, CoefFields, Fields
  <2>15. /\ h.scan = d.scan /\ h.image = d.image /\ h.dc = d.dc /\ h.ac = d.ac /\ h.coding = d.coding
    BY <2>2, <2>11 DEF SameBut, RowsFields, RowFields, CodeFields, Fields
  <2>16. CodingSet(h) /\ h.coding.gather = o
    <3>1. DcSlots(h) = DcSlots(d) /\ AcSlots(h) = AcSlots(d)
      BY <2>15 DEF DcSlots, AcSlots, ProgressiveMode
    <3> QED BY <2>1, <2>15, <3>1 DEF CodingSet
  <2>18. StillWrites(c, h, tables, claim)
    <3>1. d.room = c.room /\ d.file = c.file
      BY <1>2, <1>3 DEF SameBut, Fields
    <3>2. h.error = d.error
      BY <2>2, <2>11 DEF SameBut, RowsFields, RowFields, CodeFields, Fields
    <3>3. SameBut(c, h, WorkFields)
      BY <1>2, <1>3, <2>1, <2>11, <3>2 DEF SameBut, WorkFields
    <3> QED BY <2>14, <3>1, <3>3, WorkKept
  <2>19. SameBut(c, h, WorkFields \cup HeaderFields)
    BY <1>3, <2>11 DEF SameBut, WorkFields, HeaderFields
  <2>20. r = h
    BY <1>1, <2>1
  <2>21. PassReady(c, r, tables, claim, o, 0)
    <3>1. Outcome(h, tables, claim) /\ NumSOS(h.file) = 0 /\ NumSOF(h.file) = 0
      BY <2>18 DEF StillWrites, Writing, Outcome
    <3> QED BY <2>13, <2>16, <2>19, <2>20, <3>1 DEF PassReady
  <2> QED BY <2>10, <2>16, <2>20, <2>21 DEF r, o
<1> QED BY <1>4, <1>5

LEMMA AsideKept ==
  ASSUME NEW c, NEW d, NEW tables, NEW claim, Writing(c, tables, claim), SameBut(c, d, OtherFields)
  PROVE  StillWrites(c, d, tables, claim) /\ d.file = c.file
<1>1. d.room = c.room /\ d.file = c.file /\ c.room \in Nat
  BY DEF Writing, ObjectType, SameBut, OtherFields, HeaderFields, Fields
<1>2. SameBut(c, d, OtherFields \cup {"room", "file"})
  BY SameButMore
<1>3. Longer(c.file, d.file)
  BY <1>1 DEF Longer
<1> QED BY <1>1, <1>2, <1>3, EncodedWrites

TurnFields == WorkFields \cup HeaderFields
                \cup {"scan", "restart_interval", "pass_type", "pass_number", "is_last_pass"}

LEMMA ScanSetUp ==
  ASSUME NEW c, NEW tables, NEW claim, Writing(c, tables, claim), ~c.error,
         NEW d, d = SetScan(c, ScanOf(c.image, c.scan_number + 1))
  PROVE  \/ d = Fail(c)
         \/ /\ SameBut(c, d, {"scan", "restart_interval"}) /\ ScanSet(d) /\ ~d.error
            /\ StillWrites(c, d, tables, claim) /\ d.file = c.file
<1> DEFINE s == ScanOf(c.image, c.scan_number + 1)
           geometry == PerScanSetup(c.image, s)
           scan == Over(s, geometry)
           interval == RestartInterval(c.image, geometry.MCUs_per_row)
<1>1. d = Fail(c) \/ d = [c EXCEPT !.scan = scan, !.restart_interval = interval]
  BY DEF SetScan
<1>2. DOMAIN c = Fields
  BY DEF Writing, ObjectType
<1>3. CASE d = [c EXCEPT !.scan = scan, !.restart_interval = interval]
  <2> HIDE DEF scan, interval
  <2>1. SameBut(c, d, {"scan", "restart_interval"}) /\ d.scan = scan
    BY <1>2, <1>3 DEF SameBut, Fields
  <2>2. d.image = c.image /\ d.scan_number = c.scan_number /\ d.error = c.error
    BY <1>2, <2>1 DEF SameBut, Fields
  <2>3. ScanSet(d)
    BY <2>1, <2>2 DEF ScanSet, Coming, scan
  <2>4. {"scan", "restart_interval"} \subseteq OtherFields
    BY DEF OtherFields, HeaderFields, Fields
  <2>5. SameBut(c, d, OtherFields)
    BY <2>1, <2>4, SameButMore
  <2> QED BY <2>1, <2>2, <2>3, <2>5, AsideKept
<1> QED BY <1>1, <1>3

LEMMA PreparedParts ==
  ASSUME NEW c, NEW d, NEW p, d = SetScan(c, ScanOf(c.image, c.scan_number + 1)), p = Prepared(SkipsOpt(d))
  PROVE  PrepareForPass(c) = IF d.error THEN d ELSE IF p.error THEN p
                             ELSE [p EXCEPT !.is_last_pass = p.pass_number = p.total_passes - 1]
BY DEF PrepareForPass, Then

LEMMA FailTurn ==
  ASSUME NEW c, NEW tables, NEW claim, Writing(c, tables, claim)
  PROVE  SameBut(c, Fail(c), TurnFields) /\ Outcome(Fail(c), tables, claim) /\ Fail(c).error = TRUE
<1>1. ObjectType(c) /\ FileInv(c, tables, claim)
  BY DEF Writing
<1>2. SameBut(c, Fail(c), {"error"}) /\ Fail(c).error = TRUE
  BY <1>1, FailFacts
<1>3. SameBut(c, Fail(c), TurnFields)
  BY <1>2, SameButMore DEF TurnFields, HeaderFields
<1> QED BY <1>1, <1>2, <1>3, FailOutcome

\* An object that is no error but for is_last_pass.
LEMMA LastPassSet ==
  ASSUME NEW p, NEW r, NEW tables, NEW claim, Outcome(p, tables, claim), ~p.error,
         r = [p EXCEPT !.is_last_pass = p.pass_number = p.total_passes - 1]
  PROVE  /\ SameBut(p, r, {"is_last_pass"}) /\ StillWrites(p, r, tables, claim)
         /\ r.is_last_pass = (p.pass_number = p.total_passes - 1)
         /\ Outcome(r, tables, claim) /\ ~r.error
<1>1. Writing(p, tables, claim) /\ DOMAIN p = Fields
  BY WritingOutcome DEF Outcome, ObjectType
<1> DEFINE last == p.pass_number = p.total_passes - 1
<1>2. r = [p EXCEPT !.is_last_pass = last]
  OBVIOUS
<1> HIDE DEF last
<1>3. SameBut(p, r, {"is_last_pass"}) /\ r.is_last_pass = last
  BY <1>1, <1>2 DEF SameBut, Fields
<1>4. {"is_last_pass"} \subseteq OtherFields
  BY DEF OtherFields, HeaderFields, Fields
<1>5. SameBut(p, r, OtherFields)
  BY <1>3, <1>4, SameButMore
<1>6. StillWrites(p, r, tables, claim)
  BY <1>1, <1>5, AsideKept
<1>7. Outcome(r, tables, claim) /\ ~r.error
  BY <1>6 DEF StillWrites, Writing, Outcome
<1> QED BY <1>3, <1>6, <1>7 DEF last

LEMMA SomePasses ==
  ASSUME NEW c, NEW tables, NEW claim, Writing(c, tables, claim)
  PROVE  /\ NumScans(c.image) \in Nat \ {0} /\ c.total_passes \in Nat \ {0}
         /\ c.total_passes = IF OptimizeCoding(c) THEN 2 * NumScans(c.image) ELSE NumScans(c.image)
<1>1. NumScans(c.image) \in Nat \ {0}
  BY SomeScans DEF Writing, ObjectType
<1> QED BY <1>1 DEF Writing, Checked

\* prepare_for_pass for the pass that takes the lines.
LEMMA FirstPassPrepared ==
  ASSUME NEW c, NEW tables, NEW claim, Writing(c, tables, claim), ~c.error,
         c.pass_type = "main_pass", c.scan_number = 0, c.pass_number = 0, c.next_scanline = 0,
         NumSOS(c.file) = 0, NumSOF(c.file) = 0
  PROVE  /\ SameBut(c, PrepareForPass(c), TurnFields) /\ Outcome(PrepareForPass(c), tables, claim)
         /\ ~PrepareForPass(c).error => MainPass(PrepareForPass(c))
<1> DEFINE d == SetScan(c, ScanOf(c.image, c.scan_number + 1))
           p == Prepared(SkipsOpt(d))
           r == PrepareForPass(c)
<1>1. r = IF d.error THEN d ELSE IF p.error THEN p
          ELSE [p EXCEPT !.is_last_pass = p.pass_number = p.total_passes - 1]
  BY PreparedParts
<1>2. \/ d = Fail(c)
      \/ /\ SameBut(c, d, {"scan", "restart_interval"}) /\ ScanSet(d) /\ ~d.error
         /\ StillWrites(c, d, tables, claim) /\ d.file = c.file
  BY ScanSetUp
<1>3. SameBut(c, Fail(c), TurnFields) /\ Outcome(Fail(c), tables, claim) /\ Fail(c).error = TRUE
  BY FailTurn
<1>4. DOMAIN c = Fields
  BY DEF Writing, ObjectType
<1> HIDE DEF r, d
<1>5. CASE d = Fail(c)
  <2>1. r = Fail(c)
    BY <1>1, <1>3, <1>5
  <2> QED BY <1>3, <2>1 DEF r
<1>6. CASE d # Fail(c)
  <2>1. /\ SameBut(c, d, {"scan", "restart_interval"}) /\ ScanSet(d) /\ ~d.error
        /\ StillWrites(c, d, tables, claim) /\ d.file = c.file
    BY <1>2, <1>6
  <2>2. /\ d.pass_type = "main_pass" /\ d.scan_number = 0 /\ d.pass_number = 0 /\ d.next_scanline = 0
        /\ d.image = c.image /\ d.total_passes = c.total_passes /\ DOMAIN d = Fields
    BY <1>4, <2>1 DEF SameBut, Fields
  <2>3. Writing(d, tables, claim) /\ NumSOS(d.file) = 0 /\ NumSOF(d.file) = 0
    BY <2>1 DEF StillWrites
  <2>4. ScanReady(d)
    <3>1. NumScans(d.image) \in Nat \ {0}
      BY <2>3, SomePasses
    <3> QED BY <2>1, <2>2, <3>1 DEF ScanReady
  <2>5. p = PrepareMainPass(d)
    <3>1. SkipsOpt(d) = d
      BY <2>2 DEF SkipsOpt
    <3> QED BY <2>2, <3>1 DEF Prepared
  <2> HIDE DEF p
  <2> DEFINE o == OptimizeCoding(d)
  <2>6. /\ PassReady(d, p, tables, claim, o, 0)
        /\ ~p.error => p.call_pass_startup = ~OptimizeCoding(d) /\ CodingSet(p)
    BY <2>1, <2>3, <2>4, <2>5, MainPassPrepared
  <2> HIDE DEF o
  <2>7. SameBut(d, p, WorkFields \cup HeaderFields) /\ Outcome(p, tables, claim)
    BY <2>6 DEF PassReady
  <2>8. SameBut(c, p, TurnFields)
    BY <2>1, <2>7 DEF SameBut, TurnFields
  <2>9. CASE p.error
    <3>1. r = p
      BY <1>1, <2>1, <2>9
    <3> QED BY <2>7, <2>8, <2>9, <3>1 DEF r
  <2>10. CASE ~p.error
    <3>1. r = [p EXCEPT !.is_last_pass = p.pass_number = p.total_passes - 1]
      BY <1>1, <2>1, <2>10
    <3>2. /\ SameBut(p, r, {"is_last_pass"}) /\ StillWrites(p, r, tables, claim)
          /\ r.is_last_pass = (p.pass_number = p.total_passes - 1)
          /\ Outcome(r, tables, claim) /\ ~r.error
      BY <2>7, <2>10, <3>1, LastPassSet
    <3>3. SameBut(c, r, TurnFields)
      BY <2>8, <3>2 DEF SameBut, TurnFields
    <3>4. RowsSet(p) /\ p.coding.gather = o /\ NumSOS(p.file) = 0 /\ NumSOF(p.file) = 0
      BY <2>6, <2>10 DEF PassReady
    <3>5. /\ p.pass_type = d.pass_type /\ p.scan_number = d.scan_number /\ p.pass_number = d.pass_number
          /\ p.next_scanline = d.next_scanline /\ p.image = d.image /\ p.total_passes = d.total_passes
          /\ p.scan = d.scan /\ DOMAIN p = Fields
      BY <2>2, <2>7 DEF SameBut, WorkFields, RowsFields, RowFields, CodeFields, HeaderFields, Fields
    <3>6. /\ r.pass_type = p.pass_type /\ r.scan_number = p.scan_number /\ r.pass_number = p.pass_number
          /\ r.next_scanline = p.next_scanline /\ r.image = p.image /\ r.total_passes = p.total_passes
          /\ r.scan = p.scan /\ r.coding = p.coding /\ r.call_pass_startup = p.call_pass_startup
          /\ r.MCU_vert_offset = p.MCU_vert_offset /\ r.mcu_ctr = p.mcu_ctr
          /\ r.MCU_rows_per_iMCU_row = p.MCU_rows_per_iMCU_row /\ r.dc = p.dc /\ r.ac = p.ac
      BY <3>2, <3>5 DEF SameBut, Fields
    <3>7. OptimizeCoding(r) = o /\ Coming(r) = Coming(d)
      BY <3>5, <3>6 DEF OptimizeCoding, ProgressiveMode, Coming, o
    <3>8. ScanSet(r) /\ RowsSet(r)
      BY <2>1, <3>4, <3>5, <3>6, <3>7 DEF ScanSet, RowsSet
    <3>9. CodingSet(r)
      <4>1. DcSlots(r) = DcSlots(p) /\ AcSlots(r) = AcSlots(p)
        BY <3>6 DEF DcSlots, AcSlots, ProgressiveMode
      <4> QED BY <2>6, <2>10, <3>6, <4>1 DEF CodingSet
    <3>10. r.is_last_pass = (r.total_passes = 1)
      <4>1. r.total_passes \in Nat
        BY <2>2, <2>3, <3>5, <3>6, SomePasses
      <4>2. r.is_last_pass = (0 = r.total_passes - 1)
        BY <2>2, <3>2, <3>5, <3>6
      <4> QED BY <4>1, <4>2
    <3>11. NumSOS(r.file) = 0 /\ NumSOF(r.file) = 0
      BY <3>2, <3>4 DEF StillWrites
    <3>12. r.call_pass_startup = ~o
      BY <2>6, <2>10, <3>6 DEF o
    <3>13. MainPass(r)
      <4>1. r.pass_type = "main_pass" /\ r.scan_number = 0 /\ r.pass_number = 0 /\ r.next_scanline = 0
            /\ r.coding.gather = OptimizeCoding(r)
        BY <2>2, <3>4, <3>5, <3>6, <3>7
      <4>2. r.call_pass_startup = ~OptimizeCoding(r)
        BY <3>7, <3>12
      <4> QED BY <3>8, <3>9, <3>10, <3>11, <4>1, <4>2 DEF MainPass
    <3> QED BY <3>2, <3>3, <3>13 DEF r
  <2> QED BY <2>9, <2>10
<1> QED BY <1>5, <1>6

\* A pass whose turn it is has a scan to code.
LEMMA TurnScans ==
  ASSUME NEW c, NEW tables, NEW claim, Writing(c, tables, claim), Turn(c), c.pass_number < c.total_passes
  PROVE  c.scan_number \in Nat /\ c.scan_number < NumScans(c.image)
<1> DEFINE o == OptimizeCoding(c)
           n == NumScans(c.image)
           s == c.scan_number
           p == c.pass_number
           t == c.total_passes
<1>1. n \in Nat /\ t = IF o THEN 2 * n ELSE n
  BY SomePasses
<1>2. s \in Nat /\ (p = s \/ (o /\ (p = 2 * s + 1 \/ p = 2 * s))) /\ (~o => p = s)
  BY DEF Turn
<1>3. o => p = 2 * s + 1 \/ p = 2 * s
  BY DEF Turn
<1>4. p < t
  OBVIOUS
<1> HIDE DEF o, n, s, p, t
<1>5. s < n
  BY <1>1, <1>2, <1>3, <1>4
<1> QED BY <1>2, <1>5 DEF s, n

LEMMA TurnSkips ==
  ASSUME NEW c, NEW tables, NEW claim, Writing(c, tables, claim), ~c.error, ScanSet(c),
         Turn(c), c.pass_number < c.total_passes
  PROVE  /\ SameBut(c, SkipsOpt(c), {"pass_type", "pass_number"})
         /\ StillWrites(c, SkipsOpt(c), tables, claim)
         /\ Turn(SkipsOpt(c)) /\ ScanReady(SkipsOpt(c))
         /\ SkipsOpt(c).pass_number < SkipsOpt(c).total_passes
<1> DEFINE d == SkipsOpt(c)
           skips == c.pass_type = "huff_opt_pass" /\ c.scan.Ss = 0 /\ c.scan.Ah # 0
<1>1. DOMAIN c = Fields /\ ObjectType(c) /\ Checked(c)
  BY DEF Writing, ObjectType
<1>2. c.scan_number \in Nat /\ c.scan_number < NumScans(c.image)
  BY TurnScans
<1>3. CASE ~skips
  <2>1. d = c
    BY <1>3 DEF SkipsOpt
  <2>2. ScanReady(c)
    BY <1>2 DEF ScanReady, Turn
  <2>3. StillWrites(c, c, tables, claim)
    BY SameButItself, AsideKept
  <2> HIDE DEF d
  <2>4. SameBut(c, d, {"pass_type", "pass_number"})
    BY <2>1, SameButItself
  <2> QED BY <2>1, <2>2, <2>3, <2>4 DEF d
<1>4. CASE skips
  <2>1. d = [c EXCEPT !.pass_type = "output_pass", !.pass_number = @ + 1]
    BY <1>4 DEF SkipsOpt
  <2> HIDE DEF d
  <2>2. SameBut(c, d, {"pass_type", "pass_number"}) /\ d.pass_type = "output_pass"
        /\ d.pass_number = c.pass_number + 1
    BY <1>1, <2>1 DEF SameBut, Fields
  <2>3. SameBut(c, d, OtherFields)
    <3>1. {"pass_type", "pass_number"} \subseteq OtherFields
      BY DEF OtherFields, HeaderFields, Fields
    <3> QED BY <2>2, <3>1, SameButMore
  <2>4. StillWrites(c, d, tables, claim)
    BY <2>3, AsideKept
  <2>5. /\ d.image = c.image /\ d.scan = c.scan /\ d.scan_number = c.scan_number
        /\ d.total_passes = c.total_passes /\ d.dc = c.dc /\ d.ac = c.ac
    BY <1>1, <2>2 DEF SameBut, Fields
  <2>6. Coming(d) = Coming(c) /\ OptimizeCoding(d) = OptimizeCoding(c)
    BY <2>5 DEF Coming, OptimizeCoding, ProgressiveMode
  <2>7. c.scan.Ss = Coming(c).Ss /\ c.scan.Ah = Coming(c).Ah /\ IsScan(c.image, Coming(c))
    BY <1>1, <1>2, ScanSetFacts
  <2>8. Progressive(c.image.scan_info)
    BY <1>4, <2>7 DEF IsScan
  <2>9. DcOf(d.image, Coming(d)) = {} /\ AcOf(d.image, Coming(d)) = {}
    BY <1>4, <2>5, <2>6, <2>7, <2>8 DEF DcOf, AcOf
  <2>10. NewTables(d)
    BY <2>9 DEF NewTables, Unsent
  <2>11. OptimizeCoding(c) /\ c.pass_number = 2 * c.scan_number
    BY <1>4 DEF Turn
  <2>12. d.pass_number = 2 * d.scan_number + 1 /\ d.pass_number \in Nat
    BY <1>2, <2>2, <2>5, <2>11
  <2>13. d.pass_number < d.total_passes
    <3> DEFINE n == NumScans(c.image)
               s == c.scan_number
    <3>1. c.total_passes = 2 * n /\ n \in Nat
      BY <2>11, SomePasses
    <3>2. s \in Nat /\ s < n
      BY <1>2
    <3>3. d.pass_number = 2 * s + 1 /\ d.total_passes = 2 * n
      BY <2>5, <2>12, <3>1
    <3> HIDE DEF n, s
    <3> QED BY <3>1, <3>2, <3>3
  <2>14. NumSOS(d.file) = NumSOS(c.file) /\ NumSOF(d.file) = NumSOF(c.file)
    BY <2>4 DEF StillWrites
  <2>15. Turn(d)
    <3>1. d.pass_number <= d.total_passes
      BY <2>12, <2>13, <2>5, SomePasses
    <3>2. NumSOS(d.file) = d.scan_number /\ NumSOF(d.file) = IF d.scan_number = 0 THEN 0 ELSE 1
      BY <2>5, <2>14 DEF Turn
    <3> QED BY <1>2, <2>2, <2>5, <2>6, <2>10, <2>11, <2>12, <3>1, <3>2 DEF Turn
  <2>16. ScanReady(d)
    <3>1. ScanSet(d)
      BY <2>5, <2>6 DEF ScanSet
    <3> QED BY <1>2, <2>5, <2>10, <3>1 DEF ScanReady
  <2> QED BY <2>2, <2>4, <2>13, <2>15, <2>16 DEF d
<1> QED BY <1>3, <1>4

\* In a pass after the first, or in the first of coefficients that were read.
InPass(c) ==
  /\ ScanSet(c) /\ RowsSet(c)
  /\ c.scan_number \in Nat /\ c.scan_number < NumScans(c.image) /\ c.pass_number \in Nat
  /\ c.pass_type \in {"huff_opt_pass", "output_pass"}
  /\ ~OptimizeCoding(c) => c.pass_type = "output_pass"
  /\ c.pass_number = IF ~OptimizeCoding(c) THEN c.scan_number
                     ELSE IF c.pass_type = "output_pass" THEN 2 * c.scan_number + 1
                     ELSE 2 * c.scan_number
  /\ c.pass_number < c.total_passes /\ c.is_last_pass = (c.pass_number = c.total_passes - 1)
  /\ c.coding.gather = (c.pass_type = "huff_opt_pass")
  /\ LET written == IF c.pass_type = "output_pass" THEN c.scan_number + 1 ELSE c.scan_number
     IN  NumSOS(c.file) = written /\ NumSOF(c.file) = IF written = 0 THEN 0 ELSE 1

\* prepare_for_pass for the others.
LEMMA NextPassPrepared ==
  ASSUME NEW c, NEW tables, NEW claim, Writing(c, tables, claim), ~c.error, Between(c), ~c.is_last_pass
  PROVE  /\ SameBut(c, PrepareForPass(c), TurnFields) /\ Outcome(PrepareForPass(c), tables, claim)
         /\ ~PrepareForPass(c).error => /\ InPass(PrepareForPass(c))
                                        /\ PrepareForPass(c).pass_number >= c.pass_number
<1> DEFINE d == SetScan(c, ScanOf(c.image, c.scan_number + 1))
           s == SkipsOpt(d)
           p == Prepared(s)
           r == PrepareForPass(c)
<1>1. r = IF d.error THEN d ELSE IF p.error THEN p
          ELSE [p EXCEPT !.is_last_pass = p.pass_number = p.total_passes - 1]
  BY PreparedParts
<1>2. \/ d = Fail(c)
      \/ /\ SameBut(c, d, {"scan", "restart_interval"}) /\ ScanSet(d) /\ ~d.error
         /\ StillWrites(c, d, tables, claim) /\ d.file = c.file
  BY ScanSetUp
<1>3. SameBut(c, Fail(c), TurnFields) /\ Outcome(Fail(c), tables, claim) /\ Fail(c).error = TRUE
  BY FailTurn
<1>4. DOMAIN c = Fields
  BY DEF Writing, ObjectType
<1> HIDE DEF r, d
<1>5. CASE d = Fail(c)
  <2>1. r = Fail(c)
    BY <1>1, <1>3, <1>5
  <2> QED BY <1>3, <2>1 DEF r
<1>6. CASE d # Fail(c)
  <2>1. /\ SameBut(c, d, {"scan", "restart_interval"}) /\ ScanSet(d) /\ ~d.error
        /\ StillWrites(c, d, tables, claim) /\ d.file = c.file
    BY <1>2, <1>6
  <2>2. /\ d.pass_type = c.pass_type /\ d.scan_number = c.scan_number /\ d.pass_number = c.pass_number
        /\ d.image = c.image /\ d.total_passes = c.total_passes /\ DOMAIN d = Fields
        /\ d.dc = c.dc /\ d.ac = c.ac
    BY <1>4, <2>1 DEF SameBut, Fields
  <2>3. Writing(d, tables, claim)
    BY <2>1 DEF StillWrites
  <2>4. Turn(d) /\ d.pass_number < d.total_passes
    <3>1. c.pass_number # c.total_passes /\ c.pass_number <= c.total_passes /\ Turn(c)
      BY DEF Between, Turn
    <3>2. c.pass_number \in Nat /\ c.total_passes \in Nat
      BY <3>1, SomePasses DEF Turn
    <3> QED BY <2>1, <2>2, <3>1, <3>2, TurnKept
  <2>5. /\ SameBut(d, s, {"pass_type", "pass_number"}) /\ StillWrites(d, s, tables, claim)
        /\ Turn(s) /\ ScanReady(s) /\ s.pass_number < s.total_passes
    BY <2>1, <2>3, <2>4, TurnSkips
  <2>6. s.pass_number >= c.pass_number
    <3>1. s.pass_number = d.pass_number \/ s.pass_number = d.pass_number + 1
      BY <2>2 DEF SkipsOpt, Fields
    <3>2. d.pass_number \in Nat
      BY <2>4 DEF Turn
    <3> HIDE DEF s
    <3> QED BY <2>2, <3>1, <3>2
  <2> HIDE DEF s
  <2>7. Writing(s, tables, claim) /\ ~s.error /\ DOMAIN s = Fields
    BY <2>1, <2>5 DEF StillWrites, Writing, ObjectType
  <2> DEFINE n == s.scan_number
             g == s.pass_type = "huff_opt_pass"
             w == IF g THEN n ELSE n + 1
  <2>8. /\ n \in Nat /\ NumSOS(s.file) = n /\ (NumSOF(s.file) = IF n = 0 THEN 0 ELSE 1)
        /\ s.pass_type \in {"huff_opt_pass", "output_pass"}
    BY <2>5 DEF Turn
  <2>9. PassReady(s, p, tables, claim, g, w)
    <3>1. CASE g
      <4>1. p = PrepareOptPass(s)
        BY <3>1 DEF Prepared
      <4>2. PassReady(s, PrepareOptPass(s), tables, claim, TRUE, n)
        BY <2>5, <2>7, <2>8, OptPassPrepared
      <4>3. g = TRUE /\ w = n
        BY <3>1
      <4> HIDE DEF p, g, w, n
      <4> QED BY <4>1, <4>2, <4>3
    <3>2. CASE ~g
      <4>1. s.pass_type = "output_pass"
        BY <2>8, <3>2
      <4>2. p = PrepareOutputPass(s)
        BY <4>1 DEF Prepared
      <4>3. PassReady(s, PrepareOutputPass(s), tables, claim, FALSE, n + 1)
        BY <2>5, <2>7, <2>8, <4>1, OutputPassPrepared
      <4>4. g = FALSE /\ w = n + 1
        BY <3>2
      <4> HIDE DEF p, g, w, n
      <4> QED BY <4>2, <4>3, <4>4
    <3> QED BY <3>1, <3>2
  <2> HIDE DEF p, n, g, w
  <2>10. SameBut(s, p, WorkFields \cup HeaderFields) /\ Outcome(p, tables, claim)
    BY <2>9 DEF PassReady
  <2>11. SameBut(c, p, TurnFields)
    BY <2>1, <2>5, <2>10 DEF SameBut, TurnFields
  <2>12. CASE p.error
    <3>1. r = p
      BY <1>1, <2>1, <2>12
    <3> QED BY <2>10, <2>11, <2>12, <3>1 DEF r
  <2>13. CASE ~p.error
    <3>1. r = [p EXCEPT !.is_last_pass = p.pass_number = p.total_passes - 1]
      BY <1>1, <2>1, <2>13
    <3>2. /\ SameBut(p, r, {"is_last_pass"}) /\ StillWrites(p, r, tables, claim)
          /\ r.is_last_pass = (p.pass_number = p.total_passes - 1)
          /\ Outcome(r, tables, claim) /\ ~r.error
      BY <2>10, <2>13, <3>1, LastPassSet
    <3>3. SameBut(c, r, TurnFields)
      BY <2>11, <3>2 DEF SameBut, TurnFields
    <3>4. RowsSet(p) /\ p.coding.gather = g /\ NumSOS(p.file) = w /\ NumSOF(p.file) = IF w = 0 THEN 0 ELSE 1
      BY <2>9, <2>13 DEF PassReady
    <3>5. /\ p.pass_type = s.pass_type /\ p.scan_number = s.scan_number /\ p.pass_number = s.pass_number
          /\ p.image = s.image /\ p.total_passes = s.total_passes /\ p.scan = s.scan /\ DOMAIN p = Fields
      BY <2>7, <2>10 DEF SameBut, WorkFields, RowsFields, RowFields, CodeFields, HeaderFields, Fields
    <3>6. /\ r.pass_type = p.pass_type /\ r.scan_number = p.scan_number /\ r.pass_number = p.pass_number
          /\ r.image = p.image /\ r.total_passes = p.total_passes /\ r.scan = p.scan
          /\ r.coding = p.coding
          /\ r.MCU_vert_offset = p.MCU_vert_offset /\ r.mcu_ctr = p.mcu_ctr
          /\ r.MCU_rows_per_iMCU_row = p.MCU_rows_per_iMCU_row
      BY <3>2, <3>5 DEF SameBut, Fields
    <3>7. (OptimizeCoding(r) = OptimizeCoding(s)) /\ Coming(r) = Coming(s)
      BY <3>5, <3>6 DEF OptimizeCoding, ProgressiveMode, Coming
    <3>8. /\ r.pass_type = s.pass_type /\ r.scan_number = s.scan_number /\ r.pass_number = s.pass_number
          /\ r.image = s.image /\ r.total_passes = s.total_passes /\ r.scan = s.scan
      BY <3>5, <3>6
    <3>9. ScanSet(r) /\ RowsSet(r)
      BY <2>5, <3>4, <3>6, <3>7, <3>8 DEF ScanReady, ScanSet, RowsSet
    <3>10. r.is_last_pass = (r.pass_number = r.total_passes - 1)
      BY <3>2, <3>6
    <3>11. NumSOS(r.file) = w /\ NumSOF(r.file) = IF w = 0 THEN 0 ELSE 1
      BY <3>2, <3>4 DEF StillWrites
    <3>12. r.coding.gather = (r.pass_type = "huff_opt_pass")
      BY <3>4, <3>6, <3>8 DEF g
    <3>13. w = IF r.pass_type = "output_pass" THEN r.scan_number + 1 ELSE r.scan_number
      BY <2>8, <3>8 DEF w, g, n
    <3>14. /\ r.scan_number \in Nat /\ r.scan_number < NumScans(r.image) /\ r.pass_number \in Nat
           /\ r.pass_type \in {"huff_opt_pass", "output_pass"}
           /\ ~OptimizeCoding(r) => r.pass_type = "output_pass"
           /\ r.pass_number < r.total_passes
      BY <2>5, <3>7, <3>8 DEF ScanReady, Turn
    <3>15. r.pass_number = IF ~OptimizeCoding(r) THEN r.scan_number
                     ELSE IF r.pass_type = "output_pass" THEN 2 * r.scan_number + 1
                     ELSE 2 * r.scan_number
      BY <2>5, <3>7, <3>8 DEF Turn
    <3>16. InPass(r)
      BY <3>9, <3>10, <3>11, <3>12, <3>13, <3>14, <3>15 DEF InPass
    <3>17. r.pass_number >= c.pass_number
      BY <2>6, <3>8
    <3> QED BY <3>2, <3>3, <3>16, <3>17 DEF r
  <2> QED BY <2>12, <2>13
<1> QED BY <1>5, <1>6

-----------------------------------------------------------------------------
(* The rows of a pass that has them all *)

\* c has coded rows, or found no room for one, and become d.
Through(c, d) ==
  /\ SameBut(c, d, RowsFields \cup {"error"}) /\ Fit(d) /\ d.error \in BOOLEAN
  /\ Longer(c.file, d.file)

LEMMA RowThrough ==
  ASSUME NEW c, Fit(c), c.error \in BOOLEAN
  PROVE  Through(c, OneRow(c))
<1> DEFINE d == CompressData(c)
           r == OneRow(c)
<1>1. r = c \/ r = d \/ r = Fail(d)
  BY DEF OneRow, Then, NextRow
<1>2. Advanced(c, d)
  BY AdvancedCoded
<1>3. Fit(d)
  BY <1>2, AdvancedFit
<1> HIDE DEF d, r
<1>4. Through(c, d)
  <2>1. SameBut(c, d, RowsFields) /\ Longer(c.file, d.file)
    BY <1>2 DEF Advanced
  <2>2. SameBut(c, d, RowsFields \cup {"error"})
    BY <2>1, SameButMore
  <2>3. d.error = c.error
    BY <2>1 DEF Fit, SameBut, RowsFields, CodeFields, RowFields, Fields
  <2> QED BY <1>3, <2>1, <2>2, <2>3 DEF Through
<1>5. Through(c, c)
  BY SameButItself DEF Through, Longer
<1>6. Through(c, Fail(d))
  <2> DEFINE e == Fail(d)
  <2>1. SameBut(d, e, {"error"}) /\ e.error = TRUE
    BY <1>3 DEF Fail, SameBut, Fit, Fields
  <2> HIDE DEF e
  <2>2. /\ DOMAIN e = Fields /\ e.room = d.room /\ e.image = d.image /\ e.file = d.file /\ e.scan = d.scan
        /\ e.MCU_vert_offset = d.MCU_vert_offset /\ e.mcu_ctr = d.mcu_ctr
        /\ e.MCU_rows_per_iMCU_row = d.MCU_rows_per_iMCU_row
    BY <1>3, <2>1 DEF Fit, SameBut, Fields
  <2>3. Fit(e)
    BY <1>3, <2>2, CountableKept DEF Fit, RowsSet
  <2>4. SameBut(c, e, RowsFields \cup {"error"})
    BY <1>4, <2>1 DEF Through, SameBut
  <2>5. Longer(c.file, e.file)
    BY <1>4, <2>2 DEF Through
  <2> QED BY <2>1, <2>3, <2>4, <2>5 DEF Through, e
<1> QED BY <1>1, <1>4, <1>5, <1>6 DEF r

LEMMA ThroughTwice ==
  ASSUME NEW c, NEW d, NEW e, Fit(c), Through(c, d), Through(d, e)
  PROVE  Through(c, e)
<1>1. SameBut(c, e, RowsFields \cup {"error"})
  BY SameButTwice DEF Through
<1> DEFINE F == c.file
           G == d.file
           H == e.file
<1>2. IsFile(F) /\ Longer(F, G) /\ Longer(G, H)
  BY DEF Fit, Through
<1> HIDE DEF F, G, H
<1>3. Longer(F, H)
  BY <1>2, LongerTwice
<1> QED BY <1>1, <1>3 DEF Through, F, H

ThroughBy(a, k, x) == Fit(a) /\ a.error \in BOOLEAN => Through(a, x)
AllRowsLoop == INSTANCE LoopProofs WITH Step <- OneRow, P <- ThroughBy

LEMMA RowsThrough ==
  ASSUME NEW c, Fit(c), c.error \in BOOLEAN, c.total_iMCU_rows \in Nat
  PROVE  Through(c, AllRows(c))
<1> DEFINE n == c.total_iMCU_rows
<1>1. ThroughBy(c, 0, c)
  BY SameButItself DEF ThroughBy, Through, Longer
<1>2. \A k \in Nat : \A x : ThroughBy(c, k, x) => ThroughBy(c, k + 1, OneRow(x))
  <2> SUFFICES ASSUME NEW k \in Nat, NEW x, ThroughBy(c, k, x)
               PROVE  Through(c, OneRow(x))
    BY DEF ThroughBy
  <2>1. Through(c, x) /\ Fit(x) /\ x.error \in BOOLEAN
    BY DEF ThroughBy, Through
  <2> QED BY <2>1, RowThrough, ThroughTwice
<1> HIDE DEF n
<1>3. n \in Nat
  BY DEF n
<1>4. ThroughBy(c, n, Repeat(OneRow, c, n))
  BY <1>1, <1>2, <1>3, AllRowsLoop!Repeated DEF Repeat, AllRowsLoop!Repeat
<1> QED BY <1>4 DEF ThroughBy, AllRows, n

LEMMA ThroughOutcome ==
  ASSUME NEW c, NEW d, NEW tables, NEW claim, Writing(c, tables, claim), ~c.error, Through(c, d)
  PROVE  /\ Outcome(d, tables, claim)
         /\ NumSOS(d.file) = NumSOS(c.file) /\ NumSOF(d.file) = NumSOF(c.file)
<1> DEFINE e == [d EXCEPT !.error = c.error]
<1>1. DOMAIN d = Fields /\ d.room \in Nat /\ DOMAIN c = Fields /\ ObjectType(c)
  BY DEF Through, Fit, Writing, ObjectType
<1>2. SameBut(d, e, {"error"}) /\ e.error = c.error
  BY <1>1 DEF SameBut, Fields
<1> HIDE DEF e
<1>3. e.room = d.room /\ e.file = d.file /\ e.image = d.image
  BY <1>1, <1>2 DEF SameBut, Fields
<1>4. SameBut(c, e, OtherFields \cup {"room", "file"})
  <2>1. RowsFields \subseteq OtherFields \cup {"room", "file"}
    BY DEF RowsFields, CodeFields, RowFields, OtherFields, HeaderFields, Fields
  <2>2. SameBut(c, d, RowsFields \cup {"error"})
    BY DEF Through
  <2> QED BY <1>1, <1>2, <2>1, <2>2 DEF SameBut
<1>5. Longer(c.file, e.file)
  BY <1>3 DEF Through
<1>6. StillWrites(c, e, tables, claim)
  BY <1>1, <1>3, <1>4, <1>5, EncodedWrites
<1>7. FileInv(d, tables, claim)
  BY <1>3, <1>6, FileKept DEF StillWrites, Writing
<1>8. /\ d.suspends = e.suspends /\ d.all = e.all /\ d.quant = e.quant /\ d.dc = e.dc /\ d.ac = e.ac
      /\ d.last_restart_interval = e.last_restart_interval
      /\ d.total_iMCU_rows = e.total_iMCU_rows /\ d.total_passes = e.total_passes
  BY <1>1, <1>2 DEF SameBut, Fields
<1>9. ObjectType(d)
  <2>1. ObjectType(e) /\ DOMAIN e = DOMAIN d
    BY <1>2, <1>6 DEF StillWrites, Writing, SameBut
  <2> QED BY <1>1, <1>3, <1>8, <2>1, TypeKept DEF ObjectType, Through
<1>10. Checked(d) /\ TablesInv(d, tables, claim)
  <2>1. Checked(e) /\ TablesInv(e, tables, claim)
    BY <1>6 DEF StillWrites, Writing
  <2> QED BY <1>3, <1>8, <2>1, CheckedKept, TablesKept
<1> QED BY <1>3, <1>6, <1>7, <1>9, <1>10 DEF Outcome, StillWrites

LEMMA InPassKept ==
  ASSUME NEW c, NEW d, DOMAIN c = Fields, InPass(c), SameBut(c, d, RowsFields \cup {"error"}), RowsSet(d),
         NumSOS(d.file) = NumSOS(c.file), NumSOF(d.file) = NumSOF(c.file)
  PROVE  InPass(d) /\ d.pass_number = c.pass_number
<1>1. /\ d.pass_type = c.pass_type /\ d.scan_number = c.scan_number /\ d.pass_number = c.pass_number
      /\ d.scan = c.scan /\ d.image = c.image /\ d.is_last_pass = c.is_last_pass
      /\ d.total_passes = c.total_passes /\ d.coding = c.coding
  BY DEF SameBut, RowsFields, CodeFields, RowFields, Fields
<1>2. Coming(d) = Coming(c) /\ OptimizeCoding(d) = OptimizeCoding(c)
  BY <1>1 DEF Coming, ProgressiveMode, OptimizeCoding
<1>3. ScanSet(d)
  BY <1>1, <1>2 DEF InPass, ScanSet
<1> QED BY <1>1, <1>2, <1>3 DEF InPass

-----------------------------------------------------------------------------
(* A pass ends *)

\* The tables with new ones in some slots, to be sent.
Renewed(tbls, slots, content) ==
  [s \in Slots |-> IF s \in slots THEN [content |-> content, sent_table |-> FALSE] ELSE tbls[s]]

LEMMA RenewedFacts ==
  ASSUME NEW tbls, NEW slots, NEW content, IsTables(tbls)
  PROVE  /\ IsTables(Renewed(tbls, slots, content))
         /\ \A s \in Slots : s \in slots => ~Renewed(tbls, slots, content)[s].sent_table
         /\ \A s \in Slots : s \notin slots => Renewed(tbls, slots, content)[s] = tbls[s]
<1> DEFINE new == [content |-> content, sent_table |-> FALSE]
           r == Renewed(tbls, slots, content)
<1>1. DOMAIN new = {"content", "sent_table"} /\ new.sent_table = FALSE
  OBVIOUS
<1> HIDE DEF new
<1>2. DOMAIN r = Slots /\ \A s \in Slots : r[s] = IF s \in slots THEN new ELSE tbls[s]
  BY DEF Renewed, new
<1> HIDE DEF r
<1>3. IsTables(r)
  BY <1>1, <1>2 DEF IsTables
<1> QED BY <1>1, <1>2, <1>3 DEF r

LEMMA RenewedSent ==
  ASSUME NEW f, NEW kind, NEW tbls, NEW olds, NEW slots, NEW content, IsTables(tbls),
         SentIn(f, kind, tbls, olds)
  PROVE  SentIn(f, kind, Renewed(tbls, slots, content), olds)
BY RenewedFacts DEF SentIn

LEMMA RenewedBorrowed ==
  ASSUME NEW f, NEW kind, NEW tbls, NEW slots, NEW content, NEW optimize, optimize,
         Borrowed(f, kind, tbls, optimize)
  PROVE  Borrowed(f, kind, Renewed(tbls, slots, content), optimize)
BY DEF Borrowed

LEMMA RenewedBody ==
  ASSUME NEW f, NEW q, NEW d, NEW a, NEW i, NEW optimize, NEW tables, NEW claim, NEW ds, NEW as, NEW content,
         Body(f, q, d, a, i, optimize, tables, claim), IsTables(d), IsTables(a), optimize
  PROVE  Body(f, q, Renewed(d, ds, content), Renewed(a, as, content), i, optimize, tables, claim)
<1> DEFINE d2 == Renewed(d, ds, content)
           a2 == Renewed(a, as, content)
<1>1. Borrowed(f, "DHT_DC", d2, optimize) /\ Borrowed(f, "DHT_AC", a2, optimize)
  BY RenewedBorrowed DEF Body
<1>2. claim => SentIn(f, "DHT_DC", d2, tables.dc) /\ SentIn(f, "DHT_AC", a2, tables.ac)
  BY RenewedSent DEF Body
<1> HIDE DEF d2, a2
<1>3. Body(f, q, d2, a2, i, optimize, tables, claim)
  BY <1>1, <1>2 DEF Body
<1> QED BY <1>3 DEF d2, a2

\* c has ended its pass and become d.
Ended(c, d, tables, claim) ==
  /\ SameBut(c, d, {"error", "room", "file", "dc", "ac"}) /\ Outcome(d, tables, claim)
  /\ ~d.error => /\ NumSOS(d.file) = NumSOS(c.file) /\ NumSOF(d.file) = NumSOF(c.file)
                 /\ c.coding.gather => NewTables(d)

LEMMA EntropyEnds ==
  ASSUME NEW c, NEW tables, NEW claim, Writing(c, tables, claim), ~c.error, ScanSet(c),
         c.scan_number \in Nat, c.scan_number < NumScans(c.image),
         c.coding.gather => OptimizeCoding(c)
  PROVE  Ended(c, FinishEntropy(c), tables, claim)
<1> DEFINE e == FinishEntropy(c)
           content == <<calls.started, c.scan_number>>
           dc == Renewed(c.dc, DcSlots(c), content)
           ac == Renewed(c.ac, AcSlots(c), content)
<1>1. ObjectType(c) /\ Checked(c) /\ DOMAIN c = Fields
  BY DEF Writing, ObjectType
<1>2. CASE c.coding.gather
  <2>1. e = [c EXCEPT !.dc = dc, !.ac = ac]
    BY <1>2 DEF FinishEntropy, Renewed
  <2>2. /\ DcSlots(c) = DcOf(c.image, Coming(c)) /\ AcSlots(c) = AcOf(c.image, Coming(c))
        /\ DcSlots(c) \subseteq Slots /\ AcSlots(c) \subseteq Slots
    BY <1>1, ScanSetFacts
  <2>3. IsTables(dc) /\ IsTables(ac) /\ Unsent(dc, DcSlots(c)) /\ Unsent(ac, AcSlots(c))
    <3>1. IsTables(c.dc) /\ IsTables(c.ac)
      BY <1>1 DEF ObjectType
    <3> HIDE DEF content
    <3> QED BY <2>2, <3>1, RenewedFacts DEF Unsent
  <2>4. BodyHolds(c, tables, claim)
    BY BodyOf DEF Writing, BodyHolds
  <2>5. Body(c.file, c.quant, dc, ac, c.last_restart_interval, OptimizeCoding(c), tables, claim)
    <3>1. IsTables(c.dc) /\ IsTables(c.ac)
      BY <1>1 DEF ObjectType
    <3> HIDE DEF content
    <3> QED BY <1>2, <2>4, <3>1, RenewedBody DEF BodyHolds
  <2> HIDE DEF e, dc, ac
  <2>6. SameBut(c, e, {"dc", "ac"}) /\ e.dc = dc /\ e.ac = ac
    BY <1>1, <2>1 DEF SameBut, Fields
  <2>7. /\ DOMAIN e = DOMAIN c /\ e.image = c.image /\ e.suspends = c.suspends /\ e.all = c.all
        /\ e.room = c.room /\ e.error = c.error /\ e.quant = c.quant /\ e.file = c.file
        /\ e.last_restart_interval = c.last_restart_interval
        /\ e.total_iMCU_rows = c.total_iMCU_rows /\ e.total_passes = c.total_passes
        /\ e.scan_number = c.scan_number
    BY <1>1, <2>6 DEF SameBut, Fields
  <2>8. ObjectType(e)
    BY <1>1, <2>3, <2>6, <2>7, TypeKept DEF ObjectType
  <2>9. Checked(e) /\ OptimizeCoding(e) = OptimizeCoding(c)
    BY <1>1, <2>7, CheckedKept
  <2>10. FileInv(e, tables, claim) /\ TablesInv(e, tables, claim)
    <3>1. Body(e.file, e.quant, e.dc, e.ac, e.last_restart_interval, OptimizeCoding(e), tables, claim)
      BY <2>5, <2>6, <2>7, <2>9
    <3> QED BY <3>1, BodyOf
  <2>11. NewTables(e)
    <3>1. Coming(e) = Coming(c)
      BY <2>7 DEF Coming
    <3> QED BY <2>2, <2>3, <2>6, <2>7, <3>1 DEF NewTables
  <2>12. SameBut(c, e, {"error", "room", "file", "dc", "ac"})
    BY <2>6, SameButMore
  <2>13. Ended(c, e, tables, claim)
    BY <2>7, <2>8, <2>9, <2>10, <2>11, <2>12 DEF Ended, Outcome
  <2> QED BY <2>13 DEF e
<1>3. CASE ~c.coding.gather
  <2>1. e = Emit(c, << >>)
    BY <1>3 DEF FinishEntropy
  <2> HIDE DEF e
  <2>2. /\ SameBut(c, e, EmitFields) /\ Outcome(e, tables, claim)
        /\ ~e.error => StillWrites(c, e, tables, claim)
    BY <2>1, NothingPlain, EmitPlain
  <2>3. SameBut(c, e, {"error", "room", "file", "dc", "ac"})
    BY <2>2, SameButMore DEF EmitFields
  <2>4. Ended(c, e, tables, claim)
    BY <1>3, <2>2, <2>3 DEF Ended, StillWrites
  <2> QED BY <2>4 DEF e
<1> QED BY <1>2, <1>3

EndFields == {"error", "room", "file", "dc", "ac", "pass_type", "pass_number", "scan_number"}

\* The pass that ends has coded its scan.
Codes(c) == c.pass_type = "output_pass" \/ (c.pass_type = "main_pass" /\ ~OptimizeCoding(c))
NextType(c) == IF c.pass_type = "output_pass" /\ OptimizeCoding(c) THEN "huff_opt_pass" ELSE "output_pass"

LEMMA Advances ==
  ASSUME NEW c, DOMAIN c = Fields, DOMAIN FinishEntropy(c) = Fields, ~FinishEntropy(c).error
  PROVE  /\ SameBut(FinishEntropy(c), FinishPassMaster(c), {"pass_type", "pass_number", "scan_number"})
         /\ FinishPassMaster(c).pass_type = NextType(c)
         /\ FinishPassMaster(c).pass_number = FinishEntropy(c).pass_number + 1
         /\ FinishPassMaster(c).scan_number =
              IF Codes(c) THEN FinishEntropy(c).scan_number + 1 ELSE FinishEntropy(c).scan_number
<1> DEFINE e == FinishEntropy(c)
           d == [e EXCEPT !.pass_type = NextType(c), !.pass_number = @ + 1,
                          !.scan_number = IF Codes(c) THEN @ + 1 ELSE @]
<1>1. FinishPassMaster(c) = d
  BY DEF FinishPassMaster, Then, NextType, Codes
<1>2. DOMAIN e = Fields
  OBVIOUS
<1> HIDE DEF e
<1>3. /\ SameBut(e, d, {"pass_type", "pass_number", "scan_number"})
      /\ d.pass_type = NextType(c) /\ d.pass_number = e.pass_number + 1
      /\ d.scan_number = IF Codes(c) THEN e.scan_number + 1 ELSE e.scan_number
  BY <1>2 DEF SameBut, Fields
<1> HIDE DEF d
<1> QED BY <1>1, <1>3 DEF e

LEMMA ErrorEnds ==
  ASSUME NEW c, FinishEntropy(c).error PROVE FinishPassMaster(c) = FinishEntropy(c)
BY DEF FinishPassMaster, Then

\* What stays of the object when its turn ends.
LEMMA EndKeeps ==
  ASSUME NEW c, NEW tables, NEW claim, NEW e, Ended(c, e, tables, claim), DOMAIN c = Fields, ~e.error,
         NEW r, SameBut(e, r, {"pass_type", "pass_number", "scan_number"})
  PROVE  /\ SameBut(c, r, EndFields) /\ Outcome(r, tables, claim) /\ ~r.error
         /\ NumSOS(r.file) = NumSOS(c.file) /\ NumSOF(r.file) = NumSOF(c.file)
         /\ r.image = c.image /\ r.total_passes = c.total_passes /\ r.is_last_pass = c.is_last_pass
         /\ e.pass_number = c.pass_number /\ e.scan_number = c.scan_number
         /\ r.dc = e.dc /\ r.ac = e.ac /\ e.image = c.image
         /\ OptimizeCoding(r) = OptimizeCoding(c)
<1>1. SameBut(c, e, {"error", "room", "file", "dc", "ac"}) /\ Outcome(e, tables, claim) /\ DOMAIN e = Fields
      /\ NumSOS(e.file) = NumSOS(c.file) /\ NumSOF(e.file) = NumSOF(c.file)
  BY DEF Ended, SameBut
<1>2. /\ e.image = c.image /\ e.total_passes = c.total_passes /\ e.is_last_pass = c.is_last_pass
      /\ e.pass_number = c.pass_number /\ e.scan_number = c.scan_number
  BY <1>1 DEF SameBut, Fields
<1>3. /\ r.image = e.image /\ r.total_passes = e.total_passes /\ r.is_last_pass = e.is_last_pass
      /\ r.dc = e.dc /\ r.ac = e.ac
  BY <1>1 DEF SameBut, Fields
<1>4. Writing(e, tables, claim)
  BY <1>1, WritingOutcome
<1>5. {"pass_type", "pass_number", "scan_number"} \subseteq OtherFields
  BY DEF OtherFields, HeaderFields, Fields
<1>6. SameBut(e, r, OtherFields)
  BY <1>5, SameButMore
<1>7. StillWrites(e, r, tables, claim)
  BY <1>4, <1>6, AsideKept
<1>8. Outcome(r, tables, claim) /\ ~r.error
      /\ NumSOS(r.file) = NumSOS(c.file) /\ NumSOF(r.file) = NumSOF(c.file)
  BY <1>1, <1>7 DEF StillWrites, Writing, Outcome
<1>9. SameBut(c, r, EndFields)
  BY <1>1 DEF SameBut, EndFields
<1>10. OptimizeCoding(r) = OptimizeCoding(c)
  BY <1>2, <1>3 DEF OptimizeCoding, ProgressiveMode
<1> QED BY <1>2, <1>3, <1>8, <1>9, <1>10

\* finish_pass_master after the pass that takes the lines.
LEMMA MainFinished ==
  ASSUME NEW c, NEW tables, NEW claim, Settling(c, tables, claim)
  PROVE  /\ SameBut(c, FinishPassMaster(c), EndFields) /\ Outcome(FinishPassMaster(c), tables, claim)
         /\ ~FinishPassMaster(c).error => Between(FinishPassMaster(c))
<1> DEFINE e == FinishEntropy(c)
           r == FinishPassMaster(c)
           o == OptimizeCoding(c)
<1>1. /\ Writing(c, tables, claim) /\ ~c.error /\ MainPass(c) /\ ~c.call_pass_startup /\ DOMAIN c = Fields
  BY DEF Settling, Writing, ObjectType
<1>2. NumScans(c.image) \in Nat \ {0} /\ c.total_passes \in Nat \ {0}
  BY <1>1, SomePasses
<1>3. Ended(c, e, tables, claim)
  BY <1>1, <1>2, EntropyEnds DEF MainPass
<1>4. e.error => r = e
  BY ErrorEnds
<1>a. DOMAIN e = Fields
  BY <1>1, <1>3 DEF Ended, SameBut
<1>b. ~e.error =>
        /\ SameBut(e, r, {"pass_type", "pass_number", "scan_number"})
        /\ r.pass_type = NextType(c) /\ r.pass_number = e.pass_number + 1
        /\ r.scan_number = IF Codes(c) THEN e.scan_number + 1 ELSE e.scan_number
  BY <1>1, <1>a, Advances
<1>c. c.pass_type = "main_pass"
  BY <1>1 DEF MainPass
<1>d. NextType(c) = "output_pass" /\ (Codes(c) <=> ~OptimizeCoding(c))
  BY <1>c DEF NextType, Codes
<1> HIDE DEF e, r
<1>5. CASE e.error
  <2>1. SameBut(c, e, EndFields) /\ Outcome(e, tables, claim)
    BY <1>3, SameButMore DEF Ended, EndFields
  <2> QED BY <1>4, <1>5, <2>1 DEF r
<1>6. CASE ~e.error
  <2>1. SameBut(e, r, {"pass_type", "pass_number", "scan_number"})
    BY <1>b, <1>6
  <2>a. /\ r.pass_type = "output_pass" /\ r.pass_number = e.pass_number + 1
        /\ r.scan_number = IF o THEN e.scan_number ELSE e.scan_number + 1
    BY <1>b, <1>d, <1>6
  <2>2. /\ SameBut(c, r, EndFields) /\ Outcome(r, tables, claim) /\ ~r.error
         /\ NumSOS(r.file) = NumSOS(c.file) /\ NumSOF(r.file) = NumSOF(c.file)
         /\ r.image = c.image /\ r.total_passes = c.total_passes /\ r.is_last_pass = c.is_last_pass
         /\ e.pass_number = c.pass_number /\ e.scan_number = c.scan_number
         /\ r.dc = e.dc /\ r.ac = e.ac /\ e.image = c.image
         /\ OptimizeCoding(r) = o
    BY <1>1, <1>3, <1>6, <2>1, EndKeeps
  <2>3. c.scan_number = 0 /\ c.pass_number = 0 /\ c.coding.gather = o /\ c.is_last_pass = (c.total_passes = 1)
    BY <1>1 DEF MainPass
  <2>4. NumSOS(c.file) = (IF o THEN 0 ELSE 1) /\ NumSOF(c.file) = (IF o THEN 0 ELSE 1)
    BY <1>1 DEF MainPass
  <2> HIDE DEF o
  <2>5. r.pass_number = 1 /\ r.scan_number = (IF o THEN 0 ELSE 1) /\ r.pass_type = "output_pass"
    BY <2>a, <2>2, <2>3
  <2>6. o => NewTables(r)
    <3>1. o => NewTables(e) /\ r.scan_number = e.scan_number
      BY <1>3, <1>6, <2>a, <2>3 DEF Ended
    <3>2. o => Coming(r) = Coming(e)
      BY <2>2, <3>1 DEF Coming
    <3> QED BY <2>2, <3>1, <3>2 DEF NewTables
  <2>7. NumSOS(r.file) = r.scan_number /\ NumSOF(r.file) = (IF r.scan_number = 0 THEN 0 ELSE 1)
    BY <2>2, <2>4, <2>5
  <2>8. r.pass_number <= r.total_passes
    BY <1>2, <2>2, <2>5
  <2>9. r.pass_number = (IF ~o THEN r.scan_number
                         ELSE IF r.pass_type = "output_pass" THEN 2 * r.scan_number + 1
                         ELSE 2 * r.scan_number)
    BY <2>5
  <2>10. Turn(r)
    BY <2>2, <2>5, <2>6, <2>7, <2>8, <2>9 DEF Turn
  <2>11. r.is_last_pass = (r.pass_number = r.total_passes)
    BY <2>2, <2>3, <2>5
  <2> QED BY <2>2, <2>10, <2>11 DEF Between, r
<1> QED BY <1>5, <1>6

\* What has ended becomes an object between two passes.
LEMMA EndsBetween ==
  ASSUME NEW c, NEW tables, NEW claim, NEW e, Ended(c, e, tables, claim), DOMAIN c = Fields, ~e.error,
         InPass(c), c.total_passes \in Nat,
         NEW r, SameBut(e, r, {"pass_type", "pass_number", "scan_number"}),
         r.pass_type = NextType(c), r.pass_number = e.pass_number + 1,
         r.scan_number = IF Codes(c) THEN e.scan_number + 1 ELSE e.scan_number
  PROVE  /\ SameBut(c, r, EndFields) /\ Outcome(r, tables, claim)
         /\ Between(r) /\ r.pass_number = c.pass_number + 1
<1> DEFINE o == OptimizeCoding(c)
<1>1. /\ SameBut(c, r, EndFields) /\ Outcome(r, tables, claim) /\ ~r.error
      /\ NumSOS(r.file) = NumSOS(c.file) /\ NumSOF(r.file) = NumSOF(c.file)
      /\ r.image = c.image /\ r.total_passes = c.total_passes /\ r.is_last_pass = c.is_last_pass
      /\ e.pass_number = c.pass_number /\ e.scan_number = c.scan_number
      /\ r.dc = e.dc /\ r.ac = e.ac /\ e.image = c.image
      /\ OptimizeCoding(r) = o
  BY EndKeeps
<1>2. /\ c.scan_number \in Nat /\ c.scan_number < NumScans(c.image) /\ c.pass_number \in Nat
      /\ c.pass_type \in {"huff_opt_pass", "output_pass"}
      /\ ~o => c.pass_type = "output_pass"
      /\ c.pass_number = IF ~o THEN c.scan_number
                         ELSE IF c.pass_type = "output_pass" THEN 2 * c.scan_number + 1
                         ELSE 2 * c.scan_number
      /\ c.pass_number < c.total_passes /\ c.is_last_pass = (c.pass_number = c.total_passes - 1)
      /\ c.coding.gather = (c.pass_type = "huff_opt_pass")
  BY DEF InPass
<1>3. c.pass_type = "output_pass" =>
        NumSOS(c.file) = c.scan_number + 1 /\ NumSOF(c.file) = 1
  BY <1>2 DEF InPass
<1>4. c.pass_type # "output_pass" =>
        NumSOS(c.file) = c.scan_number /\ NumSOF(c.file) = IF c.scan_number = 0 THEN 0 ELSE 1
  BY <1>2 DEF InPass
<1>5. /\ Codes(c) <=> c.pass_type = "output_pass"
      /\ NextType(c) = IF c.pass_type = "output_pass" /\ o THEN "huff_opt_pass" ELSE "output_pass"
  BY <1>2 DEF Codes, NextType
<1>6. c.pass_type # "output_pass" => NewTables(r)
  <2>1. c.pass_type # "output_pass" => NewTables(e) /\ r.scan_number = e.scan_number
    BY <1>2, <1>5 DEF Ended
  <2>2. c.pass_type # "output_pass" => Coming(r) = Coming(e)
    BY <1>1, <2>1 DEF Coming
  <2> QED BY <1>1, <2>1, <2>2 DEF NewTables
<1> HIDE DEF o
<1>7. r.pass_number = c.pass_number + 1 /\ r.pass_number <= r.total_passes
      /\ r.is_last_pass = (r.pass_number = r.total_passes)
  BY <1>1, <1>2
<1>8. CASE c.pass_type = "output_pass"
  <2>1. r.scan_number = c.scan_number + 1 /\ NumSOS(r.file) = r.scan_number /\ NumSOF(r.file) = 1
        /\ r.pass_type = IF o THEN "huff_opt_pass" ELSE "output_pass"
    BY <1>1, <1>2, <1>3, <1>5, <1>8
  <2>2. r.pass_number = (IF ~o THEN r.scan_number
                         ELSE IF r.pass_type = "output_pass" THEN 2 * r.scan_number + 1
                         ELSE 2 * r.scan_number)
    BY <1>2, <1>7, <1>8, <2>1
  <2>3. Turn(r)
    BY <1>1, <1>2, <1>7, <2>1, <2>2 DEF Turn
  <2> QED BY <1>1, <1>7, <2>3 DEF Between
<1>9. CASE c.pass_type # "output_pass"
  <2>1. r.scan_number = c.scan_number /\ NumSOS(r.file) = r.scan_number
        /\ NumSOF(r.file) = (IF r.scan_number = 0 THEN 0 ELSE 1) /\ r.pass_type = "output_pass" /\ o
    BY <1>1, <1>2, <1>4, <1>5, <1>9
  <2>2. r.pass_number = 2 * r.scan_number + 1
    BY <1>2, <1>7, <1>9, <2>1
  <2>3. Turn(r)
    BY <1>1, <1>2, <1>6, <1>7, <1>9, <2>1, <2>2 DEF Turn
  <2> QED BY <1>1, <1>7, <2>3 DEF Between
<1> QED BY <1>8, <1>9

\* finish_pass_master after any other pass.
LEMMA PassFinished ==
  ASSUME NEW c, NEW tables, NEW claim, Writing(c, tables, claim), ~c.error, InPass(c)
  PROVE  /\ SameBut(c, FinishPassMaster(c), EndFields) /\ Outcome(FinishPassMaster(c), tables, claim)
         /\ ~FinishPassMaster(c).error =>
              Between(FinishPassMaster(c)) /\ FinishPassMaster(c).pass_number = c.pass_number + 1
<1> DEFINE e == FinishEntropy(c)
           r == FinishPassMaster(c)
<1>1. DOMAIN c = Fields
  BY DEF Writing, ObjectType
<1>2. c.total_passes \in Nat
  BY SomePasses
<1>3. Ended(c, e, tables, claim)
  BY EntropyEnds DEF InPass
<1>4. e.error => r = e
  BY ErrorEnds
<1>5. DOMAIN e = Fields
  BY <1>1, <1>3 DEF Ended, SameBut
<1>6. ~e.error =>
        /\ SameBut(e, r, {"pass_type", "pass_number", "scan_number"})
        /\ r.pass_type = NextType(c) /\ r.pass_number = e.pass_number + 1
        /\ r.scan_number = IF Codes(c) THEN e.scan_number + 1 ELSE e.scan_number
  BY <1>1, <1>5, Advances
<1> HIDE DEF e, r
<1>7. CASE e.error
  <2>1. SameBut(c, e, EndFields) /\ Outcome(e, tables, claim)
    BY <1>3, SameButMore DEF Ended, EndFields
  <2> QED BY <1>4, <1>7, <2>1 DEF r
<1>8. CASE ~e.error
  <2>1. SameBut(c, r, EndFields) /\ Outcome(r, tables, claim)
        /\ Between(r) /\ r.pass_number = c.pass_number + 1
    BY <1>1, <1>2, <1>3, <1>6, <1>8, EndsBetween
  <2> QED BY <2>1 DEF r
<1> QED BY <1>7, <1>8
-----------------------------------------------------------------------------
(* The passes after the first *)

LEMMA PassFit ==
  ASSUME NEW c, NEW tables, NEW claim, Writing(c, tables, claim), InPass(c)
  PROVE  Fit(c) /\ c.total_iMCU_rows \in Nat
<1>1. ObjectType(c) /\ Checked(c) /\ IsFile(c.file)
  BY DEF Writing, FileInv
<1>2. ScanSet(c) /\ RowsSet(c) /\ c.scan_number \in Nat /\ c.scan_number < NumScans(c.image)
  BY DEF InPass
<1>3. c.total_iMCU_rows \in Nat
  BY <1>1, MaxVFacts DEF Checked, ObjectType
<1>4. Countable(c)
  BY <1>1, <1>2, ScanSetFacts
<1> QED BY <1>1, <1>2, <1>3, <1>4 DEF Fit, ObjectType

\* What the passes change.
PassFields == TurnFields \cup {"scan_number"}

\* c has made passes and become d, which is ready for the next one or the last.
PassesMade(c, k, d, tables, claim) ==
  /\ SameBut(c, d, PassFields) /\ Outcome(d, tables, claim)
  /\ ~d.error => Between(d) /\ (d.is_last_pass \/ d.pass_number >= k)

LEMMA PassFieldsHold ==
  /\ RowsFields \cup {"error"} \subseteq PassFields /\ TurnFields \subseteq PassFields
  /\ EndFields \subseteq PassFields
BY DEF PassFields, TurnFields, WorkFields, HeaderFields, EndFields

LEMMA BetweenNumbers ==
  ASSUME NEW c, NEW tables, NEW claim, Writing(c, tables, claim), Between(c)
  PROVE  c.pass_number \in Nat /\ c.total_passes \in Nat /\ c.is_last_pass \in BOOLEAN
         /\ c.pass_number <= c.total_passes
BY SomePasses DEF Between, Turn

LEMMA PassMade ==
  ASSUME NEW c, NEW tables, NEW claim, Outcome(c, tables, claim), ~c.error => Between(c),
         NEW k \in Nat, ~c.error => c.is_last_pass \/ c.pass_number >= k
  PROVE  PassesMade(c, k + 1, OnePass(c), tables, claim)
<1> DEFINE p == PrepareForPass(c)
           a == AllRows(p)
           r == FinishPassMaster(a)
<1>1. CASE c.error
  BY <1>1, SameButItself DEF OnePass, PassesMade
<1>2. CASE ~c.error /\ c.is_last_pass
  BY <1>2, SameButItself DEF OnePass, PassesMade
<1>3. CASE ~c.error /\ ~c.is_last_pass
  <2>1. Writing(c, tables, claim) /\ Between(c)
    BY <1>3, WritingOutcome
  <2>2. c.pass_number \in Nat /\ c.pass_number >= k
    BY <1>3, <2>1, BetweenNumbers
  <2>3. OnePass(c) = IF p.error THEN p ELSE IF a.error THEN a ELSE r
    BY <1>3 DEF OnePass, Then
  <2>4. /\ SameBut(c, p, TurnFields) /\ Outcome(p, tables, claim)
        /\ ~p.error => InPass(p) /\ p.pass_number >= c.pass_number
    BY <1>3, <2>1, NextPassPrepared
  <2>5. SameBut(c, p, PassFields)
    BY <2>4, SameButMore, PassFieldsHold
  <2> HIDE DEF p
  <2>6. CASE p.error
    BY <2>3, <2>4, <2>5, <2>6 DEF PassesMade
  <2>7. CASE ~p.error
    <3>1. Writing(p, tables, claim) /\ InPass(p) /\ p.error \in BOOLEAN
      BY <2>4, <2>7, WritingOutcome DEF Outcome, ObjectType
    <3>2. Through(p, a)
      BY <3>1, PassFit, RowsThrough
    <3>3. /\ Outcome(a, tables, claim)
          /\ NumSOS(a.file) = NumSOS(p.file) /\ NumSOF(a.file) = NumSOF(p.file)
      BY <2>7, <3>1, <3>2, ThroughOutcome
    <3>4. SameBut(p, a, RowsFields \cup {"error"}) /\ RowsSet(a) /\ DOMAIN p = Fields
      BY <3>1, <3>2 DEF Through, Fit, Writing, ObjectType
    <3>5. SameBut(c, a, PassFields)
      BY <2>5, <3>4, SameButMore, SameButTwice, PassFieldsHold
    <3>6. InPass(a) /\ a.pass_number = p.pass_number
      BY <3>1, <3>3, <3>4, InPassKept
    <3> HIDE DEF a
    <3>7. CASE a.error
      BY <2>3, <2>7, <3>3, <3>5, <3>7 DEF PassesMade
    <3>8. CASE ~a.error
      <4>1. /\ SameBut(a, r, EndFields) /\ Outcome(r, tables, claim)
            /\ ~r.error => Between(r) /\ r.pass_number = a.pass_number + 1
        BY <3>3, <3>6, <3>8, WritingOutcome, PassFinished
      <4>2. SameBut(c, r, PassFields)
        BY <3>5, <4>1, SameButMore, SameButTwice, PassFieldsHold
      <4>3. a.pass_number \in Nat /\ a.pass_number >= k
        BY <2>2, <2>4, <2>7, <3>6 DEF InPass
      <4> HIDE DEF r
      <4>4. ~r.error => r.pass_number >= k + 1
        BY <4>1, <4>3
      <4> QED BY <2>3, <2>7, <3>8, <4>1, <4>2, <4>4 DEF PassesMade
    <3> QED BY <3>7, <3>8
  <2> QED BY <2>6, <2>7
<1> QED BY <1>1, <1>2, <1>3

PassesBy(a, k, x) == PassesMade(a.c, k, x, a.tables, a.claim)
PassesLoop == INSTANCE LoopProofs WITH Step <- OnePass, P <- PassesBy

LEMMA PassesMadeTwice ==
  ASSUME NEW c, NEW d, NEW tables, NEW claim, NEW k \in Nat, PassesMade(c, k, d, tables, claim)
  PROVE  PassesMade(c, k + 1, OnePass(d), tables, claim)
<1>1. PassesMade(d, k + 1, OnePass(d), tables, claim)
  BY PassMade DEF PassesMade
<1> QED BY <1>1, SameButTwice DEF PassesMade

\* The passes that finish_compress makes end with the last.
LEMMA PassesEnd ==
  ASSUME NEW c, NEW tables, NEW claim, Writing(c, tables, claim), ~c.error, Between(c)
  PROVE  /\ SameBut(c, RemainingPasses(c), PassFields) /\ Outcome(RemainingPasses(c), tables, claim)
         /\ ~RemainingPasses(c).error =>
              NumSOS(RemainingPasses(c).file) = NumScans(RemainingPasses(c).image)
<1> DEFINE n == c.total_passes
           r == RemainingPasses(c)
           a == [c |-> c, tables |-> tables, claim |-> claim]
<1>1. n \in Nat /\ c.pass_number \in Nat
  BY BetweenNumbers
<1>2. PassesMade(c, 0, c, tables, claim)
  BY <1>1, SameButItself DEF PassesMade, Outcome, Writing
<1>3. PassesBy(a, 0, c)
  BY <1>2 DEF PassesBy
<1>4. \A k \in Nat : \A x : PassesBy(a, k, x) => PassesBy(a, k + 1, OnePass(x))
  BY PassesMadeTwice DEF PassesBy
<1> HIDE DEF n, a
<1>5. PassesBy(a, n, Repeat(OnePass, c, n))
  BY <1>1, <1>3, <1>4, PassesLoop!Repeated DEF Repeat, PassesLoop!Repeat
<1>6. PassesMade(c, n, r, tables, claim)
  BY <1>5 DEF PassesBy, RemainingPasses, n, a
<1> HIDE DEF r
<1>7. SameBut(c, r, PassFields) /\ Outcome(r, tables, claim)
  BY <1>6 DEF PassesMade
<1>8. ~r.error => NumSOS(r.file) = NumScans(r.image)
  <2> SUFFICES ASSUME ~r.error PROVE NumSOS(r.file) = NumScans(r.image)
    OBVIOUS
  <2>1. Writing(r, tables, claim) /\ Between(r) /\ (r.is_last_pass \/ r.pass_number >= n)
    BY <1>6, <1>7, WritingOutcome DEF PassesMade
  <2>2. "total_passes" \in Fields \ PassFields /\ DOMAIN c = Fields
    BY DEF Fields, PassFields, TurnFields, WorkFields, HeaderFields, RowsFields, CodeFields, RowFields,
           Writing, ObjectType
  <2>3. r.total_passes = n
    BY <1>7, <2>2 DEF SameBut, n
  <2>4. r.pass_number \in Nat /\ r.pass_number = n
    BY <1>1, <2>1, <2>3, BetweenNumbers DEF Between
  <2>5. NumScans(r.image) \in Nat
        /\ r.total_passes = IF OptimizeCoding(r) THEN 2 * NumScans(r.image) ELSE NumScans(r.image)
    BY <2>1, SomePasses
  <2>6. /\ r.scan_number \in Nat /\ NumSOS(r.file) = r.scan_number
        /\ r.pass_number = IF ~OptimizeCoding(r) THEN r.scan_number
                           ELSE IF r.pass_type = "output_pass" THEN 2 * r.scan_number + 1
                           ELSE 2 * r.scan_number
    BY <2>1 DEF Between, Turn
  <2> QED BY <2>3, <2>4, <2>5, <2>6
<1> QED BY <1>7, <1>8 DEF r
-----------------------------------------------------------------------------
(* Files that start *)

\* A file without scans says nothing that could be wrong.
LEMMA SilentFile ==
  ASSUME NEW f, IsFile(f), OfKind(f, {"SOS"}) = {}
  PROVE  Ordered(f) /\ Intervals(f) /\ \A tables : AllInForce(f, tables)
<1>1. Ordered(f) /\ Intervals(f)
  BY DEF Ordered, Intervals
<1>2. \A tables : AllInForce(f, tables)
  BY DEF AllInForce, ForceIn, QuantIn
<1> QED BY <1>1, <1>2

LEMMA SilentInv ==
  ASSUME NEW c, NEW tables, NEW claim, IsFile(c.file), OfKind(c.file, {"SOS"}) = {}
  PROVE  FileInv(c, tables, claim)
BY SilentFile DEF FileInv

LEMMA NothingSaid ==
  /\ IsFile(<< >>) /\ Len(<< >>) = 0
  /\ \A K : OfKind(<< >>, K) = {}
  /\ \A kind, s : Defs(<< >>, kind, s) = {}
  /\ NumSOS(<< >>) = 0 /\ NumSOF(<< >>) = 0
<1>1. IsFile(<< >>) /\ Len(<< >>) = 0 /\ DOMAIN << >> = {}
  BY EmptyFile
<1>2. \A K : OfKind(<< >>, K) = {}
  BY <1>1 DEF OfKind
<1>3. \A kind, s : Defs(<< >>, kind, s) = {}
  BY <1>1 DEF Defs
<1>4. NumSOS(<< >>) = 0 /\ NumSOF(<< >>) = 0
  BY <1>2, FS_EmptySet DEF NumSOS, NumSOF
<1> QED BY <1>1, <1>2, <1>3, <1>4

LEMMA LastDefinedOf ==
  ASSUME NEW f, NEW kind, NEW s, NEW old, Defs(f, kind, s) = {}
  PROVE  LastDefined(f, kind, s, old) = old
BY DEF LastDefined, Defs

\* The body of a file that is empty: what counts as sent, the decoder has.
Has(tbls, olds) == \A s \in Slots : tbls[s].sent_table => olds[s] = tbls[s].content

LEMMA EmptyBody ==
  ASSUME NEW q, NEW d, NEW a, NEW optimize, NEW tables, NEW claim,
         claim => Has(q, tables.quant) /\ Has(d, tables.dc) /\ Has(a, tables.ac)
  PROVE  Body(<< >>, q, d, a, 0, optimize, tables, claim)
<1> DEFINE f == << >>
<1>1. /\ IsFile(f) /\ Len(f) = 0 /\ \A K : OfKind(f, K) = {}
      /\ \A kind, s : Defs(f, kind, s) = {}
  BY NothingSaid
<1> HIDE DEF f
<1>2. Ordered(f) /\ Intervals(f) /\ AllInForce(f, tables)
  BY <1>1, SilentFile
<1>3. claim => /\ SentIn(f, "DQT", q, tables.quant) /\ SentIn(f, "DHT_DC", d, tables.dc)
               /\ SentIn(f, "DHT_AC", a, tables.ac)
  BY <1>1, LastDefinedOf DEF SentIn, Has
<1>4. FrameIn(f, tables.quant)
  BY <1>1 DEF FrameIn
<1>5. Borrowed(f, "DHT_DC", d, optimize) /\ Borrowed(f, "DHT_AC", a, optimize)
  BY <1>1 DEF Borrowed
<1>6. 0 = LastInterval(f, Len(f) + 1)
  BY <1>1 DEF LastInterval, KindBefore
<1>7. Body(f, q, d, a, 0, optimize, tables, claim)
  BY <1>1, <1>2, <1>3, <1>4, <1>5, <1>6 DEF Body
<1> QED BY <1>7 DEF f

InitFields == {"pass_type", "scan_number", "pass_number", "is_last_pass", "total_passes",
               "max_v_samp_factor", "total_iMCU_rows", "main_buffer", "whole_image",
               "last_restart_interval"}

\* An object whose tables the decoder has as far as they count as sent.
Sendable(c, tables, claim) ==
  claim => Has(c.quant, tables.quant) /\ Has(c.dc, tables.dc) /\ Has(c.ac, tables.ac)

LEMMA MasterWrites ==
  ASSUME NEW c, NEW tables, NEW claim, ObjectType(c), ~c.error, c.file = << >>,
         Sendable(c, tables, claim), LegalImage(c.image),
         c.image.scan_info # <<>> => ValidateScript(Len(c.image.comp_info), c.image.scan_info),
         NEW m, SameBut(c, m, InitFields), m.last_restart_interval = 0,
         m.total_passes = IF OptimizeCoding(c) THEN 2 * NumScans(c.image) ELSE NumScans(c.image),
         m.total_iMCU_rows = TotalIMCURows(c.image)
  PROVE  Writing(m, tables, claim) /\ OptimizeCoding(m) = OptimizeCoding(c) /\ m.file = << >> /\ ~m.error
<1>1. DOMAIN c = Fields
  BY DEF ObjectType
<1>2. /\ DOMAIN m = DOMAIN c /\ m.image = c.image /\ m.suspends = c.suspends /\ m.all = c.all
      /\ m.error = c.error /\ m.room = c.room /\ m.file = << >>
      /\ m.quant = c.quant /\ m.dc = c.dc /\ m.ac = c.ac
  BY <1>1 DEF SameBut, Fields, InitFields
<1>3. ObjectType(m)
  BY <1>2, TypeKept DEF ObjectType
<1>4. OptimizeCoding(m) = OptimizeCoding(c)
  BY <1>2 DEF OptimizeCoding, ProgressiveMode
<1>5. Checked(m)
  BY <1>2, <1>4 DEF Checked
<1>6. Body(<< >>, m.quant, m.dc, m.ac, 0, OptimizeCoding(m), tables, claim)
  BY <1>2, EmptyBody DEF Sendable
<1>7. FileInv(m, tables, claim) /\ TablesInv(m, tables, claim)
  BY <1>2, <1>6, BodyOf
<1> QED BY <1>2, <1>3, <1>4, <1>5, <1>7 DEF Writing

\* jinit_c_master_control: the first tokens, or an error.
FirstTokens(c) ==
  <<[t |-> "SOI"]>> \o (IF c.image.write_JFIF_header THEN <<[t |-> "APP0"]>> ELSE << >>)
  \o (IF c.image.write_Adobe_marker THEN <<[t |-> "APP14"]>> ELSE << >>)

LEMMA FirstTokensPlain == ASSUME NEW c PROVE Plain(FirstTokens(c))
<1>1. Plain(<<[t |-> "SOI"]>>) /\ Plain(<<[t |-> "APP0"]>>) /\ Plain(<<[t |-> "APP14"]>>)
  BY PlainToken DEF HeaderKinds
<1>2. Plain(IF c.image.write_JFIF_header THEN <<[t |-> "APP0"]>> ELSE << >>)
  BY <1>1, NothingPlain
<1>3. Plain(IF c.image.write_Adobe_marker THEN <<[t |-> "APP14"]>> ELSE << >>)
  BY <1>1, NothingPlain
<1> QED BY <1>1, <1>2, <1>3, PlainMore DEF FirstTokens

\* The type of the first pass.
FirstType(c, transcode) ==
  IF ~transcode THEN "main_pass" ELSE IF OptimizeCoding(c) THEN "huff_opt_pass" ELSE "output_pass"

\* r is an object whose file has started.
FileStarted(c, r, tables, claim, transcode) ==
  /\ SameBut(c, r, InitFields \cup EmitFields) /\ Outcome(r, tables, claim)
  /\ ~r.error => /\ r.pass_type = FirstType(c, transcode) /\ OptimizeCoding(r) = OptimizeCoding(c)
                 /\ r.scan_number = 0 /\ r.pass_number = 0 /\ r.is_last_pass = FALSE
                 /\ NumSOS(r.file) = 0 /\ NumSOF(r.file) = 0

LEMMA HeaderStarts ==
  ASSUME NEW c, NEW tables, NEW claim, NEW transcode, NEW m, DOMAIN c = Fields, SameBut(c, m, InitFields),
         Writing(m, tables, claim), OptimizeCoding(m) = OptimizeCoding(c), m.file = << >>, ~m.error,
         m.pass_type = FirstType(c, transcode), m.scan_number = 0, m.pass_number = 0,
         m.is_last_pass = FALSE, NEW t, Plain(t), NEW r, r = Emit(m, t)
  PROVE  FileStarted(c, r, tables, claim, transcode)
<1>1. /\ SameBut(m, r, EmitFields) /\ Outcome(r, tables, claim)
      /\ ~r.error => StillWrites(m, r, tables, claim)
  BY EmitPlain
<1>2. SameBut(c, r, InitFields \cup EmitFields)
  BY <1>1, SameButMore, SameButTwice
<1>3. /\ r.pass_type = m.pass_type /\ r.scan_number = m.scan_number /\ r.pass_number = m.pass_number
      /\ r.is_last_pass = m.is_last_pass
  BY <1>1 DEF SameBut, EmitFields, Fields
<1>4. ~r.error => /\ OptimizeCoding(r) = OptimizeCoding(c)
                  /\ NumSOS(r.file) = 0 /\ NumSOF(r.file) = 0
  BY <1>1, NothingSaid DEF StillWrites
<1> QED BY <1>1, <1>2, <1>3, <1>4 DEF FileStarted

LEMMA MasterStarts ==
  ASSUME NEW c, NEW tables, NEW claim, ObjectType(c), ~c.error, c.file = << >>,
         Sendable(c, tables, claim), NEW transcode \in BOOLEAN
  PROVE  FileStarted(c, InitMaster(c, transcode), tables, claim, transcode)
<1> DEFINE type == IF ~transcode THEN "main_pass"
                   ELSE IF OptimizeCoding(c) THEN "huff_opt_pass" ELSE "output_pass"
           passes == IF OptimizeCoding(c) THEN 2 * NumScans(c.image) ELSE NumScans(c.image)
           v == MaxV(c.image.comp_info)
           rows == TotalIMCURows(c.image)
           buf == [ci \in DOMAIN c.image.comp_info |->
                     [r \in 1..c.image.comp_info[ci].v_samp_factor * DCTSIZE |-> <<>>]]
           all == IF transcode THEN SourceCoefficients(c.image)
                  ELSE [ci \in DOMAIN c.image.comp_info |-> <<>>]
           d == [c EXCEPT !.pass_type = type, !.scan_number = 0, !.pass_number = 0,
                          !.is_last_pass = FALSE, !.total_passes = passes,
                          !.max_v_samp_factor = v, !.total_iMCU_rows = rows,
                          !.main_buffer = buf, !.whole_image = all]
           m == [d EXCEPT !.last_restart_interval = 0]
           legal == /\ LegalImage(c.image)
                    /\ transcode \/ c.image.raw_data_in \/ WholeRatios(c.image.comp_info)
                    /\ c.image.scan_info # <<>> => ValidateScript(Len(c.image.comp_info), c.image.scan_info)
<1>1. InitMaster(c, transcode) = IF legal THEN WriteFileHeader(d) ELSE Fail(c)
  BY DEF InitMaster
<1>2. WriteFileHeader(d) = Emit(m, FirstTokens(d))
  BY DEF WriteFileHeader, FirstTokens
<1>3. type = FirstType(c, transcode)
  BY DEF FirstType
<1> HIDE DEF type, passes, v, rows, buf, all
<1>4. DOMAIN c = Fields
  BY DEF ObjectType
<1>5. /\ SameBut(c, m, InitFields) /\ m.last_restart_interval = 0
      /\ m.pass_type = type /\ m.scan_number = 0 /\ m.pass_number = 0 /\ m.is_last_pass = FALSE
      /\ m.total_passes = passes /\ m.total_iMCU_rows = rows
  BY <1>4 DEF SameBut, InitFields, Fields
<1> HIDE DEF d, m
<1>6. CASE legal
  <2>1. Writing(m, tables, claim) /\ OptimizeCoding(m) = OptimizeCoding(c) /\ m.file = << >> /\ ~m.error
    BY <1>5, <1>6, MasterWrites DEF passes, rows
  <2>2. FileStarted(c, Emit(m, FirstTokens(d)), tables, claim, transcode)
    BY <1>3, <1>4, <1>5, <2>1, FirstTokensPlain, HeaderStarts
  <2> QED BY <1>1, <1>2, <1>6, <2>2
<1>7. CASE ~legal
  <2>1. FileInv(c, tables, claim)
    BY SilentInv, NothingSaid
  <2>2. Outcome(Fail(c), tables, claim) /\ SameBut(c, Fail(c), {"error"}) /\ Fail(c).error = TRUE
    BY <2>1, FailOutcome, FailFacts
  <2>3. SameBut(c, Fail(c), InitFields \cup EmitFields)
    BY <2>2, SameButMore DEF EmitFields
  <2>4. FileStarted(c, Fail(c), tables, claim, transcode)
    BY <2>2, <2>3 DEF FileStarted
  <2> QED BY <1>1, <1>7, <2>4
<1> QED BY <1>6, <1>7

\* An object that no file is being written with.
Resting(c, tables, whole) ==
  ObjectInv(c, tables, whole) /\ c.global_state = "START" /\ ~c.error

\* The object a file is started with.
Fresh(c, all) == [IF all THEN Unsuppressed(c) ELSE c EXCEPT !.file = << >>, !.all = all]

\* The tables that count as sent are the ones that did, or none.
LEMMA FreshFile ==
  ASSUME NEW c, NEW tables, NEW whole, Resting(c, tables, whole), NEW all \in BOOLEAN,
         NEW claim, claim => all \/ whole,
         NEW d, d = Fresh(c, all)
  PROVE  /\ SameBut(c, d, {"quant", "dc", "ac", "file", "all"}) /\ ObjectType(d)
         /\ d.file = << >> /\ d.all = all /\ ~d.error /\ Sendable(d, tables, claim)
         /\ d.global_state = "START" /\ d.next_scanline = 0
<1> DEFINE unsent(tbls) == [s \in Slots |-> [tbls[s] EXCEPT !.sent_table = FALSE]]
           u == [c EXCEPT !.quant = unsent(@), !.dc = unsent(@), !.ac = unsent(@)]
           b == IF all THEN u ELSE c
<1>1. /\ ObjectType(c) /\ DOMAIN c = Fields /\ Rest(c, tables, whole) /\ c.next_scanline = 0
      /\ c.global_state = "START" /\ ~c.error
  BY DEF Resting, ObjectInv, ObjectType
<1>2. /\ \A tbls : IsTables(tbls) => IsTables(unsent(tbls))
      /\ \A tbls : IsTables(tbls) => \A s \in Slots : unsent(tbls)[s].sent_table = FALSE
  BY DEF IsTables
<1>3. d = [b EXCEPT !.file = << >>, !.all = all]
  BY DEF Unsuppressed, Fresh
<1>4. IsTables(c.quant) /\ IsTables(c.dc) /\ IsTables(c.ac)
  BY <1>1 DEF ObjectType
<1> HIDE DEF unsent
<1>5. /\ SameBut(c, u, {"quant", "dc", "ac"})
      /\ u.quant = unsent(c.quant) /\ u.dc = unsent(c.dc) /\ u.ac = unsent(c.ac)
  BY <1>1 DEF SameBut, Fields
<1> HIDE DEF u
<1>6. /\ SameBut(c, b, {"quant", "dc", "ac"})
      /\ IsTables(b.quant) /\ IsTables(b.dc) /\ IsTables(b.ac)
      /\ Sendable(b, tables, claim)
  <2>1. CASE all
    BY <1>2, <1>4, <1>5, <2>1 DEF Sendable, Has
  <2>2. CASE ~all
    BY <1>1, <1>4, <2>2, SameButItself DEF Sendable, Has, Rest
  <2> QED BY <2>1, <2>2
<1> HIDE DEF b
<1>7. DOMAIN b = Fields
  BY <1>1, <1>6 DEF SameBut
<1>8. SameBut(b, d, {"file", "all"}) /\ d.file = << >> /\ d.all = all
  <2>1. SameBut(b, d, {"file", "all"})
    BY <1>3 DEF SameBut
  <2>2. "file" \in DOMAIN b /\ "all" \in DOMAIN b
    BY <1>7 DEF Fields
  <2> QED BY <1>3, <2>1, <2>2
<1>9. SameBut(c, d, {"quant", "dc", "ac", "file", "all"})
  BY <1>6, <1>8 DEF SameBut
<1>10. d.quant = b.quant /\ d.dc = b.dc /\ d.ac = b.ac
  BY <1>7, <1>8 DEF SameBut, Fields
<1>11. /\ d.image = c.image /\ d.suspends = c.suspends /\ d.error = c.error /\ d.room = c.room
       /\ d.global_state = c.global_state /\ d.next_scanline = c.next_scanline /\ DOMAIN d = Fields
  BY <1>1, <1>9 DEF SameBut, Fields
<1>12. ObjectType(d)
  BY <1>1, <1>6, <1>8, <1>10, <1>11 DEF ObjectType
<1>13. Sendable(d, tables, claim)
  BY <1>6, <1>10 DEF Sendable
<1> QED BY <1>1, <1>8, <1>9, <1>11, <1>12, <1>13

\* A call sets the state of the object.
LEMMA StateSet ==
  ASSUME NEW c, NEW tables, NEW claim, Outcome(c, tables, claim), NEW g,
         NEW d, d = [c EXCEPT !.global_state = g]
  PROVE  /\ SameBut(c, d, {"global_state"}) /\ d.global_state = g /\ d.error = c.error
         /\ Outcome(d, tables, claim)
         /\ MainPass(c) => MainPass(d)
         /\ Between(c) => Between(d) /\ d.scan_number = c.scan_number
<1>1. ObjectType(c) /\ DOMAIN c = Fields
  BY DEF Outcome, ObjectType
<1>2. SameBut(c, d, {"global_state"}) /\ d.global_state = g
  BY <1>1 DEF SameBut, Fields
<1>3. /\ DOMAIN d = DOMAIN c /\ d.image = c.image /\ d.suspends = c.suspends /\ d.all = c.all
      /\ d.error = c.error /\ d.quant = c.quant /\ d.dc = c.dc /\ d.ac = c.ac /\ d.file = c.file
      /\ d.room = c.room /\ d.last_restart_interval = c.last_restart_interval
      /\ d.total_iMCU_rows = c.total_iMCU_rows /\ d.total_passes = c.total_passes
  BY <1>1, <1>2 DEF SameBut, Fields
<1>4. /\ d.next_scanline = c.next_scanline /\ d.scan = c.scan /\ d.coding = c.coding
      /\ d.MCU_vert_offset = c.MCU_vert_offset /\ d.mcu_ctr = c.mcu_ctr
      /\ d.MCU_rows_per_iMCU_row = c.MCU_rows_per_iMCU_row
      /\ d.pass_type = c.pass_type /\ d.scan_number = c.scan_number /\ d.pass_number = c.pass_number
      /\ d.is_last_pass = c.is_last_pass /\ d.call_pass_startup = c.call_pass_startup
  BY <1>1, <1>2 DEF SameBut, Fields
<1>5. ObjectType(d)
  BY <1>1, <1>3, TypeKept DEF ObjectType
<1>6. Outcome(d, tables, claim)
  BY <1>3, <1>5, FileKept, CheckedKept, TablesKept DEF Outcome
<1>7. OptimizeCoding(d) = OptimizeCoding(c) /\ Coming(d) = Coming(c) /\ DcSlots(d) = DcSlots(c)
      /\ AcSlots(d) = AcSlots(c)
  BY <1>3, <1>4 DEF OptimizeCoding, ProgressiveMode, Coming, DcSlots, AcSlots
<1>8. MainPass(c) => MainPass(d)
  <2>1. (ScanSet(c) => ScanSet(d)) /\ (RowsSet(c) => RowsSet(d)) /\ (CodingSet(c) => CodingSet(d))
    BY <1>3, <1>4, <1>7 DEF ScanSet, RowsSet, CodingSet
  <2> QED BY <1>3, <1>4, <1>7, <2>1 DEF MainPass
<1>9. Between(c) => Between(d)
  BY <1>3, <1>4, TurnKept DEF Between
<1> QED BY <1>2, <1>3, <1>4, <1>6, <1>8, <1>9

\* A call that failed before the file had scans.
LEMMA FailedInv ==
  ASSUME NEW c, NEW tables, NEW whole, Outcome(c, tables, c.all \/ whole), c.error,
         c.global_state \in {"START", "SCANNING", "RAW_OK", "WRCOEFS"}
  PROVE  ObjectInv(c, tables, whole)
BY DEF ObjectInv, Outcome

LEMMA CoefInv ==
  ASSUME NEW c, NEW tables, NEW whole, Outcome(c, tables, c.all \/ whole),
         c.global_state = "WRCOEFS", ~c.error => Between(c) /\ c.scan_number = 0
  PROVE  ObjectInv(c, tables, whole)
BY DEF ObjectInv, Outcome

\* The object as jinit_c_master_control leaves it.
LEMMA StartedFacts ==
  ASSUME NEW c, DOMAIN c = Fields, NEW m, SameBut(c, m, InitFields \cup EmitFields)
  PROVE  /\ m.all = c.all /\ m.global_state = c.global_state /\ m.next_scanline = c.next_scanline
         /\ m.image = c.image /\ DOMAIN m = Fields
BY DEF SameBut, InitFields, EmitFields, Fields

\* jpeg_start_compress.
StartIn(c, all) ==
  Then(InitMaster(Fresh(c, all), FALSE), LAMBDA m :
    [PrepareForPass(m) EXCEPT !.global_state = IF m.image.raw_data_in THEN "RAW_OK" ELSE "SCANNING"])

LEMMA CompressStarts ==
  ASSUME NEW c, NEW tables, NEW whole, Resting(c, tables, whole), NEW all \in BOOLEAN
  PROVE  ObjectInv(StartIn(c, all), tables, whole)
<1> DEFINE d == Fresh(c, all)
           m == InitMaster(d, FALSE)
           p == PrepareForPass(m)
           g == IF m.image.raw_data_in THEN "RAW_OK" ELSE "SCANNING"
           r == [p EXCEPT !.global_state = g]
           claim == all \/ whole
<1>1. StartIn(c, all) = IF m.error THEN m ELSE r
  BY DEF StartIn, Then
<1>2. /\ ObjectType(d) /\ d.file = << >> /\ d.all = all /\ ~d.error /\ Sendable(d, tables, claim)
      /\ d.global_state = "START" /\ d.next_scanline = 0
  <2>1. d = Fresh(c, all) /\ (claim => all \/ whole)
    OBVIOUS
  <2> HIDE DEF d, claim
  <2> QED BY <2>1, FreshFile
<1> HIDE DEF d, claim
<1>a. DOMAIN d = Fields
  BY <1>2 DEF ObjectType
<1>3. FileStarted(d, m, tables, claim, FALSE)
  BY <1>2, MasterStarts
<1> HIDE DEF m
<1>b. SameBut(d, m, InitFields \cup EmitFields) /\ Outcome(m, tables, claim)
  BY <1>3 DEF FileStarted
<1>4. /\ m.all = all /\ m.global_state = "START" /\ m.next_scanline = 0 /\ DOMAIN m = Fields
      /\ Outcome(m, tables, claim)
  BY <1>2, <1>b, <1>a, StartedFacts
<1>5. CASE m.error
  <2>1. Outcome(m, tables, m.all \/ whole)
    BY <1>4 DEF claim
  <2> QED BY <1>1, <1>4, <1>5, <2>1, FailedInv
<1>6. CASE ~m.error
  <2>1. /\ m.pass_type = "main_pass" /\ m.scan_number = 0 /\ m.pass_number = 0
        /\ NumSOS(m.file) = 0 /\ NumSOF(m.file) = 0
    BY <1>3, <1>6 DEF FileStarted, FirstType
  <2>2. Writing(m, tables, claim)
    BY <1>4, <1>6, WritingOutcome
  <2>3. /\ SameBut(m, p, TurnFields) /\ Outcome(p, tables, claim)
        /\ ~p.error => MainPass(p)
    BY <1>4, <1>6, <2>1, <2>2, FirstPassPrepared
  <2> HIDE DEF p
  <2>4. "all" \in Fields \ TurnFields
    BY DEF Fields, TurnFields, WorkFields, HeaderFields, RowsFields, CodeFields, RowFields
  <2>5. p.all = all
    BY <1>4, <2>3, <2>4 DEF SameBut
  <2>6. g \in {"RAW_OK", "SCANNING"}
    OBVIOUS
  <2>c. r = [p EXCEPT !.global_state = g]
    OBVIOUS
  <2> HIDE DEF g, r
  <2>7. /\ SameBut(p, r, {"global_state"}) /\ r.global_state = g /\ r.error = p.error
        /\ Outcome(r, tables, claim) /\ (MainPass(p) => MainPass(r))
    BY <2>3, <2>c, StateSet
  <2>8. DOMAIN p = Fields
    BY <2>3 DEF Outcome, ObjectType
  <2>9. r.all = all
    BY <2>5, <2>7, <2>8 DEF SameBut, Fields
  <2>10. claim <=> r.all \/ whole
    BY <2>9 DEF claim
  <2>11. ObjectInv(r, tables, whole)
    BY <2>3, <2>6, <2>7, <2>10, MainInv
  <2> QED BY <1>1, <1>6, <2>11
<1> QED BY <1>5, <1>6

\* jpeg_write_coefficients.
CoefsIn(c) ==
  Then(InitMaster([Unsuppressed(c) EXCEPT !.file = << >>, !.all = TRUE], TRUE),
       LAMBDA m : [m EXCEPT !.global_state = "WRCOEFS"])

LEMMA FirstTurn ==
  ASSUME NEW c, NEW tables, NEW claim, NEW m, FileStarted(c, m, tables, claim, TRUE), ~m.error
  PROVE  Between(m) /\ m.scan_number = 0
<1>1. /\ m.pass_type = (IF OptimizeCoding(m) THEN "huff_opt_pass" ELSE "output_pass")
      /\ m.scan_number = 0 /\ m.pass_number = 0 /\ m.is_last_pass = FALSE
      /\ NumSOS(m.file) = 0 /\ NumSOF(m.file) = 0
  BY DEF FileStarted, FirstType
<1>2. m.total_passes \in Nat \ {0}
  BY WritingOutcome, SomePasses DEF FileStarted
<1>3. m.pass_type \in {"huff_opt_pass", "output_pass"} /\ (~OptimizeCoding(m) => m.pass_type = "output_pass")
      /\ (OptimizeCoding(m) => m.pass_type = "huff_opt_pass")
  BY <1>1
<1>4. m.pass_number = (IF ~OptimizeCoding(m) THEN m.scan_number
                       ELSE IF m.pass_type = "output_pass" THEN 2 * m.scan_number + 1
                       ELSE 2 * m.scan_number)
  BY <1>1, <1>3
<1>5. Turn(m)
  BY <1>1, <1>2, <1>3, <1>4 DEF Turn
<1> QED BY <1>1, <1>2, <1>5 DEF Between

LEMMA CoefficientsStart ==
  ASSUME NEW c, NEW tables, NEW whole, Resting(c, tables, whole)
  PROVE  ObjectInv(CoefsIn(c), tables, whole)
<1> DEFINE d == [Unsuppressed(c) EXCEPT !.file = << >>, !.all = TRUE]
           m == InitMaster(d, TRUE)
           r == [m EXCEPT !.global_state = "WRCOEFS"]
           claim == TRUE \/ whole
<1>1. CoefsIn(c) = IF m.error THEN m ELSE r
  BY DEF CoefsIn, Then
<1>2. /\ ObjectType(d) /\ d.file = << >> /\ d.all = TRUE /\ ~d.error /\ Sendable(d, tables, claim)
      /\ d.global_state = "START" /\ d.next_scanline = 0
  <2>1. d = Fresh(c, TRUE)
    BY DEF Fresh
  <2>2. PICK all \in BOOLEAN : all = TRUE
    OBVIOUS
  <2>4. claim => all \/ whole
    BY <2>2
  <2> HIDE DEF d, claim
  <2>3. d = Fresh(c, all)
    BY <2>1, <2>2
  <2> QED BY <2>2, <2>3, <2>4, FreshFile
<1> HIDE DEF d, claim
<1>a. DOMAIN d = Fields
  BY <1>2 DEF ObjectType
<1>3. FileStarted(d, m, tables, claim, TRUE)
  BY <1>2, MasterStarts
<1> HIDE DEF m
<1>b. SameBut(d, m, InitFields \cup EmitFields) /\ Outcome(m, tables, claim)
  BY <1>3 DEF FileStarted
<1>4. m.all = TRUE /\ m.global_state = "START" /\ DOMAIN m = Fields /\ Outcome(m, tables, claim)
  BY <1>2, <1>b, <1>a, StartedFacts
<1>5. CASE m.error
  <2>1. Outcome(m, tables, m.all \/ whole)
    BY <1>4 DEF claim
  <2> QED BY <1>1, <1>4, <1>5, <2>1, FailedInv
<1>6. CASE ~m.error
  <2>1. Between(m) /\ m.scan_number = 0
    BY <1>3, <1>6, FirstTurn
  <2>2. /\ SameBut(m, r, {"global_state"}) /\ r.global_state = "WRCOEFS"
        /\ Outcome(r, tables, claim) /\ Between(r) /\ r.scan_number = 0
    BY <1>4, <2>1, StateSet
  <2> HIDE DEF r
  <2>3. r.all = TRUE
    BY <1>4, <2>2 DEF SameBut, Fields
  <2>4. Outcome(r, tables, r.all \/ whole)
    BY <2>2, <2>3 DEF claim
  <2>5. ObjectInv(r, tables, whole)
    BY <2>2, <2>4, CoefInv
  <2> QED BY <1>1, <1>6, <2>5
<1> QED BY <1>5, <1>6
-----------------------------------------------------------------------------
(* Files that end *)

\* What a file says of a table it says to a decoder that has read it.
LEMMA AfterInForce ==
  ASSUME NEW f, IsFile(f), NEW tables, AllInForce(f, tables)
  PROVE  AllInForce(f, After(f, tables))
<1> DEFINE t == After(f, tables)
<1>1. \A k \in Slots : /\ t.quant[k] = LastDefined(f, "DQT", k, tables.quant[k])
                       /\ t.dc[k] = LastDefined(f, "DHT_DC", k, tables.dc[k])
                       /\ t.ac[k] = LastDefined(f, "DHT_AC", k, tables.ac[k])
  BY DEF After
<1> HIDE DEF t
<1>2. \A n, kind, k, v, old :
        InForceAt(f, n, kind, k, v, old) => InForceAt(f, n, kind, k, v, LastDefined(f, kind, k, old))
  <2> SUFFICES ASSUME NEW n, NEW kind, NEW k, NEW v, NEW old, InForceAt(f, n, kind, k, v, old)
               PROVE  InForceAt(f, n, kind, k, v, LastDefined(f, kind, k, old))
    OBVIOUS
  <2>1. Defs(f, kind, k) = {} => LastDefined(f, kind, k, old) = old
    BY LastDefinedOf
  <2> QED BY <2>1 DEF InForceAt
<1>3. ForceIn(f, "DHT_DC", t.dc)
  BY <1>1, <1>2 DEF AllInForce, ForceIn
<1>4. ForceIn(f, "DHT_AC", t.ac)
  BY <1>1, <1>2 DEF AllInForce, ForceIn
<1>5. QuantIn(f, t.quant)
  BY <1>1, <1>2 DEF AllInForce, QuantIn
<1>6. AllInForce(f, t)
  BY <1>3, <1>4, <1>5 DEF AllInForce
<1> QED BY <1>6 DEF t

\* jpeg_abort keeps the tables and the file.
KeptFields == {"image", "suspends", "error", "room", "file", "all", "quant", "dc", "ac"}

LEMMA AbortKeeps ==
  ASSUME NEW c, DOMAIN c = Fields
  PROVE  /\ SameBut(c, JpegAbort(c), Fields \ KeptFields)
         /\ JpegAbort(c).global_state = "START" /\ JpegAbort(c).next_scanline = 0
<1> DEFINE d1 == [c EXCEPT !.global_state = "START", !.next_scanline = 0,
                      !.in_row_ctr = 0, !.in_rows_avail = 0]
           d2 == [d1 EXCEPT !.pass_type = "none", !.pass_number = 0,
                      !.total_passes = 0, !.scan_number = 0]
           d3 == [d2 EXCEPT !.is_last_pass = FALSE, !.call_pass_startup = FALSE,
                      !.cur_iMCU_row = 0, !.rowgroup_ctr = 0]
           d4 == [d3 EXCEPT !.suspended = FALSE, !.main_buffer = <<>>,
                      !.rows_to_go = 0, !.next_buf_row = 0]
           d5 == [d4 EXCEPT !.this_row_group = 0, !.next_buf_stop = 0,
                      !.color_buf = <<>>, !.iMCU_row_num = 0]
           d6 == [d5 EXCEPT !.mcu_ctr = 0, !.MCU_vert_offset = 0,
                      !.MCU_rows_per_iMCU_row = 0, !.whole_image = <<>>]
           d7 == [d6 EXCEPT !.compress_data = "none", !.coding = <<>>,
                      !.last_restart_interval = 0, !.done = FALSE]
           d8 == [d7 EXCEPT !.scan = <<>>, !.restart_interval = 0,
                      !.max_v_samp_factor = 0, !.total_iMCU_rows = 0]
<1>1. JpegAbort(c) = d8
  BY DEF JpegAbort
<1>2. /\ SameBut(c, d1, Fields \ KeptFields) /\ DOMAIN d1 = Fields
      /\ d1.global_state = "START" /\ d1.next_scanline = 0
  BY DEF SameBut, Fields, KeptFields
<1> HIDE DEF d1
<1>3. /\ SameBut(d1, d2, Fields \ KeptFields) /\ DOMAIN d2 = Fields
      /\ d2.global_state = "START" /\ d2.next_scanline = 0
  BY <1>2 DEF SameBut, Fields, KeptFields
<1> HIDE DEF d2
<1>4. /\ SameBut(d2, d3, Fields \ KeptFields) /\ DOMAIN d3 = Fields
      /\ d3.global_state = "START" /\ d3.next_scanline = 0
  BY <1>3 DEF SameBut, Fields, KeptFields
<1> HIDE DEF d3
<1>5. /\ SameBut(d3, d4, Fields \ KeptFields) /\ DOMAIN d4 = Fields
      /\ d4.global_state = "START" /\ d4.next_scanline = 0
  BY <1>4 DEF SameBut, Fields, KeptFields
<1> HIDE DEF d4
<1>6. /\ SameBut(d4, d5, Fields \ KeptFields) /\ DOMAIN d5 = Fields
      /\ d5.global_state = "START" /\ d5.next_scanline = 0
  BY <1>5 DEF SameBut, Fields, KeptFields
<1> HIDE DEF d5
<1>7. /\ SameBut(d5, d6, Fields \ KeptFields) /\ DOMAIN d6 = Fields
      /\ d6.global_state = "START" /\ d6.next_scanline = 0
  BY <1>6 DEF SameBut, Fields, KeptFields
<1> HIDE DEF d6
<1>8. /\ SameBut(d6, d7, Fields \ KeptFields) /\ DOMAIN d7 = Fields
      /\ d7.global_state = "START" /\ d7.next_scanline = 0
  BY <1>7 DEF SameBut, Fields, KeptFields
<1> HIDE DEF d7
<1>9. /\ SameBut(d7, d8, Fields \ KeptFields) /\ DOMAIN d8 = Fields
      /\ d8.global_state = "START" /\ d8.next_scanline = 0
  BY <1>8 DEF SameBut, Fields, KeptFields
<1> HIDE DEF d8
<1> QED BY <1>1, <1>2, <1>3, <1>4, <1>5, <1>6, <1>7, <1>8, <1>9, SameButTwice

LEMMA AbortedFields ==
  ASSUME NEW c, NEW d, DOMAIN c = Fields, SameBut(c, d, Fields \ KeptFields)
  PROVE  /\ DOMAIN d = DOMAIN c /\ d.image = c.image /\ d.suspends = c.suspends /\ d.error = c.error
         /\ d.room = c.room /\ d.file = c.file /\ d.all = c.all
         /\ d.quant = c.quant /\ d.dc = c.dc /\ d.ac = c.ac
BY DEF SameBut, Fields, KeptFields

\* The object after a finished file, which the decoder has read.
LEMMA FileRead ==
  ASSUME NEW c, NEW tables, NEW whole, ObjectType(c), ~c.error, FileInv(c, tables, c.all \/ whole),
         whole => AllSent(c, tables)
  PROVE  ObjectInv(JpegAbort(c), After(c.file, tables), whole)
<1> DEFINE d == JpegAbort(c)
           t == After(c.file, tables)
<1>1. DOMAIN c = Fields
  BY DEF ObjectType
<1>2. SameBut(c, d, Fields \ KeptFields) /\ d.global_state = "START" /\ d.next_scanline = 0
  BY <1>1, AbortKeeps
<1>3. \A k \in Slots : /\ t.quant[k] = LastDefined(c.file, "DQT", k, tables.quant[k])
                       /\ t.dc[k] = LastDefined(c.file, "DHT_DC", k, tables.dc[k])
                       /\ t.ac[k] = LastDefined(c.file, "DHT_AC", k, tables.ac[k])
  BY DEF After
<1>4. AllInForce(c.file, tables) => AllInForce(c.file, t)
  BY AfterInForce DEF FileInv
<1> HIDE DEF d, t
<1>5. /\ DOMAIN d = DOMAIN c /\ d.image = c.image /\ d.suspends = c.suspends /\ d.error = c.error
      /\ d.room = c.room /\ d.file = c.file /\ d.all = c.all
      /\ d.quant = c.quant /\ d.dc = c.dc /\ d.ac = c.ac
  BY <1>1, <1>2, AbortedFields
<1>6. ObjectType(d)
  BY <1>5, TypeKept DEF ObjectType
<1>7. FileInv(d, t, d.all \/ whole)
  BY <1>4, <1>5 DEF FileInv
<1>8. Rest(d, t, whole)
  BY <1>3, <1>5 DEF Rest, AllSent, SentIn
<1>9. ObjectInv(d, t, whole)
  BY <1>2, <1>5, <1>6, <1>7, <1>8 DEF ObjectInv
<1> QED BY <1>9 DEF d, t

\* The end of a file of an image.
LEMMA EndWritten ==
  ASSUME NEW c, NEW tables, NEW claim, Writing(c, tables, claim), ~c.error,
         NumSOS(c.file) = NumScans(c.image), NEW x, x.t = "EOI", NEW e, e = Emit(c, <<x>>)
  PROVE  /\ SameBut(c, e, EmitFields) /\ ObjectType(e) /\ FileInv(e, tables, claim)
         /\ ~e.error /\ claim => AllSent(e, tables)
<1>1. /\ SameBut(c, e, EmitFields) /\ e.room \in Nat /\ e.error \in BOOLEAN
      /\ e.error => e.file = c.file
      /\ ~e.error => e.file = With(c.file, <<x>>)
  BY EmitFacts DEF Writing
<1>2. ObjectType(c) /\ DOMAIN c = Fields /\ FileInv(c, tables, claim)
  BY DEF Writing, ObjectType
<1>3. /\ DOMAIN e = DOMAIN c /\ e.image = c.image /\ e.suspends = c.suspends /\ e.all = c.all
      /\ e.quant = c.quant /\ e.dc = c.dc /\ e.ac = c.ac
  BY <1>1, <1>2 DEF SameBut, EmitFields, Fields
<1>4. ObjectType(e)
  BY <1>1, <1>2, <1>3, TypeKept DEF ObjectType
<1>5. CASE e.error
  BY <1>1, <1>2, <1>3, <1>4, <1>5, FileKept
<1>6. CASE ~e.error
  <2> DEFINE f == c.file
  <2>1. Body(f, c.quant, c.dc, c.ac, c.last_restart_interval, OptimizeCoding(c), tables, claim)
    BY BodyOf DEF Writing
  <2> HIDE DEF f
  <2>2. /\ IsFile(With(f, <<x>>)) /\ Ordered(With(f, <<x>>)) /\ Intervals(With(f, <<x>>))
        /\ claim => AllInForce(With(f, <<x>>), tables)
        /\ claim => /\ SentIn(With(f, <<x>>), "DQT", c.quant, tables.quant)
                    /\ SentIn(With(f, <<x>>), "DHT_DC", c.dc, tables.dc)
                    /\ SentIn(With(f, <<x>>), "DHT_AC", c.ac, tables.ac)
        /\ NumSOS(With(f, <<x>>)) = NumSOS(f)
    BY <2>1, BodyEnd DEF With
  <2>3. e.file = With(f, <<x>>) /\ NumSOS(f) = NumScans(e.image)
    BY <1>1, <1>3, <1>6 DEF f
  <2>4. FileInv(e, tables, claim)
    BY <2>2, <2>3 DEF FileInv
  <2>5. claim => AllSent(e, tables)
    BY <1>3, <2>2, <2>3 DEF AllSent
  <2> QED BY <1>1, <1>4, <2>4, <2>5
<1> QED BY <1>5, <1>6

\* jpeg_finish_compress: the pass that took the lines ends, if it has them all.
LEMMA FirstPassEnds ==
  ASSUME NEW c, NEW tables, NEW whole, ObjectInv(c, tables, whole), ~c.error,
         c.global_state \in {"SCANNING", "RAW_OK", "WRCOEFS"}
  PROVE  /\ SameBut(c, FirstPassDone(c), EndFields)
         /\ Outcome(FirstPassDone(c), tables, c.all \/ whole)
         /\ ~FirstPassDone(c).error => Between(FirstPassDone(c))
<1> DEFINE claim == c.all \/ whole
<1>1. Writing(c, tables, claim)
  BY DEF ObjectInv, Writing
<1>2. ObjectType(c) /\ FileInv(c, tables, claim) /\ Outcome(c, tables, claim)
  BY <1>1 DEF Writing, Outcome
<1> HIDE DEF claim
<1>3. CASE c.global_state = "WRCOEFS"
  <2>1. FirstPassDone(c) = c /\ Between(c)
    BY <1>3 DEF FirstPassDone, ObjectInv
  <2> QED BY <1>2, <2>1, SameButItself DEF claim
<1>4. CASE c.global_state # "WRCOEFS" /\ c.next_scanline < c.image.image_height
  <2>1. FirstPassDone(c) = Fail(c)
    BY <1>4 DEF FirstPassDone
  <2>2. Outcome(Fail(c), tables, claim) /\ SameBut(c, Fail(c), {"error"}) /\ Fail(c).error = TRUE
    BY <1>2, FailOutcome, FailFacts
  <2>3. SameBut(c, Fail(c), EndFields)
    BY <2>2, SameButMore DEF EndFields
  <2> QED BY <2>1, <2>2, <2>3 DEF claim
<1>5. CASE c.global_state # "WRCOEFS" /\ ~(c.next_scanline < c.image.image_height)
  <2>1. FirstPassDone(c) = FinishPassMaster(c)
    BY <1>5 DEF FirstPassDone
  <2>2. MainPass(c)
    BY <1>5 DEF ObjectInv
  <2>3. c.image.image_height \in Nat \ {0}
    <3>1. \A m : m \in 1..JPEG_MAX_DIMENSION => m \in Nat \ {0}
      BY DimensionPositive
    <3> QED BY <1>1, <3>1 DEF Writing, Checked, LegalImage
  <2>4. c.next_scanline # 0
    BY <1>5, <2>3
  <2>5. ~c.call_pass_startup
    BY <2>2, <2>4 DEF MainPass
  <2>6. Settling(c, tables, claim)
    BY <1>1, <2>2, <2>5 DEF Settling
  <2> QED BY <2>1, <2>6, MainFinished DEF claim
<1> QED BY <1>3, <1>4, <1>5

\* The fields that are as they were when a file ends.
LEMMA EndsKept ==
  ASSUME NEW c, NEW d, DOMAIN c = Fields, SameBut(c, d, PassFields)
  PROVE  d.all = c.all /\ d.global_state = c.global_state
<1>1. {"all", "global_state"} \subseteq Fields \ PassFields
  BY DEF Fields, PassFields, TurnFields, WorkFields, HeaderFields, RowsFields, CodeFields, RowFields
<1> QED BY <1>1 DEF SameBut

FinishIn(c) ==
  Then(Then(FirstPassDone(c), RemainingPasses), LAMBDA d : Emit(d, <<[t |-> "EOI"]>>))

LEMMA FinishEnds ==
  ASSUME NEW c, NEW tables, NEW whole, ObjectInv(c, tables, whole), ~c.error,
         c.global_state \in {"SCANNING", "RAW_OK", "WRCOEFS"}
  PROVE  /\ FinishIn(c).error => ObjectInv(FinishIn(c), tables, whole)
         /\ ~FinishIn(c).error =>
              ObjectInv(JpegAbort(FinishIn(c)), After(FinishIn(c).file, tables), whole)
<1> DEFINE claim == c.all \/ whole
           p == FirstPassDone(c)
           q == RemainingPasses(p)
           x == [t |-> "EOI"]
           e == Emit(q, <<x>>)
           r == FinishIn(c)
<1>1. r = IF p.error THEN p ELSE IF q.error THEN q ELSE e
  BY DEF FinishIn, Then
<1>2. DOMAIN c = Fields /\ x.t = "EOI"
  BY DEF ObjectInv, ObjectType
<1>3. /\ SameBut(c, p, EndFields) /\ Outcome(p, tables, claim)
      /\ ~p.error => Between(p)
  BY FirstPassEnds
<1> HIDE DEF claim, p, x, r
<1>4. SameBut(c, p, PassFields)
  BY <1>3, SameButMore, PassFieldsHold
<1>5. ASSUME NEW d, SameBut(c, d, PassFields)
      PROVE  (claim <=> d.all \/ whole) /\ d.global_state \in {"SCANNING", "RAW_OK", "WRCOEFS"}
  BY <1>2, <1>5, EndsKept DEF claim
<1>6. ASSUME NEW d, SameBut(c, d, PassFields), Outcome(d, tables, claim), d.error
      PROVE  ObjectInv(d, tables, whole)
  <2>1. d.global_state \in {"START", "SCANNING", "RAW_OK", "WRCOEFS"} /\ (claim <=> d.all \/ whole)
    BY <1>5, <1>6
  <2>2. FileInv(d, tables, d.all \/ whole)
    BY <1>6, <2>1 DEF FileInv, Outcome
  <2> QED BY <1>6, <2>1, <2>2 DEF ObjectInv, Outcome
<1>7. CASE p.error
  <2>1. ObjectInv(p, tables, whole)
    BY <1>3, <1>4, <1>6, <1>7
  <2> QED BY <1>1, <1>7, <2>1 DEF r
<1>8. CASE ~p.error
  <2>1. Writing(p, tables, claim) /\ Between(p)
    BY <1>3, <1>8, WritingOutcome
  <2>2. /\ SameBut(p, q, PassFields) /\ Outcome(q, tables, claim)
        /\ ~q.error => NumSOS(q.file) = NumScans(q.image)
    BY <1>8, <2>1, PassesEnd
  <2>3. SameBut(c, q, PassFields)
    BY <1>4, <2>2, SameButTwice
  <2> HIDE DEF q
  <2>4. CASE q.error
    <3>1. ObjectInv(q, tables, whole)
      BY <1>6, <2>2, <2>3, <2>4
    <3> QED BY <1>1, <1>8, <2>4, <3>1 DEF r
  <2>5. CASE ~q.error
    <3>1. Writing(q, tables, claim)
      BY <2>2, <2>5, WritingOutcome
    <3>2. /\ SameBut(q, e, EmitFields) /\ ObjectType(e) /\ FileInv(e, tables, claim)
          /\ ~e.error /\ claim => AllSent(e, tables)
      BY <1>2, <2>2, <2>5, <3>1, EndWritten
    <3> HIDE DEF e
    <3>3. SameBut(c, e, PassFields)
      <4>1. EmitFields \subseteq PassFields
        BY DEF EmitFields, PassFields, TurnFields, HeaderFields
      <4> QED BY <2>3, <3>2, <4>1, SameButMore, SameButTwice
    <3>4. (claim <=> e.all \/ whole) /\ e.global_state \in {"SCANNING", "RAW_OK", "WRCOEFS"}
      BY <1>5, <3>3
    <3>5. FileInv(e, tables, e.all \/ whole)
      BY <3>2, <3>4 DEF FileInv
    <3>6. r = e
      BY <1>1, <1>8, <2>5
    <3>7. CASE e.error
      <4>1. ObjectInv(e, tables, whole)
        BY <3>2, <3>4, <3>5, <3>7 DEF ObjectInv
      <4> QED BY <3>6, <3>7, <4>1 DEF r
    <3>8. CASE ~e.error
      <4>1. ObjectInv(JpegAbort(e), After(e.file, tables), whole)
        BY <3>2, <3>4, <3>5, <3>8, FileRead
      <4> QED BY <3>6, <3>8, <4>1 DEF r
    <3> QED BY <3>7, <3>8
  <2> QED BY <2>4, <2>5
<1> QED BY <1>7, <1>8

\* A file of tables only.
LEMMA NoScanCounted ==
  ASSUME NEW f, IsFile(f), NumSOS(f) = 0 PROVE OfKind(f, {"SOS"}) = {}
<1>1. IsFiniteSet(OfKind(f, {"SOS"}))
  BY FiniteKinds
<1> QED BY <1>1, FS_EmptySet DEF NumSOS

TablesFile(q, d, a, Q, D, A) ==
  Four(<<[t |-> "SOI"]>>, Definitions("DQT", q, Q), Definitions("DHT_DC", d, D),
       Definitions("DHT_AC", a, A), <<[t |-> "EOI"]>>)

LEMMA TablesFileSays ==
  ASSUME NEW q, NEW d, NEW a, NEW Q, NEW D, NEW A, Q \subseteq Slots, D \subseteq Slots, A \subseteq Slots,
         IsTables(q), IsTables(d), IsTables(a), NEW tables, NEW claim,
         claim => Has(q, tables.quant) /\ Has(d, tables.dc) /\ Has(a, tables.ac),
         NEW f, f = TablesFile(q, d, a, Q, D, A)
  PROVE  /\ IsFile(f) /\ OfKind(f, {"SOS"}) = {}
         /\ claim => /\ SentIn(f, "DQT", MarkSent(q, Q), tables.quant)
                     /\ SentIn(f, "DHT_DC", MarkSent(d, D), tables.dc)
                     /\ SentIn(f, "DHT_AC", MarkSent(a, A), tables.ac)
<1> DEFINE s == [t |-> "SOI"]
           x == [t |-> "EOI"]
           gq == Definitions("DQT", q, Q)
           gd == Definitions("DHT_DC", d, D)
           ga == Definitions("DHT_AC", a, A)
           f1 == <<s>>
           f2 == f1 \o gq
           f3 == f2 \o gd
           f4 == f3 \o ga
<1>1. f = f4 \o <<x>>
  BY DEF TablesFile, Four
<1>2. s.t \notin HeaderKinds /\ s.t # "SOF" /\ s.t # "SOS" /\ x.t = "EOI"
  BY DEF HeaderKinds
<1> HIDE DEF s, x
<1>3. /\ Says(gq, "DQT", q, ToSend(q, Q)) /\ Says(gd, "DHT_DC", d, ToSend(d, D))
      /\ Says(ga, "DHT_AC", a, ToSend(a, A))
  BY DefinitionsSay
<1> HIDE DEF gq, gd, ga
<1>4. Body(<< >>, q, d, a, 0, FALSE, tables, claim)
  BY EmptyBody
<1>5. Body(f1, q, d, a, 0, FALSE, tables, claim) /\ NumSOS(f1) = 0 /\ OfKind(f1, {"SOF"}) = {}
  <2>1. Plain(f1)
    BY <1>2, PlainToken
  <2>2. Body(<< >> \o f1, q, d, a, 0, FALSE, tables, claim) /\ NumSOS(<< >> \o f1) = NumSOS(<< >>)
    BY <1>4, <2>1, BodyPlain
  <2>3. << >> \o f1 = f1
    BY OneToken, ConcatEmptySeq DEF IsFile
  <2>4. OfKind(f1, {"SOF"}) = {}
    BY <1>2, TokenKinds
  <2> QED BY <2>2, <2>3, <2>4, NothingSaid
<1> HIDE DEF f1
<1>6. Body(f2, MarkSent(q, Q), d, a, 0, FALSE, tables, claim) /\ NumSOS(f2) = 0
  BY <1>3, <1>5, BodyQuant
<1> HIDE DEF f2
<1>7. Body(f3, MarkSent(q, Q), MarkSent(d, D), a, 0, FALSE, tables, claim) /\ NumSOS(f3) = 0
  BY <1>3, <1>6, BodyDc
<1> HIDE DEF f3
<1>8. Body(f4, MarkSent(q, Q), MarkSent(d, D), MarkSent(a, A), 0, FALSE, tables, claim) /\ NumSOS(f4) = 0
  BY <1>3, <1>7, BodyAc
<1> HIDE DEF f4
<1>9. /\ IsFile(f4 \o <<x>>)
      /\ claim => /\ SentIn(f4 \o <<x>>, "DQT", MarkSent(q, Q), tables.quant)
                  /\ SentIn(f4 \o <<x>>, "DHT_DC", MarkSent(d, D), tables.dc)
                  /\ SentIn(f4 \o <<x>>, "DHT_AC", MarkSent(a, A), tables.ac)
      /\ NumSOS(f4 \o <<x>>) = 0
  BY <1>2, <1>8, BodyEnd
<1> QED BY <1>1, <1>9, NoScanCounted

\* jpeg_write_tables.
LEMMA TablesWritten ==
  ASSUME NEW c, ObjectType(c), ~c.error, c.file = << >>, NEW tables, NEW claim, Sendable(c, tables, claim),
         NEW e, e = WriteTablesOnly(c)
  PROVE  /\ SameBut(c, e, EmitFields \cup {"quant", "dc", "ac"}) /\ ObjectType(e)
         /\ IsFile(e.file) /\ OfKind(e.file, {"SOS"}) = {}
         /\ ~e.error /\ claim => AllSent(e, tables)
<1> DEFINE Q == {s \in Slots : c.quant[s].content # <<>>}
           D == {s \in Slots : c.dc[s].content # <<>>}
           A == {s \in Slots : c.ac[s].content # <<>>}
           q == MarkSent(c.quant, Q)
           d == MarkSent(c.dc, D)
           a == MarkSent(c.ac, A)
           m == [c EXCEPT !.quant = q, !.dc = d, !.ac = a]
           t == TablesFile(c.quant, c.dc, c.ac, Q, D, A)
<1>1. e = Emit(m, t)
  BY DEF WriteTablesOnly, TablesFile, Four
<1>2. Q \subseteq Slots /\ D \subseteq Slots /\ A \subseteq Slots
  OBVIOUS
<1> HIDE DEF Q, D, A
<1>3. DOMAIN c = Fields /\ IsTables(c.quant) /\ IsTables(c.dc) /\ IsTables(c.ac)
  BY DEF ObjectType
<1>4. IsTables(q) /\ IsTables(d) /\ IsTables(a)
  BY <1>3, MarkedSent
<1>5. /\ IsFile(t) /\ OfKind(t, {"SOS"}) = {}
      /\ claim => /\ SentIn(t, "DQT", q, tables.quant) /\ SentIn(t, "DHT_DC", d, tables.dc)
                  /\ SentIn(t, "DHT_AC", a, tables.ac)
  BY <1>2, <1>3, TablesFileSays DEF Sendable
<1> HIDE DEF q, d, a, t
<1>6. /\ SameBut(c, m, {"quant", "dc", "ac"}) /\ m.quant = q /\ m.dc = d /\ m.ac = a
  BY <1>3 DEF SameBut, Fields
<1> HIDE DEF m
<1>7. /\ DOMAIN m = DOMAIN c /\ m.image = c.image /\ m.suspends = c.suspends /\ m.all = c.all
      /\ m.error = c.error /\ m.room = c.room /\ m.file = << >>
  BY <1>3, <1>6 DEF SameBut, Fields
<1>8. ObjectType(m)
  BY <1>4, <1>6, <1>7, TypeKept DEF ObjectType
<1>9. /\ SameBut(m, e, EmitFields) /\ e.room \in Nat /\ e.error \in BOOLEAN
      /\ e.error => e.file = m.file
      /\ ~e.error => e.file = With(m.file, t)
  BY <1>1, <1>7, <1>8, EmitFacts
<1>10. /\ DOMAIN e = DOMAIN m /\ e.image = m.image /\ e.suspends = m.suspends /\ e.all = m.all
       /\ e.quant = q /\ e.dc = d /\ e.ac = a
  BY <1>3, <1>6, <1>7, <1>9 DEF SameBut, EmitFields, Fields
<1>11. ObjectType(e)
  BY <1>4, <1>6, <1>8, <1>9, <1>10, TypeKept DEF ObjectType
<1>12. With(<< >>, t) = t
  BY <1>5, ConcatEmptySeq DEF With, IsFile
<1>13. SameBut(c, e, EmitFields \cup {"quant", "dc", "ac"})
  BY <1>6, <1>9 DEF SameBut
<1>14. e.file = << >> \/ e.file = t
  BY <1>7, <1>9, <1>12
<1>15. IsFile(e.file) /\ OfKind(e.file, {"SOS"}) = {}
  BY <1>5, <1>14, NothingSaid
<1>16. ~e.error /\ claim => AllSent(e, tables)
  BY <1>5, <1>7, <1>9, <1>10, <1>12 DEF AllSent
<1> QED BY <1>11, <1>13, <1>15, <1>16
-----------------------------------------------------------------------------
(* The calls *)

LEMMA DefaultsFacts ==
  ASSUME NEW content
  PROVE  /\ IsTables(DefaultTables(content))
         /\ \A olds : Has(DefaultTables(content), olds)
BY DEF IsTables, DefaultTables, Has

\* An object of which no file was written says nothing.
LEMMA SilentObject ==
  ASSUME NEW c, NEW tables, NEW whole, ObjectType(c), IsFile(c.file), OfKind(c.file, {"SOS"}) = {},
         c.global_state = "START", c.next_scanline = 0, Sendable(c, tables, whole)
  PROVE  ObjectInv(c, tables, whole)
<1>1. FileInv(c, tables, c.all \/ whole)
  BY SilentInv
<1>2. Rest(c, tables, whole)
  BY DEF Sendable, Has, Rest
<1> QED BY <1>1, <1>2 DEF ObjectInv

\* jpeg_CreateCompress: nothing was written, no table counts as sent.
LEMMA InitHolds == Init => CompressInv
<1> SUFFICES ASSUME Init PROVE CompressInv
  OBVIOUS
<1>1. calls = [started |-> 0, whole |-> TRUE]
  BY DEF Init
<1>2. CallsType /\ calls.whole = TRUE
  BY <1>1 DEF CallsType
<1>3. PICK image \in Images, q \in Qualities, suspends \in BOOLEAN, room \in Rooms :
       cinfo = [image |-> image, suspends |-> suspends, error |-> FALSE,
                room |-> IF suspends THEN room ELSE Unlimited, file |-> <<>>, all |-> FALSE,
                quant |-> DefaultTables(q), dc |-> DefaultTables("std"), ac |-> DefaultTables("std"),
                global_state |-> "START", next_scanline |-> 0, in_row_ctr |-> 0,
                in_rows_avail |-> 0, pass_type |-> "none", pass_number |-> 0, total_passes |-> 0,
                scan_number |-> 0, is_last_pass |-> FALSE, call_pass_startup |-> FALSE,
                cur_iMCU_row |-> 0, rowgroup_ctr |-> 0, suspended |-> FALSE,
                main_buffer |-> <<>>, rows_to_go |-> 0, next_buf_row |-> 0,
                this_row_group |-> 0, next_buf_stop |-> 0, color_buf |-> <<>>,
                iMCU_row_num |-> 0, mcu_ctr |-> 0, MCU_vert_offset |-> 0,
                MCU_rows_per_iMCU_row |-> 0, whole_image |-> <<>>, compress_data |-> "none",
                coding |-> <<>>, last_restart_interval |-> 0, done |-> FALSE, scan |-> <<>>,
                restart_interval |-> 0, max_v_samp_factor |-> 0, total_iMCU_rows |-> 0]
  BY DEF Init
<1>4. DOMAIN cinfo = Fields
  BY <1>3 DEF Fields
<1>5. /\ cinfo.image = image /\ cinfo.suspends = suspends /\ cinfo.error = FALSE
      /\ cinfo.room = (IF suspends THEN room ELSE Unlimited) /\ cinfo.file = << >> /\ cinfo.all = FALSE
      /\ cinfo.quant = DefaultTables(q) /\ cinfo.dc = DefaultTables("std")
      /\ cinfo.ac = DefaultTables("std") /\ cinfo.global_state = "START" /\ cinfo.next_scanline = 0
  BY <1>3
<1>6. cinfo.room \in Nat
  BY <1>5, RoomsAssumption DEF Unlimited
<1>7. ObjectType(cinfo)
  BY <1>4, <1>5, <1>6, ImagesAssumption, DefaultsFacts DEF ObjectType
<1>8. Sendable(cinfo, known, calls.whole)
  BY <1>5, DefaultsFacts DEF Sendable
<1>9. ObjectInv(cinfo, known, calls.whole)
  BY <1>5, <1>7, <1>8, NothingSaid, SilentObject
<1> QED BY <1>2, <1>9 DEF CompressInv

\* The object between two files.
LEMMA IdleRests ==
  ASSUME CompressInv, Idle
  PROVE  /\ Resting(cinfo, known, calls.whole) /\ ObjectType(cinfo) /\ DOMAIN cinfo = Fields
         /\ Sendable(cinfo, known, calls.whole) /\ cinfo.next_scanline = 0
         /\ cinfo.global_state = "START" /\ ~cinfo.error
BY DEF CompressInv, Idle, Resting, ObjectInv, ObjectType, Rest, Sendable, Has

LEMMA SameCalls ==
  ASSUME CompressInv, UNCHANGED calls PROVE CallsType' /\ calls'.whole = calls.whole
BY DEF CompressInv, CallsType
LEMMA OneFileMore ==
  ASSUME CompressInv, calls' = [calls EXCEPT !.started = @ + 1]
  PROVE  CallsType' /\ calls'.whole = calls.whole
BY DEF CompressInv, CallsType

\* jpeg_set_defaults and what follows it.
LEMMA SetParametersKeeps ==
  ASSUME CompressInv, SetParameters PROVE CompressInv'
<1>1. CallsType' /\ calls'.whole = calls.whole /\ known' = known
  BY SameCalls DEF SetParameters
<1>2. PICK image \in Images, q \in Qualities :
        cinfo' = [cinfo EXCEPT !.image = image, !.file = <<>>, !.quant = DefaultTables(q)]
  BY DEF SetParameters
<1>3. /\ ObjectType(cinfo) /\ DOMAIN cinfo = Fields /\ Sendable(cinfo, known, calls.whole)
      /\ cinfo.next_scanline = 0 /\ cinfo.global_state = "START"
  BY IdleRests DEF SetParameters
<1>4. /\ SameBut(cinfo, cinfo', {"image", "file", "quant"})
      /\ cinfo'.image = image /\ cinfo'.file = << >> /\ cinfo'.quant = DefaultTables(q)
  BY <1>2, <1>3 DEF SameBut, Fields
<1>5. /\ DOMAIN cinfo' = Fields /\ cinfo'.suspends = cinfo.suspends /\ cinfo'.error = cinfo.error
      /\ cinfo'.all = cinfo.all /\ cinfo'.room = cinfo.room /\ cinfo'.dc = cinfo.dc /\ cinfo'.ac = cinfo.ac
      /\ cinfo'.global_state = "START" /\ cinfo'.next_scanline = 0
  BY <1>3, <1>4 DEF SameBut, Fields
<1>6. ObjectType(cinfo')
  BY <1>3, <1>4, <1>5, ImagesAssumption, DefaultsFacts DEF ObjectType
<1>7. Sendable(cinfo', known', calls'.whole)
  BY <1>1, <1>3, <1>4, <1>5, DefaultsFacts DEF Sendable
<1>8. ObjectInv(cinfo', known', calls'.whole)
  BY <1>4, <1>5, <1>6, <1>7, NothingSaid, SilentObject
<1> QED BY <1>1, <1>8 DEF CompressInv

\* jpeg_copy_critical_parameters.
LEMMA CopyCriticalParametersKeeps ==
  ASSUME CompressInv, CopyCriticalParameters PROVE CompressInv'
<1> DEFINE copied(image) ==
             [image EXCEPT !.scan_info = <<>>, !.optimize_coding = FALSE, !.raw_data_in = FALSE,
                           !.restart_interval = 0, !.restart_in_rows = 0]
<1>1. CallsType' /\ calls'.whole = calls.whole /\ known' = known
  BY SameCalls DEF CopyCriticalParameters
<1>2. PICK image \in Images, q \in Qualities :
        cinfo' = [cinfo EXCEPT !.image = copied(image), !.file = <<>>, !.quant = DefaultTables(q),
                               !.dc = DefaultTables("std"), !.ac = DefaultTables("std")]
  BY DEF CopyCriticalParameters
<1>3. copied(image) \in Parameters
  <2>1. image \in Parameters
    BY ImagesAssumption
  <2>2. << >> \in Seq(Scans)
    OBVIOUS
  <2> QED BY <2>1, <2>2 DEF Parameters
<1> HIDE DEF copied
<1>4. /\ ObjectType(cinfo) /\ DOMAIN cinfo = Fields
      /\ cinfo.next_scanline = 0 /\ cinfo.global_state = "START"
  BY IdleRests DEF CopyCriticalParameters
<1>5. /\ SameBut(cinfo, cinfo', {"image", "file", "quant", "dc", "ac"})
      /\ cinfo'.image = copied(image) /\ cinfo'.file = << >> /\ cinfo'.quant = DefaultTables(q)
      /\ cinfo'.dc = DefaultTables("std") /\ cinfo'.ac = DefaultTables("std")
  BY <1>2, <1>4 DEF SameBut, Fields
<1>6. /\ DOMAIN cinfo' = Fields /\ cinfo'.suspends = cinfo.suspends /\ cinfo'.error = cinfo.error
      /\ cinfo'.all = cinfo.all /\ cinfo'.room = cinfo.room
      /\ cinfo'.global_state = "START" /\ cinfo'.next_scanline = 0
  BY <1>4, <1>5 DEF SameBut, Fields
<1>7. ObjectType(cinfo')
  BY <1>3, <1>4, <1>5, <1>6, DefaultsFacts DEF ObjectType
<1>8. Sendable(cinfo', known', calls'.whole)
  BY <1>5, DefaultsFacts DEF Sendable
<1>9. ObjectInv(cinfo', known', calls'.whole)
  BY <1>5, <1>6, <1>7, <1>8, NothingSaid, SilentObject
<1> QED BY <1>1, <1>9 DEF CompressInv

\* jpeg_suppress_tables: the decoder has every table.
LEMMA SuppressTablesKeeps ==
  ASSUME CompressInv, SuppressTables PROVE CompressInv'
<1> DEFINE q == MarkSent(cinfo.quant, Slots)
           d == MarkSent(cinfo.dc, Slots)
           a == MarkSent(cinfo.ac, Slots)
<1>1. CallsType' /\ calls'.whole = calls.whole /\ known' = known
  BY SameCalls DEF SuppressTables
<1>2. cinfo' = [cinfo EXCEPT !.quant = q, !.dc = d, !.ac = a]
  BY DEF SuppressTables
<1>3. \A s \in Slots : /\ known.quant[s] = cinfo.quant[s].content
                       /\ known.dc[s] = cinfo.dc[s].content /\ known.ac[s] = cinfo.ac[s].content
  BY DEF SuppressTables
<1>4. /\ ObjectType(cinfo) /\ DOMAIN cinfo = Fields
      /\ cinfo.next_scanline = 0 /\ cinfo.global_state = "START" /\ ~cinfo.error
  BY IdleRests DEF SuppressTables
<1>5. IsTables(cinfo.quant) /\ IsTables(cinfo.dc) /\ IsTables(cinfo.ac)
  BY <1>4 DEF ObjectType
<1>6. /\ IsTables(q) /\ IsTables(d) /\ IsTables(a)
      /\ \A s \in Slots : /\ q[s].content = cinfo.quant[s].content
                          /\ d[s].content = cinfo.dc[s].content /\ a[s].content = cinfo.ac[s].content
  BY <1>5, MarkedSent
<1> HIDE DEF q, d, a
<1>7. SameBut(cinfo, cinfo', {"quant", "dc", "ac"}) /\ cinfo'.quant = q /\ cinfo'.dc = d /\ cinfo'.ac = a
  BY <1>2, <1>4 DEF SameBut, Fields
<1>8. /\ DOMAIN cinfo' = DOMAIN cinfo /\ cinfo'.image = cinfo.image /\ cinfo'.suspends = cinfo.suspends
      /\ cinfo'.error = cinfo.error /\ cinfo'.all = cinfo.all /\ cinfo'.room = cinfo.room
      /\ cinfo'.file = cinfo.file /\ cinfo'.global_state = "START" /\ cinfo'.next_scanline = 0
  BY <1>4, <1>7 DEF SameBut, Fields
<1>9. ObjectType(cinfo')
  BY <1>4, <1>6, <1>7, <1>8, TypeKept DEF ObjectType
<1>10. FileInv(cinfo', known', cinfo'.all \/ calls'.whole)
  <2>1. FileInv(cinfo, known, cinfo.all \/ calls.whole)
    BY DEF CompressInv, ObjectInv
  <2> QED BY <1>1, <1>8, <2>1 DEF FileInv
<1>11. Rest(cinfo', known', calls'.whole)
  BY <1>1, <1>3, <1>6, <1>7 DEF Rest
<1>12. ObjectInv(cinfo', known', calls'.whole)
  BY <1>8, <1>9, <1>10, <1>11 DEF ObjectInv
<1> QED BY <1>1, <1>12 DEF CompressInv

\* jpeg_write_tables.
LEMMA WriteTablesKeeps ==
  ASSUME CompressInv, WriteTables PROVE CompressInv'
<1> DEFINE c == [cinfo EXCEPT !.file = << >>]
           e == WriteTablesOnly(c)
<1>1. CallsType' /\ calls'.whole = calls.whole
  BY OneFileMore DEF WriteTables
<1>2. /\ cinfo' = Settled(IF e.error THEN e ELSE JpegAbort(e))
      /\ known' = IF e.error THEN known ELSE After(e.file, known)
  BY DEF WriteTables, Finished, Called
<1>3. /\ ObjectType(cinfo) /\ DOMAIN cinfo = Fields /\ Sendable(cinfo, known, calls.whole)
      /\ cinfo.global_state = "START" /\ ~cinfo.error
  BY IdleRests DEF WriteTables
<1>4. SameBut(cinfo, c, {"file"}) /\ c.file = << >>
  BY <1>3 DEF SameBut, Fields
<1> HIDE DEF c
<1>5. /\ DOMAIN c = Fields /\ c.image = cinfo.image /\ c.suspends = cinfo.suspends
      /\ c.error = cinfo.error /\ c.all = cinfo.all /\ c.room = cinfo.room
      /\ c.quant = cinfo.quant /\ c.dc = cinfo.dc /\ c.ac = cinfo.ac /\ c.global_state = "START"
  BY <1>3, <1>4 DEF SameBut, Fields
<1>6. ObjectType(c) /\ Sendable(c, known, calls.whole)
  BY <1>3, <1>5, TypeKept DEF ObjectType, Sendable
<1>7. /\ SameBut(c, e, EmitFields \cup {"quant", "dc", "ac"}) /\ ObjectType(e)
      /\ IsFile(e.file) /\ OfKind(e.file, {"SOS"}) = {}
      /\ ~e.error /\ calls.whole => AllSent(e, known)
  BY <1>3, <1>4, <1>5, <1>6, TablesWritten
<1> HIDE DEF e
<1>8. e.global_state = "START"
  BY <1>5, <1>7 DEF SameBut, EmitFields, Fields
<1>9. FileInv(e, known, e.all \/ calls.whole)
  BY <1>7, SilentInv
<1>10. CASE e.error
  <2>1. ObjectInv(e, known, calls.whole)
    BY <1>7, <1>8, <1>9, <1>10 DEF ObjectInv
  <2>2. ObjectInv(Settled(e), known, calls.whole)
    BY <2>1, SettledKeeps
  <2> QED BY <1>1, <1>2, <1>10, <2>2 DEF CompressInv
<1>11. CASE ~e.error
  <2>1. ObjectInv(JpegAbort(e), After(e.file, known), calls.whole)
    BY <1>7, <1>9, <1>11, FileRead
  <2>2. ObjectInv(Settled(JpegAbort(e)), After(e.file, known), calls.whole)
    BY <2>1, SettledKeeps
  <2> QED BY <1>1, <1>2, <1>11, <2>2 DEF CompressInv
<1> QED BY <1>10, <1>11

\* jpeg_start_compress and jpeg_write_coefficients.
LEMMA StartCompressKeeps ==
  ASSUME CompressInv, StartCompress PROVE CompressInv'
<1>1. CallsType' /\ calls'.whole = calls.whole /\ known' = known
  BY OneFileMore DEF StartCompress
<1>2. PICK all \in BOOLEAN : cinfo' = Settled(StartIn(cinfo, all))
  BY DEF StartCompress, Called, StartIn, Fresh
<1>3. Resting(cinfo, known, calls.whole)
  BY IdleRests DEF StartCompress
<1>4. ObjectInv(StartIn(cinfo, all), known, calls.whole)
  BY <1>3, CompressStarts
<1>5. ObjectInv(Settled(StartIn(cinfo, all)), known, calls.whole)
  BY <1>4, SettledKeeps
<1> QED BY <1>1, <1>2, <1>5 DEF CompressInv

LEMMA WriteCoefficientsKeeps ==
  ASSUME CompressInv, WriteCoefficients PROVE CompressInv'
<1>1. CallsType' /\ calls'.whole = calls.whole /\ known' = known
  BY OneFileMore DEF WriteCoefficients
<1>2. cinfo' = Settled(CoefsIn(cinfo))
  BY DEF WriteCoefficients, Called, CoefsIn
<1>3. Resting(cinfo, known, calls.whole)
  BY IdleRests DEF WriteCoefficients
<1>4. ObjectInv(CoefsIn(cinfo), known, calls.whole)
  BY <1>3, CoefficientsStart
<1>5. ObjectInv(Settled(CoefsIn(cinfo)), known, calls.whole)
  BY <1>4, SettledKeeps
<1> QED BY <1>1, <1>2, <1>5 DEF CompressInv

\* The object while a file is written.
LEMMA RunsWriting ==
  ASSUME CompressInv, Running({"SCANNING", "RAW_OK", "WRCOEFS"})
  PROVE  /\ ObjectInv(cinfo, known, calls.whole) /\ ~cinfo.error
         /\ cinfo.global_state \in {"SCANNING", "RAW_OK", "WRCOEFS"}
         /\ Writing(cinfo, known, cinfo.all \/ calls.whole) /\ DOMAIN cinfo = Fields
         /\ cinfo.global_state # "WRCOEFS" => MainPass(cinfo)
         /\ cinfo.global_state = "WRCOEFS" => Between(cinfo) /\ cinfo.scan_number = 0
BY DEF CompressInv, Running, ObjectInv, Writing, ObjectType

\* jpeg_write_marker.
LEMMA WriteMarkerKeeps ==
  ASSUME CompressInv, WriteMarker PROVE CompressInv'
<1> DEFINE t == <<[t |-> "COM"]>>
           e == Emit(cinfo, t)
           claim == cinfo.all \/ calls.whole
<1>1. CallsType' /\ calls'.whole = calls.whole /\ known' = known
  BY SameCalls DEF WriteMarker
<1>2. cinfo' = Settled(e)
  BY DEF WriteMarker, Called
<1>3. /\ ~cinfo.error /\ cinfo.global_state \in {"SCANNING", "RAW_OK", "WRCOEFS"}
      /\ Writing(cinfo, known, claim) /\ DOMAIN cinfo = Fields
      /\ cinfo.global_state # "WRCOEFS" => MainPass(cinfo)
      /\ cinfo.global_state = "WRCOEFS" => Between(cinfo) /\ cinfo.scan_number = 0
  BY RunsWriting DEF WriteMarker
<1>4. Plain(t)
  BY PlainToken DEF HeaderKinds
<1> HIDE DEF t, claim
<1>5. /\ SameBut(cinfo, e, EmitFields) /\ Outcome(e, known, claim)
      /\ ~e.error => StillWrites(cinfo, e, known, claim)
  BY <1>3, <1>4, EmitPlain
<1> HIDE DEF e
<1>6. /\ e.all = cinfo.all /\ e.global_state = cinfo.global_state
      /\ e.MCU_vert_offset = cinfo.MCU_vert_offset /\ e.mcu_ctr = cinfo.mcu_ctr
      /\ e.MCU_rows_per_iMCU_row = cinfo.MCU_rows_per_iMCU_row
      /\ e.next_scanline = cinfo.next_scanline
  BY <1>3, <1>5 DEF SameBut, EmitFields, Fields
<1>7. ~e.error => NumSOS(e.file) = NumSOS(cinfo.file) /\ NumSOF(e.file) = NumSOF(cinfo.file)
  BY <1>5 DEF StillWrites
<1>8. claim <=> e.all \/ calls.whole
  BY <1>6 DEF claim
<1>9. CASE cinfo.global_state # "WRCOEFS"
  <2>1. MainPass(cinfo) /\ e.global_state \in {"SCANNING", "RAW_OK"}
    BY <1>3, <1>6, <1>9
  <2>2. RowsSet(e) /\ (cinfo.call_pass_startup => e.next_scanline = 0)
    BY <1>6, <2>1 DEF MainPass, RowsSet
  <2>3. EmitFields \subseteq RowsFields \cup {"error", "next_scanline", "in_rows_avail"}
    BY DEF EmitFields, RowsFields, CodeFields
  <2>4. ~e.error => MainPass(e)
    BY <1>3, <1>5, <1>7, <2>1, <2>2, <2>3, MainPassKept
  <2>5. ObjectInv(e, known, calls.whole)
    BY <1>5, <1>8, <2>1, <2>4, MainInv
  <2> QED BY <1>1, <1>2, <2>5, SettledKeeps DEF CompressInv
<1>10. CASE cinfo.global_state = "WRCOEFS"
  <2>1. Between(cinfo) /\ cinfo.scan_number = 0 /\ e.global_state = "WRCOEFS"
    BY <1>3, <1>6, <1>10
  <2>2. ~e.error => Between(e) /\ e.scan_number = 0
    BY <1>3, <1>5, <1>7, <2>1, BetweenKept DEF EmitFields
  <2>3. Outcome(e, known, e.all \/ calls.whole)
    BY <1>5, <1>8 DEF Outcome, FileInv, TablesInv
  <2>4. ObjectInv(e, known, calls.whole)
    BY <2>1, <2>2, <2>3, CoefInv
  <2> QED BY <1>1, <1>2, <2>4, SettledKeeps DEF CompressInv
<1> QED BY <1>9, <1>10

\* jpeg_write_scanlines.
LEMMA WriteScanlinesKeeps ==
  ASSUME CompressInv, NEW n, WriteScanlines(n) PROVE CompressInv'
<1> DEFINE s == PassStartup(cinfo)
           d == IF s.error THEN s ELSE LinesIn(s, n)
<1>1. CallsType' /\ calls'.whole = calls.whole /\ known' = known
  BY SameCalls DEF WriteScanlines
<1>2. cinfo' = Settled(d)
  BY DEF WriteScanlines, Called, Then, LinesIn
<1>3. /\ ObjectInv(cinfo, known, calls.whole) /\ ~cinfo.error
      /\ cinfo.global_state \in {"SCANNING", "RAW_OK"}
  BY DEF WriteScanlines, Running, CompressInv
<1>4. s.error => d = s
  OBVIOUS
<1>5. ~s.error /\ Settling(s, known, cinfo.all \/ calls.whole)
        => Settling(d, known, cinfo.all \/ calls.whole) /\ SameBut(s, d, CallFields)
  BY LinesKeep
<1> HIDE DEF d
<1>6. ObjectInv(d, known, calls.whole)
  BY <1>3, <1>4, <1>5, CallEnds
<1>7. ObjectInv(Settled(d), known, calls.whole)
  BY <1>6, SettledKeeps
<1> QED BY <1>1, <1>2, <1>7 DEF CompressInv

\* jpeg_write_raw_data.
LEMMA WriteRawDataKeeps ==
  ASSUME CompressInv, WriteRawData PROVE CompressInv'
<1> DEFINE s == PassStartup(cinfo)
           d == IF s.error THEN s ELSE RawIn(s)
<1>1. CallsType' /\ calls'.whole = calls.whole /\ known' = known
  BY SameCalls DEF WriteRawData
<1>2. cinfo' = Settled(d)
  BY DEF WriteRawData, Called, Then, RawIn
<1>3. /\ ObjectInv(cinfo, known, calls.whole) /\ ~cinfo.error
      /\ cinfo.global_state \in {"SCANNING", "RAW_OK"}
  BY DEF WriteRawData, Running, CompressInv
<1>4. s.error => d = s
  OBVIOUS
<1>5. ~s.error /\ Settling(s, known, cinfo.all \/ calls.whole)
        => Settling(d, known, cinfo.all \/ calls.whole) /\ SameBut(s, d, CallFields)
  BY RawKeeps
<1> HIDE DEF d
<1>6. ObjectInv(d, known, calls.whole)
  BY <1>3, <1>4, <1>5, CallEnds
<1>7. ObjectInv(Settled(d), known, calls.whole)
  BY <1>6, SettledKeeps
<1> QED BY <1>1, <1>2, <1>7 DEF CompressInv

\* jpeg_finish_compress.
LEMMA FinishCompressKeeps ==
  ASSUME CompressInv, FinishCompress PROVE CompressInv'
<1> DEFINE e == FinishIn(cinfo)
<1>1. CallsType' /\ calls'.whole = calls.whole
  BY SameCalls DEF FinishCompress
<1>2. /\ cinfo' = Settled(IF e.error THEN e ELSE JpegAbort(e))
      /\ known' = IF e.error THEN known ELSE After(e.file, known)
  BY DEF FinishCompress, Finished, Called, FinishIn
<1>3. /\ ObjectInv(cinfo, known, calls.whole) /\ ~cinfo.error
      /\ cinfo.global_state \in {"SCANNING", "RAW_OK", "WRCOEFS"}
  BY RunsWriting DEF FinishCompress
<1>4. /\ e.error => ObjectInv(e, known, calls.whole)
      /\ ~e.error => ObjectInv(JpegAbort(e), After(e.file, known), calls.whole)
  BY <1>3, FinishEnds
<1> HIDE DEF e
<1>5. CASE e.error
  <2>1. ObjectInv(Settled(e), known, calls.whole)
    BY <1>4, <1>5, SettledKeeps
  <2> QED BY <1>1, <1>2, <1>5, <2>1 DEF CompressInv
<1>6. CASE ~e.error
  <2>1. ObjectInv(Settled(JpegAbort(e)), After(e.file, known), calls.whole)
    BY <1>4, <1>6, SettledKeeps
  <2> QED BY <1>1, <1>2, <1>6, <2>1 DEF CompressInv
<1> QED BY <1>5, <1>6

\* jpeg_abort_compress: what was given up may be missing from now on.
LEMMA AbortKeepsAll ==
  ASSUME CompressInv, Abort PROVE CompressInv'
<1> DEFINE a == JpegAbort(cinfo)
<1>1. CallsType' /\ calls'.whole = FALSE
  BY DEF Abort, CompressInv, CallsType
<1>2. cinfo' = [a EXCEPT !.error = FALSE, !.file = << >>]
  BY DEF Abort
<1>3. ObjectType(cinfo) /\ DOMAIN cinfo = Fields
  BY DEF CompressInv, ObjectInv, ObjectType
<1>4. SameBut(cinfo, a, Fields \ KeptFields) /\ a.global_state = "START" /\ a.next_scanline = 0
  BY <1>3, AbortKeeps
<1> HIDE DEF a
<1>5. /\ DOMAIN a = DOMAIN cinfo /\ a.image = cinfo.image /\ a.suspends = cinfo.suspends
      /\ a.room = cinfo.room /\ a.all = cinfo.all
      /\ a.quant = cinfo.quant /\ a.dc = cinfo.dc /\ a.ac = cinfo.ac
  BY <1>3, <1>4, AbortedFields
<1>6. SameBut(a, cinfo', {"error", "file"}) /\ cinfo'.error = FALSE /\ cinfo'.file = << >>
  BY <1>2, <1>3, <1>5 DEF SameBut, Fields
<1>7. /\ DOMAIN cinfo' = DOMAIN cinfo /\ cinfo'.image = cinfo.image /\ cinfo'.suspends = cinfo.suspends
      /\ cinfo'.room = cinfo.room /\ cinfo'.all = cinfo.all
      /\ cinfo'.quant = cinfo.quant /\ cinfo'.dc = cinfo.dc /\ cinfo'.ac = cinfo.ac
      /\ cinfo'.global_state = "START" /\ cinfo'.next_scanline = 0
  BY <1>3, <1>4, <1>5, <1>6 DEF SameBut, Fields
<1>8. ObjectType(cinfo')
  BY <1>3, <1>6, <1>7, TypeKept DEF ObjectType
<1>9. Sendable(cinfo', known', calls'.whole)
  BY <1>1 DEF Sendable
<1>10. ObjectInv(cinfo', known', calls'.whole)
  BY <1>6, <1>7, <1>8, <1>9, NothingSaid, SilentObject
<1> QED BY <1>1, <1>10 DEF CompressInv

\* The application takes the data.
LEMMA TakeOutputKeeps ==
  ASSUME CompressInv, TakeOutput PROVE CompressInv'
<1>1. CallsType' /\ calls'.whole = calls.whole /\ known' = known
  BY SameCalls DEF TakeOutput
<1>2. PICK room \in Rooms : cinfo' = [cinfo EXCEPT !.room = room]
  BY DEF TakeOutput
<1>3. ObjectInv(cinfo, known, calls.whole) /\ DOMAIN cinfo = Fields
  BY DEF CompressInv, ObjectInv, ObjectType
<1>4. SameBut(cinfo, cinfo', {"room"}) /\ cinfo'.room \in Nat
  BY <1>2, <1>3, RoomsAssumption DEF SameBut, Fields
<1>5. ObjectInv(cinfo', known, calls.whole)
  BY <1>3, <1>4, RoomKept
<1> QED BY <1>1, <1>5 DEF CompressInv

-----------------------------------------------------------------------------
(* What is kept over all calls *)

LEMMA NothingChanges ==
  ASSUME CompressInv, UNCHANGED vars PROVE CompressInv'
<1>1. cinfo' = cinfo /\ known' = known /\ calls' = calls
  BY DEF vars
<1> QED BY <1>1 DEF CompressInv, CallsType

\* Every call of the application, in any order, with the destination full at any
\* point of it, keeps the invariant of the object, its file and its decoder.
THEOREM CompressInvariant == Spec => []CompressInv
<1>1. Init => CompressInv
  BY InitHolds
<1>2. CompressInv /\ [Next]_vars => CompressInv'
  <2> SUFFICES ASSUME CompressInv, [Next]_vars PROVE CompressInv'
    OBVIOUS
  <2>1. CASE SetParameters
    BY <2>1, SetParametersKeeps
  <2>2. CASE CopyCriticalParameters
    BY <2>2, CopyCriticalParametersKeeps
  <2>3. CASE SuppressTables
    BY <2>3, SuppressTablesKeeps
  <2>4. CASE WriteTables
    BY <2>4, WriteTablesKeeps
  <2>5. CASE StartCompress
    BY <2>5, StartCompressKeeps
  <2>6. CASE WriteCoefficients
    BY <2>6, WriteCoefficientsKeeps
  <2>7. CASE WriteMarker
    BY <2>7, WriteMarkerKeeps
  <2>8. CASE \E n \in Chunks : WriteScanlines(n)
    BY <2>8, WriteScanlinesKeeps
  <2>9. CASE WriteRawData
    BY <2>9, WriteRawDataKeeps
  <2>10. CASE FinishCompress
    BY <2>10, FinishCompressKeeps
  <2>11. CASE Abort
    BY <2>11, AbortKeepsAll
  <2>12. CASE TakeOutput
    BY <2>12, TakeOutputKeeps
  <2>13. CASE UNCHANGED vars
    BY <2>13, NothingChanges
  <2> QED BY <2>1, <2>2, <2>3, <2>4, <2>5, <2>6, <2>7, <2>8, <2>9, <2>10, <2>11, <2>12, <2>13 DEF Next
<1> QED BY <1>1, <1>2, PTL DEF Spec

LEMMA FileHolds ==
  ASSUME CompressInv PROVE FileInv(cinfo, known, cinfo.all \/ calls.whole)
BY DEF CompressInv, ObjectInv

\* A file has its frame before its scans, numbers them in order, and ends with the
\* last of them (jcmaster.c:400-475, jcmarker.c:498-594).
THEOREM ScansKept == Spec => []ScansInOrder
<1>1. CompressInv => ScansInOrder
  <2> SUFFICES ASSUME CompressInv PROVE ScansInOrder
    OBVIOUS
  <2>1. FileInv(cinfo, known, cinfo.all \/ calls.whole)
    BY FileHolds
  <2>2. \A kinds : Tokens(kinds) = OfKind(cinfo.file, kinds)
    BY DEF Tokens, OfKind
  <2>3. \A n \in Tokens({"SOS"}) :
          cinfo.file[n].scan = Cardinality({m \in Tokens({"SOS"}) : m <= n})
    BY <2>1, <2>2 DEF FileInv, Ordered
  <2>4. Tokens({"SOS"}) # {} =>
          Cardinality(Tokens({"SOF"})) = 1 /\ \A n \in Tokens({"SOS"}) : Max(Tokens({"SOF"})) < n
    BY <2>1, <2>2 DEF FileInv, Ordered, NumSOF
  <2>5. Tokens({"EOI"}) # {} /\ Tokens({"SOS"}) # {} =>
          Cardinality(Tokens({"SOS"})) = NumScans(cinfo.image)
    BY <2>1, <2>2 DEF FileInv, NumSOS
  <2> QED BY <2>3, <2>4, <2>5 DEF ScansInOrder
<1> QED BY <1>1, CompressInvariant, PTL

\* What a file says up to a place of it.
LEMMA PrefixDefined ==
  ASSUME NEW f, IsFile(f), NEW n \in 1..Len(f), NEW kind, NEW s, NEW old
  PROVE  LastDefined(SubSeq(f, 1, n), kind, s, old) =
           IF DefsUpTo(f, kind, s, n) = {} THEN old ELSE f[Max(DefsUpTo(f, kind, s, n))].content
<1> DEFINE g == SubSeq(f, 1, n)
           at == DefsUpTo(f, kind, s, n)
<1>1. Len(f) \in Nat /\ DOMAIN f = 1..Len(f)
  BY FileFacts
<1>2. DOMAIN g = 1..n /\ \A m \in 1..n : g[m] = f[m]
  BY <1>1 DEF IsFile
<1> HIDE DEF g
<1>3. Defs(g, kind, s) = at
  BY <1>1, <1>2 DEF Defs, DefsUpTo
<1>4. Positions(at)
  BY <1>1 DEF Positions, DefsUpTo, Defs
<1>5. at # {} => Max(at) \in at
  BY <1>4, Largest
<1>6. at # {} => g[Max(at)] = f[Max(at)]
  BY <1>1, <1>2, <1>5 DEF DefsUpTo, Defs
<1>7. LastDefined(g, kind, s, old) = IF at = {} THEN old ELSE g[Max(at)].content
  BY <1>3 DEF LastDefined, Defs
<1> QED BY <1>6, <1>7 DEF g

LEMMA ForcePrefix ==
  ASSUME NEW f, IsFile(f), NEW n \in 1..Len(f), NEW kind, NEW k, NEW v, NEW old,
         InForceAt(f, n, kind, k, v, old)
  PROVE  LastDefined(SubSeq(f, 1, n), kind, k, old) = v
<1> DEFINE at == DefsUpTo(f, kind, k, n)
<1>1. LastDefined(SubSeq(f, 1, n), kind, k, old) = IF at = {} THEN old ELSE f[Max(at)].content
  BY PrefixDefined
<1>2. IF at # {} THEN f[Max(at)].content = v ELSE v = old
  BY DEF InForceAt
<1> QED BY <1>1, <1>2

\* At each scan the decoder has the tables and the restart interval the scan is
\* coded with, those that earlier files left it included (jcapimin.c:107-117,
\* jcmarker.c:551-594).
THEOREM TablesKnown == Spec => []TablesInForce
<1>1. CompressInv => TablesInForce
  <2> SUFFICES ASSUME CompressInv, cinfo.all \/ calls.whole, NEW n \in Tokens({"SOS"})
               PROVE  LET s == cinfo.file[n]
                          have == After(SubSeq(cinfo.file, 1, n), known)
                          sof == cinfo.file[Max({m \in Tokens({"SOF"}) : m < n})]
                          dri == {m \in Tokens({"DRI"}) : m < n}
                      IN  /\ \A k \in DOMAIN s.dc : have.dc[k] = s.dc[k]
                          /\ \A k \in DOMAIN s.ac : have.ac[k] = s.ac[k]
                          /\ \A k \in DOMAIN sof.quant : have.quant[k] = sof.quant[k]
                          /\ s.interval = IF dri = {} THEN 0 ELSE cinfo.file[Max(dri)].interval
    BY DEF TablesInForce
  <2> DEFINE f == cinfo.file
             g == SubSeq(f, 1, n)
             have == After(g, known)
             sof == f[Max({m \in Tokens({"SOF"}) : m < n})]
             dri == {m \in Tokens({"DRI"}) : m < n}
  <2>1. IsFile(f) /\ Intervals(f) /\ AllInForce(f, known)
    BY FileHolds DEF FileInv
  <2>2. \A kinds : Tokens(kinds) = OfKind(f, kinds)
    BY DEF Tokens, OfKind
  <2>3. n \in OfKind(f, {"SOS"}) /\ n \in 1..Len(f)
    BY <2>1, <2>2, FileFacts DEF OfKind
  <2>4. sof = FrameOf(f, n) /\ dri = KindBefore(f, {"DRI"}, n)
    BY <2>2 DEF FrameOf, KindBefore
  <2>5. \A k \in Slots : /\ have.quant[k] = LastDefined(g, "DQT", k, known.quant[k])
                         /\ have.dc[k] = LastDefined(g, "DHT_DC", k, known.dc[k])
                         /\ have.ac[k] = LastDefined(g, "DHT_AC", k, known.ac[k])
    BY DEF After
  <2> HIDE DEF f, g, have, sof, dri
  <2>6. \A k \in DOMAIN f[n].dc : have.dc[k] = f[n].dc[k]
    <3> SUFFICES ASSUME NEW k \in DOMAIN f[n].dc PROVE have.dc[k] = f[n].dc[k]
      OBVIOUS
    <3>1. k \in Slots /\ InForceAt(f, n, "DHT_DC", k, f[n].dc[k], known.dc[k])
      BY <2>1, <2>3 DEF AllInForce, ForceIn, Coded
    <3> QED BY <2>1, <2>3, <2>5, <3>1, ForcePrefix DEF g
  <2>7. \A k \in DOMAIN f[n].ac : have.ac[k] = f[n].ac[k]
    <3> SUFFICES ASSUME NEW k \in DOMAIN f[n].ac PROVE have.ac[k] = f[n].ac[k]
      OBVIOUS
    <3>1. k \in Slots /\ InForceAt(f, n, "DHT_AC", k, f[n].ac[k], known.ac[k])
      BY <2>1, <2>3 DEF AllInForce, ForceIn, Coded
    <3> QED BY <2>1, <2>3, <2>5, <3>1, ForcePrefix DEF g
  <2>8. \A k \in DOMAIN sof.quant : have.quant[k] = sof.quant[k]
    <3> SUFFICES ASSUME NEW k \in DOMAIN sof.quant PROVE have.quant[k] = sof.quant[k]
      OBVIOUS
    <3>1. k \in Slots /\ InForceAt(f, n, "DQT", k, sof.quant[k], known.quant[k])
      BY <2>1, <2>3, <2>4 DEF AllInForce, QuantIn
    <3> QED BY <2>1, <2>3, <2>5, <3>1, ForcePrefix DEF g
  <2>9. f[n].interval = IF dri = {} THEN 0 ELSE f[Max(dri)].interval
    BY <2>1, <2>3, <2>4 DEF Intervals, LastInterval
  <2> QED BY <2>6, <2>7, <2>8, <2>9 DEF f, g, have, sof, dri
<1> QED BY <1>1, CompressInvariant, PTL
===============================================================================
