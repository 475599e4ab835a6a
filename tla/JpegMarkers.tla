----------------------------- MODULE JpegMarkers -----------------------------
(***************************************************************************)
(* The markers of a JPEG file: how jcmarker.c writes them, byte by byte,   *)
(* and how jdmarker.c reads them back from a source that may have to stop  *)
(* at any byte.  A call that runs out of bytes starts its marker over when *)
(* it is made again, except for a marker being saved, which goes on where  *)
(* it stopped; bytes to be skipped may not even be there yet.              *)
(*                                                                         *)
(* Entropy-coded data is any bytes without a marker; its decoder may leave *)
(* some of them unread, and may have found the next marker already.        *)
(***************************************************************************)
EXTENDS JpegFrame, JpegMarkerCodes, TLC

CONSTANTS
  Files,      \* what may be written: sequences of segments
  Limits,     \* how many bytes of a marker the application may ask to save
  Deliveries, \* how many bytes may arrive at a time
  Left        \* how many bytes of a scan's data the decoder may leave unread

VARIABLES
  file,    \* segs: the segments written; bytes; ends: where each segment ends
  source,  \* suspends; there: the bytes that have arrived
  reader   \* the marker reader and the fields of the object it fills in

markers == <<file, source, reader>>

APP0_DATA_LEN == 14
APP14_DATA_LEN == 12
APPN_DATA_LEN == 14
DCTSIZE2 == 64
NUM_TBLS == 4

\* jpeg_natural_order: where the i-th coefficient of the zigzag is in its block.
NaturalOrder == <<
   0,  1,  8, 16,  9,  2,  3, 10, 17, 24, 32, 25, 18, 11,  4,  5,
  12, 19, 26, 33, 40, 48, 41, 34, 27, 20, 13,  6,  7, 14, 21, 28,
  35, 42, 49, 56, 57, 50, 43, 36, 29, 22, 15, 23, 30, 37, 44, 51,
  58, 59, 52, 45, 38, 31, 39, 46, 53, 60, 61, 54, 47, 55, 62, 63>>

JFIF == <<74, 70, 73, 70, 0>>
ADOBE == <<65, 100, 111, 98, 101>>

-----------------------------------------------------------------------------
(* Writing: jcmarker.c *)

EmitMarker(mark) == <<255, mark>>
Emit2Bytes(value) == <<(value \div 256) % 256, value % 256>>

EmitDqt(index, quantval) ==
  LET prec == IF \E i \in DOMAIN quantval : quantval[i] > 255 THEN 1 ELSE 0
      entry(i) == LET q == quantval[NaturalOrder[i]]
                  IN  IF prec = 1 THEN Emit2Bytes(q) ELSE <<q>>
  IN  EmitMarker(DQT) \o Emit2Bytes(DCTSIZE2 * (prec + 1) + 3) \o <<index + 16 * prec>>
      \o FlattenSeq([i \in 1..DCTSIZE2 |-> entry(i)])

EmitDht(index, is_ac, htbl) ==
  EmitMarker(DHT) \o Emit2Bytes(Len(htbl.huffval) + 19) \o <<IF is_ac THEN index + 16 ELSE index>>
  \o htbl.bits \o htbl.huffval

EmitDri(interval) == EmitMarker(DRI) \o Emit2Bytes(4) \o Emit2Bytes(interval)

EmitSof(frame) ==
  EmitMarker(IF frame.progressive THEN SOF2 ELSE SOF0)
  \o Emit2Bytes(3 * Len(frame.comp_info) + 8) \o <<8>>
  \o Emit2Bytes(frame.image_height) \o Emit2Bytes(frame.image_width) \o <<Len(frame.comp_info)>>
  \o FlattenSeq([i \in DOMAIN frame.comp_info |->
       LET c == frame.comp_info[i]
       IN  <<c.id, c.h_samp_factor * 16 + c.v_samp_factor, c.quant_tbl_no>>])

\* Of the tables, the ones the scan uses; the others count as table 0.
ScanTables(frame, scan, c) ==
  [dc |-> IF frame.progressive /\ (scan.Ss # 0 \/ scan.Ah # 0) THEN 0 ELSE c.dc_tbl_no,
   ac |-> IF frame.progressive /\ scan.Ss = 0 THEN 0 ELSE c.ac_tbl_no]
EmitSos(frame, scan) ==
  EmitMarker(SOS) \o Emit2Bytes(2 * Len(scan.comps) + 6) \o <<Len(scan.comps)>>
  \o FlattenSeq([i \in DOMAIN scan.comps |->
       LET c == frame.comp_info[scan.comps[i]]
           t == ScanTables(frame, scan, c)
       IN  <<c.id, t.dc * 16 + t.ac>>])
  \o <<scan.Ss, scan.Se, scan.Ah * 16 + scan.Al>>

EmitJfifApp0(d) ==
  EmitMarker(APP0) \o Emit2Bytes(16) \o JFIF \o <<1, 1, d.unit>>
  \o Emit2Bytes(d.x) \o Emit2Bytes(d.y) \o <<0, 0>>

AdobeTransform(space) == CASE space = "YCbCr" -> 1 [] space = "YCCK" -> 2 [] OTHER -> 0
EmitAdobeApp14(space) ==
  EmitMarker(APP14) \o Emit2Bytes(14) \o ADOBE \o Emit2Bytes(100)
  \o <<0, 0, 0, 0>> \o <<AdobeTransform(space)>>

\* write_marker_header and write_marker_byte.
WriteMarker(marker, data) == EmitMarker(marker) \o Emit2Bytes(Len(data) + 2) \o data

\* A segment of a file: one of the above, coded data, or what other programs
\* write: a marker without parameters, a length that cannot be.
Written(s) ==
  CASE s.k = "SOI" -> EmitMarker(SOI)
    [] s.k = "EOI" -> EmitMarker(EOI)
    [] s.k = "JFIF" -> EmitJfifApp0(s.density)
    [] s.k = "Adobe" -> EmitAdobeApp14(s.space)
    [] s.k = "marker" -> WriteMarker(s.marker, s.data)
    [] s.k = "DQT" -> EmitDqt(s.slot, s.quantval)
    [] s.k = "DHT" -> EmitDht(s.slot, s.is_ac, s.htbl)
    [] s.k = "DRI" -> EmitDri(s.interval)
    [] s.k = "SOF" -> EmitSof(s.frame)
    [] s.k = "SOS" -> EmitSos(s.frame, s.scan)
    [] s.k = "data" -> s.bytes
    [] s.k = "alone" -> EmitMarker(s.marker)
    [] s.k = "bogus" -> EmitMarker(s.marker) \o Emit2Bytes(s.length)

-----------------------------------------------------------------------------
(* Input: the macros of jdmarker.c *)

\* A reader "d" reads at d.at; d.next is where it starts over when it has to
\* wait.  A source that does not suspend makes up an EOI at the end of the file.
ByteAt(i) == IF i <= Len(file.bytes) THEN file.bytes[i]
             ELSE IF (i - Len(file.bytes)) % 2 = 1 THEN 255 ELSE EOI
Here(d, n) == IF source.suspends THEN Max({0, Min({n, source.there - d.at + 1})}) ELSE n

Then(d, Op(_)) == IF d.wait \/ d.error THEN d ELSE Op(d)
Fail(d) == [d EXCEPT !.error = TRUE]

\* INPUT_BYTE, n times: the bytes are given to Op.
Input(d, n, Op(_, _)) ==
  IF Here(d, n) < n THEN [d EXCEPT !.wait = TRUE]
  ELSE Op([d EXCEPT !.at = @ + n], [i \in 1..n |-> ByteAt(d.at + i - 1)])
Input2Bytes(d, Op(_, _)) == Input(d, 2, LAMBDA e, b : Op(e, 256 * b[1] + b[2]))
InputSync(d) == [d EXCEPT !.next = d.at]

\* skip_input_data: whether the bytes are there or not.
SkipInputData(d, length) == IF length > 0 THEN InputSync([d EXCEPT !.at = @ + length]) ELSE InputSync(d)

-----------------------------------------------------------------------------
(* Markers with parameters: get_soi to get_dri *)

NoFrame == <<>>
GetSoi(d) ==
  IF d.saw_SOI THEN Fail(d)
  ELSE [d EXCEPT !.saw_SOI = TRUE, !.restart_interval = 0, !.JFIF = <<>>, !.Adobe = -1]

GetSof(d, progressive) ==
  Input2Bytes(d, LAMBDA e, length :
    Input(e, 6, LAMBDA f, b :
      LET n == b[6]
          height == 256 * b[2] + b[3]
          width == 256 * b[4] + b[5]
      IN  IF f.saw_SOF \/ height = 0 \/ width = 0 \/ n = 0 \/ length - 8 # 3 * n THEN Fail(f)
          ELSE Input(f, 3 * n, LAMBDA g, c :
            InputSync([g EXCEPT !.saw_SOF = TRUE, !.frame =
              [progressive |-> progressive, image_height |-> height, image_width |-> width,
               comps |-> [i \in 1..n |-> <<c[3 * i - 2], c[3 * i - 1] \div 16, c[3 * i - 1] % 16, c[3 * i]>>]]]))))

\* get_sos: components are found by their id.
ScanHeader(d, n, b) ==
  LET at(i) == {ci \in DOMAIN d.frame.comps : d.frame.comps[ci][1] = b[2 * i - 1]}
  IN  IF \E i \in 1..n : at(i) = {} THEN Fail(d)
      ELSE InputSync([d EXCEPT
             !.scan = [comps |-> [i \in 1..n |-> <<Min(at(i)), b[2 * i] \div 16, b[2 * i] % 16>>],
                       Ss |-> b[2 * n + 1], Se |-> b[2 * n + 2],
                       Ah |-> b[2 * n + 3] \div 16, Al |-> b[2 * n + 3] % 16]])
\* Mutant: the scan is counted before the last of its header is there.
GetSosCounted(d) ==
  IF ~d.saw_SOF THEN Fail(d)
  ELSE Input2Bytes(d, LAMBDA e, length : Input(e, 1, LAMBDA f, n :
    IF length # 2 * n[1] + 6 \/ n[1] \notin 1..MAX_COMPS_IN_SCAN THEN Fail(f)
    ELSE Input([f EXCEPT !.input_scan_number = @ + 1], 2 * n[1] + 3, LAMBDA g, b : ScanHeader(g, n[1], b))))

GetSos(d) ==
  IF ~d.saw_SOF THEN Fail(d)
  ELSE Input2Bytes(d, LAMBDA e, length : Input(e, 1, LAMBDA f, n :
    IF length # 2 * n[1] + 6 \/ n[1] \notin 1..MAX_COMPS_IN_SCAN THEN Fail(f)
    ELSE Input(f, 2 * n[1] + 3, LAMBDA g, b :
           [ScanHeader(g, n[1], b) EXCEPT !.input_scan_number = @ + 1])))

\* get_dht: tables as long as there may be one; each is in force at once.
RECURSIVE GetTables(_, _)
SetTable(d, index, htbl, length) ==
  IF index % 16 >= NUM_TBLS \/ index >= 32 THEN Fail(d)
  ELSE GetTables(IF index >= 16 THEN [d EXCEPT !.ac[index - 16] = htbl] ELSE [d EXCEPT !.dc[index] = htbl],
                 length)
GetTables(d, length) ==
  IF length <= 16 THEN IF length # 0 THEN Fail(d) ELSE InputSync(d)
  ELSE Input(d, 17, LAMBDA e, b :
    LET count == FoldLeft(LAMBDA x, y : x + y, 0, Tail(b))
    IN  IF count > 256 \/ count > length - 17 THEN Fail(e)
        ELSE Input(e, count, LAMBDA f, v :
               SetTable(f, b[1], [bits |-> Tail(b), huffval |-> v], length - 17 - count)))
GetDht(d) == Input2Bytes(d, LAMBDA e, length : GetTables(e, length - 2))

\* get_dqt: entries are stored as they come, out of the zigzag; those stored
\* before the source ran out are stored again.
RECURSIVE GetQuantTables(_, _)
Stored(old, d, prec, many) ==
  LET value(i) == IF prec = 0 THEN ByteAt(d.at + i - 1)
                  ELSE 256 * ByteAt(d.at + 2 * i - 2) + ByteAt(d.at + 2 * i - 1)
      at(p) == CHOOSE i \in 1..DCTSIZE2 : NaturalOrder[i] = p
  IN  [p \in 0..DCTSIZE2 - 1 |-> IF at(p) <= many THEN value(at(p))
                                 ELSE IF old = <<>> THEN 0 ELSE old[p]]
QuantEntries(d, slot, prec, length) ==
  LET size == DCTSIZE2 * (prec + 1)
      here == Here(d, size)
      stored == [d EXCEPT !.quant[slot] = Stored(@, d, prec, here \div (prec + 1))]
  IN  IF here < size THEN [stored EXCEPT !.wait = TRUE]
      ELSE GetQuantTables([stored EXCEPT !.at = @ + size], length - size - 1)
GetQuantTables(d, length) ==
  IF length <= 0 THEN IF length # 0 THEN Fail(d) ELSE InputSync(d)
  ELSE Input(d, 1, LAMBDA e, b :
    IF b[1] % 16 >= NUM_TBLS THEN Fail(e)
    ELSE QuantEntries(e, b[1] % 16, IF b[1] >= 16 THEN 1 ELSE 0, length))
GetDqt(d) == Input2Bytes(d, LAMBDA e, length : GetQuantTables(e, length - 2))

GetDri(d) ==
  Input2Bytes(d, LAMBDA e, length :
    IF length # 4 THEN Fail(e)
    ELSE Input2Bytes(e, LAMBDA f, interval : InputSync([f EXCEPT !.restart_interval = interval])))

-----------------------------------------------------------------------------
(* Markers of applications: examine_app0 to skip_variable *)

StartsWith(data, id) == Len(data) >= Len(id) /\ SubSeq(data, 1, Len(id)) = id
ExamineApp0(d, data) ==
  IF Len(data) < APP0_DATA_LEN \/ ~StartsWith(data, JFIF) THEN d
  ELSE [d EXCEPT !.JFIF = [unit |-> data[8], x |-> 256 * data[9] + data[10], y |-> 256 * data[11] + data[12]]]
ExamineApp14(d, data) ==
  IF Len(data) < APP14_DATA_LEN \/ ~StartsWith(data, ADOBE) THEN d
  ELSE [d EXCEPT !.Adobe = data[12]]
Examine(d, data) ==
  CASE d.unread_marker = APP0 -> ExamineApp0(d, data)
    [] d.unread_marker = APP14 -> ExamineApp14(d, data)
    [] OTHER -> d

\* get_interesting_appn and skip_variable.
GetInterestingAppn(d) ==
  Input2Bytes(d, LAMBDA e, length :
    Input(e, Max({0, Min({length - 2, APPN_DATA_LEN})}), LAMBDA f, data :
      SkipInputData(Examine(f, data), length - 2 - Len(data))))
SkipVariable(d) == Input2Bytes(d, LAMBDA e, length : SkipInputData(e, length - 2))

\* Mutant: the place to go on at is not moved along with the bytes saved.
CollectAgain(d) ==
  LET many == Here(d, d.cur.limit - Len(d.cur.data))
      got == [d EXCEPT !.cur.data = @ \o [i \in 1..many |-> ByteAt(d.at + i - 1)], !.at = @ + many]
  IN  IF Len(got.cur.data) < d.cur.limit THEN [got EXCEPT !.wait = TRUE] ELSE got

\* save_marker: what is there is saved, and the reader goes on after it.
Collect(d) ==
  LET many == Here(d, d.cur.limit - Len(d.cur.data))
      got == [d EXCEPT !.cur.data = @ \o [i \in 1..many |-> ByteAt(d.at + i - 1)], !.at = @ + many]
  IN  IF Len(got.cur.data) < d.cur.limit THEN InputSync([got EXCEPT !.wait = TRUE]) ELSE got
MarkerSaved(d) ==
  SkipInputData(Examine([d EXCEPT !.marker_list = Append(@, d.cur), !.cur = <<>>], d.cur.data),
                d.cur.length - d.cur.limit)
SaveMarker(d) ==
  IF d.cur # <<>> THEN Then(Collect(d), MarkerSaved)
  ELSE Input2Bytes(d, LAMBDA e, length :
    IF length < 2 THEN InputSync(Examine(e, <<>>))
    ELSE Then(Collect([InputSync(e) EXCEPT
           !.cur = [marker |-> e.unread_marker, length |-> length - 2, data |-> <<>>,
                    limit |-> Min({length - 2, e.limits[e.unread_marker]})]]), MarkerSaved))

\* The method jpeg_save_markers or jinit_marker_reader chose.
ProcessAppn(d) ==
  IF d.limits[d.unread_marker] # 0 THEN SaveMarker(d)
  ELSE IF d.unread_marker \in {APP0, APP14} THEN GetInterestingAppn(d)
  ELSE SkipVariable(d)

-----------------------------------------------------------------------------
(* Finding markers: next_marker, first_marker, read_markers *)

Discarded(d, n) == InputSync([d EXCEPT !.discarded = @ + n])

\* Bytes are discarded up to an FF that no 0 follows; FFs may be repeated.
RECURSIVE NextMarker(_)
RECURSIVE PastFill(_)
Found(d, c) ==
  InputSync([d EXCEPT !.unread_marker = c, !.discarded = 0,
                      !.warned = IF d.discarded = 0 THEN @ ELSE Append(@, d.discarded)])
AfterFill(d, c) ==
  CASE c = 255 -> PastFill(d)
    [] c = 0 -> NextMarker(Discarded(d, 2))
    [] OTHER -> Found(d, c)
PastFill(d) == Input(d, 1, LAMBDA e, c : AfterFill(e, c[1]))
NextMarker(d) ==
  Input(d, 1, LAMBDA e, c : IF c[1] # 255 THEN NextMarker(Discarded(e, 1)) ELSE PastFill(e))

FirstMarker(d) ==
  Input(d, 2, LAMBDA e, c :
    IF c # EmitMarker(SOI) THEN Fail(e) ELSE InputSync([e EXCEPT !.unread_marker = SOI]))

\* read_markers, on to the next SOS or EOI.
RECURSIVE ReadMarkers(_)
Handled(d) ==
  CASE d.unread_marker = SOI -> GetSoi(d)
    [] d.unread_marker \in {SOF0, SOF1, SOF2} -> GetSof(d, d.unread_marker = SOF2)
    [] d.unread_marker = SOS -> GetSos(d)
    [] d.unread_marker = EOI -> d
    [] d.unread_marker = DHT -> GetDht(d)
    [] d.unread_marker = DQT -> GetDqt(d)
    [] d.unread_marker = DRI -> GetDri(d)
    [] d.unread_marker \in APP0..APP15 \cup {COM} -> ProcessAppn(d)
    [] d.unread_marker \in RST0..RST7 \cup {TEM} -> d
    [] d.unread_marker \in {DNL, DAC} -> SkipVariable(d)
    [] OTHER -> Fail(d)
Processed(d, marker) ==
  IF marker \in {SOS, EOI}
  THEN [d EXCEPT !.unread_marker = 0, !.ret = IF marker = SOS THEN "SOS" ELSE "EOI"]
  ELSE ReadMarkers([d EXCEPT !.unread_marker = 0])
Process(d) == Then(Handled(d), LAMBDA e : Processed(e, d.unread_marker))
ReadMarkers(d) ==
  IF d.unread_marker # 0 THEN Process(d)
  ELSE Then(IF d.saw_SOI THEN NextMarker(d) ELSE FirstMarker(d), Process)

-----------------------------------------------------------------------------
(* Calls *)

\* default_decompress_parms: the color space of a file is guessed.
GuessColorspace(d) ==
  LET id(i) == d.frame.comps[i][1]
      adobe(transforms, other) == IF d.Adobe \in DOMAIN transforms THEN transforms[d.Adobe] ELSE other
  IN  CASE Len(d.frame.comps) = 1 -> "GRAYSCALE"
        [] Len(d.frame.comps) = 3 ->
             IF d.JFIF # <<>> THEN "YCbCr"
             ELSE IF d.Adobe >= 0 THEN adobe(0 :> "RGB" @@ 1 :> "YCbCr", "YCbCr")
             ELSE IF id(1) = 82 /\ id(2) = 71 /\ id(3) = 66 THEN "RGB" ELSE "YCbCr"
        [] Len(d.frame.comps) = 4 ->
             IF d.Adobe >= 0 THEN adobe(0 :> "CMYK" @@ 2 :> "YCCK", "YCCK") ELSE "CMYK"
        [] OTHER -> "UNKNOWN"

\* reset_marker_reader; jpeg_abort gives the saved markers back.
ResetMarkerReader(d) ==
  [d EXCEPT !.frame = NoFrame, !.input_scan_number = 0, !.unread_marker = 0, !.saw_SOI = FALSE,
            !.saw_SOF = FALSE, !.discarded = 0, !.cur = <<>>, !.marker_list = <<>>, !.warned = <<>>,
            !.scan = <<>>, !.ret = "", !.space = ""]

\* jinit_marker_reader, for a file that is being written or is all there.
MarkersInit ==
  /\ \E segs \in Files, suspends \in BOOLEAN :
       LET written == [i \in DOMAIN segs |-> Written(segs[i])]
       IN  /\ file = [segs |-> segs, bytes |-> FlattenSeq(written),
                      ends |-> [i \in DOMAIN segs |-> Len(FlattenSeq(SubSeq(written, 1, i)))]]
           /\ source = [suspends |-> suspends, there |-> 0]
  /\ reader = [next |-> 1, at |-> 1, wait |-> FALSE, error |-> FALSE, ret |-> "", asked |-> {},
               limits |-> [m \in APP0..APP15 \cup {COM} |-> 0], unread_marker |-> 0,
               saw_SOI |-> FALSE, saw_SOF |-> FALSE, discarded |-> 0, warned |-> <<>>,
               cur |-> <<>>, marker_list |-> <<>>, restart_interval |-> 0, JFIF |-> <<>>, Adobe |-> -1,
               quant |-> [s \in 0..NUM_TBLS - 1 |-> <<>>], dc |-> [s \in 0..NUM_TBLS - 1 |-> <<>>],
               ac |-> [s \in 0..NUM_TBLS - 1 |-> <<>>], frame |-> NoFrame, scan |-> <<>>,
               input_scan_number |-> 0, space |-> ""]

\* jpeg_save_markers, once for each kind of marker and before anything is read.
Limited(marker, limit) ==
  CASE limit = 0 -> 0
    [] marker = APP0 -> Max({limit, APP0_DATA_LEN})
    [] marker = APP14 -> Max({limit, APP14_DATA_LEN})
    [] OTHER -> limit
SaveMarkers(marker, limit) ==
  /\ reader.next = 1 /\ source.there = 0 /\ ~reader.saw_SOI /\ marker \notin reader.asked
  /\ reader' = [reader EXCEPT !.limits[marker] = Limited(marker, limit), !.asked = @ \cup {marker}]
  /\ UNCHANGED <<file, source>>

\* A call that reads on: jpeg_read_header up to the first SOS, jpeg_consume_input
\* after a scan.
Called(d) ==
  IF d.ret = "SOS" /\ d.input_scan_number = 1 /\ ~d.error
  THEN [d EXCEPT !.space = GuessColorspace(d)] ELSE d
Start(d) == [d EXCEPT !.at = d.next, !.wait = FALSE, !.ret = ""]
Read == Called(ReadMarkers(Start(reader)))
ReadOn ==
  /\ ~reader.error /\ reader.ret \notin {"SOS", "EOI"}
  /\ reader' = Read
  /\ UNCHANGED <<file, source>>

\* The entropy decoder reads the data of a scan, all but what it has no use for,
\* and then perhaps the marker after it.
DataEnd == Min({file.ends[i] : i \in {j \in DOMAIN file.segs : /\ file.segs[j].k = "data"
                                                               /\ file.ends[j] >= reader.next}})
DecodeScan ==
  /\ ~reader.error /\ reader.ret = "SOS"
  /\ LET upto(i) == ~source.suspends \/ i <= source.there
     IN  \/ \E left \in Left :
              /\ upto(DataEnd - left)
              /\ reader' = [reader EXCEPT !.next = DataEnd - left + 1, !.ret = ""]
         \/ /\ upto(DataEnd + 2) /\ file.bytes[DataEnd + 1] = 255
            /\ reader' = [reader EXCEPT !.next = DataEnd + 3, !.ret = "",
                                        !.unread_marker = file.bytes[DataEnd + 2]]
  /\ UNCHANGED <<file, source>>

\* jpeg_finish_decompress or jpeg_abort, at the end of an image: on to the next.
NextImage ==
  /\ reader.ret = "EOI" /\ reader.next <= Len(file.bytes)
  /\ reader' = ResetMarkerReader(reader)
  /\ UNCHANGED <<file, source>>

Deliver ==
  /\ source.suspends /\ source.there < Len(file.bytes)
  /\ \E n \in Deliveries : source' = [source EXCEPT !.there = Min({@ + n, Len(file.bytes)})]
  /\ UNCHANGED <<file, reader>>

MarkersNext ==
  \/ \E marker \in {APP0, COM}, limit \in Limits : SaveMarkers(marker, limit)
  \/ ReadOn \/ DecodeScan \/ NextImage \/ Deliver

MarkersSpec == MarkersInit /\ [][MarkersNext]_markers

-----------------------------------------------------------------------------
(* Properties *)

\* What the segments read so far have said, the tables since the beginning, the
\* rest since the last SOI.
SegsRead == SelectSeq([i \in DOMAIN file.segs |-> [seg |-> file.segs[i], end |-> file.ends[i]]],
                      LAMBDA s : s.end < reader.next)
LastOr(test(_), of(_), none) ==
  LET at == {i \in DOMAIN SegsRead : test(SegsRead[i].seg)}
  IN  IF at = {} THEN none ELSE of(SegsRead[Max(at)].seg)
InImage == LET soi == {i \in DOMAIN SegsRead : SegsRead[i].seg.k = "SOI"}
           IN  SubSeq(SegsRead, Max(soi), Len(SegsRead))
Since(k) == LET s == SelectSeq(InImage, LAMBDA x : x.seg.k = k) IN [i \in DOMAIN s |-> s[i].seg]

\* Whatever bytes the source has to stop at, when a call reaches a scan or the
\* end of the file the tables, the frame, the scan, the restart interval and
\* the color space are those written, sent with this image or before
\* (jdmarker.c:166-186 "Other side effects require more care").
ReadAsWritten ==
  reader.ret \in {"SOS", "EOI"} /\ ~reader.error =>
    /\ \A s \in 0..NUM_TBLS - 1 :
         /\ reader.quant[s] = LastOr(LAMBDA x : x.k = "DQT" /\ x.slot = s, LAMBDA x : x.quantval, <<>>)
         /\ reader.dc[s] = LastOr(LAMBDA x : x.k = "DHT" /\ x.slot = s /\ ~x.is_ac, LAMBDA x : x.htbl, <<>>)
         /\ reader.ac[s] = LastOr(LAMBDA x : x.k = "DHT" /\ x.slot = s /\ x.is_ac, LAMBDA x : x.htbl, <<>>)
    /\ reader.restart_interval = IF Since("DRI") = <<>> THEN 0 ELSE Last(Since("DRI")).interval
    /\ Since("JFIF") # <<>> => reader.JFIF = Since("JFIF")[1].density
    /\ reader.ret = "SOS" =>
         LET sos == Last(Since("SOS"))
             comp(c) == <<c.id, c.h_samp_factor, c.v_samp_factor, c.quant_tbl_no>>
             used(i) == ScanTables(sos.frame, sos.scan, sos.frame.comp_info[sos.scan.comps[i]])
         IN  /\ reader.frame = [progressive |-> sos.frame.progressive,
                                image_height |-> sos.frame.image_height,
                                image_width |-> sos.frame.image_width,
                                comps |-> [i \in DOMAIN sos.frame.comp_info |-> comp(sos.frame.comp_info[i])]]
             /\ reader.scan = [sos.scan EXCEPT !.comps =
                                 [i \in DOMAIN @ |-> <<@[i], used(i).dc, used(i).ac>>]]
             /\ reader.input_scan_number = Len(Since("SOS"))
             /\ reader.space = sos.frame.space

\* Every marker the application asked for is saved once, whole up to the length
\* asked for, in the order of the file; the bytes between markers are counted
\* once; and a call that has all of the file never waits for more of it
\* (jdmarker.c:178-183, 885-888).
MarkersSaved ==
  LET apps == SelectSeq(InImage, LAMBDA s : s.seg.k \in {"JFIF", "marker"})
      code(s) == IF s.k = "JFIF" THEN APP0 ELSE s.marker
      asked == SelectSeq(apps, LAMBDA s : code(s.seg) # DNL /\ reader.limits[code(s.seg)] # 0)
      data(s) == LET all == Written(s) IN SubSeq(all, 5, Len(all))
      kept(s) == SubSeq(data(s), 1, Min({Len(data(s)), reader.limits[code(s)]}))
      saved == reader.marker_list
  IN  /\ reader.ret \in {"SOS", "EOI"} /\ ~reader.error =>
           /\ [i \in DOMAIN saved |-> <<saved[i].marker, saved[i].length, saved[i].data>>]
                = [i \in DOMAIN asked |-> <<code(asked[i].seg), Len(data(asked[i].seg)), kept(asked[i].seg)>>]
           /\ \A i \in DOMAIN reader.warned : reader.warned[i] \in Left \ {0}
      /\ ~reader.error /\ reader.ret = "" /\ (~source.suspends \/ source.there = Len(file.bytes)) =>
           ~Read.wait
=============================================================================
