----------------------------- MODULE JpegHuffman -----------------------------
(***************************************************************************)
(* A Huffman-coded sequential scan of the JPEG library, from coefficients  *)
(* to bytes and back: jchuff.c and jdhuff.c with the restart markers of    *)
(* jdmarker.c.                                                             *)
(*                                                                         *)
(* The coder counts the symbols of the scan, makes its tables and codes it *)
(* into a buffer that may be full at any byte; the file reaches the        *)
(* decoder a few bytes at a time, without some of the restart segments.    *)
(* Coder and decoder give up an MCU when they must wait and start it again *)
(* later.  A block is the sequence of its coefficients in zigzag order.    *)
(***************************************************************************)
EXTENDS JpegHuffTables, JpegMarkerCodes

CONSTANTS
  Images,      \* the scans coded: sequences of MCUs, an MCU a block per entry of Membership
  Membership,  \* MCU_membership: the component of each block of an MCU
  Intervals,   \* the restart intervals, 0 for none
  BufferSize,  \* the destination's buffer
  Arrivals,    \* how many bytes the source may get at a time
  MaxLost      \* how many restart segments in a row may be lost

VARIABLES
  scan,     \* what is coded: the image, the restart interval, suspending or not
  phase,    \* "gather", "encode", "sent" or "failed"
  coder,    \* the entropy encoder: next MCU, predictions, restarts, bits put
  dest,     \* the bytes in the buffer, and those already taken from it
  input,    \* the file as it arrives: its bytes and how many are there
  decoder,  \* the entropy decoder: predictions, restarts, bits got, output
  lost      \* the restart segments missing from the file

entropy == <<scan, phase, coder, dest, input, decoder, lost>>

Component == Range(Membership)
NoPrediction == [c \in Component |-> 0]
NoCounts == [s \in {} |-> 0]
BlockOf(mcu, b) == scan.image[mcu][b]

EntropyInit ==
  /\ \E image \in Images, interval \in Intervals, suspends \in BOOLEAN, ac \in BOOLEAN :
       scan = [image |-> image, interval |-> interval, suspends |-> suspends, ac_needed |-> ac]
  /\ phase = "gather"
  /\ coder = [next |-> 1, last_dc_val |-> NoPrediction, restarts_to_go |-> scan.interval,
              next_restart_num |-> 0, put |-> <<>>, dc |-> NoCounts, ac |-> NoCounts]
  /\ dest = [buffer |-> <<>>, taken |-> <<>>]
  /\ input = [bytes |-> <<>>, there |-> 0]
  /\ decoder = [last_dc_val |-> NoPrediction, restarts_to_go |-> scan.interval,
                next_restart_num |-> 0, get |-> <<>>, at |-> 1, unread_marker |-> 0,
                insufficient_data |-> FALSE, output |-> <<>>]
  /\ lost = {}

-----------------------------------------------------------------------------
(* Counting: htest_one_block and encode_mcu_gather *)

\* The zeros right before a coefficient, its symbol, and the last DC value of
\* its component when block b of an MCU is coded.
Run(block, k) == k - 1 - Max({j \in 1..k - 1 : j = 1 \/ block[j] # 0})
RunSymbol(block, k) == (Run(block, k) % 16) * 16 + NBits(block[k])
Prediction(last_dc_val, mcu, b) ==
  LET before == {a \in 1..b - 1 : Membership[a] = Membership[b]}
  IN  IF before = {} THEN last_dc_val[Membership[b]] ELSE BlockOf(mcu, Max(before))[1]
LastDc(last_dc_val, mcu) ==
  [c \in Component |-> BlockOf(mcu, Max({b \in DOMAIN Membership : Membership[b] = c}))[1]]

\* Mutant: runs of sixteen zeros are not counted.
AcCountedShort(block) ==
  LET coded == {k \in 2..64 : block[k] # 0}
      many(s) == Cardinality({k \in coded : RunSymbol(block, k) = s})
                 + (IF s = 0 /\ block[64] = 0 THEN 1 ELSE 0)
  IN  [s \in {t \in 0..255 : many(t) > 0} |-> many(s)]

\* htest_one_block: how often each symbol of the block is met.
AcCounted(block) ==
  LET coded == {k \in 2..64 : block[k] # 0}
      zrl == MapThenSumSet(LAMBDA k : Run(block, k) \div 16, coded)
      many(s) == Cardinality({k \in coded : RunSymbol(block, k) = s})
                 + (IF s = 240 THEN zrl ELSE 0) + (IF s = 0 /\ block[64] = 0 THEN 1 ELSE 0)
  IN  [s \in {t \in 0..255 : many(t) > 0} |-> many(s)]

HtestOneBlock(c, mcu, b) ==
  LET diff == BlockOf(mcu, b)[1] - Prediction(c.last_dc_val, mcu, b)
  IN  [c EXCEPT !.dc = @ (+) SetToBag({NBits(diff)}), !.ac = @ (+) AcCounted(BlockOf(mcu, b))]

EncodeMcuGather ==
  /\ phase = "gather" /\ coder.next <= Len(scan.image)
  /\ LET restart == scan.interval > 0 /\ coder.restarts_to_go = 0
         ready == IF restart THEN [coder EXCEPT !.last_dc_val = NoPrediction,
                                                !.restarts_to_go = scan.interval]
                  ELSE coder
         counted == FoldLeft(LAMBDA c, b : HtestOneBlock(c, coder.next, b),
                             ready, [b \in DOMAIN Membership |-> b])
     IN  coder' = [counted EXCEPT !.next = @ + 1,
                                  !.last_dc_val = LastDc(@, coder.next),
                                  !.restarts_to_go = IF scan.interval > 0 THEN @ - 1 ELSE @]
  /\ UNCHANGED <<scan, phase, dest, input, decoder, lost>>

\* finish_pass_gather makes the tables, and start_pass_huff starts the scan.
FinishPassGather ==
  /\ phase = "gather" /\ coder.next > Len(scan.image)
  /\ coder' = [next |-> 1, last_dc_val |-> NoPrediction, restarts_to_go |-> scan.interval,
               next_restart_num |-> 0, put |-> <<>>,
               dc |-> GenOptimalTable(coder.dc), ac |-> GenOptimalTable(coder.ac)]
  /\ phase' = "encode"
  /\ UNCHANGED <<scan, dest, input, decoder, lost>>

-----------------------------------------------------------------------------
(* Coding: encode_one_block and encode_mcu_huff *)

\* encode_one_block: the symbols with the bits after them, per table.
DcItem(diff) == <<NBits(diff), Magnitude(diff)>>
AcItems(block) ==
  LET items(k) == IF block[k] = 0 THEN <<>>
                  ELSE [z \in 1..Run(block, k) \div 16 |-> <<240, <<>>>>]
                       \o <<<<RunSymbol(block, k), Magnitude(block[k])>>>>
  IN  FlattenSeq([i \in 1..63 |-> items(i + 1)])
      \o IF block[64] = 0 THEN <<<<0, <<>>>>>> ELSE <<>>

\* A symbol without a code is an error.
Known(table, items) == \A i \in DOMAIN items : items[i][1] \in DOMAIN table.code
CodeOf(table, items) == FlattenSeq([i \in DOMAIN items |-> table.code[items[i][1]] \o items[i][2]])

\* emit_bits: whole bytes, a zero stuffed after a byte of ones.
Stuffed(byte) == IF byte = 255 THEN <<255, 0>> ELSE <<byte>>
EmitBytes(bits) ==
  FlattenSeq([i \in 1..Len(bits) \div 8 |-> Stuffed(ValueOf(SubSeq(bits, 8 * i - 7, 8 * i)))])
Rest(bits) == SubSeq(bits, 8 * (Len(bits) \div 8) + 1, Len(bits))

\* flush_bits: seven ones, and what is left of them is dropped.
FlushBits(put) == EmitBytes(put \o [i \in 1..7 |-> 1])

\* What an MCU adds to the file, and the bits it leaves in put_buffer.
McuBytes ==
  LET restart == scan.interval > 0 /\ coder.restarts_to_go = 0
      marker == IF restart THEN FlushBits(coder.put) \o <<255, RST0 + coder.next_restart_num>>
                ELSE <<>>
      dctbl == MakeCDerivedTbl(coder.dc, 15)
      actbl == MakeCDerivedTbl(coder.ac, 255)
      last == IF restart THEN NoPrediction ELSE coder.last_dc_val
      dc(b) == <<DcItem(BlockOf(coder.next, b)[1] - Prediction(last, coder.next, b))>>
      ac(b) == AcItems(BlockOf(coder.next, b))
      ok == \A b \in DOMAIN Membership : Known(dctbl, dc(b)) /\ Known(actbl, ac(b))
      bits == (IF restart THEN <<>> ELSE coder.put)
              \o FlattenSeq([b \in DOMAIN Membership |-> CodeOf(dctbl, dc(b)) \o CodeOf(actbl, ac(b))])
  IN  [ok |-> ok, restart |-> restart, put |-> IF ok THEN Rest(bits) ELSE <<>>,
       bytes |-> IF ok THEN marker \o EmitBytes(bits) ELSE <<>>]

\* Writing fills the buffer; the byte that fills it up has it emptied by the
\* destination, or takes the MCU back if the destination suspends.
EmitMcu(m) ==
  LET full == Len(dest.buffer) + Len(m.bytes)
      \* empty_output_buffer takes the whole buffer each time
      kept == full % BufferSize
      all == dest.buffer \o m.bytes
      left == IF ~m.restart THEN coder.restarts_to_go ELSE scan.interval
  IN  IF ~m.ok THEN phase' = "failed" /\ UNCHANGED <<coder, dest>>
      ELSE /\ scan.suspends => full < BufferSize
           /\ dest' = IF scan.suspends THEN [dest EXCEPT !.buffer = all]
                      ELSE [buffer |-> SubSeq(all, full - kept + 1, full),
                            taken |-> dest.taken \o SubSeq(all, 1, full - kept)]
           /\ coder' = [coder EXCEPT
                  !.next = @ + 1, !.put = m.put, !.last_dc_val = LastDc(@, coder.next),
                  !.next_restart_num = IF m.restart THEN (@ + 1) % 8 ELSE @,
                  !.restarts_to_go = IF scan.interval > 0 THEN left - 1 ELSE @]
           /\ UNCHANGED phase

EncodeMcuHuff ==
  /\ phase = "encode" /\ coder.next <= Len(scan.image)
  /\ EmitMcu(McuBytes)
  /\ UNCHANGED <<scan, input, decoder, lost>>

\* A suspending application takes what whole MCUs have left in the buffer.
TakeOutput ==
  /\ phase = "encode" /\ scan.suspends /\ dest.buffer # <<>>
  /\ dest' = [buffer |-> <<>>, taken |-> dest.taken \o dest.buffer]
  /\ UNCHANGED <<scan, phase, coder, input, decoder, lost>>

\* Where a restart marker starts, and the segments between them.
Markers(bytes) == {i \in 1..Len(bytes) - 1 : bytes[i] = 255 /\ bytes[i + 1] \in RST0..RST0 + 7}
SegmentOf(bytes, i) == Cardinality({j \in Markers(bytes) : j <= i})

\* finish_pass_huff flushes the bits, which cannot wait for room: the
\* application sees to it.  The file is sent with its end.
FinishPassHuff ==
  /\ phase = "encode" /\ coder.next > Len(scan.image)
  /\ scan.suspends => Len(dest.buffer) + Len(FlushBits(coder.put)) < BufferSize
  /\ LET whole == dest.taken \o dest.buffer \o FlushBits(coder.put)
         segments == 0..Cardinality(Markers(whole))
         in_a_row(set) == \E s \in segments : s..s + MaxLost \subseteq set
     IN  \E gone \in SUBSET (segments \ {0}) :
           /\ ~in_a_row(gone)
           /\ lost' = gone
           /\ input' = [bytes |-> LET kept == {i \in DOMAIN whole : SegmentOf(whole, i) \notin gone}
                                      seq == [i \in DOMAIN whole |-> IF i \in kept THEN <<whole[i]>>
                                                                     ELSE <<>>]
                                  IN  FlattenSeq(seq) \o <<255, EOI>>,
                        there |-> 0]
  /\ phase' = "sent"
  /\ UNCHANGED <<scan, coder, dest, decoder>>

-----------------------------------------------------------------------------
(* Decoding: jpeg_fill_bit_buffer, decode_mcu and the restart markers *)

MIN_GET_BITS == 25

\* A reader is the decoder while it works on an MCU: "wait" when it has run out
\* of bytes, and then nothing more of the MCU is done.
WhenThere(d, Op(_)) == IF d.wait THEN d ELSE Op(d)

\* The first byte from i on that is not 255, or none if it has not come yet.
FillEnds(i) == {j \in i..input.there : input.bytes[j] # 255 /\ \A l \in i..j - 1 : input.bytes[l] = 255}

\* A byte of ones is the byte if a zero follows, else a marker.
PutByte(d, c, next) == [d EXCEPT !.get = @ \o Bits(c, 8), !.at = next]
LoadByte(d) ==
  LET i == Max(FillEnds(d.at))
  IN  IF d.at > input.there \/ FillEnds(d.at) = {} THEN [d EXCEPT !.wait = TRUE]
      ELSE IF input.bytes[d.at] # 255 THEN PutByte(d, input.bytes[d.at], d.at + 1)
      ELSE IF input.bytes[i] = 0 THEN PutByte(d, 255, i + 1)
      ELSE [d EXCEPT !.unread_marker = input.bytes[i], !.at = i + 1]

\* Bytes are read until enough bits are there or a marker is met; a reader that
\* runs out of bytes has to wait.
RECURSIVE LoadBits(_)
LoadBits(d) ==
  IF d.unread_marker # 0 \/ Len(d.get) >= MIN_GET_BITS \/ d.wait THEN d ELSE LoadBits(LoadByte(d))

\* Mutant: at a marker the reader waits for the bits that are missing.
FillBitBufferWaits(d, nbits) ==
  WhenThere(LoadBits(d), LAMBDA n : [n EXCEPT !.wait = nbits > Len(n.get)])

\* At a marker the missing bits are zeros.
FillBitBuffer(d, nbits) ==
  WhenThere(LoadBits(d), LAMBDA n :
    IF n.unread_marker = 0 \/ nbits <= Len(n.get) THEN n
    ELSE [n EXCEPT !.insufficient_data = TRUE,
                   !.get = @ \o [i \in 1..MIN_GET_BITS - Len(n.get) |-> 0]])

CheckBits(d, least, nbits) == IF Len(d.get) < least THEN FillBitBuffer(d, nbits) ELSE d
Drop(d, n) == [d EXCEPT !.get = SubSeq(@, n + 1, Len(@))]

\* HUFF_DECODE: the next symbol is left in "sym".
RECURSIVE ReadSymbol(_, _, _)
ReadSymbol(d, table, nbits) ==
  WhenThere(CheckBits(d, Max({nbits, HUFF_LOOKAHEAD}), nbits), LAMBDA n :
    LET got == DecodeSymbol(table, n.get)
    IN  IF got.short THEN ReadSymbol(n, table, got.len)
        ELSE [Drop(n, got.len) EXCEPT !.sym = got.sym])

\* The bits of a value of s bits are left in "val".
ReadValue(d, s) ==
  WhenThere(CheckBits(d, s, s), LAMBDA n :
    [Drop(n, s) EXCEPT !.val = HuffExtend(ValueOf(SubSeq(n.get, 1, s)), s)])

\* The coefficients from k on; a place past the last counts as the last, and
\* the values are thrown away when only the DC is needed.
StoreAc(d, k) == IF scan.ac_needed THEN [d EXCEPT !.block[Min({k, 64})] = d.val] ELSE d

RECURSIVE ReadAc(_, _, _)
ReadAc(d, table, k) ==
  IF k > 64 THEN d
  ELSE WhenThere(ReadSymbol(d, table, 0), LAMBDA n :
         LET r == n.sym \div 16
             s == n.sym % 16
         IN  IF s # 0 THEN WhenThere(ReadValue(n, s), LAMBDA v : ReadAc(StoreAc(v, k + r), table, k + r + 1))
             ELSE IF r = 15 THEN ReadAc(n, table, k + 16) ELSE n)

ZeroBlock == [k \in 1..64 |-> 0]

SetDc(d, comp) ==
  LET dc == d.last_dc_val[comp] + d.val
  IN  [d EXCEPT !.last_dc_val[comp] = dc, !.block = [ZeroBlock EXCEPT ![1] = dc]]

DecodeOneBlock(d, comp) ==
  WhenThere(ReadSymbol(d, MakeDDerivedTbl(coder.dc, 15), 0), LAMBDA n :
    WhenThere(ReadValue(n, n.sym), LAMBDA v :
      WhenThere(ReadAc(SetDc(v, comp), MakeDDerivedTbl(coder.ac, 255), 2), LAMBDA a :
        [a EXCEPT !.mcu = Append(@, a.block)])))

\* next_marker: everything up to the next marker is discarded.
RECURSIVE FindMarker(_)
FindMarker(d) ==
  LET ff == {j \in d.at..input.there : input.bytes[j] = 255}
      after == UNION {FillEnds(j) : j \in {i \in ff : \A l \in ff : i <= l}}
  IN  IF after = {} THEN [d EXCEPT !.wait = TRUE]
      ELSE IF input.bytes[Max(after)] = 0 THEN FindMarker([d EXCEPT !.at = Max(after) + 1])
      ELSE [d EXCEPT !.unread_marker = input.bytes[Max(after)], !.at = Max(after) + 1]

\* Mutant: any restart marker will do.
ResyncToAny(d, desired) == IF d.unread_marker \in RST0..RST0 + 7 THEN [d EXCEPT !.unread_marker = 0] ELSE d

\* jpeg_resync_to_restart: a marker that can only come later is left for the
\* MCUs after this segment; one that is past is skipped.
RECURSIVE ResyncToRestart(_, _)
ResyncToRestart(d, desired) ==
  LET ahead(n) == RST0 + ((desired + n) % 8)
  IN  IF d.unread_marker < SOF0 \/ d.unread_marker \in {ahead(7), ahead(6)}
      THEN WhenThere(FindMarker(d), LAMBDA n : ResyncToRestart(n, desired))
      ELSE IF d.unread_marker \notin RST0..RST0 + 7 \/ d.unread_marker \in {ahead(1), ahead(2)} THEN d
      ELSE [d EXCEPT !.unread_marker = 0]

\* read_restart_marker.
ReadRestartMarker(d) ==
  WhenThere(IF d.unread_marker = 0 THEN FindMarker(d) ELSE d, LAMBDA n :
    WhenThere(IF n.unread_marker = RST0 + d.next_restart_num THEN [n EXCEPT !.unread_marker = 0]
         ELSE ResyncToRestart(n, d.next_restart_num), LAMBDA m :
      [m EXCEPT !.next_restart_num = (@ + 1) % 8]))

\* process_restart: the data flag stays set when a marker is still waiting.
ProcessRestart(d) ==
  WhenThere(ReadRestartMarker([d EXCEPT !.get = <<>>]), LAMBDA n :
    [n EXCEPT !.last_dc_val = NoPrediction, !.restarts_to_go = scan.interval,
              !.insufficient_data = @ /\ n.unread_marker # 0])

Work(d) == [f \in DOMAIN d \cup {"wait", "sym", "val", "block", "mcu"} |->
              IF f = "wait" THEN FALSE ELSE IF f = "block" THEN ZeroBlock
              ELSE IF f = "mcu" THEN <<>> ELSE IF f \in DOMAIN d THEN d[f] ELSE 0]
Saved(d) == [f \in DOMAIN decoder |-> d[f]]

RECURSIVE DecodeBlocks(_, _)
DecodeBlocks(d, b) ==
  IF b > Len(Membership) THEN d
  ELSE WhenThere(DecodeOneBlock(d, Membership[b]), LAMBDA n : DecodeBlocks(n, b + 1))

\* The blocks of an MCU; none are read once the segment's data has run out.
DecodeBody(d) ==
  IF d.insufficient_data THEN [d EXCEPT !.mcu = [b \in DOMAIN Membership |-> ZeroBlock]]
  ELSE DecodeBlocks(d, 1)

Kept(start, done) ==
  IF done.wait THEN Saved(start)
  ELSE [Saved(done) EXCEPT !.output = Append(@, done.mcu), !.restarts_to_go = @ - 1]

Decoded(start) ==
  IF start.wait THEN [Saved(start) EXCEPT !.get = <<>>] ELSE Kept(start, DecodeBody(start))

\* decode_mcu: a restart stays done when the MCU after it has to wait.
NextDecoder ==
  Decoded(IF scan.interval > 0 /\ decoder.restarts_to_go = 0
          THEN ProcessRestart(Work(decoder)) ELSE Work(decoder))

DecodeMcu ==
  /\ phase = "sent" /\ Len(decoder.output) < Len(scan.image)
  /\ decoder' = NextDecoder
  /\ UNCHANGED <<scan, phase, coder, dest, input, lost>>

\* More of the file arrives.
DeliverData ==
  /\ phase = "sent" /\ input.there < Len(input.bytes)
  /\ \E n \in Arrivals : input' = [input EXCEPT !.there = Min({@ + n, Len(input.bytes)})]
  /\ UNCHANGED <<scan, phase, coder, dest, decoder, lost>>

Done == phase = "sent" /\ Len(decoder.output) = Len(scan.image) /\ UNCHANGED entropy

EntropyNext ==
  \/ EncodeMcuGather \/ FinishPassGather \/ EncodeMcuHuff \/ TakeOutput \/ FinishPassHuff
  \/ DecodeMcu \/ DeliverData \/ Done

EntropySpec == EntropyInit /\ [][EntropyNext]_entropy

-----------------------------------------------------------------------------
(* Properties *)

Segment(mcu) == IF scan.interval = 0 THEN 0 ELSE (mcu - 1) \div scan.interval
Shown(block) == IF scan.ac_needed THEN block
                ELSE [k \in 1..64 |-> IF k = 1 THEN block[1] ELSE 0]

\* Every MCU of a segment that arrived is decoded to the coefficients coded and
\* at its place, wherever coder and decoder had to stop and start an MCU over,
\* and whichever segments before it are missing (jdhuff.c:510-515 "no changes
\* have been made to permanent state", jdmarker.c:1238 resync_to_restart); and
\* the symbols coded are those counted: the coder never meets one without a code
\* (jchuff.c:558 "This process MUST agree with the code above").
DecodedAsCoded ==
  /\ phase # "failed"
  /\ \A i \in DOMAIN decoder.output :
       Segment(i) \notin lost =>
         \A b \in DOMAIN Membership : decoder.output[i][b] = Shown(BlockOf(i, b))

\* Once the file is there the decoder never waits for more of it: missing data
\* counts as zeros (jdhuff.c:360-381).
NeverStuck ==
  phase = "sent" /\ input.there = Len(input.bytes) /\ Len(decoder.output) < Len(scan.image)
    => NextDecoder # decoder
=============================================================================
