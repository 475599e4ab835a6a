--------------------------- MODULE JpegProgressive ---------------------------
(***************************************************************************)
(* Progressive Huffman coding: the four kinds of scan, as jcphuff.c codes  *)
(* them and jdphuff.c decodes them, from a source that may run out within  *)
(* any MCU.  A block's coefficients are in zigzag order.  The output is a  *)
(* sequence of symbols, of bits sent as they are, and of restart markers;  *)
(* JpegHuffTables says how a symbol becomes bits.                          *)
(***************************************************************************)
EXTENDS JpegHuffTables

CONSTANTS
  DCTSIZE2,      \* coefficients of a block: 64
  ZRL,           \* the run that stands for ZRL + 1 zeros: 15
  MaxEOBRUN,     \* 7FFF, which is 2^ZRL - 1
  MAX_CORR_BITS  \* room for correction bits: 1000

Symbol(r, s) == [k |-> "symbol", r |-> r, s |-> s]
Raw(n, value) == [k |-> "bits", n |-> n, value |-> value % 2^n]
Marker(num) == [k |-> "RST", num |-> num]

IsDc(scan) == scan.Ss = 0

-----------------------------------------------------------------------------
(* Coding: jcphuff.c *)

\* start_pass_phuff; "most" is the most correction bits held at once.
StartPass(scan, restart_interval) ==
  [out |-> <<>>, EOBRUN |-> 0, BE |-> <<>>, most |-> 0, last_dc_val |-> [c \in Range(scan.comps) |-> 0],
   interval |-> restart_interval, restarts_to_go |-> restart_interval, next_restart_num |-> 0]

Emit(e, items) == [e EXCEPT !.out = @ \o items]
RawBits(bits) == [i \in DOMAIN bits |-> Raw(1, bits[i])]

\* emit_eobrun: a pending run of empty bands, and the bits of those bands.
EmitEobrun(e) ==
  LET nbits == NBits(e.EOBRUN) - 1
      run == IF nbits = 0 THEN <<Symbol(0, 0)>> ELSE <<Symbol(nbits, 0), Raw(nbits, e.EOBRUN)>>
  IN  IF e.EOBRUN = 0 THEN e ELSE [Emit(e, run \o RawBits(e.BE)) EXCEPT !.EOBRUN = 0, !.BE = <<>>]

EmitRestart(e) ==
  [Emit(EmitEobrun(e), <<Marker(e.next_restart_num)>>) EXCEPT
     !.last_dc_val = [c \in DOMAIN @ |-> 0], !.EOBRUN = 0, !.BE = <<>>]

\* encode_mcu_DC_first: the blocks "mcu" of the components of the scan.
DcFirst(e, mcu, scan) ==
  LET block(b, c) ==
        LET value == mcu[c][0] \div 2^scan.Al
            diff == value - b.last_dc_val[c]
            nbits == NBits(diff)
        IN  [Emit(b, <<Symbol(0, nbits)>>
                     \o IF nbits = 0 THEN <<>> ELSE <<Raw(nbits, IF diff < 0 THEN diff - 1 ELSE diff)>>)
               EXCEPT !.last_dc_val[c] = value]
  IN  FoldLeft(block, e, scan.comps)

\* The magnitude of a coefficient after the point transform.
PointTransform(v, Al) == Abs(v) \div 2^Al

AfterBand(e, forced) == IF forced THEN EmitEobrun(e) ELSE e

AcFirst(e, block, scan) ==
  LET coef(a, k) ==
        LET size == PointTransform(block[k], scan.Al)
            nbits == NBits(size)
            zrls == [i \in 1..a.r \div (ZRL + 1) |-> Symbol(ZRL, 0)]
        IN  IF size = 0 THEN [a EXCEPT !.r = @ + 1]
            ELSE [e |-> Emit(EmitEobrun(a.e),
                             zrls \o <<Symbol(a.r % (ZRL + 1), nbits),
                                       Raw(nbits, IF block[k] < 0 THEN -size - 1 ELSE size)>>),
                  r |-> 0]
      done == FoldLeft(coef, [e |-> e, r |-> 0], [i \in 1..scan.Se - scan.Ss + 1 |-> scan.Ss + i - 1])
      run == [done.e EXCEPT !.EOBRUN = @ + 1]
  IN  IF done.r = 0 THEN done.e ELSE AfterBand(run, run.EOBRUN = MaxEOBRUN)

DcRefine(e, mcu, scan) ==
  Emit(e, [i \in DOMAIN scan.comps |-> Raw(1, mcu[scan.comps[i]][0] \div 2^scan.Al)])

\* encode_mcu_AC_refine.  BR holds the correction bits since the last symbol;
\* zeros the end of the band will cover need no symbol.
ZeroRuns(a) ==
  IF a.r <= ZRL THEN a
  ELSE [e |-> Emit(EmitEobrun(a.e),
                   <<Symbol(ZRL, 0)>> \o RawBits(a.BR)
                   \o [i \in 1..(a.r \div (ZRL + 1)) - 1 |-> Symbol(ZRL, 0)]),
        r |-> a.r % (ZRL + 1), BR |-> <<>>]
Correction(a, bit) ==
  [a EXCEPT !.BR = Append(@, bit), !.e.most = Max({@, Len(a.e.BE) + Len(a.BR) + 1})]
Newly(a, negative) ==
  [e |-> Emit(EmitEobrun(a.e),
              <<Symbol(a.r, 1), Raw(1, IF negative THEN 0 ELSE 1)>> \o RawBits(a.BR)),
   r |-> 0, BR |-> <<>>]
\* Mutant: the bits of the next band are not counted in.
RefineForcedLate(e) == e.EOBRUN = MaxEOBRUN \/ Len(e.BE) >= MAX_CORR_BITS

\* Whether the run of bands is sent before the next one might not fit.
RefineForced(e) == e.EOBRUN = MaxEOBRUN \/ Len(e.BE) > MAX_CORR_BITS - DCTSIZE2 + 1
AcRefine(e, block, scan) ==
  LET size(k) == PointTransform(block[k], scan.Al)
      EOB == Max({0} \cup {k \in scan.Ss..scan.Se : size(k) = 1})
      nonzero(a, k) == IF size(k) > 1 THEN Correction(a, size(k) % 2) ELSE Newly(a, block[k] < 0)
      coef(a, k) == IF size(k) = 0 THEN [a EXCEPT !.r = @ + 1]
                    ELSE nonzero(IF k <= EOB THEN ZeroRuns(a) ELSE a, k)
      done == FoldLeft(coef, [e |-> e, r |-> 0, BR |-> <<>>],
                       [i \in 1..scan.Se - scan.Ss + 1 |-> scan.Ss + i - 1])
      run == [done.e EXCEPT !.EOBRUN = @ + 1, !.BE = @ \o done.BR]
  IN  IF done.r = 0 /\ done.BR = <<>> THEN done.e ELSE AfterBand(run, RefineForced(run))

\* One MCU, after its restart marker.
Restarted(e) ==
  IF e.interval = 0 \/ e.restarts_to_go > 0 THEN e
  ELSE [EmitRestart(e) EXCEPT !.restarts_to_go = e.interval, !.next_restart_num = (@ + 1) % 8]
EncodeMcu(e, mcu, scan) ==
  LET block == mcu[scan.comps[1]]
      coded == CASE scan.Ah = 0 /\ IsDc(scan) -> DcFirst(e, mcu, scan)
                 [] scan.Ah = 0 /\ ~IsDc(scan) -> AcFirst(e, block, scan)
                 [] scan.Ah # 0 /\ IsDc(scan) -> DcRefine(e, mcu, scan)
                 [] scan.Ah # 0 /\ ~IsDc(scan) -> AcRefine(e, block, scan)
  IN  [coded EXCEPT !.restarts_to_go = IF e.interval = 0 THEN @ ELSE @ - 1]

\* A scan of an image, a sequence of MCUs, to finish_pass_phuff; a pass that
\* gathers statistics makes the same symbols and counts them.
EncodeScan(image, scan, restart_interval) ==
  EmitEobrun(FoldLeft(LAMBDA e, mcu : EncodeMcu(Restarted(e), mcu, scan),
                      StartPass(scan, restart_interval), image))

-----------------------------------------------------------------------------
(* Decoding: jdphuff.c *)

NoBits == [k \in 0..DCTSIZE2 - 1 |-> -1]

\* jinit_phuff_decoder: what is known of each component is in coef_bits.
InitDecoder(comps) == [coef_bits |-> [c \in comps |-> NoBits], bogus |-> {}, bad |-> FALSE]

\* start_pass_phuff_decoder: illegal scans are errors, scans out of order only
\* warnings, by component and coefficient.
BadScan(scan) ==
  \/ IF IsDc(scan) THEN scan.Se # 0
     ELSE scan.Ss > scan.Se \/ scan.Se >= DCTSIZE2 \/ Len(scan.comps) # 1
  \/ scan.Ah # 0 /\ scan.Al # scan.Ah - 1
  \/ scan.Al > 13
Expected(known) == IF known < 0 THEN 0 ELSE known
StartDecoder(d, scan) ==
  IF d.bad \/ BadScan(scan) THEN [d EXCEPT !.bad = TRUE]
  ELSE [d EXCEPT
    !.bogus = @ \cup {<<c, 0>> : c \in {x \in Range(scan.comps) : ~IsDc(scan) /\ d.coef_bits[x][0] < 0}}
                \cup {ck \in Range(scan.comps) \X (scan.Ss..scan.Se) :
                        scan.Ah # Expected(d.coef_bits[ck[1]][ck[2]])},
    !.coef_bits = [c \in DOMAIN @ |-> [k \in DOMAIN @[c] |->
                     IF c \in Range(scan.comps) /\ k \in scan.Ss..scan.Se THEN scan.Al ELSE @[c][k]]]]

\* The state a scan is decoded in: "upto" is what has arrived of it, "saved"
\* the state an MCU starts over from, "newnz" the coefficients to put back then.
StartScan(image, scan, restart_interval, stream) ==
  [image |-> image, in |-> stream, upto |-> 0, at |-> 0, wait |-> FALSE, derailed |-> FALSE,
   EOBRUN |-> 0, last_dc_val |-> [c \in Range(scan.comps) |-> 0], pos |-> 0, newnz |-> {},
   interval |-> restart_interval, restarts_to_go |-> restart_interval, next_restart_num |-> 0]

Then(d, Op(_)) == IF d.wait \/ d.derailed THEN d ELSE Op(d)

\* HUFF_DECODE, and CHECK_BIT_BUFFER with GET_BITS.
Get(d, expected, Op(_, _)) ==
  IF d.at = d.upto THEN [d EXCEPT !.wait = TRUE]
  ELSE IF d.in[d.at + 1].k # expected THEN [d EXCEPT !.derailed = TRUE]
  ELSE Op([d EXCEPT !.at = @ + 1], d.in[d.at + 1])
GetBits(d, n, Op(_, _)) ==
  IF n = 0 THEN Op(d, 0)
  ELSE Get(d, "bits", LAMBDA e, t : IF t.n = n THEN Op(e, t.value) ELSE [e EXCEPT !.derailed = TRUE])

\* process_restart, in a stream that has lost nothing.
ProcessRestart(d) ==
  Get(d, "RST", LAMBDA e, t :
    IF t.num # e.next_restart_num THEN [e EXCEPT !.derailed = TRUE]
    ELSE [e EXCEPT !.last_dc_val = [c \in DOMAIN @ |-> 0], !.EOBRUN = 0, !.restarts_to_go = e.interval,
                   !.next_restart_num = (@ + 1) % 8])

DecodeDcFirst(d, m, scan) ==
  LET block(b, c) ==
        Then(b, LAMBDA x : Get(x, "symbol", LAMBDA e, t : GetBits(e, t.s, LAMBDA f, r :
          LET dc == HuffExtend(r, t.s) + f.last_dc_val[c]
          IN  [f EXCEPT !.last_dc_val[c] = dc, !.image[m][c][0] = dc * 2^scan.Al])))
  IN  FoldLeft(block, d, scan.comps)

\* An end of band: a run of 2^r and the bits that follow.
EobRun(d, r, Op(_)) == GetBits(d, r, LAMBDA e, v : Op([e EXCEPT !.EOBRUN = 2^r + v]))

RECURSIVE AcFirstFrom(_, _, _, _)
AcFirstFrom(d, m, scan, k) ==
  LET c == scan.comps[1]
  IN  IF k > scan.Se THEN d
      ELSE Get(d, "symbol", LAMBDA e, t :
        IF t.s # 0
        THEN GetBits(e, t.s, LAMBDA f, v :
               AcFirstFrom([f EXCEPT !.image[m][c][k + t.r] = HuffExtend(v, t.s) * 2^scan.Al],
                           m, scan, k + t.r + 1))
        ELSE IF t.r = ZRL THEN AcFirstFrom(e, m, scan, k + ZRL + 1)
        ELSE EobRun(e, t.r, LAMBDA f : [f EXCEPT !.EOBRUN = @ - 1]))
DecodeAcFirst(d, m, scan) ==
  IF d.EOBRUN > 0 THEN [d EXCEPT !.EOBRUN = @ - 1] ELSE AcFirstFrom(d, m, scan, scan.Ss)

BitSet(v, Al) == (v \div 2^Al) % 2 = 1
DecodeDcRefine(d, m, scan) ==
  LET block(b, c) ==
        Then(b, LAMBDA x : GetBits(x, 1, LAMBDA e, v :
          IF v = 0 \/ BitSet(e.image[m][c][0], scan.Al) THEN e
          ELSE [e EXCEPT !.image[m][c][0] = @ + 2^scan.Al]))
  IN  FoldLeft(block, d, scan.comps)

\* decode_mcu_AC_refine.  A correction bit that was added before the source ran
\* out is not added again.
Correct(d, m, c, k, Al) ==
  GetBits(d, 1, LAMBDA e, v :
    LET old == e.image[m][c][k]
    IN  IF v = 0 \/ BitSet(old, Al) THEN e
        ELSE [e EXCEPT !.image[m][c][k] = IF old >= 0 THEN @ + 2^Al ELSE @ - 2^Al])

\* Past the nonzero coefficients and r zeros, to the zero after them ("pos").
RECURSIVE Advance(_, _, _, _, _)
Advance(d, m, scan, k, r) ==
  LET c == scan.comps[1]
  IN  IF k > scan.Se THEN [d EXCEPT !.pos = k]
      ELSE IF d.image[m][c][k] # 0
      THEN Then(Correct(d, m, c, k, scan.Al), LAMBDA e : Advance(e, m, scan, k + 1, r))
      ELSE IF r = 0 THEN [d EXCEPT !.pos = k] ELSE Advance(d, m, scan, k + 1, r - 1)

\* The rest of a band that has ended: nonzero coefficients are still corrected.
RestOfBand(d, m, scan, k) ==
  Then(Advance(d, m, scan, k, DCTSIZE2), LAMBDA e : [e EXCEPT !.EOBRUN = @ - 1])

RECURSIVE AcRefineFrom(_, _, _, _)
AcRefineFrom(d, m, scan, k) ==
  LET c == scan.comps[1]
      put(e, v) == [e EXCEPT !.image[m][c][e.pos] = IF v = 1 THEN 2^scan.Al ELSE -(2^scan.Al),
                             !.newnz = @ \cup {e.pos}]
  IN  IF k > scan.Se THEN d
      ELSE Get(d, "symbol", LAMBDA e, t :
        IF t.s # 0
        THEN GetBits(e, 1, LAMBDA f, v :
               Then(Advance(f, m, scan, k, t.r), LAMBDA g : AcRefineFrom(put(g, v), m, scan, g.pos + 1)))
        ELSE IF t.r = ZRL
        THEN Then(Advance(e, m, scan, k, ZRL), LAMBDA g : AcRefineFrom(g, m, scan, g.pos + 1))
        ELSE EobRun(e, t.r, LAMBDA f : RestOfBand(f, m, scan, k)))
DecodeAcRefine(d, m, scan) ==
  IF d.EOBRUN > 0 THEN RestOfBand(d, m, scan, scan.Ss) ELSE AcRefineFrom(d, m, scan, scan.Ss)

\* Mutant: coefficients new in this MCU are not put back.
UndoneNot(d, tried, m, scan) == [d EXCEPT !.image = tried.image]

\* undoit: of an MCU that has to wait, the coefficients already in it stay, but
\* those that were zero are zero again.
Undone(d, tried, m, scan) ==
  [d EXCEPT !.image = [tried.image EXCEPT ![m][scan.comps[1]] =
                         [k \in DOMAIN @ |-> IF k \in tried.newnz THEN 0 ELSE @[k]]]]

\* MCU m; the source brings "step" more items each time the decoder has to wait.
RECURSIVE DecodeMcu(_, _, _, _)
Try(d, m, scan) ==
  CASE scan.Ah = 0 /\ IsDc(scan) -> DecodeDcFirst(d, m, scan)
    [] scan.Ah = 0 /\ ~IsDc(scan) -> DecodeAcFirst(d, m, scan)
    [] scan.Ah # 0 /\ IsDc(scan) -> DecodeDcRefine(d, m, scan)
    [] scan.Ah # 0 /\ ~IsDc(scan) -> DecodeAcRefine(d, m, scan)
More(d, step) == [d EXCEPT !.upto = IF @ = Len(d.in) THEN @ ELSE Min({@ + step, Len(d.in)}),
                           !.derailed = d.upto = Len(d.in)]
Outcome(d, tried, m, scan, step) ==
  IF tried.derailed THEN tried
  ELSE IF tried.wait THEN DecodeMcu(More(Undone(d, tried, m, scan), step), m, scan, step)
  ELSE [tried EXCEPT !.newnz = {}, !.restarts_to_go = IF d.interval = 0 THEN @ ELSE @ - 1]
AtMcu(d, tried, m, scan, step) ==
  IF tried.derailed THEN tried
  ELSE IF tried.wait THEN DecodeMcu(More(d, step), m, scan, step)
  ELSE Outcome(tried, Try(tried, m, scan), m, scan, step)
DecodeMcu(d, m, scan, step) ==
  IF d.derailed THEN d
  ELSE AtMcu(d, IF d.interval # 0 /\ d.restarts_to_go = 0 THEN ProcessRestart(d) ELSE d, m, scan, step)

DecodeScan(image, scan, restart_interval, stream, step) ==
  FoldLeft(LAMBDA d, m : DecodeMcu(d, m, scan, step),
           StartScan(image, scan, restart_interval, stream), [m \in DOMAIN image |-> m])

-----------------------------------------------------------------------------
(* Properties *)

\* What the scans say of a coefficient: its bits from the last Al up.
KnownOf(v, k, Al) ==
  CASE Al < 0 -> 0
    [] Al >= 0 /\ k = 0 -> (v \div 2^Al) * 2^Al
    [] Al >= 0 /\ k # 0 -> (IF v < 0 THEN -1 ELSE 1) * PointTransform(v, Al) * 2^Al

AfterScan(s, image, scan, interval, step) ==
  LET coded == EncodeScan(image, scan, interval)
      d == DecodeScan(s.image, scan, interval, coded.out, step)
      decoder == StartDecoder(s.decoder, scan)
  IN  [image |-> d.image, decoder |-> decoder,
       ok |-> /\ s.ok /\ ~d.derailed /\ d.at = Len(d.in) /\ d.EOBRUN = 0
              /\ coded.most <= MAX_CORR_BITS /\ decoder.bogus = {} /\ ~decoder.bad
              /\ \A m \in DOMAIN image : \A c \in DOMAIN image[m] : \A k \in DOMAIN image[m][c] :
                   d.image[m][c][k] = KnownOf(image[m][c][k], k, decoder.coef_bits[c][k])]

\* After each scan of a script the decoder holds every coefficient to the bit
\* the scan refines it to, has read the scan to its end and warned of nothing,
\* however little of it arrives at a time; and the correction bits held back for
\* a run of bands fit their buffer (jcphuff.c:62-67, jdphuff.c:256-267).
ScansRestore(image, script, interval, step) ==
  LET zero == [m \in DOMAIN image |-> [c \in DOMAIN image[m] |-> [k \in DOMAIN image[m][c] |-> 0]]]
  IN  FoldLeft(LAMBDA s, scan : AfterScan(s, image, scan, interval, step),
               [image |-> zero, decoder |-> InitDecoder(DOMAIN image[1]), ok |-> TRUE], script).ok

\* No scan of this script makes the decoder refuse it or warn.
PlayedClean(comps, script) ==
  LET d == FoldLeft(StartDecoder, InitDecoder(comps), script) IN ~d.bad /\ d.bogus = {}
=============================================================================
