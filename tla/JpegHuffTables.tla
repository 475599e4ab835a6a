--------------------------- MODULE JpegHuffTables ---------------------------
(***************************************************************************)
(* Huffman tables of the JPEG library: building the table of a scan from   *)
(* the counts of its symbols (jchuff.c), and the tables the coder and the  *)
(* decoder derive from it (jchuff.c, jdhuff.c).  Bits are sequences of 0   *)
(* and 1, first bit first.  Used by the sequential and progressive coders. *)
(***************************************************************************)
EXTENDS Integers, Sequences, FiniteSets, FiniteSetsExt, SequencesExt, Functions

MAX_CLEN == 32
HUFF_LOOKAHEAD == 8

\* The low n bits of v, in two's complement, and back.
Bits(v, n) == [i \in 1..n |-> (v \div 2^(n - i)) % 2]
ValueOf(bits) == FoldLeft(LAMBDA v, b : 2 * v + b, 0, bits)

RECURSIVE Ascending(_)
Ascending(S) == IF S = {} THEN <<>> ELSE <<Min(S)>> \o Ascending(S \ {Min(S)})

Abs(v) == IF v < 0 THEN -v ELSE v

\* Bits in the magnitude of a coefficient, the bits sent for it (the
\* complement of the magnitude if negative), and the value they stand for.
NBits(v) == IF v = 0 THEN 0 ELSE CHOOSE n \in 1..20 : 2^(n - 1) <= Abs(v) /\ Abs(v) < 2^n
Magnitude(v) == Bits(IF v < 0 THEN v - 1 ELSE v, NBits(v))
HuffExtend(x, s) == IF s > 0 /\ x < 2^(s - 1) THEN x - 2^s + 1 ELSE x

-----------------------------------------------------------------------------
(* jpeg_gen_optimal_table *)

\* Of the least frequent, the largest symbol.
Rarest(freq) ==
  LET least == Min(Range(freq)) IN Max({s \in DOMAIN freq : freq[s] = least})

\* One merge: every symbol of the two branches gets one bit longer.
Merge(t) ==
  LET c1 == Rarest(t.freq)
      c2 == Rarest(Restrict(t.freq, DOMAIN t.freq \ {c1}))
      both == t.branch[c1] \cup t.branch[c2]
  IN  [freq |-> [s \in DOMAIN t.freq \ {c2} |->
                   IF s = c1 THEN t.freq[c1] + t.freq[c2] ELSE t.freq[s]],
       branch |-> [t.branch EXCEPT ![c1] = both],
       codesize |-> [s \in DOMAIN t.codesize |->
                       IF s \in both THEN t.codesize[s] + 1 ELSE t.codesize[s]]]

\* Symbol 256 takes part with a count of 1: it keeps the code of all ones.
CodeSizes(counts) ==
  LET used == {s \in DOMAIN counts : counts[s] > 0} \cup {256}
      start == [freq |-> [s \in used |-> IF s = 256 THEN 1 ELSE counts[s]],
                branch |-> [s \in used |-> {s}], codesize |-> [s \in used |-> 0]]
      merged[n \in 0..Cardinality(used) - 1] == IF n = 0 THEN start ELSE Merge(merged[n - 1])
  IN  merged[Cardinality(used) - 1].codesize

\* Mutant: the prefix that splits makes room for one symbol only.
RECURSIVE LimitLengthsOne(_, _)
LimitLengthsOne(bits, i) ==
  IF i = 16 THEN bits
  ELSE IF bits[i] <= 0 THEN LimitLengthsOne(bits, i - 1)
  ELSE LET j == Max({k \in 1..i - 2 : bits[k] > 0})
       IN  LimitLengthsOne([bits EXCEPT ![i] = @ - 2, ![i - 1] = @ + 1, ![j + 1] = @ + 1,
                                        ![j] = @ - 1], i)

\* Lengths over 16 are shortened two symbols at a time.
RECURSIVE LimitLengths(_, _)
LimitLengths(bits, i) ==
  IF i = 16 THEN bits
  ELSE IF bits[i] = 0 THEN LimitLengths(bits, i - 1)
  ELSE LET j == Max({k \in 1..i - 2 : bits[k] > 0})
       IN  LimitLengths([bits EXCEPT ![i] = @ - 2, ![i - 1] = @ + 1, ![j + 1] = @ + 2,
                                     ![j] = @ - 1], i)

\* The pseudo-symbol's slot is the last of the longest codes.
GenOptimalTable(counts) ==
  LET codesize == CodeSizes(counts)
      many(l) == Cardinality({s \in DOMAIN codesize : codesize[s] = l})
      bits == LimitLengths([l \in 1..MAX_CLEN |-> many(l)], MAX_CLEN)
      longest == Max({l \in 1..16 : bits[l] > 0})
  IN  [bits |-> [l \in 1..16 |-> IF l = longest THEN bits[l] - 1 ELSE bits[l]],
       huffval |-> FlattenSeq([l \in 1..MAX_CLEN |->
                     Ascending({s \in DOMAIN codesize \ {256} : codesize[s] = l})])]

-----------------------------------------------------------------------------
(* Derived tables *)

HuffSize(htbl) == FlattenSeq([l \in 1..16 |-> [i \in 1..htbl.bits[l] |-> l]])

\* Codes of a length follow each other; the next length doubles.
HuffCode(size) ==
  LET code[p \in 1..Len(size)] ==
        IF p = 1 THEN 0 ELSE (code[p - 1] + 1) * 2^(size[p] - size[p - 1])
  IN  [p \in 1..Len(size) |-> code[p]]

\* No code of all ones, no more than 256 of them.
LegalCodes(htbl) ==
  LET size == HuffSize(htbl)
      code == HuffCode(size)
  IN  Len(size) <= 256 /\ \A p \in DOMAIN size : code[p] + 1 < 2^size[p]

\* jpeg_make_c_derived_tbl: the code of each symbol, none given twice.
MakeCDerivedTbl(htbl, maxsymbol) ==
  LET size == HuffSize(htbl)
      code == HuffCode(size)
      ok == /\ LegalCodes(htbl) /\ Len(size) = Len(htbl.huffval)
            /\ IsInjective(htbl.huffval) /\ Range(htbl.huffval) \subseteq 0..maxsymbol
      at(s) == CHOOSE p \in DOMAIN htbl.huffval : htbl.huffval[p] = s
  IN  [ok |-> ok,
       code |-> IF ~ok THEN <<>>
                ELSE [s \in Range(htbl.huffval) |-> Bits(code[at(s)], size[at(s)])]]

\* jpeg_make_d_derived_tbl: per length, the largest code and where its symbols
\* start; and the symbols of the short codes by the next eight bits.
MakeDDerivedTbl(htbl, maxsymbol) ==
  LET size == HuffSize(htbl)
      code == HuffCode(size)
      of(l) == {p \in DOMAIN size : size[p] = l}
      first(p, l) == code[p] * 2^(HUFF_LOOKAHEAD - l)
      covers(p, look) == /\ size[p] <= HUFF_LOOKAHEAD
                         /\ look \in first(p, size[p])..first(p, size[p]) + 2^(HUFF_LOOKAHEAD - size[p]) - 1
  IN  [ok |-> LegalCodes(htbl) /\ Range(htbl.huffval) \subseteq 0..maxsymbol,
       maxcode |-> [l \in 1..17 |-> IF l = 17 THEN 2^20 - 1
                                    ELSE IF of(l) = {} THEN -1 ELSE code[Max(of(l))]],
       valoffset |-> [l \in 1..16 |-> IF of(l) = {} THEN 0 ELSE Min(of(l)) - code[Min(of(l))]],
       look |-> [n \in 0..2^HUFF_LOOKAHEAD - 1 |->
                   LET ps == {p \in DOMAIN size : covers(p, n)}
                   IN  IF ps = {} THEN [nb |-> 0, sym |-> 0]
                       ELSE [nb |-> size[Max(ps)], sym |-> htbl.huffval[Max(ps)]]],
       huffval |-> htbl.huffval]

\* jpeg_huff_decode: bit by bit from min_bits on, with the bits there are; a
\* code longer than 16 counts as a zero.  "short" when bits are missing.
RECURSIVE HuffDecode(_, _, _)
HuffDecode(d, bits, l) ==
  IF Len(bits) < l THEN [short |-> TRUE, sym |-> 0, len |-> l]
  ELSE LET code == ValueOf(SubSeq(bits, 1, l))
       IN  IF code > d.maxcode[l] THEN HuffDecode(d, bits, l + 1)
           ELSE [short |-> FALSE, len |-> l,
                 sym |-> IF l > 16 THEN 0 ELSE d.huffval[code + d.valoffset[l]]]

\* HUFF_DECODE: the look-ahead table, or the hard way near the end of the data
\* and for long codes.
DecodeSymbol(d, bits) ==
  LET look == d.look[ValueOf(SubSeq(bits, 1, HUFF_LOOKAHEAD))]
  IN  IF Len(bits) < HUFF_LOOKAHEAD THEN HuffDecode(d, bits, 1)
      ELSE IF look.nb # 0 THEN [short |-> FALSE, sym |-> look.sym, len |-> look.nb]
      ELSE HuffDecode(d, bits, HUFF_LOOKAHEAD + 1)

-----------------------------------------------------------------------------
\* For whatever counts, the optimal table is legal for coder and decoder, has
\* codes of at most 16 bits for the symbols used and for no other, and what
\* follows a code, zeros, ones or nothing, does not change how it is decoded
\* (jchuff.c:704-838, jdhuff.h:165-188).
TableDecodes(counts) ==
  LET htbl == GenOptimalTable(counts)
      c == MakeCDerivedTbl(htbl, 255)
      d == MakeDDerivedTbl(htbl, 255)
      reads(bits, s) == LET got == DecodeSymbol(d, bits)
                        IN  ~got.short /\ got.sym = s /\ got.len = Len(c.code[s])
  IN  /\ c.ok /\ d.ok
      /\ DOMAIN c.code = {s \in DOMAIN counts : counts[s] > 0}
      /\ \A s \in DOMAIN c.code :
           /\ reads(c.code[s], s)
           /\ \A b \in {0, 1} : reads(c.code[s] \o [i \in 1..20 |-> b], s)
=============================================================================
