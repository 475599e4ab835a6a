-------------------------- MODULE JpegImageProofs --------------------------
(***************************************************************************)
(* What is proved of images in the JPEG library.  Of their geometry, for   *)
(* any size, any sampling factors and blocks of any size: the lossless     *)
(* transformations of transupp.c and upsampling.  Of their colors, for     *)
(* every color: the sums of the conversions need no limiting on the way    *)
(* into a file, and come back within one.                                  *)
(***************************************************************************)
EXTENDS JpegTransform, JpegSampling, TLAPS

-----------------------------------------------------------------------------
(* Division *)

LEMMA DivMod ==
  ASSUME NEW a \in Int, NEW d \in Nat \ {0}
  PROVE  /\ a \div d \in Int /\ a % d \in 0..d - 1
         /\ a = d * (a \div d) + (a % d)
         /\ a \in Nat => a \div d \in Nat
  OBVIOUS

LEMMA DivUnique ==
  ASSUME NEW q \in Int, NEW d \in Nat \ {0}, NEW r \in 0..d - 1
  PROVE  (q * d + r) \div d = q /\ (q * d + r) % d = r
  OBVIOUS

LEMMA TimesKeepsOrder ==
  ASSUME NEW a \in Int, NEW b \in Int, NEW d \in Nat, a <= b
  PROVE  a * d \in Int /\ b * d \in Int /\ a * d <= b * d
  OBVIOUS

LEMMA TimesIsNat ==
  ASSUME NEW a \in Nat, NEW d \in Nat
  PROVE  a * d \in Nat
  OBVIOUS

LEMMA QuotientAndRest ==
  ASSUME NEW a \in Nat, NEW d \in Nat \ {0}
  PROVE  \E q \in Nat, r \in 0..d - 1 : a = q * d + r /\ a \div d = q /\ a % d = r
<1>1. a \div d \in Nat /\ a % d \in 0..d - 1 /\ a = (a \div d) * d + (a % d)
  OBVIOUS
<1> QED BY <1>1

\* Where a is below n times d, its quotient is below n, and only there.
LEMMA DivBelow ==
  ASSUME NEW a \in Nat, NEW n \in Nat, NEW d \in Nat \ {0}
  PROVE  a < n * d <=> a \div d < n
  OBVIOUS

\* What DivRoundUp rounds to: the least number of times d that holds a.
LEMMA RoundUpFacts ==
  ASSUME NEW a \in Nat, NEW d \in Nat \ {0}
  PROVE  /\ DivRoundUp(a, d) \in Nat
         /\ a <= DivRoundUp(a, d) * d
         /\ \A n \in Nat : a <= n * d => DivRoundUp(a, d) <= n
<1> DEFINE b == a + d - 1
<1>1. b \in Nat /\ DivRoundUp(a, d) = b \div d /\ a = b - d + 1
  BY DEF DivRoundUp
<1> HIDE DEF b
<1>2. PICK q \in Nat, r \in 0..d - 1 : b = q * d + r /\ b \div d = q
  BY <1>1, QuotientAndRest
<1>3. \A n \in Nat : a <= n * d => q <= n
  <2> SUFFICES ASSUME NEW n \in Nat, a <= n * d, n + 1 <= q PROVE FALSE
    BY <1>2
  <2>1. (n + 1) * d <= q * d
    BY <1>2, TimesKeepsOrder
  <2>2. (n + 1) * d = n * d + d /\ n * d \in Int /\ q * d \in Int
    OBVIOUS
  <2> QED BY <1>1, <1>2, <2>1, <2>2
<1>4. a <= q * d
  BY <1>1, <1>2
<1> QED BY <1>1, <1>2, <1>3, <1>4

\* A longer side has no fewer blocks, a finer one no fewer either.
LEMMA RoundUpKeepsOrder ==
  ASSUME NEW a \in Nat, NEW b \in Nat, NEW d \in Nat \ {0}, a <= b
  PROVE  /\ DivRoundUp(a, d) <= DivRoundUp(b, d)
         /\ RoundUpTo(a, d) <= RoundUpTo(b, d)
         /\ RoundUpTo(a, d) \in Nat /\ a <= RoundUpTo(a, d)
<1>1. /\ DivRoundUp(a, d) \in Nat /\ a <= DivRoundUp(a, d) * d
      /\ DivRoundUp(b, d) \in Nat /\ b <= DivRoundUp(b, d) * d
      /\ \A n \in Nat : a <= n * d => DivRoundUp(a, d) <= n
  BY RoundUpFacts
<1>2. DivRoundUp(b, d) * d \in Nat /\ DivRoundUp(a, d) * d \in Nat
  BY <1>1
<1>3. DivRoundUp(a, d) <= DivRoundUp(b, d)
  BY <1>1, <1>2
<1>4. DivRoundUp(a, d) * d <= DivRoundUp(b, d) * d
  BY <1>1, <1>3, TimesKeepsOrder
<1> QED BY <1>1, <1>2, <1>3, <1>4 DEF RoundUpTo

LEMMA RoundUpToHolds ==
  ASSUME NEW a \in Nat, NEW d \in Nat \ {0}
  PROVE  RoundUpTo(a, d) \in Nat /\ a <= RoundUpTo(a, d)
<1>1. a <= a
  OBVIOUS
<1> QED BY <1>1, RoundUpKeepsOrder

LEMMA RoundUpToOne ==
  ASSUME NEW a \in Nat
  PROVE  RoundUpTo(a, 1) = a
<1>1. a <= DivRoundUp(a, 1) /\ DivRoundUp(a, 1) <= a /\ DivRoundUp(a, 1) \in Nat
  BY RoundUpFacts
<1> QED BY <1>1 DEF RoundUpTo

\* A side with the factor of the whole has as many blocks as without factors.
LEMMA RoundUpCancels ==
  ASSUME NEW a \in Nat, NEW k \in Nat \ {0}, NEW d \in Nat \ {0}
  PROVE  DivRoundUp(a * k, k * d) = DivRoundUp(a, d)
<1>1. a * k \in Nat /\ k * d \in Nat \ {0}
  OBVIOUS
<1> DEFINE q == DivRoundUp(a, d)
           p == DivRoundUp(a * k, k * d)
<1>2. /\ q \in Nat /\ a <= q * d /\ p \in Nat /\ a * k <= p * (k * d)
      /\ \A n \in Nat : a <= n * d => q <= n
      /\ \A n \in Nat : a * k <= n * (k * d) => p <= n
  BY <1>1, RoundUpFacts
<1> HIDE DEF q, p
<1>3. a * k <= q * (k * d)
  <2>1. q * d \in Nat
    BY <1>2
  <2>2. a * k <= (q * d) * k
    BY <1>2, <2>1, TimesKeepsOrder
  <2>3. (q * d) * k = q * (k * d)
    BY <1>2
  <2> QED BY <2>2, <2>3
<1>4. a <= p * d
  <2>1. p * d \in Nat /\ p * (k * d) = (p * d) * k
    BY <1>2
  <2> SUFFICES ASSUME p * d + 1 <= a PROVE FALSE
    BY <2>1
  <2>2. (p * d + 1) * k <= a * k
    BY <2>1, TimesKeepsOrder
  <2>3. (p * d + 1) * k = (p * d) * k + k
    BY <2>1
  <2> QED BY <1>1, <1>2, <2>1, <2>2, <2>3
<1>5. p = q
  BY <1>2, <1>3, <1>4
<1> QED BY <1>5 DEF p, q

\* The blocks in whole iMCUs are some of the blocks.
LEMMA WholeIsPart ==
  ASSUME NEW w \in Nat, NEW h \in Nat, NEW m \in Nat \ {0}
  PROVE  (w \div m) * h \in Nat /\ (w \div m) * h <= DivRoundUp(w * h, m)
<1> DEFINE q == w \div m
           n == DivRoundUp(w * h, m)
<1>1. q \in Nat /\ q * m <= w
  BY DivMod
<1>2. w * h \in Nat /\ n \in Nat /\ w * h <= n * m
  BY RoundUpFacts
<1> HIDE DEF q, n
<1>3. q * h \in Nat /\ q * m \in Nat
  BY <1>1
<1>4. (q * m) * h <= w * h
  BY <1>1, <1>3, TimesKeepsOrder
<1>5. (q * h) * m = (q * m) * h /\ (q * h) * m <= n * m /\ n * m \in Nat
  BY <1>1, <1>2, <1>4
<1>6. q * h <= n
  <2> SUFFICES ASSUME n + 1 <= q * h PROVE FALSE
    BY <1>2, <1>3
  <2>1. (n + 1) * m <= (q * h) * m
    BY <1>2, <1>3, TimesKeepsOrder
  <2>2. (n + 1) * m = n * m + m
    BY <1>2
  <2> QED BY <1>3, <1>5, <2>1, <2>2
<1> QED BY <1>3, <1>6 DEF q, n

\* A place mirrored within n blocks is in the mirrored block, mirrored.
LEMMA MirroredPlace ==
  ASSUME NEW a \in Nat, NEW n \in Nat, NEW d \in Nat \ {0}, a < n * d
  PROVE  /\ n * d - 1 - a \in Nat /\ a \div d < n /\ n - 1 - (a \div d) \in Nat
         /\ (n * d - 1 - a) \div d = n - 1 - (a \div d)
         /\ (n * d - 1 - a) % d = d - 1 - (a % d)
<1>1. PICK q \in Nat, r \in 0..d - 1 : a = q * d + r /\ a \div d = q /\ a % d = r
  BY QuotientAndRest
<1>2. q < n /\ n * d \in Nat
  BY <1>1, DivBelow
<1> DEFINE p == n - 1 - q
           o == d - 1 - r
<1>3. p \in Nat /\ o \in 0..d - 1
  BY <1>1, <1>2
<1>4. n * d - 1 - a = p * d + o
  BY <1>1
<1> HIDE DEF p, o
<1>5. (p * d + o) \div d = p /\ (p * d + o) % d = o
  BY <1>3, DivUnique
<1>6. n * d - 1 - a \in Nat
  BY <1>2
<1> QED BY <1>1, <1>2, <1>3, <1>4, <1>5, <1>6 DEF p, o
-----------------------------------------------------------------------------
(* Images: components whose quantization tables are among the numbers Q *)

ColorSpaces == {"GRAYSCALE", "RGB", "YCbCr", "CMYK", "YCCK", "UNKNOWN"}
Freqs == (0..DCTSIZE - 1) \X (0..DCTSIZE - 1)
Block == [Freqs -> Int]
Component(Q) ==
  [id : Int, h_samp_factor : 1..MAX_SAMP_FACTOR, v_samp_factor : 1..MAX_SAMP_FACTOR,
   quant_tbl_no : Q, dc_tbl_no : Int, ac_tbl_no : Int]
Image(Q) ==
  [image_width : Nat \ {0}, image_height : Nat \ {0}, space : ColorSpaces,
   comp_info : Seq(Component(Q)) \ {<<>>}, quant : [Q -> Block]]

\* The first component is not subsampled.
FirstIsFull(image) ==
  /\ image.comp_info[1].h_samp_factor = MaxH(image.comp_info)
  /\ image.comp_info[1].v_samp_factor = MaxV(image.comp_info)

LEMMA MaxOfFactors ==
  ASSUME NEW S \in SUBSET (1..MAX_SAMP_FACTOR), S # {}
  PROVE  Max(S) \in S /\ \A x \in S : x <= Max(S)
<1>1. S \subseteq {1, 2, 3, 4}
  BY DEF MAX_SAMP_FACTOR
<1>2. PICK m \in S : \A x \in S : m >= x
  <2>1. CASE 4 \in S
    BY <1>1, <2>1
  <2>2. CASE 4 \notin S /\ 3 \in S
    BY <1>1, <2>2
  <2>3. CASE 4 \notin S /\ 3 \notin S /\ 2 \in S
    BY <1>1, <2>3
  <2>4. CASE 4 \notin S /\ 3 \notin S /\ 2 \notin S
    <3>1. S = {1}
      BY <1>1, <2>4
    <3> QED BY <3>1
  <2> QED BY <2>1, <2>2, <2>3, <2>4
<1> QED BY <1>1, <1>2 DEF Max

\* The largest factors of an image are factors, and no less than any.
LEMMA LargestFactors ==
  ASSUME NEW Q, NEW info \in Seq(Component(Q)), info # <<>>
  PROVE  /\ MaxH(info) \in 1..MAX_SAMP_FACTOR /\ MaxV(info) \in 1..MAX_SAMP_FACTOR
         /\ \A c \in DOMAIN info :
              /\ info[c] \in Component(Q)
              /\ info[c].h_samp_factor \in 1..MAX_SAMP_FACTOR /\ info[c].h_samp_factor <= MaxH(info)
              /\ info[c].v_samp_factor \in 1..MAX_SAMP_FACTOR /\ info[c].v_samp_factor <= MaxV(info)
         /\ 1 \in DOMAIN info
<1> DEFINE H == {c.h_samp_factor : c \in Range(info)}
           V == {c.v_samp_factor : c \in Range(info)}
<1>1. DOMAIN info = 1..Len(info) /\ Len(info) \in Nat \ {0}
      /\ \A c \in DOMAIN info : info[c] \in Component(Q)
  OBVIOUS
<1>2. \A c \in DOMAIN info : info[c] \in Range(info)
  BY DEF Range
<1>3. \A x \in Range(info) : x \in Component(Q)
  BY <1>1 DEF Range
<1>4. \A c \in DOMAIN info : info[c].h_samp_factor \in H /\ info[c].v_samp_factor \in V
  BY <1>2
<1>5. H \in SUBSET (1..MAX_SAMP_FACTOR) /\ V \in SUBSET (1..MAX_SAMP_FACTOR)
  BY <1>3 DEF Component
<1>6. 1 \in DOMAIN info
  BY <1>1
<1>7. H # {} /\ V # {}
  BY <1>4, <1>6
<1>8. MaxH(info) = Max(H) /\ MaxV(info) = Max(V)
  BY DEF MaxH, MaxV
<1> HIDE DEF H, V
<1>9. /\ Max(H) \in H /\ \A x \in H : x <= Max(H)
      /\ Max(V) \in V /\ \A x \in V : x <= Max(V)
  BY <1>5, <1>7, MaxOfFactors
<1> QED BY <1>1, <1>4, <1>5, <1>6, <1>8, <1>9

\* The size of a component in blocks.
LEMMA SizeInBlocks ==
  ASSUME NEW Q, NEW image \in Image(Q), NEW c \in DOMAIN image.comp_info
  PROVE  /\ WidthInBlocks(image, c) \in Nat /\ HeightInBlocks(image, c) \in Nat
         /\ MaxH(image.comp_info) * DCTSIZE \in Nat \ {0} /\ MaxV(image.comp_info) * DCTSIZE \in Nat \ {0}
         /\ image.image_width * image.comp_info[c].h_samp_factor \in Nat
         /\ image.image_height * image.comp_info[c].v_samp_factor \in Nat
<1>1. /\ MaxH(image.comp_info) \in Nat \ {0} /\ MaxV(image.comp_info) \in Nat \ {0}
      /\ image.comp_info[c].h_samp_factor \in Nat /\ image.comp_info[c].v_samp_factor \in Nat
  <2>1. image.comp_info \in Seq(Component(Q)) /\ image.comp_info # <<>>
    BY DEF Image
  <2>2. \A n \in 1..MAX_SAMP_FACTOR : n \in Nat \ {0}
    BY DEF MAX_SAMP_FACTOR
  <2> QED BY <2>1, <2>2, LargestFactors
<1>2. image.image_width \in Nat /\ image.image_height \in Nat
  BY DEF Image
<1>3. /\ MaxH(image.comp_info) * DCTSIZE \in Nat \ {0} /\ MaxV(image.comp_info) * DCTSIZE \in Nat \ {0}
      /\ image.image_width * image.comp_info[c].h_samp_factor \in Nat
      /\ image.image_height * image.comp_info[c].v_samp_factor \in Nat
  BY <1>1, <1>2, DctsizeAssumption
<1> QED BY <1>3, RoundUpFacts DEF WidthInBlocks, HeightInBlocks

-----------------------------------------------------------------------------
(* What jtransform_adjust_parameters makes of an image *)

LEMMA TransposedBlock ==
  ASSUME NEW b \in Block
  PROVE  TransposeBlock(b) \in Block /\ \A i, j \in 0..DCTSIZE - 1 : TransposeBlock(b)[<<i, j>>] = b[<<j, i>>]
  BY DEF TransposeBlock, Block, Freqs

\* Grayscale keeps the first component, at its size, with its table.
LEMMA GrayFacts ==
  ASSUME NEW Q, NEW image \in Image(Q), FirstIsFull(image)
  PROVE  LET gray == ForceGrayscale(image)
         IN  /\ gray \in Image(Q) /\ DOMAIN gray.comp_info = {1} /\ 1 \in DOMAIN image.comp_info
             /\ gray.quant = image.quant
             /\ gray.comp_info[1].quant_tbl_no = image.comp_info[1].quant_tbl_no
             /\ gray.comp_info[1].h_samp_factor = 1 /\ gray.comp_info[1].v_samp_factor = 1
             /\ WidthInBlocks(gray, 1) = WidthInBlocks(image, 1)
             /\ HeightInBlocks(gray, 1) = HeightInBlocks(image, 1)
<1> DEFINE gray == ForceGrayscale(image)
           info == image.comp_info
           comp == [SetComp(1, 1, 0) EXCEPT !.quant_tbl_no = info[1].quant_tbl_no]
<1>1. info \in Seq(Component(Q)) /\ info # <<>> /\ image.quant \in [Q -> Block]
  BY DEF Image
<1>2. /\ info[1] \in Component(Q) /\ 1 \in DOMAIN info
      /\ MaxH(info) \in 1..MAX_SAMP_FACTOR /\ MaxV(info) \in 1..MAX_SAMP_FACTOR
      /\ info[1].h_samp_factor = MaxH(info) /\ info[1].v_samp_factor = MaxV(info)
  BY <1>1, LargestFactors DEF FirstIsFull
<1>3. comp \in Component(Q) /\ comp.h_samp_factor = 1 /\ comp.v_samp_factor = 1
      /\ comp.quant_tbl_no = info[1].quant_tbl_no
  BY <1>2 DEF Component, SetComp, MAX_SAMP_FACTOR
<1>4. SetColorspace("GRAYSCALE", 1).comp_info[1] = SetComp(1, 1, 0)
  <2>1. SetColorspace("GRAYSCALE", 1).comp_info = Full(<<1>>)
    BY DEF SetColorspace
  <2>2. DOMAIN <<1>> = {1} /\ <<1>>[1] = 1
    OBVIOUS
  <2> QED BY <2>1, <2>2 DEF Full
<1>5. gray = [image EXCEPT !.space = "GRAYSCALE", !.comp_info = <<comp>>]
  BY <1>4 DEF ForceGrayscale
<1> HIDE DEF comp
<1>6. <<comp>> \in Seq(Component(Q)) \ {<<>>} /\ DOMAIN <<comp>> = {1} /\ <<comp>>[1] = comp
  BY <1>3
<1>7. /\ gray.comp_info = <<comp>> /\ gray.quant = image.quant
      /\ gray.image_width = image.image_width /\ gray.image_height = image.image_height
      /\ gray \in Image(Q)
  <2> HIDE DEF gray
  <2> QED BY <1>5, <1>6 DEF Image, ColorSpaces
<1> HIDE DEF gray
<1>8. MaxH(<<comp>>) = 1 /\ MaxV(<<comp>>) = 1
  <2>1. Range(<<comp>>) = {comp}
    BY <1>6 DEF Range
  <2>2. Max({1}) = 1
    BY DEF Max
  <2> QED BY <1>3, <2>1, <2>2 DEF MaxH, MaxV
<1>9. image.image_width \in Nat /\ image.image_height \in Nat
  BY DEF Image
<1>10. WidthInBlocks(gray, 1) = WidthInBlocks(image, 1)
  <2>1. WidthInBlocks(gray, 1) = DivRoundUp(image.image_width * 1, 1 * DCTSIZE)
    BY <1>3, <1>6, <1>7, <1>8 DEF WidthInBlocks
  <2>2. WidthInBlocks(image, 1) = DivRoundUp(image.image_width * MaxH(info), MaxH(info) * DCTSIZE)
    BY <1>2 DEF WidthInBlocks
  <2>3. MaxH(info) \in Nat \ {0}
    BY <1>2
  <2>4. DivRoundUp(image.image_width * MaxH(info), MaxH(info) * DCTSIZE) = DivRoundUp(image.image_width, DCTSIZE)
    BY <1>9, <2>3, RoundUpCancels, DctsizeAssumption
  <2>5. image.image_width * 1 = image.image_width /\ 1 * DCTSIZE = DCTSIZE
    BY <1>9, DctsizeAssumption
  <2> QED BY <2>1, <2>2, <2>4, <2>5
<1>11. HeightInBlocks(gray, 1) = HeightInBlocks(image, 1)
  <2>1. HeightInBlocks(gray, 1) = DivRoundUp(image.image_height * 1, 1 * DCTSIZE)
    BY <1>3, <1>6, <1>7, <1>8 DEF HeightInBlocks
  <2>2. HeightInBlocks(image, 1) = DivRoundUp(image.image_height * MaxV(info), MaxV(info) * DCTSIZE)
    BY <1>2 DEF HeightInBlocks
  <2>3. MaxV(info) \in Nat \ {0}
    BY <1>2
  <2>4. DivRoundUp(image.image_height * MaxV(info), MaxV(info) * DCTSIZE) = DivRoundUp(image.image_height, DCTSIZE)
    BY <1>9, <2>3, RoundUpCancels, DctsizeAssumption
  <2>5. image.image_height * 1 = image.image_height /\ 1 * DCTSIZE = DCTSIZE
    BY <1>9, DctsizeAssumption
  <2> QED BY <2>1, <2>2, <2>4, <2>5
<1> QED BY <1>2, <1>3, <1>6, <1>7, <1>10, <1>11 DEF gray
\* A component is made no larger, nor are the whole iMCUs it is padded to.
PaddedWidth(image, c) == RoundUpTo(WidthInBlocks(image, c), image.comp_info[c].h_samp_factor)
PaddedHeight(image, c) == RoundUpTo(HeightInBlocks(image, c), image.comp_info[c].v_samp_factor)
NoLarger(dst, image, c) ==
  /\ WidthInBlocks(dst, c) <= WidthInBlocks(image, c) /\ PaddedWidth(dst, c) <= PaddedWidth(image, c)
  /\ HeightInBlocks(dst, c) <= HeightInBlocks(image, c) /\ PaddedHeight(dst, c) <= PaddedHeight(image, c)

LEMMA PaddedSizes ==
  ASSUME NEW Q, NEW image \in Image(Q), NEW c \in DOMAIN image.comp_info
  PROVE  /\ PaddedWidth(image, c) \in Nat /\ WidthInBlocks(image, c) <= PaddedWidth(image, c)
         /\ PaddedHeight(image, c) \in Nat /\ HeightInBlocks(image, c) <= PaddedHeight(image, c)
<1>1. /\ WidthInBlocks(image, c) \in Nat /\ HeightInBlocks(image, c) \in Nat
      /\ image.comp_info[c].h_samp_factor \in Nat \ {0} /\ image.comp_info[c].v_samp_factor \in Nat \ {0}
  <2>1. image.comp_info \in Seq(Component(Q)) /\ image.comp_info # <<>>
    BY DEF Image
  <2>2. \A n \in 1..MAX_SAMP_FACTOR : n \in Nat \ {0}
    BY DEF MAX_SAMP_FACTOR
  <2> QED BY <2>1, <2>2, LargestFactors, SizeInBlocks
<1> QED BY <1>1, RoundUpKeepsOrder DEF PaddedWidth, PaddedHeight

LEMMA GrayIsNoLarger ==
  ASSUME NEW Q, NEW image \in Image(Q), FirstIsFull(image)
  PROVE  NoLarger(ForceGrayscale(image), image, 1)
<1>1. /\ WidthInBlocks(image, 1) \in Nat /\ HeightInBlocks(image, 1) \in Nat
      /\ PaddedWidth(image, 1) \in Nat /\ WidthInBlocks(image, 1) <= PaddedWidth(image, 1)
      /\ PaddedHeight(image, 1) \in Nat /\ HeightInBlocks(image, 1) <= PaddedHeight(image, 1)
  BY GrayFacts, SizeInBlocks, PaddedSizes
<1>2. /\ PaddedWidth(ForceGrayscale(image), 1) = WidthInBlocks(image, 1)
      /\ PaddedHeight(ForceGrayscale(image), 1) = HeightInBlocks(image, 1)
  BY <1>1, GrayFacts, RoundUpToOne DEF PaddedWidth, PaddedHeight
<1> QED BY <1>1, <1>2, GrayFacts DEF NoLarger

\* Transposed, an image has its sides, its factors and its tables swapped.
LEMMA TransposedFacts ==
  ASSUME NEW Q, NEW image \in Image(Q)
  PROVE  LET turned == TransposeCriticalParameters(image)
         IN  /\ turned \in Image(Q) /\ DOMAIN turned.comp_info = DOMAIN image.comp_info
             /\ \A n \in Q : turned.quant[n] = TransposeBlock(image.quant[n])
             /\ \A c \in DOMAIN image.comp_info :
                  /\ turned.comp_info[c].quant_tbl_no = image.comp_info[c].quant_tbl_no
                  /\ WidthInBlocks(turned, c) = HeightInBlocks(image, c)
                  /\ HeightInBlocks(turned, c) = WidthInBlocks(image, c)
                  /\ PaddedWidth(turned, c) = PaddedHeight(image, c)
                  /\ PaddedHeight(turned, c) = PaddedWidth(image, c)
<1> DEFINE turned == TransposeCriticalParameters(image)
           info == image.comp_info
           swapped == [i \in DOMAIN info |-> Swapped(info[i])]
           tables == [t \in DOMAIN image.quant |-> TransposeBlock(image.quant[t])]
<1>1. info \in Seq(Component(Q)) /\ info # <<>> /\ image.quant \in [Q -> Block]
      /\ DOMAIN info = 1..Len(info) /\ Len(info) \in Nat
  BY DEF Image
<1>2. \A k \in Component(Q) :
        /\ Swapped(k) \in Component(Q) /\ Swapped(k).quant_tbl_no = k.quant_tbl_no
        /\ Swapped(k).h_samp_factor = k.v_samp_factor /\ Swapped(k).v_samp_factor = k.h_samp_factor
  BY DEF Swapped, Component
<1>3. \A i \in DOMAIN info : info[i] \in Component(Q)
  BY <1>1
<1>4. swapped \in [1..Len(info) -> Component(Q)]
  BY <1>1, <1>2, <1>3
<1>5. swapped \in Seq(Component(Q)) /\ DOMAIN swapped = DOMAIN info
      /\ \A i \in DOMAIN info : swapped[i] = Swapped(info[i])
  BY <1>1, <1>4
<1>6. swapped # <<>>
  BY <1>1, <1>5
<1>7. tables \in [Q -> Block] /\ \A n \in Q : tables[n] = TransposeBlock(image.quant[n])
  BY <1>1, TransposedBlock
<1>8. turned = [image EXCEPT !.image_width = image.image_height, !.image_height = image.image_width,
                             !.comp_info = swapped, !.quant = tables]
  BY DEF TransposeCriticalParameters
<1> HIDE DEF swapped, tables, turned
<1>9. /\ turned \in Image(Q) /\ turned.comp_info = swapped /\ turned.quant = tables
      /\ turned.image_width = image.image_height /\ turned.image_height = image.image_width
  BY <1>5, <1>6, <1>7, <1>8 DEF Image
<1>10. MaxH(swapped) = MaxV(info) /\ MaxV(swapped) = MaxH(info)
  <2>1. \A i \in DOMAIN info : swapped[i].h_samp_factor = info[i].v_samp_factor
                               /\ swapped[i].v_samp_factor = info[i].h_samp_factor
    BY <1>2, <1>3, <1>5
  <2>2. /\ {k.h_samp_factor : k \in Range(swapped)} = {k.v_samp_factor : k \in Range(info)}
        /\ {k.v_samp_factor : k \in Range(swapped)} = {k.h_samp_factor : k \in Range(info)}
    BY <1>5, <2>1 DEF Range
  <2> QED BY <2>2 DEF MaxH, MaxV
<1>11. ASSUME NEW c \in DOMAIN info
       PROVE  /\ swapped[c].quant_tbl_no = info[c].quant_tbl_no
              /\ WidthInBlocks(turned, c) = HeightInBlocks(image, c)
              /\ HeightInBlocks(turned, c) = WidthInBlocks(image, c)
              /\ swapped[c].h_samp_factor = info[c].v_samp_factor
              /\ swapped[c].v_samp_factor = info[c].h_samp_factor
  BY <1>2, <1>3, <1>5, <1>9, <1>10 DEF WidthInBlocks, HeightInBlocks
<1> QED BY <1>5, <1>7, <1>9, <1>11 DEF turned, PaddedWidth, PaddedHeight

LEMMA TrimmedFacts ==
  ASSUME NEW a \in Nat \ {0}, NEW d \in Nat \ {0}
  PROVE  Trimmed(a, d) \in Nat \ {0} /\ Trimmed(a, d) <= a
<1>1. PICK q \in Nat, r \in 0..d - 1 : a = q * d + r /\ a \div d = q
  BY QuotientAndRest
<1>2. a >= d => q # 0
  BY <1>1
<1>3. q # 0 => q * d \in Nat \ {0}
  BY TimesKeepsOrder
<1>4. q * d \in Nat /\ q * d <= a
  BY <1>1
<1> QED BY <1>1, <1>2, <1>3, <1>4 DEF Trimmed

\* Trimmed at an edge, an image is no larger and otherwise the same.
LEMMA TrimmedRight ==
  ASSUME NEW Q, NEW image \in Image(Q)
  PROVE  LET out == TrimRightEdge(image)
         IN  /\ out \in Image(Q) /\ out.comp_info = image.comp_info /\ out.quant = image.quant
             /\ \A c \in DOMAIN image.comp_info : NoLarger(out, image, c)
<1> DEFINE out == TrimRightEdge(image)
           info == image.comp_info
           width == Trimmed(image.image_width, MaxH(info) * DCTSIZE)
<1>1. image.image_width \in Nat \ {0} /\ image.image_height \in Nat \ {0}
      /\ info \in Seq(Component(Q)) /\ info # <<>>
  BY DEF Image
<1>2. MaxH(info) * DCTSIZE \in Nat \ {0}
  BY <1>1, LargestFactors, SizeInBlocks
<1>3. width \in Nat \ {0} /\ width <= image.image_width
  BY <1>1, <1>2, TrimmedFacts
<1>4. out = [image EXCEPT !.image_width = width]
  BY DEF TrimRightEdge
<1> HIDE DEF out, width
<1>5. /\ out \in Image(Q) /\ out.comp_info = info /\ out.quant = image.quant
      /\ out.image_width = width /\ out.image_height = image.image_height
  BY <1>3, <1>4 DEF Image
<1>6. ASSUME NEW c \in DOMAIN info PROVE NoLarger(out, image, c)
  <2> DEFINE h == info[c].h_samp_factor
  <2>1. h \in Nat \ {0}
    BY <1>1, LargestFactors DEF MAX_SAMP_FACTOR
  <2> HIDE DEF h
  <2>2. width * h <= image.image_width * h /\ width * h \in Nat /\ image.image_width * h \in Nat
    <3>1. width * h \in Nat /\ image.image_width * h \in Nat
      BY <1>1, <1>3, <2>1, TimesIsNat
    <3>2. width \in Int /\ image.image_width \in Int /\ h \in Nat /\ width <= image.image_width
      BY <1>1, <1>3, <2>1
    <3>3. width * h <= image.image_width * h
      BY <3>2, TimesKeepsOrder
    <3> QED BY <3>1, <3>3
  <2>3. WidthInBlocks(out, c) <= WidthInBlocks(image, c)
    <3>1. DivRoundUp(width * h, MaxH(info) * DCTSIZE) <= DivRoundUp(image.image_width * h, MaxH(info) * DCTSIZE)
      BY <1>2, <2>2, RoundUpKeepsOrder
    <3> QED BY <1>5, <3>1 DEF h, WidthInBlocks
  <2>4. HeightInBlocks(out, c) = HeightInBlocks(image, c)
    BY <1>5 DEF HeightInBlocks
  <2>5. /\ WidthInBlocks(out, c) \in Nat /\ WidthInBlocks(image, c) \in Nat
        /\ HeightInBlocks(image, c) \in Nat /\ PaddedHeight(image, c) \in Nat
    BY <1>5, SizeInBlocks, PaddedSizes
  <2>6. PaddedWidth(out, c) <= PaddedWidth(image, c)
    BY <1>5, <2>1, <2>3, <2>5, RoundUpKeepsOrder DEF h, PaddedWidth
  <2>7. PaddedHeight(out, c) = PaddedHeight(image, c)
    BY <1>5, <2>4 DEF PaddedHeight
  <2> QED BY <2>3, <2>4, <2>5, <2>6, <2>7 DEF NoLarger
<1> QED BY <1>5, <1>6 DEF out

LEMMA TrimmedBottom ==
  ASSUME NEW Q, NEW image \in Image(Q)
  PROVE  LET out == TrimBottomEdge(image)
         IN  /\ out \in Image(Q) /\ out.comp_info = image.comp_info /\ out.quant = image.quant
             /\ \A c \in DOMAIN image.comp_info : NoLarger(out, image, c)
<1> DEFINE out == TrimBottomEdge(image)
           info == image.comp_info
           height == Trimmed(image.image_height, MaxV(info) * DCTSIZE)
<1>1. image.image_width \in Nat \ {0} /\ image.image_height \in Nat \ {0}
      /\ info \in Seq(Component(Q)) /\ info # <<>>
  BY DEF Image
<1>2. MaxV(info) * DCTSIZE \in Nat \ {0}
  BY <1>1, LargestFactors, SizeInBlocks
<1>3. height \in Nat \ {0} /\ height <= image.image_height
  BY <1>1, <1>2, TrimmedFacts
<1>4. out = [image EXCEPT !.image_height = height]
  BY DEF TrimBottomEdge
<1> HIDE DEF out, height
<1>5. /\ out \in Image(Q) /\ out.comp_info = info /\ out.quant = image.quant
      /\ out.image_height = height /\ out.image_width = image.image_width
  BY <1>3, <1>4 DEF Image
<1>6. ASSUME NEW c \in DOMAIN info PROVE NoLarger(out, image, c)
  <2> DEFINE v == info[c].v_samp_factor
  <2>1. v \in Nat \ {0}
    BY <1>1, LargestFactors DEF MAX_SAMP_FACTOR
  <2> HIDE DEF v
  <2>2. height * v <= image.image_height * v /\ height * v \in Nat /\ image.image_height * v \in Nat
    <3>1. height * v \in Nat /\ image.image_height * v \in Nat
      BY <1>1, <1>3, <2>1, TimesIsNat
    <3>2. height \in Int /\ image.image_height \in Int /\ v \in Nat /\ height <= image.image_height
      BY <1>1, <1>3, <2>1
    <3>3. height * v <= image.image_height * v
      BY <3>2, TimesKeepsOrder
    <3> QED BY <3>1, <3>3
  <2>3. HeightInBlocks(out, c) <= HeightInBlocks(image, c)
    <3>1. DivRoundUp(height * v, MaxV(info) * DCTSIZE) <= DivRoundUp(image.image_height * v, MaxV(info) * DCTSIZE)
      BY <1>2, <2>2, RoundUpKeepsOrder
    <3> QED BY <1>5, <3>1 DEF v, HeightInBlocks
  <2>4. WidthInBlocks(out, c) = WidthInBlocks(image, c)
    BY <1>5 DEF WidthInBlocks
  <2>5. /\ HeightInBlocks(out, c) \in Nat /\ HeightInBlocks(image, c) \in Nat
        /\ WidthInBlocks(image, c) \in Nat /\ PaddedWidth(image, c) \in Nat
    BY <1>5, SizeInBlocks, PaddedSizes
  <2>6. PaddedHeight(out, c) <= PaddedHeight(image, c)
    BY <1>5, <2>1, <2>3, <2>5, RoundUpKeepsOrder DEF v, PaddedHeight
  <2>7. PaddedWidth(out, c) = PaddedWidth(image, c)
    BY <1>5, <2>4 DEF PaddedWidth
  <2> QED BY <2>3, <2>4, <2>5, <2>6, <2>7 DEF NoLarger
<1> QED BY <1>5, <1>6 DEF out
LEMMA NoLargerChain ==
  ASSUME NEW Q, NEW a \in Image(Q), NEW b \in Image(Q), NEW d \in Image(Q),
         NEW c \in DOMAIN a.comp_info, c \in DOMAIN b.comp_info, c \in DOMAIN d.comp_info,
         NoLarger(a, b, c), NoLarger(b, d, c)
  PROVE  NoLarger(a, d, c)
<1>1. \A i \in {a, b, d} :
        /\ WidthInBlocks(i, c) \in Nat /\ HeightInBlocks(i, c) \in Nat
        /\ PaddedWidth(i, c) \in Nat /\ PaddedHeight(i, c) \in Nat
  BY SizeInBlocks, PaddedSizes
<1> QED BY <1>1 DEF NoLarger

LEMMA TrimmedEdges ==
  ASSUME NEW Q, NEW image \in Image(Q), NEW transform
  PROVE  LET out == TrimEdges(image, transform)
         IN  /\ out \in Image(Q) /\ out.comp_info = image.comp_info /\ out.quant = image.quant
             /\ \A c \in DOMAIN image.comp_info : NoLarger(out, image, c)
<1> DEFINE right == IF transform \in MirroringX THEN TrimRightEdge(image) ELSE image
           out == IF transform \in MirroringY THEN TrimBottomEdge(right) ELSE right
<1>1. /\ right \in Image(Q) /\ right.comp_info = image.comp_info /\ right.quant = image.quant
      /\ \A c \in DOMAIN image.comp_info : NoLarger(right, image, c)
  <2>1. ASSUME NEW c \in DOMAIN image.comp_info PROVE NoLarger(image, image, c)
    BY SizeInBlocks, PaddedSizes DEF NoLarger
  <2>2. CASE transform \in MirroringX
    BY <2>2, TrimmedRight
  <2>3. CASE transform \notin MirroringX
    BY <2>1, <2>3
  <2> QED BY <2>2, <2>3
<1> HIDE DEF right
<1>2. /\ out \in Image(Q) /\ out.comp_info = right.comp_info /\ out.quant = right.quant
      /\ \A c \in DOMAIN image.comp_info : NoLarger(out, right, c)
  <2>1. ASSUME NEW c \in DOMAIN image.comp_info PROVE NoLarger(right, right, c)
    BY <1>1, SizeInBlocks, PaddedSizes DEF NoLarger
  <2>2. CASE transform \in MirroringY
    BY <1>1, <2>2, TrimmedBottom
  <2>3. CASE transform \notin MirroringY
    BY <1>1, <2>1, <2>3
  <2> QED BY <2>2, <2>3
<1> HIDE DEF out
<1>3. ASSUME NEW c \in DOMAIN image.comp_info PROVE NoLarger(out, image, c)
  BY <1>1, <1>2, NoLargerChain
<1>4. TrimEdges(image, transform) = out
  BY DEF TrimEdges, out, right
<1> QED BY <1>1, <1>2, <1>3, <1>4

-----------------------------------------------------------------------------
Info == [transform : Transforms, trim : BOOLEAN, force_grayscale : BOOLEAN]
Table(image, c) == image.quant[image.comp_info[c].quant_tbl_no]

\* The image transformed has components of the source, turned as it is, no larger, with
\* their quantization tables.
FitsTurned(dst, image, c) ==
  /\ WidthInBlocks(dst, c) <= HeightInBlocks(image, c) /\ PaddedWidth(dst, c) <= PaddedHeight(image, c)
  /\ HeightInBlocks(dst, c) <= WidthInBlocks(image, c) /\ PaddedHeight(dst, c) <= PaddedWidth(image, c)

LEMMA Adjusted ==
  ASSUME NEW Q, NEW image \in Image(Q), NEW info \in Info,
         info.force_grayscale => FirstIsFull(image),
         NEW c \in DOMAIN AdjustParameters(image, info).comp_info
  PROVE  LET dst == AdjustParameters(image, info)
         IN  /\ dst \in Image(Q) /\ c \in DOMAIN image.comp_info
             /\ info.transform \in Transposing =>
                  FitsTurned(dst, image, c) /\ Table(dst, c) = TransposeBlock(Table(image, c))
             /\ info.transform \notin Transposing =>
                  NoLarger(dst, image, c) /\ Table(dst, c) = Table(image, c)
<1> DEFINE gray == IF info.force_grayscale THEN ForceGrayscale(image) ELSE image
           turned == IF info.transform \in Transposing THEN TransposeCriticalParameters(gray) ELSE gray
           dst == IF info.trim THEN TrimEdges(turned, info.transform) ELSE turned
<1>0. AdjustParameters(image, info) = dst
  BY DEF AdjustParameters
<1>1. /\ gray \in Image(Q)
      /\ \A k \in DOMAIN gray.comp_info :
           k \in DOMAIN image.comp_info /\ NoLarger(gray, image, k) /\ Table(gray, k) = Table(image, k)
  <2>1. CASE info.force_grayscale
    BY <2>1, GrayFacts, GrayIsNoLarger DEF Table
  <2>2. CASE ~info.force_grayscale
    <3>1. ASSUME NEW k \in DOMAIN image.comp_info PROVE NoLarger(image, image, k)
      BY SizeInBlocks, PaddedSizes DEF NoLarger
    <3> QED BY <2>2, <3>1
  <2> QED BY <2>1, <2>2
<1> HIDE DEF gray
<1>2. /\ turned \in Image(Q) /\ DOMAIN turned.comp_info = DOMAIN gray.comp_info
      /\ \A k \in DOMAIN gray.comp_info :
           /\ info.transform \in Transposing =>
                FitsTurned(turned, image, k) /\ Table(turned, k) = TransposeBlock(Table(gray, k))
           /\ info.transform \notin Transposing =>
                NoLarger(turned, image, k) /\ Table(turned, k) = Table(gray, k)
  <2>1. CASE info.transform \in Transposing
    <3>1. turned = TransposeCriticalParameters(gray)
      BY <2>1
    <3> HIDE DEF turned
    <3>2. turned \in Image(Q) /\ DOMAIN turned.comp_info = DOMAIN gray.comp_info
      BY <1>1, <3>1, TransposedFacts
    <3>3. ASSUME NEW k \in DOMAIN gray.comp_info PROVE FitsTurned(turned, image, k)
      <4>1. /\ WidthInBlocks(turned, k) = HeightInBlocks(gray, k)
            /\ HeightInBlocks(turned, k) = WidthInBlocks(gray, k)
            /\ PaddedWidth(turned, k) = PaddedHeight(gray, k)
            /\ PaddedHeight(turned, k) = PaddedWidth(gray, k)
        BY <1>1, <3>1, TransposedFacts
      <4> QED BY <1>1, <4>1 DEF FitsTurned, NoLarger
    <3>4. ASSUME NEW k \in DOMAIN gray.comp_info PROVE Table(turned, k) = TransposeBlock(Table(gray, k))
      <4>1. gray.comp_info[k].quant_tbl_no \in Q
        <5>1. gray.comp_info \in Seq(Component(Q)) /\ gray.comp_info # <<>>
          BY <1>1 DEF Image
        <5>2. gray.comp_info[k] \in Component(Q)
          BY <5>1, LargestFactors
        <5> QED BY <5>2 DEF Component
      <4>2. /\ \A n \in Q : turned.quant[n] = TransposeBlock(gray.quant[n])
            /\ turned.comp_info[k].quant_tbl_no = gray.comp_info[k].quant_tbl_no
        BY <1>1, <3>1, TransposedFacts
      <4> QED BY <4>1, <4>2 DEF Table
    <3> QED BY <2>1, <3>2, <3>3, <3>4
  <2>2. CASE info.transform \notin Transposing
    BY <1>1, <2>2
  <2> QED BY <2>1, <2>2
<1> HIDE DEF turned
<1>3. /\ dst \in Image(Q) /\ dst.comp_info = turned.comp_info /\ dst.quant = turned.quant
      /\ \A k \in DOMAIN turned.comp_info : NoLarger(dst, turned, k)
  <2>1. CASE info.trim
    BY <1>2, <2>1, TrimmedEdges
  <2>2. CASE ~info.trim
    <3>1. ASSUME NEW k \in DOMAIN turned.comp_info PROVE NoLarger(turned, turned, k)
      BY <1>2, SizeInBlocks, PaddedSizes DEF NoLarger
    <3> QED BY <1>2, <2>2, <3>1
  <2> QED BY <2>1, <2>2
<1> HIDE DEF dst
<1>4. c \in DOMAIN dst.comp_info
  BY <1>0
<1>5. c \in DOMAIN turned.comp_info /\ c \in DOMAIN gray.comp_info /\ c \in DOMAIN image.comp_info
      /\ Table(dst, c) = Table(turned, c) /\ Table(gray, c) = Table(image, c)
  BY <1>1, <1>2, <1>3, <1>4 DEF Table
<1>6. CASE info.transform \in Transposing
  <2>1. FitsTurned(turned, image, c) /\ NoLarger(dst, turned, c)
    BY <1>2, <1>3, <1>5, <1>6
  <2>2. FitsTurned(dst, image, c)
    <3>1. /\ WidthInBlocks(dst, c) \in Nat /\ HeightInBlocks(dst, c) \in Nat
          /\ PaddedWidth(dst, c) \in Nat /\ PaddedHeight(dst, c) \in Nat
          /\ WidthInBlocks(turned, c) \in Nat /\ HeightInBlocks(turned, c) \in Nat
          /\ PaddedWidth(turned, c) \in Nat /\ PaddedHeight(turned, c) \in Nat
          /\ WidthInBlocks(image, c) \in Nat /\ HeightInBlocks(image, c) \in Nat
          /\ PaddedWidth(image, c) \in Nat /\ PaddedHeight(image, c) \in Nat
      BY <1>2, <1>3, <1>4, <1>5, SizeInBlocks, PaddedSizes
    <3> QED BY <2>1, <3>1 DEF FitsTurned, NoLarger
  <2> QED BY <1>0, <1>2, <1>3, <1>5, <1>6, <2>2
<1>7. CASE info.transform \notin Transposing
  <2>1. NoLarger(turned, image, c) /\ NoLarger(dst, turned, c)
    BY <1>2, <1>3, <1>5, <1>7
  <2>2. NoLarger(dst, image, c)
    BY <1>2, <1>3, <1>4, <1>5, <2>1, NoLargerChain
  <2> QED BY <1>0, <1>2, <1>3, <1>5, <1>7, <2>2
<1> QED BY <1>6, <1>7

-----------------------------------------------------------------------------
(* What the routines make of blocks *)

\* Mirrored within n blocks; the blocks after them stay.
Mirrored(at, n) == IF at < n THEN n - 1 - at ELSE at

\* The block of the source that goes to a place, and what is done to it.
BlockFrom(g, transform, row, col) ==
  LET my == IF transform \in MirroringY THEN Mirrored(row, g.comp_height) ELSE row
      mx == IF transform \in MirroringX THEN Mirrored(col, g.comp_width) ELSE col
  IN  IF transform \in Transposing THEN <<mx, my>> ELSE <<my, mx>>
Turned(b, g, transform, row, col) ==
  LET tb == IF transform \in Transposing THEN TransposeBlock(b) ELSE b
      cb == IF transform \in MirroringX /\ col < g.comp_width THEN NegateOddColumns(tb) ELSE tb
  IN  IF transform \in MirroringY /\ row < g.comp_height THEN NegateOddRows(cb) ELSE cb

Geometries ==
  [width_in_blocks : Nat, height_in_blocks : Nat, h_samp_factor : 1..MAX_SAMP_FACTOR,
   v_samp_factor : 1..MAX_SAMP_FACTOR, comp_width : Nat, comp_height : Nat]

LEMMA GeometryFacts ==
  ASSUME NEW Q, NEW dst \in Image(Q), NEW c \in DOMAIN dst.comp_info
  PROVE  LET g == Geometry(dst, c)
         IN  /\ g \in Geometries
             /\ g.width_in_blocks = WidthInBlocks(dst, c) /\ g.height_in_blocks = HeightInBlocks(dst, c)
             /\ Columns(g) = PaddedWidth(dst, c)
             /\ RoundUpTo(g.height_in_blocks, g.v_samp_factor) = PaddedHeight(dst, c)
             /\ g.comp_width <= g.width_in_blocks /\ g.comp_height <= g.height_in_blocks
<1> DEFINE g == Geometry(dst, c)
           comp == dst.comp_info[c]
           w == dst.image_width
           h == dst.image_height
           mw == MaxH(dst.comp_info) * DCTSIZE
           mh == MaxV(dst.comp_info) * DCTSIZE
<1>1. /\ comp.h_samp_factor \in 1..MAX_SAMP_FACTOR /\ comp.v_samp_factor \in 1..MAX_SAMP_FACTOR
      /\ comp.h_samp_factor \in Nat /\ comp.v_samp_factor \in Nat
  <2>1. dst.comp_info \in Seq(Component(Q)) /\ dst.comp_info # <<>>
    BY DEF Image
  <2>2. \A n \in 1..MAX_SAMP_FACTOR : n \in Nat
    BY DEF MAX_SAMP_FACTOR
  <2> QED BY <2>1, <2>2, LargestFactors
<1>2. w \in Nat /\ h \in Nat /\ mw \in Nat \ {0} /\ mh \in Nat \ {0}
  BY SizeInBlocks DEF Image
<1>3. /\ (w \div mw) * comp.h_samp_factor \in Nat
      /\ (w \div mw) * comp.h_samp_factor <= DivRoundUp(w * comp.h_samp_factor, mw)
      /\ (h \div mh) * comp.v_samp_factor \in Nat
      /\ (h \div mh) * comp.v_samp_factor <= DivRoundUp(h * comp.v_samp_factor, mh)
  <2> HIDE DEF w, h, mw, mh, comp
  <2> QED BY <1>1, <1>2, WholeIsPart
<1>4. /\ g.width_in_blocks = WidthInBlocks(dst, c) /\ g.height_in_blocks = HeightInBlocks(dst, c)
      /\ g.h_samp_factor = comp.h_samp_factor /\ g.v_samp_factor = comp.v_samp_factor
      /\ g.comp_width = (w \div mw) * comp.h_samp_factor
      /\ g.comp_height = (h \div mh) * comp.v_samp_factor
      /\ g = [width_in_blocks |-> g.width_in_blocks, height_in_blocks |-> g.height_in_blocks,
              h_samp_factor |-> g.h_samp_factor, v_samp_factor |-> g.v_samp_factor,
              comp_width |-> g.comp_width, comp_height |-> g.comp_height]
  BY DEF Geometry
<1>5. WidthInBlocks(dst, c) \in Nat /\ HeightInBlocks(dst, c) \in Nat
  BY SizeInBlocks
<1> HIDE DEF g
<1>6. g \in Geometries
  BY <1>1, <1>3, <1>4, <1>5 DEF Geometries
<1>7. /\ g.comp_width <= g.width_in_blocks /\ g.comp_height <= g.height_in_blocks
  BY <1>3, <1>4 DEF WidthInBlocks, HeightInBlocks
<1>8. Columns(g) = PaddedWidth(dst, c)
      /\ RoundUpTo(g.height_in_blocks, g.v_samp_factor) = PaddedHeight(dst, c)
  BY <1>4 DEF Columns, PaddedWidth, PaddedHeight
<1> QED BY <1>4, <1>6, <1>7, <1>8 DEF g

\* Signs and transposition keep blocks blocks.
LEMMA ChangedBlocks ==
  ASSUME NEW b \in Block
  PROVE  NegateOddColumns(b) \in Block /\ NegateOddRows(b) \in Block /\ TransposeBlock(b) \in Block
<1>1. \A ij \in Freqs : b[ij] \in Int /\ -b[ij] \in Int /\ <<ij[2], ij[1]>> \in Freqs
  BY DEF Block, Freqs
<1>2. DOMAIN b = Freqs
  BY DEF Block
<1>3. NegateOddColumns(b) \in Block
  BY <1>1, <1>2 DEF NegateOddColumns, Block
<1>4. NegateOddRows(b) \in Block
  BY <1>1, <1>2 DEF NegateOddRows, Block
<1>5. TransposeBlock(b) \in Block
  BY <1>1, <1>2 DEF TransposeBlock, Block
<1> QED BY <1>3, <1>4, <1>5

Grid(height, width) == (0..height - 1) \X (0..width - 1)

\* Every routine turns the block that goes to a place and puts it there.
LEMMA ExecutedBlocks ==
  ASSUME NEW src, NEW g \in Geometries, NEW transform \in Transforms,
         NEW row \in 0..g.height_in_blocks - 1, NEW col \in 0..g.width_in_blocks - 1,
         transform = "FLIP_H" => <<row, col>> \in DOMAIN src
  PROVE  Execute(src, g, transform)[<<row, col>>] =
           Turned(src[BlockFrom(g, transform, row, col)], g, transform, row, col)
<1> DEFINE rows == RoundUpTo(g.height_in_blocks, g.v_samp_factor)
           cols == Columns(g)
           up == g.comp_height - row - 1
           left == g.comp_width - col - 1
<1>1. /\ g.height_in_blocks \in Nat /\ g.width_in_blocks \in Nat
      /\ g.height_in_blocks <= rows /\ rows \in Nat
      /\ g.width_in_blocks <= cols /\ cols \in Nat
  <2>1. /\ g.height_in_blocks \in Nat /\ g.width_in_blocks \in Nat
        /\ g.h_samp_factor \in Nat \ {0} /\ g.v_samp_factor \in Nat \ {0}
    BY DEF Geometries, MAX_SAMP_FACTOR
  <2>2. /\ RoundUpTo(g.height_in_blocks, g.v_samp_factor) \in Nat
        /\ g.height_in_blocks <= RoundUpTo(g.height_in_blocks, g.v_samp_factor)
        /\ RoundUpTo(g.width_in_blocks, g.h_samp_factor) \in Nat
        /\ g.width_in_blocks <= RoundUpTo(g.width_in_blocks, g.h_samp_factor)
    BY <2>1, RoundUpToHolds
  <2> QED BY <2>1, <2>2 DEF Columns
<1>2. g.comp_width \in Nat /\ g.comp_height \in Nat
  BY DEF Geometries
<1>3. row \in 0..rows - 1 /\ col \in 0..g.width_in_blocks - 1 /\ col \in 0..cols - 1 /\ row < rows
  BY <1>1
<1>4. up = g.comp_height - 1 - row /\ left = g.comp_width - 1 - col
  BY <1>1, <1>2
<1>5. /\ <<row, col>> \in (0..rows - 1) \X (0..g.width_in_blocks - 1)
      /\ <<row, col>> \in (0..rows - 1) \X (0..cols - 1)
      /\ <<row, col>>[1] = row /\ <<row, col>>[2] = col
  BY <1>3
<1> HIDE DEF rows, cols
<1>6. CASE transform = "NONE"
  <2>1. Execute(src, g, transform) = src
    BY <1>6 DEF Execute
  <2>2. transform \notin Transposing /\ transform \notin MirroringX /\ transform \notin MirroringY
    BY <1>6 DEF Transposing, MirroringX, MirroringY
  <2> QED BY <2>1, <2>2 DEF Turned, BlockFrom
<1>7. CASE transform = "FLIP_H"
  <2>1. Execute(src, g, transform) = DoFlipH(src, g)
    BY <1>7 DEF Execute
  <2>2. transform \notin Transposing /\ transform \in MirroringX /\ transform \notin MirroringY
    BY <1>7 DEF Transposing, MirroringX, MirroringY
  <2>3. DoFlipH(src, g)[<<row, col>>] =
          IF col < g.comp_width THEN NegateOddColumns(src[<<row, left>>]) ELSE src[<<row, col>>]
    BY <1>7, <1>3, <1>5 DEF DoFlipH, RowsTo, rows, cols
  <2>4. CASE col < g.comp_width
    BY <1>4, <2>1, <2>2, <2>3, <2>4 DEF Turned, BlockFrom, Mirrored
  <2>5. CASE ~(col < g.comp_width)
    BY <2>1, <2>2, <2>3, <2>5 DEF Turned, BlockFrom, Mirrored
  <2> QED BY <2>4, <2>5
<1>8. CASE transform = "FLIP_V"
  <2>1. Execute(src, g, transform) = DoFlipV(src, g)
    BY <1>8 DEF Execute
  <2>2. transform \notin Transposing /\ transform \notin MirroringX /\ transform \in MirroringY
    BY <1>8 DEF Transposing, MirroringX, MirroringY
  <2>3. DoFlipV(src, g)[<<row, col>>] =
          IF row < g.comp_height THEN NegateOddRows(src[<<up, col>>]) ELSE src[<<row, col>>]
    BY <1>5 DEF DoFlipV, RowsTo, rows, cols
  <2>4. CASE row < g.comp_height
    BY <1>4, <2>1, <2>2, <2>3, <2>4 DEF Turned, BlockFrom, Mirrored
  <2>5. CASE ~(row < g.comp_height)
    BY <2>1, <2>2, <2>3, <2>5 DEF Turned, BlockFrom, Mirrored
  <2> QED BY <2>4, <2>5
<1>9. CASE transform = "TRANSPOSE"
  <2>1. Execute(src, g, transform) = DoTranspose(src, g)
    BY <1>9 DEF Execute
  <2>2. transform \in Transposing /\ transform \notin MirroringX /\ transform \notin MirroringY
    BY <1>9 DEF Transposing, MirroringX, MirroringY
  <2>3. DoTranspose(src, g)[<<row, col>>] =
          TransposeBlock(src[<<col, row>>])
    BY <1>5 DEF DoTranspose, RowsTo, rows, cols
  <2> QED BY <2>1, <2>2, <2>3 DEF Turned, BlockFrom
<1>10. CASE transform = "ROT_90"
  <2>1. Execute(src, g, transform) = DoRot90(src, g)
    BY <1>10 DEF Execute
  <2>2. transform \in Transposing /\ transform \in MirroringX /\ transform \notin MirroringY
    BY <1>10 DEF Transposing, MirroringX, MirroringY
  <2>3. DoRot90(src, g)[<<row, col>>] =
          IF col < g.comp_width THEN NegateOddColumns(TransposeBlock(src[<<left, row>>]))
          ELSE TransposeBlock(src[<<col, row>>])
    BY <1>5 DEF DoRot90, RowsTo, rows, cols
  <2>4. CASE col < g.comp_width
    BY <1>4, <2>1, <2>2, <2>3, <2>4 DEF Turned, BlockFrom, Mirrored
  <2>5. CASE ~(col < g.comp_width)
    BY <2>1, <2>2, <2>3, <2>5 DEF Turned, BlockFrom, Mirrored
  <2> QED BY <2>4, <2>5
<1>11. CASE transform = "ROT_270"
  <2>1. Execute(src, g, transform) = DoRot270(src, g)
    BY <1>11 DEF Execute
  <2>2. transform \in Transposing /\ transform \notin MirroringX /\ transform \in MirroringY
    BY <1>11 DEF Transposing, MirroringX, MirroringY
  <2>3. DoRot270(src, g)[<<row, col>>] =
          IF row < g.comp_height THEN NegateOddRows(TransposeBlock(src[<<col, up>>]))
          ELSE TransposeBlock(src[<<col, row>>])
    BY <1>5 DEF DoRot270, RowsTo, rows, cols
  <2>4. CASE row < g.comp_height
    BY <1>4, <2>1, <2>2, <2>3, <2>4 DEF Turned, BlockFrom, Mirrored
  <2>5. CASE ~(row < g.comp_height)
    BY <2>1, <2>2, <2>3, <2>5 DEF Turned, BlockFrom, Mirrored
  <2> QED BY <2>4, <2>5
<1>12. CASE transform = "ROT_180"
  <2>1. Execute(src, g, transform) = DoRot180(src, g)
    BY <1>12 DEF Execute
  <2>2. transform \notin Transposing /\ transform \in MirroringX /\ transform \in MirroringY
    BY <1>12 DEF Transposing, MirroringX, MirroringY
  <2>3. CASE col < g.comp_width /\ row < g.comp_height
    <3>1. DoRot180(src, g)[<<row, col>>] = NegateOddRows(NegateOddColumns(src[<<up, left>>]))
      BY <1>5, <2>3 DEF DoRot180, RowsTo, rows, cols
    <3> QED BY <1>4, <2>1, <2>2, <2>3, <3>1 DEF Turned, BlockFrom, Mirrored
  <2>4. CASE ~(col < g.comp_width) /\ row < g.comp_height
    <3>1. DoRot180(src, g)[<<row, col>>] = NegateOddRows(src[<<up, col>>])
      BY <1>5, <2>4 DEF DoRot180, RowsTo, rows, cols
    <3> QED BY <1>4, <2>1, <2>2, <2>4, <3>1 DEF Turned, BlockFrom, Mirrored
  <2>5. CASE col < g.comp_width /\ ~(row < g.comp_height)
    <3>1. DoRot180(src, g)[<<row, col>>] = NegateOddColumns(src[<<row, left>>])
      BY <1>5, <2>5 DEF DoRot180, RowsTo, rows, cols
    <3> QED BY <1>4, <2>1, <2>2, <2>5, <3>1 DEF Turned, BlockFrom, Mirrored
  <2>6. CASE ~(col < g.comp_width) /\ ~(row < g.comp_height)
    <3>1. DoRot180(src, g)[<<row, col>>] = src[<<row, col>>]
      BY <1>5, <2>6 DEF DoRot180, RowsTo, rows, cols
    <3> QED BY <1>4, <2>1, <2>2, <2>6, <3>1 DEF Turned, BlockFrom, Mirrored
  <2> QED BY <2>3, <2>4, <2>5, <2>6
<1>13. CASE transform = "TRANSVERSE"
  <2>1. Execute(src, g, transform) = DoTransverse(src, g)
    BY <1>13 DEF Execute
  <2>2. transform \in Transposing /\ transform \in MirroringX /\ transform \in MirroringY
    BY <1>13 DEF Transposing, MirroringX, MirroringY
  <2>3. CASE col < g.comp_width /\ row < g.comp_height
    <3>1. DoTransverse(src, g)[<<row, col>>] = NegateOddRows(NegateOddColumns(TransposeBlock(src[<<left, up>>])))
      BY <1>5, <2>3 DEF DoTransverse, RowsTo, rows, cols
    <3> QED BY <1>4, <2>1, <2>2, <2>3, <3>1 DEF Turned, BlockFrom, Mirrored
  <2>4. CASE ~(col < g.comp_width) /\ row < g.comp_height
    <3>1. DoTransverse(src, g)[<<row, col>>] = NegateOddRows(TransposeBlock(src[<<col, up>>]))
      BY <1>5, <2>4 DEF DoTransverse, RowsTo, rows, cols
    <3> QED BY <1>4, <2>1, <2>2, <2>4, <3>1 DEF Turned, BlockFrom, Mirrored
  <2>5. CASE col < g.comp_width /\ ~(row < g.comp_height)
    <3>1. DoTransverse(src, g)[<<row, col>>] = NegateOddColumns(TransposeBlock(src[<<left, row>>]))
      BY <1>5, <2>5 DEF DoTransverse, RowsTo, rows, cols
    <3> QED BY <1>4, <2>1, <2>2, <2>5, <3>1 DEF Turned, BlockFrom, Mirrored
  <2>6. CASE ~(col < g.comp_width) /\ ~(row < g.comp_height)
    <3>1. DoTransverse(src, g)[<<row, col>>] = TransposeBlock(src[<<col, row>>])
      BY <1>5, <2>6 DEF DoTransverse, RowsTo, rows, cols
    <3> QED BY <1>4, <2>1, <2>2, <2>6, <3>1 DEF Turned, BlockFrom, Mirrored
  <2> QED BY <2>3, <2>4, <2>5, <2>6
<1> QED BY <1>6, <1>7, <1>8, <1>9, <1>10, <1>11, <1>12, <1>13 DEF Transforms, Transposing, MirroringX, MirroringY

\* It makes the blocks of whole iMCUs, or those of the source.
LEMMA ExecutedDomain ==
  ASSUME NEW src, NEW g \in Geometries, NEW transform \in Transforms
  PROVE  LET made == Execute(src, g, transform)
             rows == RoundUpTo(g.height_in_blocks, g.v_samp_factor)
         IN  /\ transform \in {"NONE", "FLIP_H"} => DOMAIN made = DOMAIN src
             /\ transform \in {"FLIP_V", "ROT_180"} => DOMAIN made = Grid(rows, g.width_in_blocks)
             /\ transform \in Transposing => DOMAIN made = Grid(rows, Columns(g))
<1>1. CASE transform = "NONE"
  <2>1. DOMAIN src = DOMAIN src
    OBVIOUS
  <2> QED BY <1>1, <2>1 DEF Execute, Transposing
<1>2. CASE transform = "FLIP_H"
  <2>1. DOMAIN DoFlipH(src, g) = DOMAIN src
    BY DEF DoFlipH
  <2> QED BY <1>2, <2>1 DEF Execute, Transposing
<1>3. CASE transform = "FLIP_V"
  <2>1. DOMAIN DoFlipV(src, g) = Grid(RoundUpTo(g.height_in_blocks, g.v_samp_factor), g.width_in_blocks)
    BY DEF DoFlipV, RowsTo, Grid
  <2> QED BY <1>3, <2>1 DEF Execute, Transposing
<1>4. CASE transform = "TRANSPOSE"
  <2>1. DOMAIN DoTranspose(src, g) = Grid(RoundUpTo(g.height_in_blocks, g.v_samp_factor), Columns(g))
    BY DEF DoTranspose, RowsTo, Grid
  <2> QED BY <1>4, <2>1 DEF Execute, Transposing
<1>5. CASE transform = "ROT_90"
  <2>1. DOMAIN DoRot90(src, g) = Grid(RoundUpTo(g.height_in_blocks, g.v_samp_factor), Columns(g))
    BY DEF DoRot90, RowsTo, Grid
  <2> QED BY <1>5, <2>1 DEF Execute, Transposing
<1>6. CASE transform = "ROT_270"
  <2>1. DOMAIN DoRot270(src, g) = Grid(RoundUpTo(g.height_in_blocks, g.v_samp_factor), Columns(g))
    BY DEF DoRot270, RowsTo, Grid
  <2> QED BY <1>6, <2>1 DEF Execute, Transposing
<1>7. CASE transform = "ROT_180"
  <2>1. DOMAIN DoRot180(src, g) = Grid(RoundUpTo(g.height_in_blocks, g.v_samp_factor), g.width_in_blocks)
    BY DEF DoRot180, RowsTo, Grid
  <2> QED BY <1>7, <2>1 DEF Execute, Transposing
<1>8. CASE transform = "TRANSVERSE"
  <2>1. DOMAIN DoTransverse(src, g) = Grid(RoundUpTo(g.height_in_blocks, g.v_samp_factor), Columns(g))
    BY DEF DoTransverse, RowsTo, Grid
  <2> QED BY <1>8, <2>1 DEF Execute, Transposing
<1> QED BY <1>1, <1>2, <1>3, <1>4, <1>5, <1>6, <1>7, <1>8 DEF Transforms, Transposing, MirroringX, MirroringY
-----------------------------------------------------------------------------
(* The image shown.  A sample of a block is what the inverse cosine transform *)
(* gives of its coefficients times their quantization values: the functions   *)
(* of odd frequency are odd around the middle of a block, those of even       *)
(* frequency are even, and rows and columns are treated alike.                *)

Cosine(SampleAt(_, _, _, _)) ==
  \A b, q \in Block : \A y, x \in 0..DCTSIZE - 1 :
    /\ SampleAt(NegateOddColumns(b), q, y, x) = SampleAt(b, q, y, DCTSIZE - 1 - x)
    /\ SampleAt(NegateOddRows(b), q, y, x) = SampleAt(b, q, DCTSIZE - 1 - y, x)
    /\ SampleAt(TransposeBlock(b), TransposeBlock(q), y, x) = SampleAt(b, q, x, y)

\* A place of a side mirrored within n blocks, and its block.
MirroredAt(at, n) == IF at < n * DCTSIZE THEN n * DCTSIZE - 1 - at ELSE at
Reversed(at, n) == IF at \div DCTSIZE < n THEN DCTSIZE - 1 - (at % DCTSIZE) ELSE at % DCTSIZE

LEMMA MirroredAtFacts ==
  ASSUME NEW at \in Nat, NEW n \in Nat
  PROVE  /\ MirroredAt(at, n) \div DCTSIZE = Mirrored(at \div DCTSIZE, n)
         /\ MirroredAt(at, n) % DCTSIZE = Reversed(at, n)
         /\ Reversed(at, n) \in 0..DCTSIZE - 1
<1>1. DCTSIZE \in Nat \ {0}
  BY DctsizeAssumption
<1>2. at < n * DCTSIZE <=> at \div DCTSIZE < n
  BY <1>1, DivBelow
<1>3. at % DCTSIZE \in 0..DCTSIZE - 1
  BY <1>1, DivMod
<1>4. CASE at < n * DCTSIZE
  <2>1. /\ (n * DCTSIZE - 1 - at) \div DCTSIZE = n - 1 - (at \div DCTSIZE)
        /\ (n * DCTSIZE - 1 - at) % DCTSIZE = DCTSIZE - 1 - (at % DCTSIZE)
    BY <1>1, <1>4, MirroredPlace
  <2>2. DCTSIZE - 1 - (at % DCTSIZE) \in 0..DCTSIZE - 1
    BY <1>1, <1>3
  <2> QED BY <1>2, <1>4, <2>1, <2>2 DEF MirroredAt, Mirrored, Reversed
<1>5. CASE ~(at < n * DCTSIZE)
  BY <1>2, <1>3, <1>5 DEF MirroredAt, Mirrored, Reversed
<1> QED BY <1>4, <1>5

\* Any sample of a place in a side of n blocks is in one of them.
LEMMA PlaceInBlock ==
  ASSUME NEW n \in Nat, NEW at \in 0..n * DCTSIZE - 1
  PROVE  at \in Nat /\ at \div DCTSIZE \in 0..n - 1 /\ at % DCTSIZE \in 0..DCTSIZE - 1
<1>1. DCTSIZE \in Nat \ {0} /\ n * DCTSIZE \in Nat
  BY DctsizeAssumption
<1>2. at \in Nat /\ at < n * DCTSIZE
  BY <1>1
<1>3. at \div DCTSIZE < n
  BY <1>1, <1>2, DivBelow
<1>4. at \div DCTSIZE \in Nat /\ at % DCTSIZE \in 0..DCTSIZE - 1
  BY <1>1, <1>2, QuotientAndRest
<1> QED BY <1>2, <1>3, <1>4

\* Whatever image, of any size and sampling, with blocks of any size, is turned in any
\* way, trimmed or not, in color or made gray: each sample of each component is that
\* of the source which the turn takes to its place, every block that will be
\* written is made, and none outside of the arrays asked for (SamplesMoved).
THEOREM TurnedAnyImage ==
  ASSUME NEW Q, NEW image \in Image(Q), NEW info \in Info,
         info.force_grayscale => FirstIsFull(image),
         NEW coefs,
         \A c \in DOMAIN image.comp_info : coefs[c] \in [Padded(image, c) -> Block],
         NEW SampleAt(_, _, _, _), Cosine(SampleAt)
  PROVE  SamplesMoved(image, coefs, info, SampleAt)
<1> DEFINE dst == AdjustParameters(image, info)
           t == info.transform
<1>0. t \in Transforms /\ DCTSIZE \in Nat \ {0}
  BY DctsizeAssumption DEF Info
<1> SUFFICES ASSUME NEW c \in DOMAIN dst.comp_info
             PROVE  LET g == Geometry(dst, c)
                        made == Execute(coefs[c], g, t)
                    IN  /\ DOMAIN made \subseteq RequestWorkspace(image, info, c)
                        /\ \A y \in 0..g.height_in_blocks * DCTSIZE - 1, x \in 0..g.width_in_blocks * DCTSIZE - 1 :
                             LET from == CameFrom(g, t, y, x)
                             IN  SampleAt(made[<<y \div DCTSIZE, x \div DCTSIZE>>], Table(dst, c),
                                          y % DCTSIZE, x % DCTSIZE)
                                   = SampleAt(coefs[c][<<from[1] \div DCTSIZE, from[2] \div DCTSIZE>>],
                                              Table(image, c), from[1] % DCTSIZE, from[2] % DCTSIZE)
  BY DEF SamplesMoved, Table
<1> DEFINE g == Geometry(dst, c)
           src == coefs[c]
           made == Execute(src, g, t)
<1>1. /\ dst \in Image(Q) /\ c \in DOMAIN image.comp_info
      /\ t \in Transposing => FitsTurned(dst, image, c) /\ Table(dst, c) = TransposeBlock(Table(image, c))
      /\ t \notin Transposing => NoLarger(dst, image, c) /\ Table(dst, c) = Table(image, c)
  BY Adjusted
<1> HIDE DEF dst, t
<1>2. /\ g \in Geometries
      /\ g.width_in_blocks = WidthInBlocks(dst, c) /\ g.height_in_blocks = HeightInBlocks(dst, c)
      /\ Columns(g) = PaddedWidth(dst, c)
      /\ RoundUpTo(g.height_in_blocks, g.v_samp_factor) = PaddedHeight(dst, c)
      /\ g.comp_width <= g.width_in_blocks /\ g.comp_height <= g.height_in_blocks
  BY <1>1, GeometryFacts
<1>3. /\ WidthInBlocks(image, c) \in Nat /\ HeightInBlocks(image, c) \in Nat
      /\ PaddedWidth(image, c) \in Nat /\ WidthInBlocks(image, c) <= PaddedWidth(image, c)
      /\ PaddedHeight(image, c) \in Nat /\ HeightInBlocks(image, c) <= PaddedHeight(image, c)
      /\ PaddedWidth(dst, c) \in Nat /\ PaddedHeight(dst, c) \in Nat
  BY <1>1, SizeInBlocks, PaddedSizes
<1>4. Padded(image, c) = Grid(PaddedHeight(image, c), PaddedWidth(image, c)) /\ src \in [Padded(image, c) -> Block]
  BY <1>1 DEF Padded, Grid, PaddedHeight, PaddedWidth
<1>5. /\ g.width_in_blocks \in Nat /\ g.height_in_blocks \in Nat
      /\ g.comp_width \in Nat /\ g.comp_height \in Nat
  BY <1>2 DEF Geometries
<1> HIDE DEF g, src, made
<1>6. DOMAIN made \subseteq RequestWorkspace(image, info, c)
  <2>1. /\ t \in {"NONE", "FLIP_H"} => DOMAIN made = Padded(image, c)
        /\ t \in {"FLIP_V", "ROT_180"} => DOMAIN made = Grid(PaddedHeight(dst, c), g.width_in_blocks)
        /\ t \in Transposing => DOMAIN made = Grid(PaddedHeight(dst, c), PaddedWidth(dst, c))
    BY <1>0, <1>2, <1>4, ExecutedDomain DEF made
  <2>2. CASE t \in Transposing
    <3>1. RequestWorkspace(image, info, c) = {<<p[2], p[1]>> : p \in Padded(image, c)}
      BY <2>2 DEF RequestWorkspace, t
    <3>2. PaddedHeight(dst, c) <= PaddedWidth(image, c) /\ PaddedWidth(dst, c) <= PaddedHeight(image, c)
      BY <1>1, <2>2 DEF FitsTurned
    <3>3. ASSUME NEW row \in 0..PaddedHeight(dst, c) - 1, NEW col \in 0..PaddedWidth(dst, c) - 1
          PROVE  <<row, col>> \in RequestWorkspace(image, info, c)
      <4>1. <<col, row>> \in Padded(image, c)
        BY <1>3, <1>4, <3>2 DEF Grid
      <4> QED BY <3>1, <4>1
    <3> QED BY <2>1, <2>2, <3>3 DEF Grid
  <2>3. CASE t \notin Transposing
    <3>1. RequestWorkspace(image, info, c) = Padded(image, c)
      BY <2>3 DEF RequestWorkspace, t
    <3>2. /\ PaddedHeight(dst, c) <= PaddedHeight(image, c)
          /\ g.width_in_blocks <= PaddedWidth(image, c)
      BY <1>1, <1>2, <1>3, <1>5, <2>3 DEF NoLarger
    <3>3. Grid(PaddedHeight(dst, c), g.width_in_blocks) \subseteq Grid(PaddedHeight(image, c), PaddedWidth(image, c))
      BY <1>3, <1>5, <3>2 DEF Grid
    <3>4. t \in {"NONE", "FLIP_H"} \/ t \in {"FLIP_V", "ROT_180"}
      BY <1>0, <2>3 DEF Transforms, Transposing, MirroringX, MirroringY
    <3> QED BY <1>4, <2>1, <3>1, <3>3, <3>4
  <2> QED BY <2>2, <2>3
<1>7. ASSUME NEW row \in 0..g.height_in_blocks - 1, NEW col \in 0..g.width_in_blocks - 1
      PROVE  /\ BlockFrom(g, t, row, col) \in Padded(image, c)
             /\ made[<<row, col>>] = Turned(src[BlockFrom(g, t, row, col)], g, t, row, col)
  <2> DEFINE my == IF t \in MirroringY THEN Mirrored(row, g.comp_height) ELSE row
             mx == IF t \in MirroringX THEN Mirrored(col, g.comp_width) ELSE col
  <2>1. my \in 0..g.height_in_blocks - 1 /\ mx \in 0..g.width_in_blocks - 1
    BY <1>2, <1>5 DEF Mirrored
  <2> HIDE DEF my, mx
  <2>2. BlockFrom(g, t, row, col) = IF t \in Transposing THEN <<mx, my>> ELSE <<my, mx>>
    BY DEF BlockFrom, my, mx
  <2>3. CASE t \in Transposing
    <3>1. /\ g.width_in_blocks <= PaddedHeight(image, c)
          /\ g.height_in_blocks <= PaddedWidth(image, c)
      BY <1>1, <1>2, <1>3, <1>5, <2>3 DEF FitsTurned
    <3>2. <<mx, my>> \in Padded(image, c)
      BY <1>3, <1>4, <1>5, <2>1, <3>1 DEF Grid
    <3>3. t # "FLIP_H"
      BY <2>3 DEF Transposing
    <3> QED BY <1>0, <1>2, <2>2, <2>3, <3>2, <3>3, ExecutedBlocks DEF made
  <2>4. CASE t \notin Transposing
    <3>1. /\ g.width_in_blocks <= PaddedWidth(image, c)
          /\ g.height_in_blocks <= PaddedHeight(image, c)
      BY <1>1, <1>2, <1>3, <1>5, <2>4 DEF NoLarger
    <3>2. <<my, mx>> \in Padded(image, c) /\ <<row, col>> \in Padded(image, c)
      BY <1>3, <1>4, <1>5, <2>1, <3>1 DEF Grid
    <3>3. DOMAIN src = Padded(image, c)
      BY <1>4
    <3> QED BY <1>0, <1>2, <2>2, <2>4, <3>2, <3>3, ExecutedBlocks DEF made
  <2> QED BY <2>3, <2>4
<1>8. ASSUME NEW y \in 0..g.height_in_blocks * DCTSIZE - 1, NEW x \in 0..g.width_in_blocks * DCTSIZE - 1
      PROVE  LET from == CameFrom(g, t, y, x)
             IN  SampleAt(made[<<y \div DCTSIZE, x \div DCTSIZE>>], Table(dst, c), y % DCTSIZE, x % DCTSIZE)
                   = SampleAt(src[<<from[1] \div DCTSIZE, from[2] \div DCTSIZE>>],
                              Table(image, c), from[1] % DCTSIZE, from[2] % DCTSIZE)
  <2> DEFINE row == y \div DCTSIZE
             col == x \div DCTSIZE
             i == y % DCTSIZE
             j == x % DCTSIZE
             fy == IF t \in MirroringY THEN MirroredAt(y, g.comp_height) ELSE y
             fx == IF t \in MirroringX THEN MirroredAt(x, g.comp_width) ELSE x
             ri == IF t \in MirroringY THEN Reversed(y, g.comp_height) ELSE i
             rj == IF t \in MirroringX THEN Reversed(x, g.comp_width) ELSE j
             q == Table(image, c)
             b == src[BlockFrom(g, t, row, col)]
             tb == IF t \in Transposing THEN TransposeBlock(b) ELSE b
             tq == IF t \in Transposing THEN TransposeBlock(q) ELSE q
             cb == IF t \in MirroringX /\ col < g.comp_width THEN NegateOddColumns(tb) ELSE tb
             rb == IF t \in MirroringY /\ row < g.comp_height THEN NegateOddRows(cb) ELSE cb
  <2>1. /\ y \in Nat /\ row \in 0..g.height_in_blocks - 1 /\ i \in 0..DCTSIZE - 1
        /\ x \in Nat /\ col \in 0..g.width_in_blocks - 1 /\ j \in 0..DCTSIZE - 1
    BY <1>5, PlaceInBlock
  <2>2. /\ MirroredAt(y, g.comp_height) \div DCTSIZE = Mirrored(row, g.comp_height)
        /\ MirroredAt(y, g.comp_height) % DCTSIZE = Reversed(y, g.comp_height)
        /\ Reversed(y, g.comp_height) \in 0..DCTSIZE - 1
        /\ MirroredAt(x, g.comp_width) \div DCTSIZE = Mirrored(col, g.comp_width)
        /\ MirroredAt(x, g.comp_width) % DCTSIZE = Reversed(x, g.comp_width)
        /\ Reversed(x, g.comp_width) \in 0..DCTSIZE - 1
    BY <1>5, <2>1, MirroredAtFacts
  <2>3. /\ ri \in 0..DCTSIZE - 1 /\ rj \in 0..DCTSIZE - 1
        /\ fy % DCTSIZE = ri /\ fx % DCTSIZE = rj
    BY <2>1, <2>2
  <2>4. /\ ri = (IF t \in MirroringY /\ row < g.comp_height THEN DCTSIZE - 1 - i ELSE i)
        /\ rj = (IF t \in MirroringX /\ col < g.comp_width THEN DCTSIZE - 1 - j ELSE j)
    BY DEF Reversed
  <2>5. BlockFrom(g, t, row, col) = IF t \in Transposing THEN <<fx \div DCTSIZE, fy \div DCTSIZE>>
                                    ELSE <<fy \div DCTSIZE, fx \div DCTSIZE>>
    BY <2>2 DEF BlockFrom
  <2>6. CameFrom(g, t, y, x) = IF t \in Transposing THEN <<fx, fy>> ELSE <<fy, fx>>
    BY DEF CameFrom, MirroredAt
  <2>7. made[<<row, col>>] = rb /\ BlockFrom(g, t, row, col) \in Padded(image, c)
    <3>1. made[<<row, col>>] = Turned(b, g, t, row, col) /\ BlockFrom(g, t, row, col) \in Padded(image, c)
      BY <1>7, <2>1
    <3> QED BY <3>1 DEF Turned
  <2>8. b \in Block /\ q \in Block
    <3>1. b \in Block
      BY <1>4, <2>7
    <3>2. image.comp_info \in Seq(Component(Q)) /\ image.comp_info # <<>> /\ image.quant \in [Q -> Block]
      BY DEF Image
    <3>3. image.comp_info[c] \in Component(Q)
      BY <1>1, <3>2, LargestFactors
    <3>4. image.comp_info[c].quant_tbl_no \in Q
      BY <3>3 DEF Component
    <3> QED BY <3>1, <3>2, <3>4 DEF Table
  <2>9. Table(dst, c) = tq
    BY <1>1
  <2> HIDE DEF row, col, i, j, fy, fx, ri, rj, b, q
  <2>10. tb \in Block /\ tq \in Block
    BY <2>8, ChangedBlocks
  <2>11. SampleAt(tb, tq, ri, rj) = IF t \in Transposing THEN SampleAt(b, q, rj, ri) ELSE SampleAt(b, q, ri, rj)
    BY <2>3, <2>8 DEF Cosine
  <2> HIDE DEF tb, tq
  <2>12. cb \in Block /\ SampleAt(cb, tq, ri, j) = SampleAt(tb, tq, ri, rj)
    BY <2>1, <2>3, <2>4, <2>10, ChangedBlocks DEF Cosine
  <2> HIDE DEF cb
  <2>13. SampleAt(rb, tq, i, j) = SampleAt(cb, tq, ri, j)
    BY <2>1, <2>3, <2>4, <2>10, <2>12, ChangedBlocks DEF Cosine
  <2> HIDE DEF rb
  <2>14. SampleAt(made[<<row, col>>], Table(dst, c), i, j)
           = IF t \in Transposing THEN SampleAt(b, q, rj, ri) ELSE SampleAt(b, q, ri, rj)
    BY <2>7, <2>9, <2>11, <2>12, <2>13
  <2>15. CASE t \in Transposing
    <3>1. CameFrom(g, t, y, x)[1] = fx /\ CameFrom(g, t, y, x)[2] = fy
      BY <2>6, <2>15
    <3>2. b = src[<<fx \div DCTSIZE, fy \div DCTSIZE>>]
      BY <2>5, <2>15 DEF b
    <3> QED BY <2>3, <2>14, <2>15, <3>1, <3>2 DEF row, col, i, j, q
  <2>16. CASE t \notin Transposing
    <3>1. CameFrom(g, t, y, x)[1] = fy /\ CameFrom(g, t, y, x)[2] = fx
      BY <2>6, <2>16
    <3>2. b = src[<<fy \div DCTSIZE, fx \div DCTSIZE>>]
      BY <2>5, <2>16 DEF b
    <3> QED BY <2>3, <2>14, <2>16, <3>1, <3>2 DEF row, col, i, j, q
  <2> QED BY <2>15, <2>16
<1> QED BY <1>6, <1>8 DEF g, src, made
-----------------------------------------------------------------------------
(* Upsampling *)

\* A whole number of times the factor h is the largest one, H.
LEMMA Expansion ==
  ASSUME NEW w \in Nat, NEW H \in {1, 2, 3, 4}, NEW h \in {1, 2, 3, 4}, H % h = 0
  PROVE  /\ h = H => H \div h = 1
         /\ 2 * h = H => H \div h = 2 /\ DivRoundUp(w * h, H) = DivRoundUp(w, 2)
         /\ DivRoundUp(w, H \div h) * (H \div h) \in w..DivRoundUp(w, H) * H
<1>1. CASE h = H
  <2>1. H \div h = 1
    BY <1>1
  <2>2. DivRoundUp(w, 1) * 1 = w
    BY DEF DivRoundUp
  <2>3. DivRoundUp(w, H) * H \in Nat /\ w <= DivRoundUp(w, H) * H
    BY DEF DivRoundUp
  <2> QED BY <1>1, <2>1, <2>2, <2>3
<1>2. CASE h = 1 /\ H # 1
  <2>1. H \div h = H
    BY <1>2
  <2>2. DivRoundUp(w, H) * H \in Nat /\ w <= DivRoundUp(w, H) * H
    BY DEF DivRoundUp
  <2>3. w * h = w
    BY <1>2
  <2> QED BY <1>2, <2>1, <2>2, <2>3
<1>3. CASE h = 2 /\ H = 4
  <2>1. H \div h = 2
    BY <1>3
  <2>2. DivRoundUp(w * 2, 4) = DivRoundUp(w, 2)
    BY DEF DivRoundUp
  <2>3. DivRoundUp(w, 2) * 2 \in w..DivRoundUp(w, 4) * 4
    BY DEF DivRoundUp
  <2> QED BY <1>3, <2>1, <2>2, <2>3
<1>4. h = H \/ (h = 1 /\ H # 1) \/ (h = 2 /\ H = 4)
  OBVIOUS
<1> QED BY <1>1, <1>2, <1>3, <1>4

\* All but the error.
UpsampleMethods == {"fullsize", "h2v1_fancy", "h2v1", "h2v2_fancy", "h2v2", "int"}

\* How a component that has a method to be made larger is sampled.
LEMMA MethodFacts ==
  ASSUME NEW Q, NEW image \in Image(Q), NEW c \in DOMAIN image.comp_info,
         NEW do_fancy \in BOOLEAN, UpsampleMethod(image, c, do_fancy) \in UpsampleMethods
  PROVE  LET H == MaxH(image.comp_info)
             h == image.comp_info[c].h_samp_factor
             method == UpsampleMethod(image, c, do_fancy)
         IN  /\ image.image_width \in Nat /\ H \in {1, 2, 3, 4} /\ h \in {1, 2, 3, 4} /\ H % h = 0
             /\ method = "fullsize" => h = H
             /\ method \in {"h2v1_fancy", "h2v2_fancy"} => 2 * h = H
<1> DEFINE H == MaxH(image.comp_info)
           h == image.comp_info[c].h_samp_factor
           method == UpsampleMethod(image, c, do_fancy)
<1>1. image.comp_info \in Seq(Component(Q)) /\ image.comp_info # <<>> /\ image.image_width \in Nat
  BY DEF Image
<1>2. \A n \in 1..MAX_SAMP_FACTOR : n \in {1, 2, 3, 4}
  BY DEF MAX_SAMP_FACTOR
<1>3. H \in {1, 2, 3, 4} /\ h \in {1, 2, 3, 4}
  BY <1>1, <1>2, LargestFactors
<1>4. /\ h = H \/ 2 * h = H \/ H % h = 0
      /\ method = "fullsize" => h = H
      /\ method \in {"h2v1_fancy", "h2v2_fancy"} => 2 * h = H
  <2>1. method # ""
    BY Zenon DEF UpsampleMethods
  <2> QED BY Zenon, <2>1 DEF UpsampleMethod
<1> HIDE DEF H, h, method
<1>5. h = H \/ 2 * h = H => H % h = 0
  BY <1>3
<1>6. H % h = 0
  BY <1>4, <1>5
<1> QED BY <1>1, <1>3, <1>4, <1>6 DEF H, h, method

\* Whatever the size of an image, its sampling and the method used, a component
\* made larger has every row and column of the image, and no row is written past
\* the end of the buffer it is given (jdsample.c:364).
THEOREM RowsFitBuffer ==
  ASSUME NEW Q, NEW image \in Image(Q), NEW c \in DOMAIN image.comp_info,
         NEW do_fancy \in BOOLEAN, UpsampleMethod(image, c, do_fancy) \in UpsampleMethods, NEW plane
  PROVE  LET large == Upsample(plane, image, c, do_fancy)
         IN  /\ DOMAIN large = 0..image.image_height - 1
             /\ \A y \in DOMAIN large :
                  /\ 0..image.image_width - 1 \subseteq DOMAIN large[y]
                  /\ DOMAIN large[y] \subseteq 0..ColorBufWidth(image) - 1
<1> DEFINE H == MaxH(image.comp_info)
           h == image.comp_info[c].h_samp_factor
           w == image.image_width
           method == UpsampleMethod(image, c, do_fancy)
           columns == ColumnsWritten(image, c, method, H \div h)
           large == Upsample(plane, image, c, do_fancy)
<1>1. /\ DOMAIN large = 0..image.image_height - 1
      /\ \A y \in DOMAIN large : DOMAIN large[y] = 0..columns - 1
  BY DEF Upsample
<1>2. /\ w \in Nat /\ H \in {1, 2, 3, 4} /\ h \in {1, 2, 3, 4} /\ H % h = 0
      /\ method = "fullsize" => h = H
      /\ method \in {"h2v1_fancy", "h2v2_fancy"} => 2 * h = H
  BY MethodFacts
<1>3. DownsampledWidth(image, c) = DivRoundUp(w * h, H) /\ ColorBufWidth(image) = DivRoundUp(w, H) * H
  BY DEF DownsampledWidth, ColorBufWidth
<1>4. columns = CASE method = "fullsize" -> DownsampledWidth(image, c)
                  [] method \in {"h2v1_fancy", "h2v2_fancy"} -> 2 * DownsampledWidth(image, c)
                  [] OTHER -> DivRoundUp(w, H \div h) * (H \div h)
  BY DEF ColumnsWritten
<1> HIDE DEF H, h, w, method, columns, large
<1>5. /\ h = H => H \div h = 1
      /\ 2 * h = H => H \div h = 2 /\ DivRoundUp(w * h, H) = DivRoundUp(w, 2)
      /\ DivRoundUp(w, H \div h) * (H \div h) \in w..DivRoundUp(w, H) * H
  <2>1. w \in Nat /\ H \in {1, 2, 3, 4} /\ h \in {1, 2, 3, 4} /\ H % h = 0
    BY <1>2
  <2> QED BY <2>1, Expansion
<1>6. DivRoundUp(w, H) * H \in Int
  BY <1>2 DEF DivRoundUp
<1>7. columns \in w..DivRoundUp(w, H) * H
  <2>1. CASE method = "fullsize"
    <3>1. columns = DivRoundUp(w * H, H)
      BY <1>2, <1>3, <1>4, <2>1
    <3>2. DivRoundUp(w * H, H) = w /\ DivRoundUp(w, 1) * 1 = w
      BY <1>2 DEF DivRoundUp
    <3> QED BY <1>2, <1>5, <2>1, <3>1, <3>2
  <2>2. CASE method \in {"h2v1_fancy", "h2v2_fancy"}
    <3>1. columns = 2 * DivRoundUp(w, 2) /\ H \div h = 2
      BY <1>2, <1>3, <1>4, <1>5, <2>2
    <3>2. DivRoundUp(w, 2) * 2 = 2 * DivRoundUp(w, 2)
      BY <1>2 DEF DivRoundUp
    <3> QED BY <1>5, <3>1, <3>2
  <2>3. CASE method # "fullsize" /\ method \notin {"h2v1_fancy", "h2v2_fancy"}
    BY <1>4, <1>5, <2>3
  <2> QED BY <2>1, <2>2, <2>3
<1>8. 0..w - 1 \subseteq 0..columns - 1 /\ 0..columns - 1 \subseteq 0..DivRoundUp(w, H) * H - 1
  BY <1>2, <1>6, <1>7
<1>9. 0..image.image_width - 1 = 0..w - 1
  BY DEF w
<1> QED BY <1>1, <1>3, <1>8, <1>9 DEF large
\* The largest factors are those of some components.
LEMMA FactorsAttained ==
  ASSUME NEW Q, NEW info \in Seq(Component(Q)), info # <<>>
  PROVE  /\ \E c \in DOMAIN info : info[c].h_samp_factor = MaxH(info)
         /\ \E c \in DOMAIN info : info[c].v_samp_factor = MaxV(info)
<1> DEFINE H == {c.h_samp_factor : c \in Range(info)}
           V == {c.v_samp_factor : c \in Range(info)}
<1>1. 1 \in DOMAIN info /\ \A c \in DOMAIN info : info[c] \in Component(Q)
  BY LargestFactors
<1>2. /\ \A n \in H : \E c \in DOMAIN info : info[c].h_samp_factor = n
      /\ \A n \in V : \E c \in DOMAIN info : info[c].v_samp_factor = n
      /\ \A n \in H : \E c \in DOMAIN info : n = info[c].h_samp_factor /\ info[c] \in Component(Q)
      /\ \A n \in V : \E c \in DOMAIN info : n = info[c].v_samp_factor /\ info[c] \in Component(Q)
      /\ info[1].h_samp_factor \in H /\ info[1].v_samp_factor \in V
  BY <1>1 DEF Range
<1>3. MaxH(info) = Max(H) /\ MaxV(info) = Max(V)
  BY DEF MaxH, MaxV
<1> HIDE DEF H, V
<1>4. H \in SUBSET (1..MAX_SAMP_FACTOR) /\ V \in SUBSET (1..MAX_SAMP_FACTOR) /\ H # {} /\ V # {}
  BY <1>2 DEF Component
<1>5. Max(H) \in H /\ Max(V) \in V
  BY <1>4, MaxOfFactors
<1> QED BY <1>2, <1>3, <1>5

\* The methods that are not fancy, and the sample whose cell a pixel is in.
Replicating == {"fullsize", "h2v1", "h2v2", "int"}
CellOf(plane, image, c, y, x) ==
  plane[y \div (MaxV(image.comp_info) \div image.comp_info[c].v_samp_factor)]
       [x \div (MaxH(image.comp_info) \div image.comp_info[c].h_samp_factor)]

\* What a method that is not fancy makes: each sample once for every pixel of its cell.
LEMMA Replicated ==
  ASSUME NEW Q, NEW image \in Image(Q), NEW c \in DOMAIN image.comp_info,
         UpsampleMethod(image, c, FALSE) \in Replicating, NEW plane,
         NEW y \in 0..image.image_height - 1, NEW x \in 0..image.image_width - 1
  PROVE  Upsample(plane, image, c, FALSE)[y][x] = CellOf(plane, image, c, y, x)
<1> DEFINE large == Upsample(plane, image, c, FALSE)
           method == UpsampleMethod(image, c, FALSE)
           h_expand == MaxH(image.comp_info) \div image.comp_info[c].h_samp_factor
           v_expand == MaxV(image.comp_info) \div image.comp_info[c].v_samp_factor
           columns == ColumnsWritten(image, c, method, h_expand)
<1>1. method \notin {"h2v1_fancy", "h2v2_fancy"} /\ method \in UpsampleMethods
  BY DEF UpsampleMethods, Replicating
<1>2. x \in DOMAIN large[y] /\ y \in DOMAIN large
  BY <1>1, RowsFitBuffer
<1>3. /\ DOMAIN large = 0..image.image_height - 1
      /\ DOMAIN large[y] = 0..columns - 1
      /\ \A at \in 0..columns - 1 : large[y][at] = IntUpsample(plane, y, at, h_expand, v_expand)
  <2> HIDE DEF method, h_expand, v_expand, columns
  <2> DEFINE sample(yy, xx) ==
               CASE method = "h2v1_fancy" -> H2v1FancyUpsample(plane, yy, xx)
                 [] method = "h2v2_fancy" -> H2v2FancyUpsample(plane, yy, xx)
                 [] OTHER -> IntUpsample(plane, yy, xx, h_expand, v_expand)
  <2>1. large = [yy \in 0..image.image_height - 1 |-> [xx \in 0..columns - 1 |-> sample(yy, xx)]]
    BY DEF Upsample, method, h_expand, v_expand, columns
  <2>2. \A xx : sample(y, xx) = IntUpsample(plane, y, xx, h_expand, v_expand)
    BY <1>1
  <2> HIDE DEF sample, large
  <2> QED BY <2>1, <2>2
<1> QED BY <1>2, <1>3 DEF IntUpsample, CellOf

\* How the components of an image for merged upsampling are sampled.
LEMMA MergedFacts ==
  ASSUME NEW Q, NEW image \in Image(Q), UseMergedUpsample(image, "RGB", FALSE)
  PROVE  LET V == MaxV(image.comp_info)
             expand(c) == <<MaxH(image.comp_info) \div image.comp_info[c].h_samp_factor,
                            V \div image.comp_info[c].v_samp_factor>>
         IN  /\ DOMAIN image.comp_info = 1..3 /\ V \in {1, 2}
             /\ expand(1) = <<1, 1>> /\ expand(2) = <<2, V>> /\ expand(3) = <<2, V>>
             /\ \A c \in 1..3 : UpsampleMethod(image, c, FALSE) \in Replicating
<1> DEFINE info == image.comp_info
           h(c) == info[c].h_samp_factor
           v(c) == info[c].v_samp_factor
           H == MaxH(info)
           V == MaxV(info)
<1>1. info \in Seq(Component(Q)) /\ info # <<>>
  BY DEF Image
<1>2. /\ DOMAIN info = 1..3
      /\ h(1) = 2 /\ h(2) = 1 /\ h(3) = 1 /\ v(1) <= 2 /\ v(2) = 1 /\ v(3) = 1
  BY <1>1 DEF UseMergedUpsample
<1>3. /\ \A n \in 1..MAX_SAMP_FACTOR : n \in {1, 2, 3, 4}
      /\ \A c \in 1..3 : v(c) \in 1..MAX_SAMP_FACTOR /\ h(c) <= H /\ v(c) <= V
      /\ H \in 1..MAX_SAMP_FACTOR /\ V \in 1..MAX_SAMP_FACTOR
      /\ \E c \in 1..3 : h(c) = H
      /\ \E c \in 1..3 : v(c) = V
  BY <1>1, <1>2, LargestFactors, FactorsAttained DEF MAX_SAMP_FACTOR
<1> HIDE DEF info, h, v, H, V
<1>4. H = 2 /\ V = v(1) /\ V \in {1, 2}
  BY <1>2, <1>3
<1>5. /\ H \div h(1) = 1 /\ H \div h(2) = 2 /\ H \div h(3) = 2
      /\ V \div v(1) = 1 /\ V \div v(2) = V /\ V \div v(3) = V
  BY <1>2, <1>4
<1>6. \A c \in 1..3 : UpsampleMethod(image, c, FALSE) \in Replicating
  <2>1. h(1) = H /\ 2 * h(1) # H /\ v(1) = V
    BY <1>2, <1>4
  <2>2. ASSUME NEW c \in {2, 3}
        PROVE  h(c) # H /\ 2 * h(c) = H /\ (v(c) = V \/ 2 * v(c) = V)
    BY <1>2, <1>4
  <2>3. UpsampleMethod(image, 1, FALSE) = "fullsize"
    BY Zenon, <2>1 DEF UpsampleMethod, h, v, H, V, info
  <2>4. ASSUME NEW c \in {2, 3}
        PROVE  UpsampleMethod(image, c, FALSE) \in {"h2v1", "h2v2"}
    BY Zenon, <2>2 DEF UpsampleMethod, h, v, H, V, info
  <2>5. \A c \in 1..3 : c = 1 \/ c \in {2, 3}
    OBVIOUS
  <2> QED BY <2>3, <2>4, <2>5 DEF Replicating
<1> QED BY <1>2, <1>4, <1>5, <1>6 DEF info, h, v, H, V

\* Wherever merged upsampling is used, whatever the planes and the size of the
\* image, the last column of an odd width included, it gives pixel for pixel what
\* the separate upsampling and color conversion give (jdmaster.c:47-69, jdmerge.c:20-25).
THEOREM MergedIsSeparate ==
  ASSUME NEW Q, NEW image \in Image(Q), NEW planes
  PROVE  MergedAsSeparate(planes, image)
<1> DEFINE small == [c \in 1..3 |-> Cut(Downsample(planes[c], image, c, 0), image, c)]
           large == [c \in 1..3 |-> Upsample(small[c], image, c, FALSE)]
           V == MaxV(image.comp_info)
           w == image.image_width
           columns == 0..w - 1
           rows == 0..image.image_height - 1
           pairs == 0..2 * (w \div 2) - 1
           last == IF w % 2 = 1 THEN {w - 1} ELSE {}
<1> SUFFICES ASSUME UseMergedUpsample(image, "RGB", FALSE)
             PROVE  MergedUpsample(small, image, V) =
                      [y \in rows |-> [x \in columns |-> YccRgb([c \in 1..3 |-> large[c][y][x]])]]
  BY DEF MergedAsSeparate
<1>1. pairs \cup last = columns
  <2>1. w \in Nat
    BY DEF Image
  <2> HIDE DEF w
  <2>2. CASE w % 2 = 1
    BY <2>1, <2>2
  <2>3. CASE w % 2 # 1
    BY <2>1, <2>3
  <2> QED BY <2>2, <2>3
<1>2. ASSUME NEW y \in rows, NEW x \in columns
      PROVE  /\ large[1][y][x] = small[1][y][x]
             /\ large[2][y][x] = small[2][y \div V][x \div 2]
             /\ large[3][y][x] = small[3][y \div V][x \div 2]
  <2> DEFINE expand(c) == <<MaxH(image.comp_info) \div image.comp_info[c].h_samp_factor,
                            V \div image.comp_info[c].v_samp_factor>>
  <2>1. /\ DOMAIN image.comp_info = 1..3
        /\ expand(1) = <<1, 1>> /\ expand(2) = <<2, V>> /\ expand(3) = <<2, V>>
        /\ \A c \in 1..3 : UpsampleMethod(image, c, FALSE) \in Replicating
    BY MergedFacts
  <2>2. \A c \in 1..3 : large[c] = Upsample(small[c], image, c, FALSE)
    OBVIOUS
  <2> HIDE DEF small, large
  <2>3. ASSUME NEW c \in 1..3
        PROVE  large[c][y][x] = small[c][y \div expand(c)[2]][x \div expand(c)[1]]
    <3>1. c \in DOMAIN image.comp_info /\ UpsampleMethod(image, c, FALSE) \in Replicating
      BY <2>1
    <3>2. expand(c)[1] = MaxH(image.comp_info) \div image.comp_info[c].h_samp_factor
          /\ expand(c)[2] = V \div image.comp_info[c].v_samp_factor
      OBVIOUS
    <3>3. Upsample(small[c], image, c, FALSE)[y][x] = CellOf(small[c], image, c, y, x)
      BY <3>1, Replicated
    <3> HIDE DEF expand
    <3> QED BY <2>2, <3>2, <3>3 DEF CellOf
  <2>4. y \div 1 = y /\ x \div 1 = x
    BY DEF Image
  <2> HIDE DEF expand, V, rows, columns
  <2> QED BY <2>1, <2>3, <2>4
<1>3. ASSUME NEW y \in rows, NEW x \in columns
      PROVE  <<small[1][y][x], small[2][y \div V][x \div 2], small[3][y \div V][x \div 2]>>
               = [c \in 1..3 |-> large[c][y][x]]
  <2> HIDE DEF small, large, rows, columns, V
  <2> QED BY <1>2, <1>3
<1>4. MergedUpsample(small, image, V) =
        [y \in rows |-> [x \in pairs \cup last |->
           YccRgb(<<small[1][y][x], small[2][y \div V][x \div 2], small[3][y \div V][x \div 2]>>)]]
  <2> HIDE DEF small
  <2> QED BY DEF MergedUpsample
<1> HIDE DEF small, large, rows, columns, V, pairs, last
<1> QED BY <1>1, <1>3, <1>4

-----------------------------------------------------------------------------
(* Colors *)

\* Dividing by the scale rounds down.
LEMMA DivScale ==
  ASSUME NEW n \in Int
  PROVE  /\ n \div SCALE \in Int
         /\ SCALE * (n \div SCALE) <= n
         /\ n < SCALE * (n \div SCALE) + SCALE
BY DEF SCALE

\* Y, Cb and Cr of any red, green and blue are samples: rgb_ycc_convert stores
\* them as they are (jccolor.c:153-157).
THEOREM YccFits ==
  ASSUME NEW r \in Sample, NEW g \in Sample, NEW b \in Sample
  PROVE  /\ Y(r, g, b) \in Sample /\ Cb(r, g, b) \in Sample /\ Cr(r, g, b) \in Sample
<1>1. Y(r, g, b) \in Sample
  BY DivScale DEF Y, Sample, MAXJSAMPLE, SCALE, ONE_HALF
<1>2. Cb(r, g, b) \in Sample
  BY DivScale DEF Cb, Sample, MAXJSAMPLE, SCALE, ONE_HALF, CBCR_OFFSET, CENTERJSAMPLE
<1>3. Cr(r, g, b) \in Sample
  BY DivScale DEF Cr, Sample, MAXJSAMPLE, SCALE, ONE_HALF, CBCR_OFFSET, CENTERJSAMPLE
<1> QED BY <1>1, <1>2, <1>3

\* A gray is stored as itself with neither Cb nor Cr (jccolor.c:36-41).
THEOREM GrayStored ==
  ASSUME NEW g \in Sample
  PROVE  Y(g, g, g) = g /\ Cb(g, g, g) = CENTERJSAMPLE /\ Cr(g, g, g) = CENTERJSAMPLE
<1>1. Y(g, g, g) = g
  BY DivScale DEF Y, Sample, MAXJSAMPLE, SCALE, ONE_HALF
<1>2. Cb(g, g, g) = CENTERJSAMPLE
  BY DivScale DEF Cb, Sample, MAXJSAMPLE, SCALE, ONE_HALF, CBCR_OFFSET, CENTERJSAMPLE
<1>3. Cr(g, g, g) = CENTERJSAMPLE
  BY DivScale DEF Cr, Sample, MAXJSAMPLE, SCALE, ONE_HALF, CBCR_OFFSET, CENTERJSAMPLE
<1> QED BY <1>1, <1>2, <1>3

\* Whatever a file holds, what is shown of it are samples, and no further from a
\* sample than before they were limited.
LEMMA LimitFits ==
  ASSUME NEW v \in Int, NEW s \in Sample
  PROVE  /\ RangeLimit(v) \in Sample
         /\ Distance(v, s) <= 1 => Distance(RangeLimit(v), s) <= 1
BY DEF RangeLimit, Sample, MAXJSAMPLE, Distance

\* Red, green and blue come back within one of what they were (jdcolor.c:33-41).
THEOREM RgbRestored ==
  ASSUME NEW r \in Sample, NEW g \in Sample, NEW b \in Sample
  PROVE  /\ Distance(RangeLimit(Y(r, g, b) + CrR(Cr(r, g, b))), r) <= 1
         /\ Distance(RangeLimit(Y(r, g, b) + CbCrG(Cb(r, g, b), Cr(r, g, b))), g) <= 1
         /\ Distance(RangeLimit(Y(r, g, b) + CbB(Cb(r, g, b))), b) <= 1
<1> DEFINE y == Y(r, g, b)
           cb == Cb(r, g, b)
           cr == Cr(r, g, b)
<1>0. Y(r, g, b) \in Sample /\ Cb(r, g, b) \in Sample /\ Cr(r, g, b) \in Sample
  BY YccFits
<1>1. y \in Int /\ cb \in Int /\ cr \in Int /\ r \in Int /\ g \in Int /\ b \in Int
  BY <1>0 DEF Sample, MAXJSAMPLE
<1>2. /\ SCALE * y <= (19595 * r) + (38470 * g) + (7471 * b) + ONE_HALF
      /\ (19595 * r) + (38470 * g) + (7471 * b) + ONE_HALF < SCALE * y + SCALE
  BY <1>1, DivScale DEF Y, ONE_HALF
<1>3. /\ SCALE * cb <= (32768 * b) - (11059 * r) - (21709 * g) + CBCR_OFFSET + ONE_HALF - 1
      /\ (32768 * b) - (11059 * r) - (21709 * g) + CBCR_OFFSET + ONE_HALF - 1 < SCALE * cb + SCALE
  BY <1>1, DivScale DEF Cb, ONE_HALF, CBCR_OFFSET, SCALE, CENTERJSAMPLE
<1>4. /\ SCALE * cr <= (32768 * r) - (27439 * g) - (5329 * b) + CBCR_OFFSET + ONE_HALF - 1
      /\ (32768 * r) - (27439 * g) - (5329 * b) + CBCR_OFFSET + ONE_HALF - 1 < SCALE * cr + SCALE
  BY <1>1, DivScale DEF Cr, ONE_HALF, CBCR_OFFSET, SCALE, CENTERJSAMPLE
<1> HIDE DEF y, cb, cr
<1>5. /\ CrR(cr) \in Int
      /\ SCALE * CrR(cr) <= (91881 * (cr - CENTERJSAMPLE)) + ONE_HALF
      /\ (91881 * (cr - CENTERJSAMPLE)) + ONE_HALF < SCALE * CrR(cr) + SCALE
  BY <1>1, DivScale DEF CrR, ONE_HALF, CENTERJSAMPLE
<1>6. /\ CbB(cb) \in Int
      /\ SCALE * CbB(cb) <= (116130 * (cb - CENTERJSAMPLE)) + ONE_HALF
      /\ (116130 * (cb - CENTERJSAMPLE)) + ONE_HALF < SCALE * CbB(cb) + SCALE
  BY <1>1, DivScale DEF CbB, ONE_HALF, CENTERJSAMPLE
<1>7. /\ CbCrG(cb, cr) \in Int
      /\ SCALE * CbCrG(cb, cr)
           <= ONE_HALF - (22554 * (cb - CENTERJSAMPLE)) - (46802 * (cr - CENTERJSAMPLE))
      /\ ONE_HALF - (22554 * (cb - CENTERJSAMPLE)) - (46802 * (cr - CENTERJSAMPLE))
           < SCALE * CbCrG(cb, cr) + SCALE
  BY <1>1, DivScale DEF CbCrG, ONE_HALF, CENTERJSAMPLE
<1>8. Distance(y + CrR(cr), r) <= 1
  BY <1>1, <1>2, <1>4, <1>5 DEF Sample, MAXJSAMPLE, Distance, SCALE, ONE_HALF, CBCR_OFFSET, CENTERJSAMPLE
<1>9. Distance(y + CbB(cb), b) <= 1
  BY <1>1, <1>2, <1>3, <1>6 DEF Sample, MAXJSAMPLE, Distance, SCALE, ONE_HALF, CBCR_OFFSET, CENTERJSAMPLE
<1>10. Distance(y + CbCrG(cb, cr), g) <= 1
  BY <1>1, <1>2, <1>3, <1>4, <1>7 DEF Sample, MAXJSAMPLE, Distance, SCALE, ONE_HALF, CBCR_OFFSET, CENTERJSAMPLE
<1>11. /\ y + CrR(cr) \in Int /\ y + CbCrG(cb, cr) \in Int /\ y + CbB(cb) \in Int
  BY <1>1, <1>5, <1>6, <1>7
<1>12. Distance(RangeLimit(y + CrR(cr)), r) <= 1
  BY <1>8, <1>11, LimitFits
<1>13. Distance(RangeLimit(y + CbCrG(cb, cr)), g) <= 1
  BY <1>10, <1>11, LimitFits
<1>14. Distance(RangeLimit(y + CbB(cb)), b) <= 1
  BY <1>9, <1>11, LimitFits
<1> QED
  BY <1>12, <1>13, <1>14, Zenon DEF y, cb, cr
=============================================================================
