------------------------------ MODULE JpegFrame ------------------------------
(***************************************************************************)
(* The geometry of a JPEG image and of its scans, and the scripts that say *)
(* which bits of which coefficients each scan carries: jcparam.c,          *)
(* jcmaster.c for the compressor, jdinput.c for the decompressor.          *)
(*                                                                         *)
(* A component is [id, h_samp_factor, v_samp_factor, quant_tbl_no,         *)
(* dc_tbl_no, ac_tbl_no]; a scan is [comps, Ss, Se, Ah, Al] with the       *)
(* indices of its components.                                              *)
(***************************************************************************)
EXTENDS Integers, Sequences, FiniteSets, FiniteSetsExt, SequencesExt

CONSTANT DCTSIZE  \* 8 in the library; instances for TLC take smaller blocks

ASSUME DctsizeAssumption == DCTSIZE \in Nat \ {0}

MAX_COMPS_IN_SCAN == 4
MAX_SAMP_FACTOR == 4
MAX_COMPONENTS == 10
C_MAX_BLOCKS_IN_MCU == 10
MAX_AH_AL == 10
JPEG_MAX_DIMENSION == 65500

DivRoundUp(a, b) == (a + b - 1) \div b

-----------------------------------------------------------------------------
(* Parameters *)

SetComp(id, samp, tbl) ==
  [id |-> id, h_samp_factor |-> samp, v_samp_factor |-> samp,
   quant_tbl_no |-> tbl, dc_tbl_no |-> tbl, ac_tbl_no |-> tbl]

Full(ids) == [i \in DOMAIN ids |-> SetComp(ids[i], 1, 0)]
Subsampled == <<SetComp(1, 2, 0), SetComp(2, 1, 1), SetComp(3, 1, 1)>>

\* jpeg_set_colorspace: components and the application markers written.
SetColorspace(space, input_components) ==
  [comp_info |-> CASE space = "GRAYSCALE" -> Full(<<1>>)
                   [] space = "RGB" -> Full(<<82, 71, 66>>)
                   [] space = "YCbCr" -> Subsampled
                   [] space = "CMYK" -> Full(<<67, 77, 89, 75>>)
                   [] space = "YCCK" -> Append(Subsampled, SetComp(4, 2, 0))
                   [] OTHER -> Full([i \in 1..input_components |-> i - 1]),
   write_JFIF_header |-> space \in {"GRAYSCALE", "YCbCr"},
   write_Adobe_marker |-> space \in {"RGB", "CMYK", "YCCK"}]

\* jpeg_default_colorspace.
DefaultColorspace(in_color_space) == IF in_color_space = "RGB" THEN "YCbCr" ELSE in_color_space

AScan(comps, ss, se, ah, al) == [comps |-> comps, Ss |-> ss, Se |-> se, Ah |-> ah, Al |-> al]
Each(n, ss, se, ah, al) == [i \in 1..n |-> AScan(<<i>>, ss, se, ah, al)]
DcScans(n, ah, al) ==
  IF n <= MAX_COMPS_IN_SCAN THEN <<AScan([i \in 1..n |-> i], 0, 0, ah, al)>>
  ELSE Each(n, 0, 0, ah, al)

\* jpeg_simple_progression: the script for color images, and for all others.
SimpleProgression(n, space) ==
  IF n = 3 /\ space = "YCbCr"
  THEN DcScans(3, 0, 1)
       \o <<AScan(<<1>>, 1, 5, 0, 2), AScan(<<3>>, 1, 63, 0, 1), AScan(<<2>>, 1, 63, 0, 1),
            AScan(<<1>>, 6, 63, 0, 2), AScan(<<1>>, 1, 63, 2, 1)>>
       \o DcScans(3, 1, 0)
       \o <<AScan(<<3>>, 1, 63, 1, 0), AScan(<<2>>, 1, 63, 1, 0), AScan(<<1>>, 1, 63, 1, 0)>>
  ELSE DcScans(n, 0, 1) \o Each(n, 1, 5, 0, 2) \o Each(n, 6, 63, 0, 2)
       \o Each(n, 1, 63, 2, 1) \o DcScans(n, 1, 0) \o Each(n, 1, 63, 1, 0)

Progressive(scans) == scans # <<>> /\ (scans[1].Ss # 0 \/ scans[1].Se # 63)

\* The last scan before the n-th that carries coefficient k of component c.
Before(scans, n, c, k) ==
  {m \in 1..n - 1 : c \in Range(scans[m].comps) /\ k \in scans[m].Ss..scans[m].Se}

\* Mutant: a refinement may skip a bit.
RefinesLoosely(scans, n, c, k) ==
  LET before == Before(scans, n, c, k)
  IN  IF before = {} THEN scans[n].Ah = 0 ELSE scans[n].Al < scans[Max(before)].Al

\* One more bit than the scan before; the first time, all from Al up.
Refines(scans, n, c, k) ==
  LET before == Before(scans, n, c, k)
  IN  IF before = {} THEN scans[n].Ah = 0
      ELSE scans[n].Ah = scans[Max(before)].Al /\ scans[n].Al = scans[n].Ah - 1

ProgressiveScan(scans, n) ==
  LET s == scans[n]
  IN  /\ s.Ss \in 0..63 /\ s.Se \in s.Ss..63 /\ s.Ah \in 0..MAX_AH_AL /\ s.Al \in 0..MAX_AH_AL
      /\ IF s.Ss = 0 THEN s.Se = 0 ELSE Len(s.comps) = 1
      /\ \A c \in Range(s.comps) :
           /\ s.Ss # 0 => Before(scans, n, c, 0) # {}
           /\ \A k \in s.Ss..s.Se : Refines(scans, n, c, k)

SequentialScan(scans, n) ==
  LET s == scans[n]
  IN  /\ s.Ss = 0 /\ s.Se = 63 /\ s.Ah = 0 /\ s.Al = 0
      /\ \A c \in Range(s.comps) : Before(scans, n, c, 0) = {}

\* validate_script: the scans of n components are legal, and every component is
\* sent, or its DC at least.
ValidateScript(n, scans) ==
  /\ \A m \in DOMAIN scans :
       /\ Len(scans[m].comps) \in 1..MAX_COMPS_IN_SCAN
       /\ Range(scans[m].comps) \subseteq 1..n
       /\ \A i \in 2..Len(scans[m].comps) : scans[m].comps[i - 1] < scans[m].comps[i]
       /\ IF Progressive(scans) THEN ProgressiveScan(scans, m) ELSE SequentialScan(scans, m)
  /\ \A c \in 1..n : Before(scans, Len(scans) + 1, c, 0) # {}

-----------------------------------------------------------------------------
(* Geometry *)

MaxH(comp_info) == Max({c.h_samp_factor : c \in Range(comp_info)})
MaxV(comp_info) == Max({c.v_samp_factor : c \in Range(comp_info)})

\* The checks of initial_setup.
LegalImage(image) ==
  /\ image.image_width \in 1..JPEG_MAX_DIMENSION /\ image.image_height \in 1..JPEG_MAX_DIMENSION
  /\ Len(image.comp_info) \in 1..MAX_COMPONENTS
  /\ \A c \in Range(image.comp_info) :
       c.h_samp_factor \in 1..MAX_SAMP_FACTOR /\ c.v_samp_factor \in 1..MAX_SAMP_FACTOR

\* initial_setup: blocks across and down each component.
WidthInBlocks(image, c) ==
  DivRoundUp(image.image_width * image.comp_info[c].h_samp_factor, MaxH(image.comp_info) * DCTSIZE)
HeightInBlocks(image, c) ==
  DivRoundUp(image.image_height * image.comp_info[c].v_samp_factor, MaxV(image.comp_info) * DCTSIZE)
TotalIMCURows(image) == DivRoundUp(image.image_height, MaxV(image.comp_info) * DCTSIZE)

LastOf(blocks, samp) == IF blocks % samp = 0 THEN samp ELSE blocks % samp

\* per_scan_setup: an MCU of one component is a block; the blocks of the last
\* column and row of MCUs that are in the image.
OneComponent(image, scan) ==
  [MCUs_per_row |-> WidthInBlocks(image, scan.comps[1]), MCU_width |-> <<1>>, MCU_height |-> <<1>>,
   last_col_width |-> <<1>>,
   last_row_height |-> <<LastOf(HeightInBlocks(image, scan.comps[1]),
                                image.comp_info[scan.comps[1]].v_samp_factor)>>]
Interleaved(image, scan) ==
  LET h(i) == image.comp_info[scan.comps[i]].h_samp_factor
      v(i) == image.comp_info[scan.comps[i]].v_samp_factor
  IN  [MCUs_per_row |-> DivRoundUp(image.image_width, MaxH(image.comp_info) * DCTSIZE),
       MCU_width |-> [i \in DOMAIN scan.comps |-> h(i)],
       MCU_height |-> [i \in DOMAIN scan.comps |-> v(i)],
       last_col_width |-> [i \in DOMAIN scan.comps |-> LastOf(WidthInBlocks(image, scan.comps[i]), h(i))],
       last_row_height |-> [i \in DOMAIN scan.comps |-> LastOf(HeightInBlocks(image, scan.comps[i]), v(i))]]

PerScanSetup(image, scan) ==
  IF Len(scan.comps) = 1 THEN OneComponent(image, scan) ELSE Interleaved(image, scan)

BlocksInMCU(image, scan) ==
  FoldLeft(LAMBDA n, c : n + image.comp_info[c].h_samp_factor * image.comp_info[c].v_samp_factor,
           0, scan.comps)
LegalScan(image, scan) ==
  /\ Len(scan.comps) \in 1..MAX_COMPS_IN_SCAN
  /\ Len(scan.comps) = 1 \/ BlocksInMCU(image, scan) <= C_MAX_BLOCKS_IN_MCU

\* select_scan_parameters: without a script, one scan of all components.
ScanOf(image, n) ==
  IF image.scan_info # <<>> THEN image.scan_info[n]
  ELSE AScan([i \in DOMAIN image.comp_info |-> i], 0, 63, 0, 0)
NumScans(image) == IF image.scan_info = <<>> THEN 1 ELSE Len(image.scan_info)

RestartInterval(image, MCUs_per_row) ==
  IF image.restart_in_rows = 0 THEN image.restart_interval
  ELSE Min({image.restart_in_rows * MCUs_per_row, 65535})
=============================================================================
