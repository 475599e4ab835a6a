---------------------------- MODULE JpegTransform ----------------------------
(***************************************************************************)
(* Lossless transformations of a file's coefficients: transupp.c, which    *)
(* jpegtran uses between reading the coefficients of one file and writing  *)
(* those of another.  The coefficients of a component are blocks at        *)
(* <<row, column>>, a block is its values at <<row, column>> of frequency. *)
(***************************************************************************)
EXTENDS JpegFrame

Transposing == {"TRANSPOSE", "TRANSVERSE", "ROT_90", "ROT_270"}
MirroringX == {"FLIP_H", "TRANSVERSE", "ROT_90", "ROT_180"}
MirroringY == {"FLIP_V", "TRANSVERSE", "ROT_180", "ROT_270"}
Transforms == {"NONE"} \cup Transposing \cup MirroringX \cup MirroringY

RoundUpTo(a, b) == DivRoundUp(a, b) * b

-----------------------------------------------------------------------------
(* One component.  "g" holds what the routines take of the destination: its *)
(* size in blocks, the part of it in whole iMCUs, its sampling factors.     *)

\* In a block, mirroring changes the signs of the odd columns or rows.
NegateOddColumns(b) == [ij \in DOMAIN b |-> IF ij[2] % 2 = 1 THEN -b[ij] ELSE b[ij]]
NegateOddRows(b) == [ij \in DOMAIN b |-> IF ij[1] % 2 = 1 THEN -b[ij] ELSE b[ij]]
TransposeBlock(b) == [ij \in DOMAIN b |-> b[<<ij[2], ij[1]>>]]

\* The blocks a routine writes: whole rows of iMCUs, and in the routines that
\* transpose whole columns too.
RowsTo(g, width, Op(_, _)) ==
  [yx \in (0..RoundUpTo(g.height_in_blocks, g.v_samp_factor) - 1) \X (0..width - 1) |-> Op(yx[1], yx[2])]
Columns(g) == RoundUpTo(g.width_in_blocks, g.h_samp_factor)

DoFlipH(src, g) ==
  [yx \in DOMAIN src |->
     IF yx[2] < g.comp_width /\ yx[1] < RoundUpTo(g.height_in_blocks, g.v_samp_factor)
     THEN NegateOddColumns(src[<<yx[1], g.comp_width - yx[2] - 1>>]) ELSE src[yx]]

DoFlipV(src, g) ==
  RowsTo(g, g.width_in_blocks, LAMBDA y, x :
    IF y < g.comp_height THEN NegateOddRows(src[<<g.comp_height - y - 1, x>>]) ELSE src[<<y, x>>])

DoTranspose(src, g) == RowsTo(g, Columns(g), LAMBDA y, x : TransposeBlock(src[<<x, y>>]))

DoRot90(src, g) ==
  RowsTo(g, Columns(g), LAMBDA y, x :
    IF x < g.comp_width THEN NegateOddColumns(TransposeBlock(src[<<g.comp_width - x - 1, y>>]))
    ELSE TransposeBlock(src[<<x, y>>]))

\* Mutant: the rows below the last whole iMCU are mirrored with the others.
DoRot270Edge(src, g) ==
  RowsTo(g, Columns(g), LAMBDA y, x :
    IF y < g.height_in_blocks
    THEN NegateOddRows(TransposeBlock(src[<<x, g.height_in_blocks - y - 1>>]))
    ELSE TransposeBlock(src[<<x, y>>]))

DoRot270(src, g) ==
  RowsTo(g, Columns(g), LAMBDA y, x :
    IF y < g.comp_height THEN NegateOddRows(TransposeBlock(src[<<x, g.comp_height - y - 1>>]))
    ELSE TransposeBlock(src[<<x, y>>]))

DoRot180(src, g) ==
  RowsTo(g, g.width_in_blocks, LAMBDA y, x :
    LET mx == x < g.comp_width
        my == y < g.comp_height
    IN  CASE mx /\ my -> NegateOddRows(NegateOddColumns(src[<<g.comp_height - y - 1, g.comp_width - x - 1>>]))
          [] ~mx /\ my -> NegateOddRows(src[<<g.comp_height - y - 1, x>>])
          [] mx /\ ~my -> NegateOddColumns(src[<<y, g.comp_width - x - 1>>])
          [] ~mx /\ ~my -> src[<<y, x>>])

DoTransverse(src, g) ==
  RowsTo(g, Columns(g), LAMBDA y, x :
    LET mx == x < g.comp_width
        my == y < g.comp_height
    IN  CASE mx /\ my ->
               NegateOddRows(NegateOddColumns(TransposeBlock(src[<<g.comp_width - x - 1, g.comp_height - y - 1>>])))
          [] ~mx /\ my -> NegateOddRows(TransposeBlock(src[<<x, g.comp_height - y - 1>>]))
          [] mx /\ ~my -> NegateOddColumns(TransposeBlock(src[<<g.comp_width - x - 1, y>>]))
          [] ~mx /\ ~my -> TransposeBlock(src[<<x, y>>]))

-----------------------------------------------------------------------------
(* The whole image: comp_info and size as in JpegFrame, with "quant", the     *)
(* quantization tables by number.                                             *)

Swapped(c) == [c EXCEPT !.h_samp_factor = c.v_samp_factor, !.v_samp_factor = c.h_samp_factor]
TransposeCriticalParameters(image) ==
  [image EXCEPT !.image_width = image.image_height, !.image_height = image.image_width,
                !.comp_info = [i \in DOMAIN @ |-> Swapped(@[i])],
                !.quant = [t \in DOMAIN @ |-> TransposeBlock(@[t])]]

\* The part of a side that is whole iMCUs, unless there is none.
Trimmed(length, iMCU) == IF length >= iMCU THEN (length \div iMCU) * iMCU ELSE length
TrimRightEdge(image) == [image EXCEPT !.image_width = Trimmed(@, MaxH(image.comp_info) * DCTSIZE)]
TrimBottomEdge(image) == [image EXCEPT !.image_height = Trimmed(@, MaxV(image.comp_info) * DCTSIZE)]

\* jpeg_set_colorspace to grayscale: one component, not subsampled, with the
\* quantization table it had.
ForceGrayscale(image) ==
  [image EXCEPT !.space = "GRAYSCALE",
     !.comp_info = <<[SetColorspace("GRAYSCALE", 1).comp_info[1] EXCEPT
                        !.quant_tbl_no = image.comp_info[1].quant_tbl_no]>>]

\* jtransform_adjust_parameters.
TrimEdges(image, transform) ==
  LET right == IF transform \in MirroringX THEN TrimRightEdge(image) ELSE image
  IN  IF transform \in MirroringY THEN TrimBottomEdge(right) ELSE right
AdjustParameters(image, info) ==
  LET gray == IF info.force_grayscale THEN ForceGrayscale(image) ELSE image
      turned == IF info.transform \in Transposing THEN TransposeCriticalParameters(gray) ELSE gray
  IN  IF info.trim THEN TrimEdges(turned, info.transform) ELSE turned

\* jtransform_request_workspace: for all but NONE and FLIP_H, of the size of the
\* source, turned if need be and padded to whole iMCUs.
Padded(image, c) ==
  (0..RoundUpTo(HeightInBlocks(image, c), image.comp_info[c].v_samp_factor) - 1)
    \X (0..RoundUpTo(WidthInBlocks(image, c), image.comp_info[c].h_samp_factor) - 1)
RequestWorkspace(image, info, c) ==
  IF info.transform \in Transposing THEN {<<yx[2], yx[1]>> : yx \in Padded(image, c)} ELSE Padded(image, c)

\* jtransform_execute_transformation, one component of the destination.
Geometry(dst, c) ==
  LET comp == dst.comp_info[c]
  IN  [width_in_blocks |-> WidthInBlocks(dst, c), height_in_blocks |-> HeightInBlocks(dst, c),
       h_samp_factor |-> comp.h_samp_factor, v_samp_factor |-> comp.v_samp_factor,
       comp_width |-> (dst.image_width \div (MaxH(dst.comp_info) * DCTSIZE)) * comp.h_samp_factor,
       comp_height |-> (dst.image_height \div (MaxV(dst.comp_info) * DCTSIZE)) * comp.v_samp_factor]
Execute(src, g, transform) ==
  CASE transform = "NONE" -> src
    [] transform = "FLIP_H" -> DoFlipH(src, g)
    [] transform = "FLIP_V" -> DoFlipV(src, g)
    [] transform = "TRANSPOSE" -> DoTranspose(src, g)
    [] transform = "TRANSVERSE" -> DoTransverse(src, g)
    [] transform = "ROT_90" -> DoRot90(src, g)
    [] transform = "ROT_180" -> DoRot180(src, g)
    [] transform = "ROT_270" -> DoRot270(src, g)

-----------------------------------------------------------------------------
(* Markers *)

IsJFIF(m) == m.marker = "APP0" /\ m.id = "JFIF"
IsAdobe(m) == m.marker = "APP14" /\ m.id = "Adobe"

\* jcopy_markers_setup and jcopy_markers_execute: what is saved of the source,
\* and of that what the compressor has not written itself.
CopyMarkersSetup(option) ==
  CASE option = "NONE" -> {} [] option = "COMMENTS" -> {"COM"} [] option = "ALL" -> {"COM", "APP0", "APP1", "APP14"}
CopyMarkersExecute(saved, dst) ==
  SelectSeq(saved, LAMBDA m : ~(dst.write_JFIF_header /\ IsJFIF(m)) /\ ~(dst.write_Adobe_marker /\ IsAdobe(m)))

-----------------------------------------------------------------------------
(* Properties *)

\* Where a sample of the destination comes from: mirrored within the part that
\* is whole iMCUs, the rest left in place, then transposed (transupp.h:64-70).
CameFrom(g, transform, y, x) ==
  LET within(at, length) == IF at < length THEN length - 1 - at ELSE at
      my == IF transform \in MirroringY THEN within(y, g.comp_height * DCTSIZE) ELSE y
      mx == IF transform \in MirroringX THEN within(x, g.comp_width * DCTSIZE) ELSE x
  IN  IF transform \in Transposing THEN <<mx, my>> ELSE <<my, mx>>

\* The samples of every component of the transformed file are those of the
\* source, moved: the coefficients with their quantization tables make the same
\* samples, at the place the rotation takes them to, and the blocks past the
\* whole iMCUs keep theirs; every block the compressor will write was made, and
\* none outside the arrays asked for before their size was known.
SamplesMoved(image, coefs, info, SampleAt(_, _, _, _)) ==
  LET dst == AdjustParameters(image, info)
      sample(im, blocks, c, y, x) ==
        SampleAt(blocks[<<y \div DCTSIZE, x \div DCTSIZE>>], im.quant[im.comp_info[c].quant_tbl_no],
                 y % DCTSIZE, x % DCTSIZE)
      moved(c, g, made) ==
        /\ DOMAIN made \subseteq RequestWorkspace(image, info, c)
        /\ \A y \in 0..g.height_in_blocks * DCTSIZE - 1, x \in 0..g.width_in_blocks * DCTSIZE - 1 :
             LET from == CameFrom(g, info.transform, y, x)
             IN  sample(dst, made, c, y, x) = sample(image, coefs[c], c, from[1], from[2])
      component(c, g) == moved(c, g, Execute(coefs[c], g, info.transform))
  IN  \A c \in DOMAIN dst.comp_info : component(c, Geometry(dst, c))

\* With its markers a file keeps each comment, and never has two JFIF markers.
MarkersCopied(markers, option, dst) ==
  LET saved == SelectSeq(markers, LAMBDA m : m.marker \in CopyMarkersSetup(option))
      written == (IF dst.write_JFIF_header THEN <<[marker |-> "APP0", id |-> "JFIF"]>> ELSE <<>>)
                   \o CopyMarkersExecute(saved, dst)
      only(s, m) == SelectSeq(s, LAMBDA n : n.marker = m)
  IN  /\ Len(SelectSeq(written, IsJFIF)) <= Len(SelectSeq(saved, IsJFIF)) + 1
      /\ dst.write_JFIF_header => Len(SelectSeq(written, IsJFIF)) = 1
      /\ option # "NONE" => only(written, "COM") = only(markers, "COM")
=============================================================================
