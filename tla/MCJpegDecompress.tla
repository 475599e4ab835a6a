--------------------------- MODULE MCJpegDecompress ---------------------------
EXTENDS JpegDecompress

Comp(id, h, v, tbl) == [id |-> id, h_samp_factor |-> h, v_samp_factor |-> v,
                        quant_tbl_no |-> tbl, dc_tbl_no |-> tbl, ac_tbl_no |-> tbl]
Gray(height) == [image_width |-> 3, image_height |-> height, comp_info |-> <<Comp(1, 1, 1, 0)>>,
                 progressive |-> FALSE]
Color(height) == [image_width |-> 3, image_height |-> height, progressive |-> FALSE,
                  comp_info |-> <<Comp(1, 2, 2, 0), Comp(2, 1, 1, 1)>>]
Prog(height) == [Color(height) EXCEPT !.progressive = TRUE]

It(t) == [t |-> t]
Dqt(slot, content) == [t |-> "DQT", slot |-> slot, content |-> content]
Tables == <<Dqt(0, "q0"), Dqt(1, "q1")>>
Sof(image) == <<[t |-> "SOF", image |-> image]>>
MCUsIn(image, comps) ==
  IF Len(comps) = 1 THEN WidthInBlocks(image, comps[1]) * HeightInBlocks(image, comps[1])
  ELSE DivRoundUp(image.image_width, MaxH(image.comp_info) * DCTSIZE) * TotalIMCURows(image)
Scan(image, scan) ==
  <<[t |-> "SOS", scan |-> scan]>> \o [n \in 1..MCUsIn(image, scan.comps) |-> [t |-> "MCU", n |-> n]]
File(image, tables, scans) ==
  <<It("SOI")>> \o tables \o Sof(image) \o FlattenSeq([i \in DOMAIN scans |-> Scan(image, scans[i])])
  \o <<It("EOI")>>

Opts == [buffered_image |-> FALSE, raw_data_out |-> FALSE, upsampler |-> "simple",
         quantize |-> "none", smoothing |-> TRUE, scale |-> 1]
Ups(u) == [Opts EXCEPT !.upsampler = u]
Job(items, opts) == [items |-> items, opts |-> opts, whole |-> TRUE]

One == AScan(<<1>>, 0, 63, 0, 0)
Both == AScan(<<1, 2>>, 0, 63, 0, 0)
TwoScans == <<One, AScan(<<2>>, 0, 63, 0, 0)>>
ProgScans == <<AScan(<<1, 2>>, 0, 0, 0, 1), AScan(<<1>>, 1, 63, 0, 0), AScan(<<1, 2>>, 0, 0, 1, 0)>>

\* One scan in every way rows are made and colors chosen; tables in a file of
\* their own; a file that breaks off; two scans with a table that changes between
\* them; progressive scans, shown at the end or as they come.
MCJobs == {
  Job(File(Color(7), Tables, <<Both>>),
      {Opts, Ups("context"), Ups("merged"), [Ups("context") EXCEPT !.quantize = "two"],
       [Ups("merged") EXCEPT !.quantize = "one"], [Opts EXCEPT !.raw_data_out = TRUE],
       [Opts EXCEPT !.scale = 2]}),
  Job(<<It("SOI")>> \o Tables \o <<It("EOI")>> \o File(Gray(3), <<>>, <<One>>), {Opts}),
  [Job(SubSeq(File(Color(5), Tables, <<Both>>), 1, 7), {Ups("context"), [Opts EXCEPT !.quantize = "two"]})
     EXCEPT !.whole = FALSE],
  Job(<<It("SOI")>> \o Tables \o Sof(Color(5)) \o Scan(Color(5), TwoScans[1]) \o <<Dqt(0, "other")>>
      \o Scan(Color(5), TwoScans[2]) \o <<It("EOI")>>,
      {Opts, [Ups("context") EXCEPT !.buffered_image = TRUE]}),
  Job(File(Prog(6), Tables, ProgScans),
      {[Ups("merged") EXCEPT !.quantize = "two"],
       [Opts EXCEPT !.buffered_image = TRUE]})}
=============================================================================
