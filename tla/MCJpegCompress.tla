---------------------------- MODULE MCJpegCompress ----------------------------
EXTENDS JpegCompress

Comp(id, h, v, tbl) == [id |-> id, h_samp_factor |-> h, v_samp_factor |-> v,
                        quant_tbl_no |-> tbl, dc_tbl_no |-> tbl, ac_tbl_no |-> tbl]
Plain == [image_width |-> 3, image_height |-> 5, comp_info |-> <<Comp(1, 1, 1, 0)>>,
          scan_info |-> <<>>, optimize_coding |-> FALSE, raw_data_in |-> FALSE,
          context_rows |-> FALSE, restart_interval |-> 0, restart_in_rows |-> 0,
          write_JFIF_header |-> TRUE, write_Adobe_marker |-> FALSE]
Color == [Plain EXCEPT !.comp_info = <<Comp(1, 2, 2, 0), Comp(2, 1, 1, 1)>>,
                       !.image_height = 6]
Script == <<AScan(<<1>>, 0, 63, 0, 0), AScan(<<2>>, 0, 63, 0, 0)>>
ProgressiveScript == <<AScan(<<1, 2>>, 0, 0, 0, 1), AScan(<<1>>, 1, 63, 0, 0),
                       AScan(<<1, 2>>, 0, 0, 1, 0)>>

\* One component; two, smoothed; a restart interval; a script of two scans with
\* intervals of their own; progressive; optimized; raw data; factors that cannot be
\* made of scanlines.
MCImages == {
  Plain,
  [Color EXCEPT !.image_height = 7, !.image_width = 5, !.context_rows = TRUE],
  [Color EXCEPT !.restart_interval = 1],
  [Color EXCEPT !.scan_info = Script, !.restart_in_rows = 1],
  [Color EXCEPT !.scan_info = ProgressiveScript],
  [Plain EXCEPT !.optimize_coding = TRUE],
  [Color EXCEPT !.raw_data_in = TRUE],
  [Color EXCEPT !.comp_info = <<Comp(1, 1, 3, 0), Comp(2, 1, 2, 1)>>]}
=============================================================================
