---------------------------- MODULE MCJpegMarkers ----------------------------
(* Three files: a progressive one with saved markers, an abbreviated one after *)
(* its tables, and one with markers other programs may write.                  *)
EXTENDS JpegMarkers

One(k) == [k |-> k]
Quant(slot, top) == [k |-> "DQT", slot |-> slot,
                     quantval |-> [i \in 0..63 |-> IF i = 8 THEN top ELSE i + 1]]
Huff(slot, is_ac, vals) ==
  [k |-> "DHT", slot |-> slot, is_ac |-> is_ac,
   htbl |-> [bits |-> [l \in 1..16 |-> IF l = 3 THEN Len(vals) ELSE 0], huffval |-> vals]]
Frame(space, progressive) ==
  [progressive |-> progressive, image_height |-> 258, image_width |-> 3, space |-> space,
   comp_info |-> SetColorspace(space, 3).comp_info]
Sof(frame) == [k |-> "SOF", frame |-> frame]
Sos(frame, scan) == [k |-> "SOS", frame |-> frame, scan |-> scan]
Data == [k |-> "data", bytes |-> <<17, 255, 0, 99>>]
Marker(m, data) == [k |-> "marker", marker |-> m, data |-> data]

Ycc == Frame("YCbCr", TRUE)
Whole ==
  <<One("SOI"), [k |-> "JFIF", density |-> [unit |-> 1, x |-> 300, y |-> 72]],
    Marker(APP0 + 2, <<255, 218, 1>>), Marker(COM, <<7, 255, 255, 9>>), Quant(0, 300), Sof(Ycc),
    Huff(0, FALSE, <<0, 3>>), Huff(1, FALSE, <<4>>),
    Sos(Ycc, AScan(<<1, 2, 3>>, 0, 0, 0, 1)), Data, Huff(1, TRUE, <<33, 0, 5>>), [k |-> "DRI", interval |-> 517],
    Sos(Ycc, AScan(<<2>>, 1, 63, 0, 0)), Data, One("EOI")>>

Rgb == Frame("RGB", FALSE)
Abbreviated ==
  <<One("SOI"), Quant(0, 9), Huff(0, FALSE, <<2, 1>>), Huff(0, TRUE, <<1>>), One("EOI"),
    One("SOI"), [k |-> "Adobe", space |-> "RGB"], Marker(COM, <<>>), Sof(Rgb),
    Sos(Rgb, AScan(<<1, 2, 3>>, 0, 63, 0, 0)), Data, One("EOI")>>

Ycck == Frame("YCCK", FALSE)
Foreign ==
  <<One("SOI"), [k |-> "bogus", marker |-> APP0 + 2, length |-> 1], [k |-> "alone", marker |-> TEM],
    [k |-> "Adobe", space |-> "YCCK"], Marker(COM, <<1, 2>>), [k |-> "bogus", marker |-> COM, length |-> 0],
    Marker(APP0, <<74, 70>>), Sof(Ycck),
    Sos(Ycck, AScan(<<4, 2>>, 0, 63, 0, 0)), Data, Marker(DNL, <<0, 9>>), One("EOI")>>

MCFiles == {Whole, Abbreviated, Foreign}
=============================================================================
