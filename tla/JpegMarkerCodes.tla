--------------------------- MODULE JpegMarkerCodes ---------------------------
(* JPEG_MARKER: the codes of the markers that the marker reader and writer tell *)
(* apart, and that the entropy decoder resynchronizes at.                       *)
TEM == 1
SOF0 == 192
SOF1 == 193
SOF2 == 194
DHT == 196
DAC == 204
RST0 == 208
RST7 == 215
SOI == 216
EOI == 217
SOS == 218
DQT == 219
DNL == 220
DRI == 221
APP0 == 224
APP14 == 238
APP15 == 239
COM == 254
=============================================================================
