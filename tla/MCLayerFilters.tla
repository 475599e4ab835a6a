--------------------------- MODULE MCLayerFilters ---------------------------
(* Small instances of LayerFilters for TLC. *)
EXTENDS LayerFilters

CalmKinds == {"file", "device"}
=============================================================================
