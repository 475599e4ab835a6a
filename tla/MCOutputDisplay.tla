--------------------------- MODULE MCOutputDisplay ---------------------------
(* Small instances of OutputDisplay for TLC. *)
EXTENDS OutputDisplay, TLC

Symmetry == Permutations(Slot)
=============================================================================
