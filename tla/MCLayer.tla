------------------------------- MODULE MCLayer -------------------------------
(* Small instances of Layer for TLC. *)
EXTENDS Layer

FileKinds == {"file"}
=============================================================================
