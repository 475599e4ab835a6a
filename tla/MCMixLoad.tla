------------------------------ MODULE MCMixLoad ------------------------------
(* Small instances of MixLoad for TLC. *)
EXTENDS MixLoad
=============================================================================
