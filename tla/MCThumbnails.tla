----------------------------- MODULE MCThumbnails -----------------------------
(* A small instance of Thumbnails for TLC: all is in the cfg. *)
EXTENDS Thumbnails
=============================================================================
