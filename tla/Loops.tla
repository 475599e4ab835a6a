-------------------------------- MODULE Loops --------------------------------
(***************************************************************************)
(* A loop of the code as an operator: its step taken n times.  A loop that *)
(* ends earlier has a step that changes nothing from there on.             *)
(***************************************************************************)
EXTENDS Integers

Repeat(Step(_), start, n) ==
  LET after[k \in Nat] == IF k = 0 THEN start ELSE Step(after[k - 1])
  IN  after[n]
=============================================================================
