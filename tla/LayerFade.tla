------------------------------ MODULE LayerFade ------------------------------
(***************************************************************************)
(* What a layer promises to its user and to the display, free of the way   *)
(* LayerImplementor and ContentTransition do it: a layer shows one content *)
(* or none, may fade a second one in, and keeps nothing else alive.        *)
(***************************************************************************)
CONSTANTS
  Content,      \* the contents that can be shown
  None          \* no content, and not one of Content

VARIABLES
  showing,      \* the content shown, or the one being faded out
  incoming,     \* the content being faded in
  alive         \* the contents that hold streams, bitmaps and filters

vars == <<showing, incoming, alive>>

Init == showing = None /\ incoming = None /\ alive = {}

\* A content is loaded and replaces what was shown.
Show(c) ==
  /\ incoming = None /\ c \notin alive
  /\ showing' = c
  /\ alive' = {c}
  /\ UNCHANGED incoming

\* A content is loaded with a transition over what is shown.
StartFade(c) ==
  /\ showing # None /\ incoming = None /\ c \notin alive
  /\ incoming' = c
  /\ alive' = alive \cup {c}
  /\ UNCHANGED showing

\* The transition is over: the content faded out is released.
EndFade ==
  /\ incoming # None
  /\ showing' = incoming
  /\ incoming' = None
  /\ alive' = {incoming}

\* The user empties the layer.
Clear ==
  /\ incoming = None
  /\ showing' = None
  /\ alive' = {}
  /\ UNCHANGED incoming

Next == (\E c \in Content : Show(c) \/ StartFade(c)) \/ EndFade \/ Clear

Spec == Init /\ [][Next]_vars /\ WF_vars(EndFade)

=============================================================================
