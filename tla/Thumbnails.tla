------------------------------ MODULE Thumbnails ------------------------------
(***************************************************************************)
(* The making of thumbnails: AIRThumbnailState.as, a state of StateManager *)
(* that loads one file after the other on a display of its own, waits for  *)
(* LAYER_LOADED or MIX_LOADED or for a timer, and draws what it then sees. *)
(*                                                                         *)
(* The display has one layer that counts, layer 0, and its mixes name that *)
(* layer.  A load may be answered at any time, or never; nothing cancels   *)
(* it, not even the timeout.  Of a registered SWF file, one that some      *)
(* layer has loaded before, the answer comes inside the call.              *)
(***************************************************************************)
EXTENDS Naturals, Sequences, FiniteSets, SequencesExt

CONSTANTS
  File,         \* the files to draw
  None,         \* no file
  Blank,        \* the thumbnail of an empty display
  Self, Other   \* this state, and another one StateManager holds

\* What a file is; "swf" is a registered SWF file, "media" any other content.
Kinds == {"mp3", "media", "swf", "mix"}

\* Those that are to be drawn when the call returns.
AtOnce == {"mp3", "swf"}

ASSUME ThumbnailAssumption ==
  /\ IsFiniteSet(File)
  /\ None \notin File /\ Blank \notin File \cup {None}
  /\ Self # Other

VARIABLES
  kind,         \* the kind of each file
  jobs,         \* the files left to draw
  current,      \* the file being drawn
  last,         \* the file taken last
  flights,      \* the files on their way to layer 0
  unread,       \* the mixes being read
  job,          \* the mix whose COMPLETE the display listens to
  waiting,      \* has that job asked layer 0 for its content?
  shown,        \* what layer 0 holds
  onLoaded,     \* is handler on layer 0's LAYER_LOADED?
  onMix,        \* is mixHandler on the display's MIX_LOADED?
  armed,        \* is the timer running, with timerHandler on it?
  rendering,    \* is render on ENTER_FRAME?
  thumbs,       \* what has been drawn for each file
  disposed,     \* has the state been removed, its display disposed?
  states,       \* StateManager._states
  late          \* has a file been given up that was being loaded or drawn?

vars == <<kind, jobs, current, last, flights, unread, job, waiting, shown, onLoaded,
          onMix, armed, rendering, thumbs, disposed, states, late>>
loadVars == <<flights, unread, job, waiting>>

TypeOK ==
  /\ kind \in [File -> Kinds]
  /\ jobs \in Seq(File) /\ {current, last} \subseteq File \cup {None}
  /\ flights \subseteq File /\ unread \subseteq File
  /\ job \in File \cup {None} /\ waiting \in BOOLEAN
  /\ shown \in File \cup {None}
  /\ {onLoaded, onMix, armed, rendering, disposed, late} \subseteq BOOLEAN
  /\ thumbs \in [File -> File \cup {None, Blank}]
  /\ states \in Seq({Self, Other})

\* The state is loaded with a directory of files, before its first _nextQueue,
\* which is taken here as the first frame's.
Init ==
  /\ kind \in [File -> Kinds]
  /\ jobs \in Bijection(1..Cardinality(File), File)
  /\ current = None /\ last = None
  /\ flights = {} /\ unread = {} /\ job = None /\ waiting = FALSE
  /\ shown = None
  /\ onLoaded = FALSE /\ onMix = FALSE /\ armed = FALSE
  /\ rendering = TRUE
  /\ thumbs = [f \in File |-> None]
  /\ disposed = FALSE
  /\ states = <<Other, Self>>
  /\ late = FALSE

-----------------------------------------------------------------------------
\* splice(indexOf(state), 1): of a state no longer there, the last one goes.
Removed ==
  IF states = <<>> THEN states
  ELSE RemoveAt(states, IF Contains(states, Self)
                        THEN CHOOSE i \in DOMAIN states : states[i] = Self
                        ELSE Len(states))

\* The queue is empty: removeState pauses and terminates this state.
Leave(r, a) ==
  /\ current' = None
  /\ onMix' = FALSE
  /\ disposed' = TRUE
  /\ states' = Removed
  /\ rendering' = r /\ armed' = a
  /\ shown' = None
  /\ UNCHANGED <<jobs, last, loadVars, onLoaded>>

\* LAYER_LOADED of layer 0 completes the job that waits for the layer: MIX_LOADED
\* is sent, and heard if mixHandler is there.
MixLoaded == waiting /\ onMix

\* Those who hear LAYER_LOADED or MIX_LOADED leave their event.
Hear ==
  /\ onLoaded' = FALSE
  /\ onMix' = (onMix /\ ~MixLoaded)
  /\ job' = IF waiting THEN None ELSE job
  /\ waiting' = FALSE

\* File f is loaded, in an empty layer.  An mp3 is drawn on the spot, and a
\* registered SWF file is there, and heard, before the call returns.  Loading a
\* mix terminates the mix loaded before: if that one never completed, its
\* MIX_LOADED is taken for the new one's.
Load(f, r) ==
  \/ /\ kind[f] = "mp3"
     /\ rendering' = TRUE /\ shown' = None
     /\ UNCHANGED <<loadVars, onLoaded, onMix>>
  \/ /\ kind[f] = "swf"
     /\ rendering' = TRUE /\ shown' = f
     /\ Hear
     /\ UNCHANGED <<flights, unread>>
  \/ /\ kind[f] = "media"
     /\ rendering' = r /\ shown' = None
     /\ onLoaded' = TRUE
     /\ flights' = flights \cup {f}
     /\ UNCHANGED <<unread, job, waiting, onMix>>
  \/ /\ kind[f] = "mix"
     /\ rendering' = (r \/ job # None) /\ shown' = None
     /\ onMix' = (job = None)
     /\ job' = f /\ unread' = unread \cup {f} /\ waiting' = FALSE
     /\ UNCHANGED <<flights, onLoaded>>

\* Mutant: the timer is not started.
TakeUntimed(f, r) ==
  /\ jobs' = Tail(jobs) /\ current' = f /\ last' = f
  /\ Load(f, r)
  /\ UNCHANGED <<armed, disposed, states>>

\* The next file is f; the timer is started last, whatever its kind and though
\* handler may have stopped it inside the load.
Take(f, r) ==
  /\ jobs' = Tail(jobs) /\ current' = f /\ last' = f
  /\ Load(f, r)
  /\ armed' = TRUE
  /\ UNCHANGED <<disposed, states>>

\* _nextQueue, called while render is (r) on ENTER_FRAME and the timer is (a) on.
NextQueue(r, a) == IF jobs = <<>> THEN Leave(r, a) ELSE Take(Head(jobs), r)

\* Mutant: handler and mixHandler leave the timer running.
LayerLoadedArmed ==
  /\ Hear
  /\ rendering' = (rendering \/ onLoaded \/ MixLoaded)
  /\ UNCHANGED armed

\* LAYER_LOADED of layer 0: handler and mixHandler stop the timer and ask for a
\* frame.
LayerLoaded ==
  /\ Hear
  /\ armed' = (armed /\ ~(onLoaded \/ MixLoaded))
  /\ rendering' = (rendering \/ onLoaded \/ MixLoaded)

-----------------------------------------------------------------------------
\* A file comes to layer 0, maybe long after the state gave it up.
Answer(f) ==
  /\ f \in flights
  /\ flights' = flights \ {f}
  /\ shown' = f
  /\ LayerLoaded
  /\ UNCHANGED <<kind, jobs, current, last, unread, thumbs, disposed, states, late>>

\* A mix has been read and asks layer 0 for its content.
ReadMix(f) ==
  /\ f \in unread
  /\ unread' = unread \ {f}
  /\ flights' = flights \cup {f}
  /\ waiting' = (waiting \/ f = job)
  /\ UNCHANGED <<kind, jobs, current, last, job, shown, onLoaded, onMix, armed,
                 rendering, thumbs, disposed, states, late>>

\* Mutant: render is left on ENTER_FRAME.
RenderTwice ==
  /\ rendering
  /\ thumbs' = IF current = None \/ disposed THEN thumbs
               ELSE [thumbs EXCEPT ![current] = IF shown = None THEN Blank ELSE shown]
  /\ NextQueue(TRUE, armed)
  /\ UNCHANGED <<kind, late>>

\* render, 125 ms after it was asked for: the display is drawn as the current
\* file's thumbnail, its layers are killed, and the next file is taken.  On a
\* disposed display drawing throws, and is skipped.
Render ==
  /\ rendering
  /\ thumbs' = IF current = None \/ disposed THEN thumbs
               ELSE [thumbs EXCEPT ![current] = IF shown = None THEN Blank ELSE shown]
  /\ NextQueue(FALSE, armed)
  /\ UNCHANGED <<kind, late>>

\* timerHandler: the layers are killed, the next file is taken; the listeners of
\* the file given up stay where they are, and its load goes on.
Timeout ==
  /\ armed
  /\ late' = (late \/ flights # {} \/ unread # {} \/ rendering)
  /\ NextQueue(rendering, FALSE)
  /\ UNCHANGED <<kind, thumbs>>

Next ==
  \/ \E f \in File : Answer(f)
  \/ \E f \in File : ReadMix(f)
  \/ Render
  \/ Timeout

Spec == Init /\ [][Next]_vars

\* Frames go on and the timer runs; no load need ever be answered.
FairSpec == Spec /\ WF_vars(Render) /\ WF_vars(Timeout)

-----------------------------------------------------------------------------
\* "Stores bytearray of files, and their associated thumbnails"
\* (AIRThumbnailDB): a file's thumbnail is drawn from that file, once it has come
\* and never before, as long as the timer has given up no file that was to come.
\* Only an mp3 is blank.
OwnThumbnail ==
  late \/ \A f \in File : thumbs[f] \in {None, f} \/ (thumbs[f] = Blank /\ kind[f] = "mp3")
\* "Removes an application state" (StateManager.removeState): leaving removes
\* this state and no other, under the same condition, and unless the last file
\* was drawn at once: of such a file the timer goes on, finds the queue empty
\* too, and the state is removed again.
OthersKept ==
  \/ late
  \/ last # None /\ kind[last] \in AtOnce
  \/ Contains(states, Other)

\* "just in case it doesn't load" (AIRThumbnailState): the directory is done in
\* the end, whether its files load, load late or never do.
QueueEnds == <>disposed
=============================================================================
