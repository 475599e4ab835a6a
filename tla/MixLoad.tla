------------------------------- MODULE MixLoad -------------------------------
(***************************************************************************)
(* Loading whole mixes onto a display: OutputDisplay.load, JobManager.as,  *)
(* LoadONXJob.as and StaggerONXJob.as, over layers that answer their loads *)
(* in any order.                                                           *)
(*                                                                         *)
(* A job reads its mix, then loads the layers the mix names: all at once,  *)
(* completing when each has sent LAYER_LOADED, or one per tick of a timer  *)
(* when there is a transition, completing at once.  Registering a job      *)
(* terminates the one registered before, which only clears its fields.     *)
(***************************************************************************)
EXTENDS Naturals, Sequences, SequencesExt

CONSTANTS
  Layer,        \* the layers of the display
  Job,          \* the mixes the user may load: bounds how many
  NoJob,        \* no job, nothing on a layer
  User,         \* the origin of what the user loads on a single layer
  UserLayers    \* the layers the user also loads and empties one by one

ASSUME MixAssumption ==
  NoJob \notin Job /\ User \notin Job \cup {NoJob} /\ UserLayers \subseteq Layer

VARIABLES
  current,      \* JobManager's registration of the display
  status,       \* how far each job has come
  transition,   \* the jobs whose _transition is set
  layers,       \* LoadONXJob.layers: whose LAYER_LOADED each job waits for
  jobs,         \* StaggerONXJob._jobs: the layers each job has yet to load
  named,        \* the layers each mix names
  inFlight,     \* the layer loads under way
  holds,        \* the origin of what each layer holds
  fading,       \* the layers whose content is still being faded in
  listening,    \* the jobs whose COMPLETE the display still listens to
  mixLoaded,    \* the jobs the display sent MIX_LOADED for
  failed,       \* the jobs that loaded a layer in vain
  alone         \* the job that loads a mix, and nothing else loads

jobVars == <<current, status, transition, layers, jobs, named, listening, mixLoaded>>
vars == <<jobVars, inFlight, holds, fading, failed, alone>>

Origin == Job \cup {User}
LayerLoads == [origin : Origin, layer : Layer, fade : BOOLEAN]

TypeOK ==
  /\ current \in Job \cup {NoJob}
  /\ status \in [Job -> {"unborn", "reading", "loading"}]
  /\ transition \subseteq Job
  /\ layers \in [Job -> SUBSET Layer]
  /\ jobs \in [Job -> Seq(Layer)]
  /\ named \in [Job -> SUBSET Layer]
  /\ inFlight \subseteq LayerLoads
  /\ holds \in [Layer -> Origin \cup {NoJob}]
  /\ fading \subseteq Layer
  /\ listening \subseteq Job /\ mixLoaded \subseteq Job
  /\ failed \subseteq Job /\ alone \subseteq Job

Init ==
  /\ current = NoJob
  /\ status = [j \in Job |-> "unborn"]
  /\ transition = {}
  /\ layers = [j \in Job |-> {}]
  /\ jobs = [j \in Job |-> <<>>]
  /\ named = [j \in Job |-> {}]
  /\ inFlight = {}
  /\ holds = [l \in Layer |-> NoJob]
  /\ fading = {}
  /\ listening = {} /\ mixLoaded = {}
  /\ failed = {} /\ alone = {}

-----------------------------------------------------------------------------
\* The mixes: a layer is named once, in any order.
Mixes == {s \in UNION {[1..n -> Layer] : n \in 0..2} : IsInjective(s)}

\* Nothing is read or loaded, no layer and no timer has something to come.
Quiet ==
  /\ \A j \in Job : status[j] # "reading" /\ jobs[j] = <<>>
  /\ inFlight = {} /\ fading = {}

AnswerTo(j, l, fade) == [origin |-> j, layer |-> l, fade |-> fade]

\* Mutant: the override of terminate does not call the inherited one.
TerminatedSilent(J) ==
  /\ transition' = transition \ J
  /\ UNCHANGED <<listening, mixLoaded>>

\* terminate() of the jobs J: COMPLETE reaches jobComplete at most once each.
Terminated(J) ==
  /\ mixLoaded' = mixLoaded \cup (J \cap listening)
  /\ listening' = listening \ J
  /\ transition' = transition \ J

\* Mutants: loadHandler terminates on the first layer; it keeps the layer.
SatisfiedByOne(L) == {k \in Job : layers[k] \cap L # {}}
HeardNot(L) == layers

\* The jobs that wait for nothing more once the layers L have sent LAYER_LOADED.
Satisfied(L) == {k \in Job : layers[k] # {} /\ layers[k] \subseteq L}
Heard(L) == [k \in Job |-> layers[k] \ L]

\* A content comes to layer l; LAYER_LOADED is sent unless it fades in first.
Arrive(j, l, fade) ==
  /\ holds' = [holds EXCEPT ![l] = j]
  /\ IF fade /\ holds[l] # NoJob
     THEN /\ fading' = fading \cup {l}
          /\ UNCHANGED <<layers, transition, listening, mixLoaded>>
     ELSE /\ fading' = fading \ {l}
          /\ layers' = Heard({l})
          /\ Terminated(Satisfied({l}))

-----------------------------------------------------------------------------
\* OutputDisplay.load: the display listens for the job's COMPLETE; register
\* terminates the registered job, finished or not, and starts this one.
LoadMix(j, fade) ==
  /\ status[j] = "unborn"
  /\ current' = j
  /\ status' = [status EXCEPT ![j] = "reading"]
  /\ mixLoaded' = mixLoaded \cup ({current} \cap listening)
  /\ listening' = (listening \ {current}) \cup {j}
  /\ transition' = (transition \ {current}) \cup (IF fade THEN {j} ELSE {})
  /\ alone' = IF Quiet /\ ~fade THEN {j} ELSE {}
  /\ UNCHANGED <<layers, jobs, named, inFlight, holds, fading, failed>>

\* onRead without a transition: every layer of the mix s is waited for and
\* loaded in turn.  Devices, and SWF files that another layer has registered, are
\* answered inside the call, those of D; if the first layer is, nothing else is
\* waited for yet and the job completes.  An empty mix never does.  Elsewhere an
\* answer inside the call is the Answer that comes next.
ReadImmediate(j, s, D) ==
  /\ status[j] = "reading" /\ j \notin transition
  /\ status' = [status EXCEPT ![j] = "loading"]
  /\ named' = [named EXCEPT ![j] = Range(s)]
  /\ layers' = [Heard(D) EXCEPT ![j] = Range(s) \ D]
  /\ Terminated(Satisfied(D) \cup {k \in {j} : s # <<>> /\ Head(s) \in D})
  /\ inFlight' = inFlight \cup {AnswerTo(j, l, FALSE) : l \in Range(s) \ D}
  /\ holds' = [l \in Layer |-> IF l \in D THEN j ELSE holds[l]]
  /\ fading' = fading \ D
  /\ UNCHANGED <<current, jobs, failed, alone>>

\* onRead with a transition: a StaggerONXJob loads the empty layers of the mix
\* at once and without it, then the first of the others, and keeps the rest.
ReadStagger(j, s) ==
  /\ status[j] = "reading" /\ j \in transition
  /\ status' = [status EXCEPT ![j] = "loading"]
  /\ named' = [named EXCEPT ![j] = Range(s)]
  /\ LET Empty(l) == holds[l] = NoJob
         Full(l) == ~Empty(l)
         queue == SelectSeq(s, Full)
         first == IF queue = <<>> THEN {} ELSE {AnswerTo(j, Head(queue), TRUE)}
     IN  /\ inFlight' = inFlight \cup first
              \cup {AnswerTo(j, l, FALSE) : l \in {x \in Range(s) : Empty(x)}}
         /\ jobs' = [jobs EXCEPT ![j] = IF queue = <<>> THEN <<>> ELSE Tail(queue)]
  /\ Terminated({j})
  /\ UNCHANGED <<current, layers, holds, fading, failed, alone>>

\* The timer of a StaggerONXJob ticks: the next layer is loaded.
Tick(j) ==
  /\ jobs[j] # <<>>
  /\ inFlight' = inFlight \cup {AnswerTo(j, Head(jobs[j]), TRUE)}
  /\ jobs' = [jobs EXCEPT ![j] = Tail(@)]
  /\ UNCHANGED <<current, status, transition, layers, named, holds, fading, listening,
                 mixLoaded, failed, alone>>

\* The load of a layer is answered by a content.
Answer(load) ==
  /\ inFlight' = inFlight \ {load}
  /\ Arrive(load.origin, load.layer, load.fade)
  /\ UNCHANGED <<current, status, jobs, named, failed, alone>>

\* The load of a layer fails: the layer logs it and sends nothing.
AnswerError(load) ==
  /\ inFlight' = inFlight \ {load}
  /\ failed' = failed \cup ({load.origin} \cap Job)
  /\ UNCHANGED <<jobVars, holds, fading, alone>>

\* A transition ends, and the layer sends LAYER_LOADED.
EndTransition(l) ==
  /\ l \in fading
  /\ fading' = fading \ {l}
  /\ layers' = Heard({l})
  /\ Terminated(Satisfied({l}))
  /\ UNCHANGED <<current, status, jobs, named, inFlight, holds, failed, alone>>

\* The user loads a file on one layer, or empties it.
UserLoad(l, fade) ==
  /\ l \in UserLayers
  /\ inFlight' = inFlight \cup {AnswerTo(User, l, fade)}
  /\ alone' = {}
  /\ UNCHANGED <<jobVars, holds, fading, failed>>

UserDelete(l) ==
  /\ l \in UserLayers /\ holds[l] # NoJob
  /\ holds' = [holds EXCEPT ![l] = NoJob]
  /\ fading' = fading \ {l}
  /\ alone' = {}
  /\ UNCHANGED <<jobVars, inFlight, failed>>

Read(j) ==
  \E s \in Mixes :
    \/ \E D \in SUBSET Range(s) : ReadImmediate(j, s, D)
    \/ ReadStagger(j, s)

\* The user may stop once nothing is under way.
Finished == Quiet /\ UNCHANGED vars

Next ==
  \/ \E j \in Job, fade \in BOOLEAN : LoadMix(j, fade)
  \/ \E j \in Job : Read(j)
  \/ \E j \in Job : Tick(j)
  \/ \E load \in inFlight : Answer(load)
  \/ \E load \in inFlight : AnswerError(load)
  \/ \E l \in Layer : EndTransition(l)
  \/ \E l \in Layer, fade \in BOOLEAN : UserLoad(l, fade)
  \/ \E l \in Layer : UserDelete(l)
  \/ Finished

Spec == Init /\ [][Next]_vars

\* The disk answers each read and each load, timers tick and frames go on; the
\* user owes nothing.
FairSpec ==
  /\ Spec
  /\ \A j \in Job : WF_vars(Read(j)) /\ WF_vars(Tick(j))
  /\ \A load \in LayerLoads : WF_vars(load \in inFlight /\ Answer(load))
  /\ \A l \in Layer : WF_vars(EndTransition(l))

-----------------------------------------------------------------------------
LoadsOf(j) == {load.layer : load \in {x \in inFlight : x.origin = j}}

\* A job only waits for loads of its own that are under way: as long as none
\* of them fails, it waits for no event that will not come, whatever the user
\* and the mixes before it do to the layers.
WaitsForItsLoads == \A j \in Job \ failed : layers[j] \subseteq LoadsOf(j)

\* MIX_LOADED means that the mix is there: when a mix is loaded without a
\* transition and nothing else is loaded meanwhile, each of its layers holds what
\* it asked for, answers inside the call included.  Only when the first layer of
\* the mix is answered inside the call that reads it may MIX_LOADED come with that
\* layer alone, the rest still to be loaded.
LoadedMeansLoaded ==
  [][\A j \in (mixLoaded' \ mixLoaded) \cap alone' :
       \/ LoadsOf(j)' = {} /\ \A l \in named'[j] : holds'[l] = j
       \/ status[j] = "reading" /\ \E l \in named'[j] : holds'[l] = j]_vars

\* Mixes with something to load are announced in the end, unless a load fails,
\* and a staggered mix is loaded to its last layer, even when another one has
\* been loaded meanwhile.
MixAnnounced ==
  \A j \in Job :
    /\ layers[j] # {} ~> j \in mixLoaded \cup failed
    /\ jobs[j] # <<>> ~> jobs[j] = <<>>
=============================================================================
