----------------------------- MODULE MixLoadProofs -----------------------------
(***************************************************************************)
(* Theorems about MixLoad, for any layers and any number of mixes.         *)
(***************************************************************************)
EXTENDS MixLoad, TLAPS

Shape ==
  /\ DOMAIN status = Job /\ DOMAIN layers = Job /\ DOMAIN jobs = Job
  /\ DOMAIN named = Job /\ DOMAIN holds = Layer

\* A job waits for nothing before it has read its mix, nor if it staggers.
WaitsOnlyAtOnce ==
  \A j \in Job :
    /\ status[j] # "loading" => layers[j] = {} /\ jobs[j] = <<>>
    /\ jobs[j] # <<>> => layers[j] = {}

\* What is under way for a job is what it read, and fades in only if the job
\* staggers and so waits for nothing.
LoadsAsRead ==
  \A load \in inFlight : load.origin \in Job =>
    /\ status[load.origin] = "loading"
    /\ load.fade => layers[load.origin] = {}

WaitInv == Shape /\ WaitsOnlyAtOnce /\ LoadsAsRead /\ WaitsForItsLoads

\* At the start no job waits.
LEMMA WaitInit == Init => WaitInv
BY DEF Init, WaitInv, Shape, WaitsOnlyAtOnce, LoadsAsRead, WaitsForItsLoads, LoadsOf

\* What a job waits for, spelled out.
LEMMA Waiting ==
  WaitsForItsLoads <=>
    \A j \in Job : j \notin failed =>
      \A l \in layers[j] : \E x \in inFlight : x.origin = j /\ x.layer = l
BY DEF WaitsForItsLoads, LoadsOf

\* The same, of the state after a step.
LEMMA WaitingThen ==
  (\A j \in Job : j \notin failed' =>
      \A l \in layers'[j] : \E x \in inFlight' : x.origin = j /\ x.layer = l)
  => WaitsForItsLoads'
BY DEF WaitsForItsLoads, LoadsOf

\* A step leaves every job waiting for loads of its own.
LEMMA WaitNext == WaitInv /\ [Next]_vars => WaitInv'
<1> SUFFICES ASSUME WaitInv, [Next]_vars PROVE WaitInv'
  OBVIOUS
<1> USE DEF WaitInv
<1>w. \A j \in Job : j \notin failed =>
        \A l \in layers[j] : \E x \in inFlight : x.origin = j /\ x.layer = l
  BY Waiting
<1>1. ASSUME NEW j \in Job, NEW fade \in BOOLEAN, LoadMix(j, fade) PROVE WaitInv'
  <2>1. Shape' /\ WaitsOnlyAtOnce' /\ LoadsAsRead'
    BY <1>1 DEF LoadMix, Shape, WaitsOnlyAtOnce, LoadsAsRead
  <2>2. WaitsForItsLoads'
    BY <1>1 DEF LoadMix, WaitsForItsLoads, LoadsOf
  <2> QED BY <2>1, <2>2
<1>2. ASSUME NEW j \in Job, NEW s \in Mixes, NEW D \in SUBSET Range(s), ReadImmediate(j, s, D)
      PROVE  WaitInv'
  <2> DEFINE R == Range(s)
             loads == {AnswerTo(j, l, FALSE) : l \in R \ D}
  <2>1. /\ status' = [status EXCEPT ![j] = "loading"]
        /\ layers' = [k \in Job |-> IF k = j THEN R \ D ELSE layers[k] \ D]
        /\ inFlight' = inFlight \cup loads
        /\ jobs' = jobs /\ status[j] = "reading" /\ failed' = failed
        /\ DOMAIN named' = DOMAIN named /\ DOMAIN holds' = Layer
    BY <1>2 DEF ReadImmediate, Heard
  <2>2. /\ \A x \in loads : x.origin = j /\ x.fade = FALSE
        /\ \A l \in R \ D : \E x \in loads : x.origin = j /\ x.layer = l
    <3>1. ASSUME NEW l \in R \ D PROVE \E x \in loads : x.origin = j /\ x.layer = l
      <4> WITNESS AnswerTo(j, l, FALSE) \in loads
      <4> QED BY DEF AnswerTo
    <3> QED BY <3>1 DEF AnswerTo
  <2> HIDE DEF R, loads
  <2>3. Shape'
    BY <2>1 DEF Shape
  <2>4. WaitsOnlyAtOnce'
    BY <2>1 DEF Shape, WaitsOnlyAtOnce
  <2>5. LoadsAsRead'
    BY <2>1, <2>2 DEF Shape, LoadsAsRead
  <2>6. WaitsForItsLoads'
    BY <2>1, <2>2, <1>w, WaitingThen
  <2> QED BY <2>3, <2>4, <2>5, <2>6
<1>3. ASSUME NEW j \in Job, NEW s \in Mixes, ReadStagger(j, s) PROVE WaitInv'
  <2> DEFINE Empty(l) == holds[l] = NoJob
             Full(l) == ~Empty(l)
             queue == SelectSeq(s, Full)
             first == IF queue = <<>> THEN {} ELSE {AnswerTo(j, Head(queue), TRUE)}
             loads == first \cup {AnswerTo(j, l, FALSE) : l \in {x \in Range(s) : Empty(x)}}
             rest == IF queue = <<>> THEN <<>> ELSE Tail(queue)
  <2>1. /\ status' = [status EXCEPT ![j] = "loading"]
        /\ jobs' = [jobs EXCEPT ![j] = rest]
        /\ inFlight' = inFlight \cup loads
        /\ layers' = layers /\ status[j] = "reading"
        /\ DOMAIN named' = DOMAIN named /\ holds' = holds /\ failed' = failed
    BY <1>3, Zenon DEF ReadStagger
  <2>2. \A x \in loads : x.origin = j
    BY DEF AnswerTo
  <2> HIDE DEF loads, rest
  <2>3. layers[j] = {}
    BY <2>1 DEF WaitsOnlyAtOnce
  <2>4. Shape'
    BY <2>1 DEF Shape
  <2>5. WaitsOnlyAtOnce'
    BY <2>1, <2>3 DEF Shape, WaitsOnlyAtOnce
  <2>6. LoadsAsRead'
    BY <2>1, <2>2, <2>3 DEF Shape, LoadsAsRead
  <2>7. WaitsForItsLoads'
    BY <2>1, <1>w, WaitingThen
  <2> QED BY <2>4, <2>5, <2>6, <2>7
<1>4. ASSUME NEW j \in Job, Tick(j) PROVE WaitInv'
  <2> DEFINE next == AnswerTo(j, Head(jobs[j]), TRUE)
             rest == Tail(jobs[j])
  <2>1. /\ jobs' = [jobs EXCEPT ![j] = rest]
        /\ inFlight' = inFlight \cup {next}
        /\ layers' = layers /\ status' = status /\ failed' = failed
        /\ named' = named /\ holds' = holds /\ jobs[j] # <<>>
    BY <1>4 DEF Tick
  <2>2. next.origin = j
    BY DEF AnswerTo
  <2> HIDE DEF next, rest
  <2>3. layers[j] = {} /\ status[j] = "loading"
    BY <2>1 DEF WaitsOnlyAtOnce
  <2>4. Shape' /\ WaitsOnlyAtOnce'
    BY <2>1, <2>3 DEF Shape, WaitsOnlyAtOnce
  <2>5. LoadsAsRead'
    BY <2>1, <2>2, <2>3 DEF LoadsAsRead
  <2>6. WaitsForItsLoads'
    BY <2>1, <1>w, WaitingThen
  <2> QED BY <2>4, <2>5, <2>6
\* A content comes, or a transition ends: the loads that go are of that layer.
<1>5. ASSUME NEW load \in inFlight, Answer(load) PROVE WaitInv'
  <2> DEFINE faded == load.fade /\ holds[load.layer] # NoJob
  <2>1. /\ inFlight' = inFlight \ {load}
        /\ status' = status /\ jobs' = jobs /\ named' = named /\ failed' = failed
        /\ DOMAIN holds' = DOMAIN holds
        /\ faded => layers' = layers
        /\ ~faded => layers' = [k \in Job |-> layers[k] \ {load.layer}]
    BY <1>5 DEF Answer, Arrive, Heard
  <2>2. /\ DOMAIN layers' = Job
        /\ \A k \in Job : layers'[k] \subseteq layers[k]
        /\ \A k \in Job : load.layer \in layers'[k] => k # load.origin
    <3>1. CASE faded
      BY <2>1, <3>1 DEF Shape, LoadsAsRead
    <3>2. CASE ~faded
      BY <2>1, <3>2
    <3> QED BY <3>1, <3>2
  <2>3. Shape' /\ WaitsOnlyAtOnce' /\ LoadsAsRead'
    BY <2>1, <2>2 DEF Shape, WaitsOnlyAtOnce, LoadsAsRead
  <2>4. WaitsForItsLoads'
    BY <2>1, <2>2, <1>w, WaitingThen
  <2> QED BY <2>3, <2>4
<1>6. ASSUME NEW load \in inFlight, AnswerError(load) PROVE WaitInv'
  <2>1. /\ inFlight' = inFlight \ {load}
        /\ failed' = failed \cup ({load.origin} \cap Job)
        /\ status' = status /\ jobs' = jobs /\ named' = named /\ layers' = layers
        /\ holds' = holds
    BY <1>6 DEF AnswerError, jobVars
  <2>2. Shape' /\ WaitsOnlyAtOnce' /\ LoadsAsRead'
    BY <2>1 DEF Shape, WaitsOnlyAtOnce, LoadsAsRead
  <2>3. WaitsForItsLoads'
    BY <2>1, <1>w, WaitingThen
  <2> QED BY <2>2, <2>3
<1>7. ASSUME NEW l \in Layer, EndTransition(l) PROVE WaitInv'
  <2>1. /\ layers' = [k \in Job |-> layers[k] \ {l}]
        /\ inFlight' = inFlight /\ status' = status /\ jobs' = jobs /\ named' = named
        /\ failed' = failed /\ holds' = holds
    BY <1>7 DEF EndTransition, Heard
  <2>2. Shape' /\ WaitsOnlyAtOnce' /\ LoadsAsRead'
    BY <2>1 DEF Shape, WaitsOnlyAtOnce, LoadsAsRead
  <2>3. WaitsForItsLoads'
    BY <2>1, <1>w, WaitingThen
  <2> QED BY <2>2, <2>3
<1>8. ASSUME NEW l \in Layer, NEW fade \in BOOLEAN, UserLoad(l, fade) PROVE WaitInv'
  <2>1. /\ inFlight' = inFlight \cup {AnswerTo(User, l, fade)}
        /\ status' = status /\ jobs' = jobs /\ named' = named /\ layers' = layers
        /\ holds' = holds /\ failed' = failed
    BY <1>8 DEF UserLoad, jobVars
  <2>2. Shape' /\ WaitsOnlyAtOnce'
    BY <2>1 DEF Shape, WaitsOnlyAtOnce
  <2>3. LoadsAsRead'
    BY <2>1, MixAssumption DEF LoadsAsRead, AnswerTo
  <2>4. WaitsForItsLoads'
    BY <2>1, <1>w, WaitingThen
  <2> QED BY <2>2, <2>3, <2>4
<1>9. ASSUME NEW l \in Layer, UserDelete(l) PROVE WaitInv'
  BY <1>9 DEF UserDelete, jobVars, Shape, WaitsOnlyAtOnce, LoadsAsRead, WaitsForItsLoads, LoadsOf
<1>10. CASE UNCHANGED vars
  BY <1>10 DEF vars, jobVars, Shape, WaitsOnlyAtOnce, LoadsAsRead, WaitsForItsLoads, LoadsOf
<1> QED
  BY <1>1, <1>2, <1>3, <1>4, <1>5, <1>6, <1>7, <1>8, <1>9, <1>10 DEF Next, Read, Finished

\* Whatever mixes and single loads overlap, a job waits for loads of its own.
THEOREM WaitsForOwn == Spec => []WaitsForItsLoads
<1>1. WaitInv => WaitsForItsLoads
  BY DEF WaitInv
<1> QED BY WaitInit, WaitNext, <1>1, PTL DEF Spec

-----------------------------------------------------------------------------
(* MIX_LOADED means that the mix is there, or its first layer. *)

\* While a mix is loaded alone, everything under way is its own and comes at
\* once, and of what it names it waits for all that has not come.
AloneInv ==
  \A j \in alone :
    /\ j \in Job /\ status[j] # "unborn" /\ j \notin transition /\ fading = {}
    /\ \A k \in Job : jobs[k] = <<>> /\ (k # j => status[k] # "reading")
    /\ \A x \in inFlight : x = AnswerTo(j, x.layer, FALSE) /\ x.layer \in layers[j]
    /\ status[j] = "loading" =>
         \A l \in named[j] : l \in Layer /\ (holds[l] = j \/ l \in layers[j])

TransitionsStarted == \A j \in Job : status[j] = "unborn" => j \notin transition
OneAlone == alone = {} \/ \E j \in Job : alone = {j}
CurrentStarted == current # NoJob => current \in Job /\ status[current] # "unborn"

MixInv == WaitInv /\ AloneInv /\ OneAlone /\ CurrentStarted /\ TransitionsStarted

\* At the start nothing is loaded and no mix is current.
LEMMA MixInit == Init => MixInv
<1> SUFFICES ASSUME Init PROVE MixInv
  OBVIOUS
<1>1. AloneInv /\ OneAlone /\ CurrentStarted /\ TransitionsStarted
  BY DEF Init, AloneInv, OneAlone, CurrentStarted, TransitionsStarted
<1> QED BY WaitInit, <1>1 DEF MixInv

\* What LoadedMeansLoaded says of a step.
LoadedStep ==
  \A j \in (mixLoaded' \ mixLoaded) \cap alone' :
    \/ LoadsOf(j)' = {} /\ \A l \in named'[j] : holds'[l] = j
    \/ status[j] = "reading" /\ \E l \in named'[j] : holds'[l] = j

\* A step keeps the invariant, and sends MIX_LOADED only of a mix that is there.
LEMMA MixNext == MixInv /\ [Next]_vars => MixInv' /\ LoadedStep
<1> SUFFICES ASSUME MixInv, [Next]_vars PROVE MixInv' /\ LoadedStep
  OBVIOUS
<1>w. WaitInv' /\ WaitInv /\ Shape /\ WaitsOnlyAtOnce
  BY WaitNext DEF MixInv, WaitInv
<1> DEFINE Rest == AloneInv' /\ OneAlone' /\ CurrentStarted' /\ TransitionsStarted' /\ LoadedStep
<1> SUFFICES Rest
  BY <1>w DEF MixInv
<1>a. AloneInv /\ OneAlone /\ CurrentStarted /\ TransitionsStarted
  BY DEF MixInv
\* A step after which no mix is alone; one that announces no mix.
<1>n. alone' = {} => AloneInv' /\ OneAlone' /\ LoadedStep
  BY DEF AloneInv, OneAlone, LoadedStep
<1>m. mixLoaded' \cap alone' \subseteq mixLoaded => LoadedStep
  BY DEF LoadedStep
<1>1. ASSUME NEW j \in Job, NEW fade \in BOOLEAN, LoadMix(j, fade) PROVE Rest
  <2>1. /\ status' = [status EXCEPT ![j] = "reading"] /\ jobs' = jobs /\ current' = j
        /\ transition' = (transition \ {current}) \cup (IF fade THEN {j} ELSE {})
        /\ mixLoaded' = mixLoaded \cup ({current} \cap listening)
        /\ status[j] = "unborn" /\ fading' = fading /\ inFlight' = inFlight
    BY <1>1 DEF LoadMix
  <2>2. CurrentStarted' /\ TransitionsStarted'
    BY <2>1, <1>w, <1>a DEF Shape, CurrentStarted, TransitionsStarted
  <2>3. CASE Quiet /\ ~fade
    <3>1. /\ alone' = {j} /\ fading = {} /\ inFlight = {}
          /\ \A k \in Job : status[k] # "reading" /\ jobs[k] = <<>>
      BY <1>1, <2>3 DEF LoadMix, Quiet
    <3>2. j \notin transition' /\ j # current
      BY <2>1, <2>3, <1>a, MixAssumption DEF TransitionsStarted, CurrentStarted
    <3>3. AloneInv' /\ OneAlone'
      BY <2>1, <3>1, <3>2, <1>w DEF AloneInv, OneAlone, Shape
    <3>4. LoadedStep
      BY <2>1, <3>1, <3>2, <1>m
    <3> QED BY <2>2, <3>3, <3>4
  <2>4. CASE ~(Quiet /\ ~fade)
    <3>1. alone' = {}
      BY <1>1, <2>4 DEF LoadMix
    <3> QED BY <2>2, <3>1, <1>n
  <2> QED BY <2>3, <2>4
<1>2. ASSUME NEW j \in Job, NEW s \in Mixes, NEW D \in SUBSET Range(s), ReadImmediate(j, s, D)
      PROVE  Rest
  <2> DEFINE R == Range(s)
  <2>1. /\ status' = [status EXCEPT ![j] = "loading"]
        /\ layers' = [k \in Job |-> IF k = j THEN R \ D ELSE layers[k] \ D]
        /\ inFlight' = inFlight \cup {AnswerTo(j, l, FALSE) : l \in R \ D}
        /\ jobs' = jobs /\ status[j] = "reading" /\ current' = current
        /\ named' = [named EXCEPT ![j] = R]
        /\ holds' = [l \in Layer |-> IF l \in D THEN j ELSE holds[l]]
        /\ fading' = fading \ D
        /\ alone' = alone
        /\ transition' \subseteq transition
        /\ mixLoaded' = mixLoaded \cup
             ((Satisfied(D) \cup {k \in {j} : s # <<>> /\ Head(s) \in D}) \cap listening)
    BY <1>2 DEF ReadImmediate, Heard, Terminated
  <2>2. CurrentStarted' /\ TransitionsStarted'
    BY <2>1, <1>w, <1>a DEF Shape, CurrentStarted, TransitionsStarted
  <2>3. R \subseteq Layer
    BY DEF Mixes, Range
  <2> HIDE DEF R
  <2>4. CASE alone # {}
    <3>1. alone = {j} /\ alone' = {j} /\ inFlight = {} /\ fading = {}
      <4>1. alone = {j}
        BY <2>1, <2>4, <1>a DEF AloneInv, OneAlone
      <4>2. \A x \in inFlight : x.layer \in layers[j]
        BY <4>1, <1>a DEF AloneInv
      <4>3. layers[j] = {}
        BY <2>1, <1>w DEF WaitsOnlyAtOnce
      <4>4. fading = {}
        BY <4>1, <1>a DEF AloneInv
      <4> QED BY <4>1, <4>2, <4>3, <4>4, <2>1
    <3>2. LoadedStep
      <4> SUFFICES ASSUME j \in mixLoaded' \ mixLoaded
                   PROVE  status[j] = "reading" /\ \E l \in named'[j] : holds'[l] = j
        BY <3>1 DEF LoadedStep
      <4>1. j \notin Satisfied(D)
        BY <2>1, <1>w DEF Satisfied, WaitsOnlyAtOnce
      <4>2. Head(s) \in D
        BY <2>1, <4>1
      <4>3. Head(s) \in R /\ named'[j] = R
        BY <2>1, <4>2, <1>w DEF Shape, R
      <4>4. holds'[Head(s)] = j
        BY <2>1, <2>3, <4>2, <4>3
      <4> QED BY <2>1, <4>3, <4>4
    <3>3. \A x \in inFlight' : x = AnswerTo(j, x.layer, FALSE) /\ x.layer \in layers'[j]
      BY <2>1, <3>1 DEF AnswerTo
    <3>4. AloneInv'
      <4>1. \A l \in named'[j] : l \in Layer /\ (holds'[l] = j \/ l \in layers'[j])
        BY <2>1, <2>3, <1>w DEF Shape
      <4>2. j \notin transition' /\ fading' = {}
        BY <1>2, <2>1, <3>1, <1>a DEF AloneInv, ReadImmediate
      <4>3. \A k \in Job : jobs'[k] = <<>> /\ (k # j => status'[k] # "reading")
        BY <2>1, <3>1, <1>a, <1>w DEF AloneInv, Shape
      <4>4. status'[j] = "loading"
        BY <2>1, <1>w DEF Shape
      <4> QED BY <3>1, <3>3, <4>1, <4>2, <4>3, <4>4 DEF AloneInv
    <3> QED BY <2>2, <3>1, <3>2, <3>4 DEF OneAlone
  <2>5. CASE alone = {}
    <3>1. alone' = {}
      BY <2>1, <2>5
    <3> QED BY <2>2, <3>1, <1>n
  <2> QED BY <2>4, <2>5
<1>3. ASSUME NEW j \in Job, NEW s \in Mixes, ReadStagger(j, s) PROVE Rest
  <2>1. /\ status' = [status EXCEPT ![j] = "loading"]
        /\ status[j] = "reading" /\ j \in transition
        /\ transition' = transition \ {j} /\ current' = current /\ alone' = alone
    BY <1>3 DEF ReadStagger, Terminated
  <2>2. CurrentStarted' /\ TransitionsStarted'
    BY <2>1, <1>w, <1>a DEF Shape, CurrentStarted, TransitionsStarted
  <2>3. alone' = {}
    BY <2>1, <1>a DEF AloneInv, OneAlone
  <2> QED BY <2>2, <2>3, <1>n
<1>4. ASSUME NEW j \in Job, Tick(j) PROVE Rest
  <2>1. /\ jobs[j] # <<>> /\ alone' = alone /\ current' = current /\ status' = status
        /\ transition' = transition
    BY <1>4 DEF Tick
  <2>2. alone' = {}
    BY <2>1, <1>a DEF AloneInv, OneAlone
  <2> QED BY <2>1, <2>2, <1>a, <1>n DEF CurrentStarted, TransitionsStarted
<1>5. ASSUME NEW load \in inFlight, Answer(load) PROVE Rest
  <2>1. /\ inFlight' = inFlight \ {load} /\ current' = current /\ status' = status
        /\ jobs' = jobs /\ named' = named /\ alone' = alone
        /\ holds' = [holds EXCEPT ![load.layer] = load.origin]
        /\ transition' \subseteq transition
    BY <1>5 DEF Answer, Arrive, Terminated
  <2>2. CurrentStarted' /\ TransitionsStarted'
    BY <2>1, <1>a DEF CurrentStarted, TransitionsStarted
  <2>3. CASE alone = {}
    BY <2>1, <2>2, <2>3, <1>n
  <2>4. ASSUME NEW j \in Job, alone = {j} PROVE Rest
    <3>1. /\ load = AnswerTo(j, load.layer, FALSE) /\ fading = {} /\ j \notin transition
          /\ \A k \in Job : jobs[k] = <<>> /\ (k # j => status[k] # "reading")
          /\ \A x \in inFlight : x = AnswerTo(j, x.layer, FALSE) /\ x.layer \in layers[j]
          /\ status[j] # "unborn"
      BY <2>4, <1>a DEF AloneInv
    <3>2. load.origin = j /\ load.fade = FALSE
      BY <3>1 DEF AnswerTo
    <3>3. /\ fading' = {} /\ layers' = [k \in Job |-> layers[k] \ {load.layer}]
          /\ mixLoaded' = mixLoaded \cup (Satisfied({load.layer}) \cap listening)
      BY <1>5, <3>1, <3>2 DEF Answer, Arrive, Heard, Terminated
    <3>4. \A x \in inFlight' : x = AnswerTo(j, x.layer, FALSE) /\ x.layer \in layers'[j]
      <4>1. \A x \in inFlight' : x = AnswerTo(j, x.layer, FALSE) /\ x.layer \in layers[j]
        BY <2>1, <3>1
      <4>2. \A x \in inFlight' : x.layer # load.layer
        BY <2>1, <3>1
      <4> QED BY <4>1, <4>2, <3>3
    <3>5. \A l \in named'[j] : status'[j] = "loading" =>
             l \in Layer /\ (holds'[l] = j \/ l \in layers'[j])
      <4> SUFFICES ASSUME NEW l \in named[j], status[j] = "loading"
                   PROVE  l \in Layer /\ (holds'[l] = j \/ l \in layers'[j])
        BY <2>1
      <4>1. l \in Layer /\ (holds[l] = j \/ l \in layers[j])
        BY <2>4, <1>a DEF AloneInv
      <4> QED BY <4>1, <2>1, <3>2, <3>3, <1>w DEF Shape
    <3>6. AloneInv' /\ OneAlone'
      BY <2>1, <2>4, <3>1, <3>3, <3>4, <3>5 DEF AloneInv, OneAlone
    <3>7. LoadedStep
      <4> SUFFICES ASSUME j \in mixLoaded' \ mixLoaded
                   PROVE  LoadsOf(j)' = {} /\ \A l \in named'[j] : holds'[l] = j
        BY <2>1, <2>4 DEF LoadedStep
      <4>1. layers'[j] = {} /\ layers[j] # {}
        BY <3>3 DEF Satisfied
      <4>2. inFlight' = {} /\ LoadsOf(j)' = {}
        BY <3>4, <4>1 DEF LoadsOf
      <4>3. status'[j] = "loading"
        BY <4>1, <2>1, <1>w DEF WaitsOnlyAtOnce
      <4> QED BY <3>5, <4>1, <4>2, <4>3
    <3> QED BY <2>2, <3>6, <3>7
  <2> QED BY <2>3, <2>4, <1>a DEF OneAlone
<1>6. ASSUME NEW load \in inFlight, AnswerError(load) PROVE Rest
  <2>1. /\ inFlight' = inFlight \ {load} /\ UNCHANGED <<jobVars, holds, fading, alone>>
    BY <1>6 DEF AnswerError
  <2>2. CurrentStarted' /\ TransitionsStarted' /\ OneAlone'
    BY <2>1, <1>a DEF CurrentStarted, TransitionsStarted, OneAlone, jobVars
  <2>3. AloneInv'
    BY <2>1, <1>a DEF AloneInv, jobVars
  <2>4. LoadedStep
    BY <2>1, <1>m DEF jobVars
  <2> QED BY <2>2, <2>3, <2>4
<1>7. ASSUME NEW l \in Layer, EndTransition(l) PROVE Rest
  <2>1. /\ l \in fading /\ alone' = alone /\ current' = current /\ status' = status
        /\ transition' \subseteq transition
    BY <1>7 DEF EndTransition, Terminated
  <2>2. alone' = {}
    BY <2>1, <1>a DEF AloneInv, OneAlone
  <2> QED BY <2>1, <2>2, <1>a, <1>n DEF CurrentStarted, TransitionsStarted
<1>8. ASSUME NEW l \in Layer, NEW fade \in BOOLEAN, UserLoad(l, fade) PROVE Rest
  BY <1>8, <1>a, <1>n DEF UserLoad, jobVars, CurrentStarted, TransitionsStarted
<1>9. ASSUME NEW l \in Layer, UserDelete(l) PROVE Rest
  BY <1>9, <1>a, <1>n DEF UserDelete, jobVars, CurrentStarted, TransitionsStarted
<1>10. CASE UNCHANGED vars
  <2>1. CurrentStarted' /\ TransitionsStarted' /\ OneAlone'
    BY <1>10, <1>a DEF vars, jobVars, CurrentStarted, TransitionsStarted, OneAlone
  <2>2. AloneInv'
    BY <1>10, <1>a DEF vars, jobVars, AloneInv
  <2>3. LoadedStep
    BY <1>10, <1>m DEF vars, jobVars
  <2> QED BY <2>1, <2>2, <2>3
<1> QED
  BY <1>1, <1>2, <1>3, <1>4, <1>5, <1>6, <1>7, <1>8, <1>9, <1>10 DEF Next, Read, Finished

\* When MIX_LOADED is sent for a mix loaded alone, the mix is there, or it is sent
\* in the call that reads the mix, whose first layer is there.
THEOREM LoadedIsThere == Spec => LoadedMeansLoaded
<1>1. MixInv /\ [Next]_vars => [LoadedStep]_vars
  BY MixNext
<1> QED BY MixInit, MixNext, <1>1, PTL DEF Spec, LoadedMeansLoaded, LoadedStep
=============================================================================
