--------------------------- MODULE ThumbnailsProofs ---------------------------
(***************************************************************************)
(* Theorems about Thumbnails, for any files.                               *)
(***************************************************************************)
EXTENDS Thumbnails, SequenceTheorems, FiniteSetTheorems, TLAPS

\* What the fields hold that the steps are built from.
Fields ==
  /\ jobs \in Seq(File) /\ current \in File \cup {None}
  /\ flights \subseteq File /\ unread \subseteq File /\ shown \in File \cup {None}
  /\ kind \in [File -> Kinds] /\ thumbs \in [File -> File \cup {None, Blank}]

\* Nothing is on its way and nobody listens.
Idle == flights = {} /\ unread = {} /\ job = None /\ ~waiting /\ ~onLoaded /\ ~onMix

\* The stages of the queue while nothing is given up: no file, an mp3, a content on
\* its way, a mix being read, its content on its way, a file to be drawn (also one
\* that came inside the call).
NoFile == current = None /\ shown = None /\ Idle
Silent == current \in File /\ kind[current] = "mp3" /\ shown = None /\ Idle /\ rendering
Coming ==
  /\ current \in File /\ shown = None /\ unread = {} /\ flights = {current}
  /\ job = None /\ ~waiting /\ onLoaded /\ ~onMix /\ ~rendering /\ armed
MixRead ==
  /\ current \in File /\ shown = None /\ unread = {current} /\ flights = {}
  /\ job = current /\ ~waiting /\ ~onLoaded /\ onMix /\ ~rendering /\ armed
MixComing ==
  /\ current \in File /\ shown = None /\ unread = {} /\ flights = {current}
  /\ job = current /\ waiting /\ ~onLoaded /\ onMix /\ ~rendering /\ armed
Come == current \in File /\ shown = current /\ Idle /\ rendering

OwnInv ==
  /\ Fields
  /\ ~late => /\ NoFile \/ Silent \/ Coming \/ MixRead \/ MixComing \/ Come
              /\ OwnThumbnail

\* At the start there is no file, and nothing is drawn.
LEMMA OwnInit == Init => OwnInv
<1> SUFFICES ASSUME Init PROVE OwnInv
  OBVIOUS
<1>1. jobs \in Seq(File)
  <2>1. Cardinality(File) \in Nat
    BY ThumbnailAssumption, FS_CardinalityType
  <2>2. jobs \in [1..Cardinality(File) -> File]
    BY DEF Init, Bijection, Injection
  <2> QED BY <2>1, <2>2
<1>2. /\ kind \in [File -> Kinds] /\ thumbs = [f \in File |-> None]
      /\ current = None /\ shown = None /\ flights = {} /\ unread = {} /\ job = None
  BY DEF Init
<1>3. /\ waiting = FALSE /\ onLoaded = FALSE /\ onMix = FALSE /\ armed = FALSE
      /\ rendering = TRUE /\ disposed = FALSE /\ late = FALSE
  BY DEF Init
<1>4. Fields
  <2>1. thumbs \in [File -> File \cup {None, Blank}]
    BY <1>2
  <2> QED BY <1>1, <1>2, <2>1 DEF Fields
<1>5. NoFile
  BY <1>2, <1>3 DEF NoFile, Idle
<1>6. OwnThumbnail
  BY <1>2 DEF OwnThumbnail
<1> QED BY <1>4, <1>5, <1>6 DEF OwnInv

\* _nextQueue with nothing under way and nothing shown starts the next file, or
\* none.
LEMMA Started ==
  ASSUME Fields, Idle, NextQueue(FALSE, armed) \/ (~rendering /\ NextQueue(rendering, FALSE)),
         kind' = kind
  PROVE  /\ jobs' \in Seq(File) /\ current' \in File \cup {None}
         /\ jobs = <<>> => NoFile'
         /\ jobs # <<>> => (Silent \/ Coming \/ MixRead \/ Come)'
         /\ jobs # <<>> => last' = current' /\ (~Come' \/ kind[current'] \in AtOnce)
<1>1. CASE jobs = <<>>
  <2>1. Leave(FALSE, armed) \/ (~rendering /\ Leave(rendering, FALSE))
    BY <1>1 DEF NextQueue
  <2>2. /\ current' = None /\ onMix' = FALSE /\ disposed' = TRUE /\ ~rendering'
        /\ jobs' = jobs /\ flights' = flights /\ unread' = unread /\ job' = job
        /\ waiting' = waiting /\ onLoaded' = onLoaded /\ shown' = None
    BY <2>1 DEF Leave, loadVars
  <2>3. NoFile'
    BY <2>2 DEF NoFile, Idle
  <2> QED BY <1>1, <2>2, <2>3 DEF Fields
<1>2. CASE jobs # <<>>
  <2> DEFINE f == Head(jobs)
  <2>1. f \in File /\ Tail(jobs) \in Seq(File) /\ f # None
    BY <1>2, HeadTailProperties, ThumbnailAssumption DEF Fields
  <2>0. Take(f, FALSE) \/ (~rendering /\ Take(f, rendering))
    BY <1>2 DEF NextQueue
  <2> HIDE DEF f
  <2>2. /\ jobs' = Tail(jobs) /\ current' = f /\ last' = f /\ armed' = TRUE
        /\ Load(f, FALSE) \/ (~rendering /\ Load(f, rendering))
    BY <2>0 DEF Take
  <2>3. flights = {} /\ unread = {} /\ job = None /\ ~waiting /\ ~onLoaded /\ ~onMix
    BY DEF Idle
  <2>4. kind[f] \in {"mp3", "media", "swf", "mix"} /\ kind'[f] = kind[f]
    BY <2>1 DEF Fields, Kinds
  <2>5. CASE kind[f] = "mp3"
    <3>1. rendering' /\ shown' = None /\ UNCHANGED <<loadVars, onLoaded, onMix>>
      BY <2>2, <2>5, Zenon DEF Load
    <3>2. Silent'
      BY <2>1, <2>2, <2>3, <2>4, <2>5, <3>1 DEF Silent, Idle, loadVars
    <3> QED BY <1>2, <2>1, <2>2, <2>4, <2>5, <3>2 DEF AtOnce
  <2>6. CASE kind[f] = "media"
    <3>1. /\ shown' = None /\ onLoaded' = TRUE /\ flights' = flights \cup {f}
          /\ UNCHANGED <<unread, job, waiting, onMix>>
          /\ rendering' = FALSE \/ (~rendering /\ rendering' = rendering)
      BY <2>2, <2>6, Zenon DEF Load
    <3>2. Coming' /\ ~Come'
      BY <2>1, <2>2, <2>3, <2>4, <2>6, <3>1 DEF Coming, Come, Idle
    <3> QED BY <1>2, <2>1, <2>2, <3>2
  <2>7. CASE kind[f] = "mix"
    <3>1. /\ shown' = None /\ onMix' = (job = None) /\ job' = f /\ unread' = unread \cup {f}
          /\ waiting' = FALSE /\ UNCHANGED <<flights, onLoaded>>
          /\ \/ rendering' = (FALSE \/ job # None)
             \/ ~rendering /\ rendering' = (rendering \/ job # None)
      BY <2>2, <2>7, Zenon DEF Load
    <3>2. MixRead' /\ ~Come'
      BY <2>1, <2>2, <2>3, <2>4, <2>7, <3>1 DEF MixRead, Come, Idle
    <3> QED BY <1>2, <2>1, <2>2, <3>2
  <2>8. CASE kind[f] = "swf"
    <3>1. rendering' /\ shown' = f /\ Hear /\ UNCHANGED <<flights, unread>>
      BY <2>2, <2>8, Zenon DEF Load
    <3>2. ~onLoaded' /\ ~onMix' /\ job' = None /\ ~waiting'
      BY <2>3, <3>1, Zenon DEF Hear
    <3>3. Come'
      BY <2>1, <2>2, <2>3, <3>1, <3>2 DEF Come, Idle
    <3> QED BY <1>2, <2>1, <2>2, <2>4, <2>8, <3>3 DEF AtOnce
  <2> QED BY <2>4, <2>5, <2>6, <2>7, <2>8
<1> QED BY <1>1, <1>2

\* The types of the fields are kept, also when files are given up.
LEMMA FieldsNext == Fields /\ Next => Fields'
<1> SUFFICES ASSUME Fields, Next PROVE Fields'
  OBVIOUS
<1>1. ASSUME NEW f \in File, Answer(f) PROVE Fields'
  BY <1>1 DEF Answer, Fields
<1>2. ASSUME NEW f \in File, ReadMix(f) PROVE Fields'
  BY <1>2 DEF ReadMix, Fields
<1>3. ASSUME NEW r, NEW a, NextQueue(r, a), kind' = kind,
             thumbs' \in [File -> File \cup {None, Blank}]
      PROVE  Fields'
  <2>1. CASE jobs = <<>>
    BY <1>3, <2>1 DEF NextQueue, Leave, loadVars, Fields
  <2>2. CASE jobs # <<>>
    <3>1. Head(jobs) \in File /\ Tail(jobs) \in Seq(File)
      BY <2>2, HeadTailProperties DEF Fields
    <3> DEFINE f == Head(jobs)
    <3>2. /\ jobs' = Tail(jobs) /\ current' = f /\ shown' \in {f, None}
          /\ flights' = flights \/ flights' = flights \cup {f}
          /\ unread' = unread \/ unread' = unread \cup {f}
      BY <1>3, <2>2 DEF NextQueue, Take, Load, loadVars
    <3> HIDE DEF f
    <3>3. f \in File /\ jobs' \in Seq(File)
      BY <3>1, <3>2 DEF f
    <3>4. flights' \subseteq File /\ unread' \subseteq File /\ shown' \in File \cup {None}
      BY <3>2, <3>3 DEF Fields
    <3> QED BY <1>3, <3>2, <3>3, <3>4 DEF Fields
  <2> QED BY <2>1, <2>2
<1>4. CASE Render
  <2>1. thumbs' \in [File -> File \cup {None, Blank}]
    BY <1>4 DEF Render, Fields
  <2> QED BY <1>3, <1>4, <2>1 DEF Render
<1>5. CASE Timeout
  BY <1>3, <1>5 DEF Timeout, Fields
<1> QED BY <1>1, <1>2, <1>4, <1>5 DEF Next

\* Every step keeps the invariant.
LEMMA OwnNext == OwnInv /\ [Next]_vars => OwnInv'
<1> SUFFICES ASSUME OwnInv, [Next]_vars PROVE OwnInv'
  OBVIOUS
<1>1. CASE UNCHANGED vars
  BY <1>1 DEF vars, OwnInv, Fields, NoFile, Silent, Coming, MixRead, MixComing, Come, Idle, OwnThumbnail
<1>2. CASE Next
  <2>1. Fields /\ Fields'
    BY <1>2, FieldsNext DEF OwnInv
  <2> SUFFICES ASSUME ~late'
               PROVE  (NoFile \/ Silent \/ Coming \/ MixRead \/ MixComing \/ Come)' /\ OwnThumbnail'
    BY <2>1 DEF OwnInv
  <2>2. ~late
    BY <1>2 DEF Next, Answer, ReadMix, Render, Timeout
  <2>3. (NoFile \/ Silent \/ Coming \/ MixRead \/ MixComing \/ Come) /\ OwnThumbnail
    BY <2>2 DEF OwnInv
  <2>4. ASSUME NEW f \in File, Answer(f) PROVE Come' /\ OwnThumbnail'
    <3>1. /\ f \in flights /\ flights' = flights \ {f} /\ shown' = f
          /\ kind' = kind /\ current' = current /\ unread' = unread /\ thumbs' = thumbs
          /\ LayerLoaded
      BY <2>4 DEF Answer
    <3>2. OwnThumbnail'
      BY <2>2, <2>3, <3>1 DEF OwnThumbnail
    <3>3. f = current /\ (Coming \/ MixComing)
      BY <2>3, <3>1 DEF NoFile, Silent, Coming, MixRead, MixComing, Come, Idle
    <3>4. /\ onLoaded' = FALSE /\ waiting' = FALSE
          /\ onMix' = (onMix /\ ~(waiting /\ onMix))
          /\ rendering' = (rendering \/ onLoaded \/ (waiting /\ onMix))
          /\ job' = IF waiting THEN None ELSE job
      BY <3>1, Zenon DEF LayerLoaded, Hear, MixLoaded
    <3>5. ~onLoaded' /\ ~waiting' /\ ~onMix' /\ rendering'
      BY <3>3, <3>4, Zenon DEF Coming, MixComing
    <3>6. job' = None
      BY <3>3, <3>4, Zenon DEF Coming, MixComing
    <3>7. flights' = {} /\ unread' = {} /\ current' \in File /\ shown' = current'
      BY <3>1, <3>3 DEF Coming, MixComing
    <3> QED BY <3>2, <3>5, <3>6, <3>7 DEF Come, Idle
  <2>5. ASSUME NEW f \in File, ReadMix(f) PROVE MixComing' /\ OwnThumbnail'
    <3>1. f \in unread
      BY <2>5 DEF ReadMix
    <3>2. MixRead /\ f = current
      BY <2>3, <3>1 DEF NoFile, Silent, Coming, MixRead, MixComing, Come, Idle
    <3>3. MixComing'
      BY <2>5, <3>2 DEF ReadMix, MixRead, MixComing
    <3> QED BY <2>2, <2>3, <2>5, <3>3 DEF ReadMix, OwnThumbnail
  <2>6. CASE Render
    <3>1. /\ rendering /\ kind' = kind /\ NextQueue(FALSE, armed)
          /\ thumbs' = IF current = None \/ disposed THEN thumbs
                       ELSE [thumbs EXCEPT ![current] = IF shown = None THEN Blank ELSE shown]
      BY <2>6 DEF Render
    <3>2. Idle /\ (NoFile \/ Silent \/ Come)
      BY <2>3, <3>1 DEF NoFile, Silent, Coming, MixRead, MixComing, Come
    <3>3. (NoFile \/ Silent \/ Coming \/ MixRead \/ MixComing \/ Come)'
      <4>1. /\ jobs = <<>> => NoFile'
            /\ jobs # <<>> => (Silent \/ Coming \/ MixRead \/ Come)'
        BY <2>1, <3>1, <3>2, Started, Zenon
      <4> QED BY <4>1
    <3>4. OwnThumbnail'
      <4>1. CASE thumbs' = thumbs
        BY <2>2, <2>3, <3>1, <4>1 DEF OwnThumbnail
      <4>2. CASE thumbs' # thumbs
        <5>1. /\ current \in File
              /\ thumbs' = [thumbs EXCEPT ![current] = IF shown = None THEN Blank ELSE shown]
          BY <2>1, <3>1, <4>2 DEF Fields
        <5>2. ASSUME NEW f \in File, f # current PROVE thumbs'[f] = thumbs[f]
          BY <2>1, <5>1, <5>2 DEF Fields
        <5>3. thumbs'[current] = IF shown = None THEN Blank ELSE shown
          BY <2>1, <5>1 DEF Fields
        <5>4. \/ thumbs'[current] = current
              \/ thumbs'[current] = Blank /\ kind[current] = "mp3"
          <6>1. current # None
            BY <5>1, ThumbnailAssumption
          <6> QED BY <3>2, <5>1, <5>3, <6>1 DEF NoFile, Silent, Come
        <5> QED BY <2>2, <2>3, <3>1, <5>2, <5>4 DEF OwnThumbnail
      <4> QED BY <4>1, <4>2
    <3> QED BY <3>3, <3>4
  <2>7. CASE Timeout
    <3>1. /\ flights = {} /\ unread = {} /\ ~rendering
          /\ kind' = kind /\ thumbs' = thumbs /\ NextQueue(rendering, FALSE)
      BY <2>7 DEF Timeout
    <3>2. Idle
      BY <2>3, <3>1 DEF NoFile, Silent, Coming, MixRead, MixComing, Come
    <3>3. (NoFile \/ Silent \/ Coming \/ MixRead \/ MixComing \/ Come)'
      <4>1. /\ jobs = <<>> => NoFile'
            /\ jobs # <<>> => (Silent \/ Coming \/ MixRead \/ Come)'
        BY <2>1, <3>1, <3>2, Started, Zenon
      <4> QED BY <4>1
    <3>4. OwnThumbnail'
      BY <2>2, <2>3, <3>1 DEF OwnThumbnail
    <3> QED BY <3>3, <3>4
  <2> QED BY <1>2, <2>4, <2>5, <2>6, <2>7 DEF Next
<1> QED BY <1>1, <1>2

\* Whatever files a directory has, as long as none is given up while it is coming
\* each is drawn from itself, and only an mp3 is blank.
THEOREM OwnIsDrawn == Spec => []OwnThumbnail
<1>1. OwnInv => OwnThumbnail
  BY DEF OwnInv, OwnThumbnail
<1> QED BY <1>1, OwnInit, OwnNext, PTL DEF Spec

-----------------------------------------------------------------------------
(* Leaving removes this state and no other. *)

\* Before the state has left; after; and after with the last file drawn at once,
\* when it may leave twice.
LastAtOnce == last # None /\ kind[last] \in AtOnce
Here ==
  /\ ~disposed /\ states = <<Other, Self>>
  /\ NoFile => rendering /\ ~armed
  /\ ~NoFile => last = current
  /\ Come => ~armed \/ kind[current] \in AtOnce
Gone == disposed /\ states = <<Other>> /\ NoFile /\ ~rendering /\ ~armed
GoneAtOnce == jobs = <<>> /\ LastAtOnce

LeaveInv ==
  /\ OwnInv
  /\ late \/ Here \/ Gone \/ GoneAtOnce

\* splice takes this state from the two.
LEMMA RemovedSelf ==
  ASSUME states = <<Other, Self>>
  PROVE  Removed = <<Other>>
<1>1. Len(states) = 2 /\ states[1] = Other /\ states[2] = Self /\ DOMAIN states = 1..2 /\ states # <<>>
  OBVIOUS
<1>2. Contains(states, Self)
  BY <1>1 DEF Contains
<1>3. (CHOOSE i \in DOMAIN states : states[i] = Self) = 2
  BY <1>1, ThumbnailAssumption
<1>4. Removed = RemoveAt(states, 2)
  BY <1>1, <1>2, <1>3 DEF Removed
<1>5. RemoveAt(states, 2) = SubSeq(states, 1, 1) \o SubSeq(states, 3, 2)
  BY <1>1 DEF RemoveAt
<1>6. SubSeq(states, 1, 1) = <<Other>>
  <2>1. states \in Seq({Other, Self}) /\ \A i \in 1..1 : states[i] \in {Other, Self}
    BY <1>1
  <2>2. /\ SubSeq(states, 1, 1) \in Seq({Other, Self})
        /\ Len(SubSeq(states, 1, 1)) = IF 1 <= 1 THEN 1 - 1 + 1 ELSE 0
        /\ \A i \in 1..1 - 1 + 1 : SubSeq(states, 1, 1)[i] = states[1 + i - 1]
    BY <2>1, SubSeqProperties
  <2>3. SubSeq(states, 1, 1)[1] = Other
    BY <1>1, <2>2
  <2>4. <<Other>> \in Seq({Other, Self}) /\ Len(<<Other>>) = 1 /\ <<Other>>[1] = Other
    OBVIOUS
  <2>5. Len(SubSeq(states, 1, 1)) = 1
    BY <2>2
  <2>6. \A i \in 1..Len(SubSeq(states, 1, 1)) : SubSeq(states, 1, 1)[i] = <<Other>>[i]
    BY <2>3, <2>4, <2>5
  <2>7. Len(SubSeq(states, 1, 1)) = Len(<<Other>>)
    BY <2>4, <2>5
  <2> QED
    <3> DEFINE s == SubSeq(states, 1, 1)
               t == <<Other>>
    <3>1. s \in Seq({Other, Self}) /\ t \in Seq({Other, Self}) /\ Len(s) = Len(t)
          /\ \A i \in 1..Len(s) : s[i] = t[i]
      BY <2>2, <2>4, <2>6, <2>7
    <3> HIDE DEF s, t
    <3>2. s = t
      BY <3>1, SeqEqual
    <3> QED BY <3>2 DEF s, t
<1>7. SubSeq(states, 3, 2) = <<>>
  BY SubSeqEmpty
<1> QED BY <1>4, <1>5, <1>6, <1>7

\* At the start the state is there.
LEMMA LeaveInit == Init => LeaveInv
BY OwnInit DEF Init, LeaveInv, Here, Come, NoFile, Idle

\* Every step keeps the invariant.
LEMMA LeaveNext == LeaveInv /\ [Next]_vars => LeaveInv'
<1> SUFFICES ASSUME LeaveInv, [Next]_vars, ~late' PROVE (Here \/ Gone \/ GoneAtOnce)'
  BY OwnNext DEF LeaveInv
<1>1. kind' = kind
  BY DEF Next, vars, Answer, ReadMix, Render, Timeout
<1>2. OwnInv /\ OwnInv' /\ ~late
  <2>1. ~late
    BY DEF Next, vars, Answer, ReadMix, Render, Timeout
  <2> QED BY <2>1, OwnNext DEF LeaveInv
<1>3. Here \/ Gone \/ GoneAtOnce
  BY <1>2 DEF LeaveInv
<1>4. (NoFile \/ Silent \/ Coming \/ MixRead \/ MixComing \/ Come) /\ Fields
  BY <1>2 DEF OwnInv
<1>5. CASE UNCHANGED vars
  BY <1>3, <1>5 DEF vars, Here, Gone, GoneAtOnce, LastAtOnce, NoFile, Come, Idle
<1>6. CASE Next /\ GoneAtOnce
  <2>1. jobs' = jobs /\ last' = last
    BY <1>6 DEF Next, Answer, ReadMix, Render, Timeout, NextQueue, Leave, GoneAtOnce
  <2> QED BY <1>1, <1>6, <2>1 DEF GoneAtOnce, LastAtOnce
<1>7. ASSUME NEW f \in File, Answer(f), Here \/ Gone PROVE Here'
  <2>1. /\ f \in flights /\ disposed' = disposed /\ states' = states /\ LayerLoaded
        /\ shown' = f /\ current' = current /\ last' = last
    BY <1>7 DEF Answer
  <2>2. Coming \/ MixComing
    BY <1>4, <2>1 DEF NoFile, Silent, MixRead, Come, Idle
  <2>3. Here /\ last = current
    BY <1>7, <2>1 DEF Here, Gone, NoFile, Idle
  <2>4. armed' = (armed /\ ~(onLoaded \/ (waiting /\ onMix)))
    BY <2>1, Zenon DEF LayerLoaded, MixLoaded
  <2>5. ~armed'
    BY <2>2, <2>4, Zenon DEF Coming, MixComing
  <2>6. ~NoFile'
    BY <2>1, ThumbnailAssumption DEF NoFile
  <2> QED BY <2>1, <2>3, <2>5, <2>6 DEF Here
<1>8. ASSUME NEW f \in File, ReadMix(f), Here \/ Gone PROVE Here'
  <2>1. /\ f \in unread /\ disposed' = disposed /\ states' = states
        /\ flights' = flights \cup {f} /\ current' = current /\ last' = last
    BY <1>8 DEF ReadMix
  <2>2. Here /\ last = current
    BY <1>8, <2>1 DEF Here, Gone, NoFile, Idle
  <2>3. ~NoFile' /\ ~Come'
    BY <2>1 DEF NoFile, Come, Idle
  <2> QED BY <2>1, <2>2, <2>3 DEF Here
<1>9. CASE Render /\ (Here \/ Gone)
  <2>1. rendering /\ NextQueue(FALSE, armed)
    BY <1>9 DEF Render
  <2>2. Idle /\ (NoFile \/ Silent \/ Come)
    BY <1>4, <2>1 DEF NoFile, Silent, Coming, MixRead, MixComing, Come
  <2>3. Here
    BY <1>9, <2>1 DEF Gone
  <2>4. /\ jobs = <<>> => NoFile'
        /\ jobs # <<>> => (Silent \/ Coming \/ MixRead \/ Come)'
        /\ jobs # <<>> => last' = current' /\ (~Come' \/ kind[current'] \in AtOnce)
    BY <1>1, <1>4, <2>1, <2>2, Started, Zenon
  <2>5. CASE jobs = <<>>
    <3>1. /\ disposed' = TRUE /\ states' = Removed /\ rendering' = FALSE /\ armed' = armed
          /\ jobs' = jobs /\ last' = last
      BY <2>1, <2>5 DEF NextQueue, Leave
    <3>2. states' = <<Other>>
      BY <2>3, <3>1, RemovedSelf DEF Here
    <3>3. CASE armed
      <4>1. last = current /\ current \in File /\ kind[current] \in AtOnce
        BY <2>2, <2>3, <3>3 DEF Here, Silent, Come, NoFile, AtOnce
      <4> QED BY <1>1, <2>5, <3>1, <4>1, ThumbnailAssumption DEF GoneAtOnce, LastAtOnce
    <3> QED BY <2>4, <2>5, <3>1, <3>2, <3>3 DEF Gone
  <2>6. CASE jobs # <<>>
    <3>1. disposed' = disposed /\ states' = states
      BY <2>1, <2>6 DEF NextQueue, Take
    <3>2. (Silent \/ Coming \/ MixRead \/ Come)' /\ last' = current'
          /\ (~Come' \/ kind'[current'] \in AtOnce)
      BY <1>1, <2>4, <2>6, Zenon
    <3>3. ~NoFile'
      BY <3>2, ThumbnailAssumption DEF NoFile, Silent, Coming, MixRead, Come
    <3> QED BY <2>3, <3>1, <3>2, <3>3 DEF Here
  <2> QED BY <2>5, <2>6
<1>10. CASE Timeout /\ (Here \/ Gone)
  <2>1. armed /\ flights = {} /\ unread = {} /\ ~rendering
    BY <1>10 DEF Timeout
  <2>2. NoFile
    BY <1>4, <2>1 DEF Silent, Coming, MixRead, MixComing, Come
  <2> QED BY <1>10, <2>1, <2>2 DEF Here, Gone
<1> QED BY <1>3, <1>5, <1>6, <1>7, <1>8, <1>9, <1>10 DEF Next

\* Whatever files a directory has, as long as none is given up while it is coming and
\* the last is not drawn at once, leaving takes no other state from StateManager.
THEOREM OthersStay == Spec => []OthersKept
<1>1. ASSUME LeaveInv PROVE OthersKept
  <2>1. states = <<Other, Self>> \/ states = <<Other>> => Contains(states, Other)
    BY DEF Contains
  <2> QED BY <1>1, <2>1 DEF LeaveInv, Here, Gone, GoneAtOnce, LastAtOnce, OthersKept
<1> QED BY <1>1, LeaveInit, LeaveNext, PTL DEF Spec
=============================================================================
