----------------------------- MODULE LayerProofs -----------------------------
(***************************************************************************)
(* Theorems about Layer and LayerFilters.  Of a layer: what holds whatever *)
(* the user loads, overlaps and deletes, and that a user who waits gets    *)
(* LayerFade.  Of its filters: their steps are steps of Layer, the pane    *)
(* has a control for every filter of the contents shown however loads,     *)
(* transitions and deletes overlap, and for a user who waits it has no     *)
(* other, each drawn as muted exactly when its filter is.                  *)
(***************************************************************************)
EXTENDS LayerFilters, TLAPS

-----------------------------------------------------------------------------
(* A layer *)

\* The parameters have moved to a newer content before a transition's old
\* content is released.
TargetPastOldest == InTransition => target # Oldest

\* A load that lost its LAYER_LOADED spoils the display's count for good.
AnnouncedUnlessThrown == ~MayThrow => Announced

\* The inductive invariant of Spec.
LayerInv ==
  /\ TypeOK
  /\ ShownAlive
  /\ TargetAlive
  /\ TargetPastOldest
  /\ AnnouncedUnlessThrown

-----------------------------------------------------------------------------
\* A content pushed on a pile is on top of it, over what was there.
LEMMA PushFacts ==
  ASSUME NEW S, NEW s \in Seq(S), NEW e \in S
  PROVE  /\ Append(s, e) \in Seq(S)
         /\ Len(Append(s, e)) = Len(s) + 1
         /\ \A i \in 1..Len(s) : Append(s, e)[i] = s[i]
         /\ Append(s, e)[Len(s) + 1] = e
OBVIOUS

\* Every request is a query, with a kind and two flags.
LEMMA RequestsType == Requests \subseteq Queries
BY DEF Requests

\* In a pile whose contents are live, nothing that is not live is shown, and
\* the pile is a function from 1..Len(chain) to contents.
LEMMA ChainFacts ==
  ASSUME LayerInv
  PROVE  /\ DOMAIN chain = 1..Len(chain)
         /\ Len(chain) \in Nat
         /\ \A i \in 1..Len(chain) : chain[i] \in Content /\ phase[chain[i]] = "live"
         /\ ~Empty => Len(chain) >= 1 /\ Oldest \in Content /\ phase[Oldest] = "live"
         /\ Empty <=> Len(chain) = 0
BY DEF LayerInv, TypeOK, ShownAlive, Empty, Oldest

\* dispose() on top of the pile keeps the phases well typed and touches the
\* oldest content alone.
LEMMA DestroyedFacts ==
  ASSUME NEW ph \in [Content -> Phases], LayerInv
  PROVE  /\ Destroyed(ph) \in [Content -> Phases]
         /\ \A c \in Content : (Empty \/ c # Oldest) => Destroyed(ph)[c] = ph[c]
BY ChainFacts DEF Destroyed, Phases

\* A content comes in: it was not shown, and the phases ph only differ from
\* the present ones in what the load itself did.
LEMMA AcceptKeeps ==
  ASSUME LayerInv, NEW c \in Content, NEW q \in Queries,
         NEW ph \in [Content -> Phases],
         ph[c] = "live", phase[c] # "live",
         \A x \in Content : phase[x] = "live" => ph[x] = "live",
         Accept(c, q, ph), query' \in [Content -> Queries]
  PROVE  LayerInv'
<1> USE LayerAssumption
<1>1. \A i \in 1..Len(chain) : chain[i] # c
  BY ChainFacts
<1>2. CASE q.transition /\ ~Empty
  <2>1. /\ phase' = ph /\ chain' = Append(chain, c) /\ announced' = announced
        /\ target' = c /\ wanted' = q.visible
        /\ shellVisible' = q.visible /\ visible' = visible
    BY <1>2 DEF Accept, CreateTransition
  <2>2. /\ Len(chain') = Len(chain) + 1
        /\ chain'[Len(chain) + 1] = c
        /\ \A i \in 1..Len(chain) : chain'[i] = chain[i]
        /\ chain' \in Seq(Content)
    BY <2>1, ChainFacts DEF LayerInv, TypeOK
  <2>3. TypeOK'
    BY <2>1, <2>2 DEF LayerInv, TypeOK, Queries
  <2>4. \A i \in 1..Len(chain') : phase'[chain'[i]] = "live"
    BY <2>1, <2>2, ChainFacts
  <2>5. \A i, j \in 1..Len(chain') : chain'[i] = chain'[j] => i = j
    BY <1>1, <2>2, ChainFacts DEF LayerInv, ShownAlive
  <2>6. ShownAlive'
    BY <2>2, <2>4, <2>5 DEF ShownAlive
  <2>7. TargetAlive'
    BY <2>1 DEF TargetAlive
  <2>8. TargetPastOldest'
    BY <1>1, <1>2, <2>1, <2>2, ChainFacts DEF TargetPastOldest, InTransition, Oldest
  <2>9. AnnouncedUnlessThrown'
    BY <1>2, <2>1, <2>2, ChainFacts
    DEF LayerInv, AnnouncedUnlessThrown, Announced, Empty
  <2> QED BY <2>3, <2>6, <2>7, <2>8, <2>9 DEF LayerInv
<1>3. CASE ~(q.transition /\ ~Empty)
  <2>1. PICK throws \in {FALSE, MayThrow} : CreateContent(c, ph, throws)
    BY <1>3 DEF Accept
  <2>2. /\ phase' = Destroyed(ph) /\ chain' = <<c>>
        /\ announced' = IF throws THEN Unloaded ELSE Unloaded + 1
        /\ target' = c /\ wanted' = q.visible
        /\ visible' = [visible EXCEPT ![c] = q.visible]
        /\ shellVisible' = TRUE
    BY <1>3, <2>1 DEF Accept, CreateContent
  <2>3. phase' \in [Content -> Phases] /\ phase'[c] = "live"
    BY <1>1, <2>2, DestroyedFacts, ChainFacts DEF Oldest
  <2>4. Unloaded \in Int /\ (AnnouncedUnlessThrown => (MayThrow \/ Unloaded = 0))
    BY DEF LayerInv, TypeOK, Unloaded, AnnouncedUnlessThrown, Announced
  <2>5. TypeOK'
    <3>1. announced' \in Int
      BY <2>2, <2>4
    <3>2. q.visible \in BOOLEAN
      BY DEF Queries
    <3>3. chain' \in Seq(Content)
      BY <2>2
    <3> QED BY <2>2, <2>3, <3>1, <3>2, <3>3 DEF LayerInv, TypeOK
  <2>6. ShownAlive' /\ TargetAlive' /\ TargetPastOldest'
    BY <2>2, <2>3 DEF ShownAlive, TargetAlive, TargetPastOldest, InTransition
  <2>7. AnnouncedUnlessThrown'
    <3>1. CASE MayThrow
      BY <3>1 DEF AnnouncedUnlessThrown
    <3>2. CASE ~MayThrow
      <4>1. ~throws
        BY <3>2
      <4>2. announced' = 1 /\ chain' = <<c>>
        BY <2>2, <2>4, <3>2, <4>1 DEF LayerInv
      <4> QED BY <4>2 DEF AnnouncedUnlessThrown, Announced, Empty
    <3> QED BY <3>1, <3>2
  <2> QED BY <2>5, <2>6, <2>7 DEF LayerInv
<1> QED BY <1>2, <1>3

-----------------------------------------------------------------------------
\* The first state, with no content yet, satisfies the invariant.
LEMMA InitInv == Init => LayerInv
BY LayerAssumption
DEF Init, LayerInv, TypeOK, ShownAlive, TargetAlive, TargetPastOldest, AnnouncedUnlessThrown,
    Announced, Empty, InTransition, Phases, Queries, NoQuery, AllKinds

\* Every step preserves it.
LEMMA NextInv == LayerInv /\ [Next]_vars => LayerInv'
<1> SUFFICES ASSUME LayerInv, [Next]_vars PROVE LayerInv'
  OBVIOUS
<1> USE LayerAssumption
<1>1. ASSUME NEW c \in Content, NEW q \in Requests, Load(c, q) PROVE LayerInv'
  <2>1. /\ phase' = [phase EXCEPT ![c] = "loading"] /\ phase[c] # "live"
        /\ query' = [query EXCEPT ![c] = q]
        /\ UNCHANGED <<chain, target, announced, visible, shellVisible, wanted>>
    BY <1>1 DEF Load, visibleVars
  <2>2. TypeOK'
    BY <2>1, RequestsType DEF LayerInv, TypeOK, Phases
  <2>3. ShownAlive' /\ TargetAlive'
    BY <2>1, ChainFacts DEF LayerInv, TypeOK, ShownAlive, TargetAlive
  <2>4. TargetPastOldest' /\ AnnouncedUnlessThrown'
    BY <2>1 DEF LayerInv, TargetPastOldest, InTransition, Oldest,
                AnnouncedUnlessThrown, Announced, Empty
  <2> QED BY <2>2, <2>3, <2>4 DEF LayerInv
<1>2. ASSUME NEW c \in Content, NEW q \in Requests, LoadDevice(c, q) PROVE LayerInv'
  <2> DEFINE ph == [phase EXCEPT ![c] = "live"]
  <2>1. /\ ph \in [Content -> Phases] /\ ph[c] = "live" /\ phase[c] # "live"
        /\ \A x \in Content : phase[x] = "live" => ph[x] = "live"
        /\ query' \in [Content -> Queries]
    BY <1>2 DEF LoadDevice, LayerInv, TypeOK, Phases
  <2>2. Accept(c, q, ph) /\ q \in Queries
    BY <1>2, RequestsType DEF LoadDevice
  <2> HIDE DEF ph
  <2> QED BY <2>1, <2>2, AcceptKeeps
<1>3. ASSUME NEW c \in Content, NEW d \in Content, NEW q \in Requests, LoadTwice(c, d, q)
      PROVE  LayerInv'
  <2> DEFINE ph == [phase EXCEPT ![c] = "live", ![d] = "loading"]
  <2>1. /\ ph \in [Content -> Phases] /\ ph[c] = "live" /\ phase[c] # "live"
        /\ \A x \in Content : phase[x] = "live" => ph[x] = "live"
    BY <1>3 DEF LoadTwice, LayerInv, TypeOK, Phases
  <2>2. Accept(c, q, ph) /\ q \in Queries /\ query' \in [Content -> Queries]
    BY <1>3, RequestsType DEF LoadTwice, LayerInv, TypeOK
  <2> HIDE DEF ph
  <2> QED BY <2>1, <2>2, AcceptKeeps
<1>4. ASSUME NEW c \in Content, Answer(c) PROVE LayerInv'
  <2> DEFINE ph == [phase EXCEPT ![c] = "live"]
  <2>1. /\ ph \in [Content -> Phases] /\ ph[c] = "live" /\ phase[c] # "live"
        /\ \A x \in Content : phase[x] = "live" => ph[x] = "live"
    BY <1>4 DEF Answer, LayerInv, TypeOK, Phases
  <2>2. Accept(c, query[c], ph) /\ query[c] \in Queries
    BY <1>4 DEF Answer, LayerInv, TypeOK
  <2>3. query' \in [Content -> Queries]
    BY <1>4 DEF Answer, LayerInv, TypeOK, NoQuery, Queries, AllKinds
  <2> HIDE DEF ph
  <2> QED BY <2>1, <2>2, <2>3, AcceptKeeps
<1>5. ASSUME NEW c \in Content, Fail(c) PROVE LayerInv'
  <2>1. /\ phase[c] = "loading"
        /\ \/ phase' = [phase EXCEPT ![c] = "live"] /\ target' = c
           \/ phase' = [phase EXCEPT ![c] = "failed"] /\ target' = target
        /\ query' = [query EXCEPT ![c] = NoQuery]
        /\ UNCHANGED <<chain, announced, visible, shellVisible, wanted>>
    BY <1>5 DEF Fail, visibleVars
  <2>2. TypeOK'
    BY <2>1 DEF LayerInv, TypeOK, Phases, NoQuery, Queries, AllKinds
  <2>3. ShownAlive' /\ TargetAlive'
    BY <2>1, ChainFacts DEF LayerInv, TypeOK, ShownAlive, TargetAlive
  <2>4. TargetPastOldest'
    BY <2>1, ChainFacts DEF LayerInv, TargetPastOldest, InTransition, Oldest
  <2>5. AnnouncedUnlessThrown'
    BY <2>1 DEF LayerInv, AnnouncedUnlessThrown, Announced, Empty
  <2> QED BY <2>2, <2>3, <2>4, <2>5 DEF LayerInv
<1>6. ASSUME NEW c \in Content, Forget(c) PROVE LayerInv'
  <2>1. /\ phase[c] # "live" /\ phase' = [phase EXCEPT ![c] = "unborn"]
        /\ visible' = [visible EXCEPT ![c] = TRUE]
        /\ UNCHANGED <<chain, query, target, announced, shellVisible, wanted>>
    BY <1>6 DEF Forget
  <2>2. TypeOK'
    BY <2>1 DEF LayerInv, TypeOK, Phases
  <2>3. ShownAlive' /\ TargetAlive'
    BY <2>1, ChainFacts DEF LayerInv, TypeOK, ShownAlive, TargetAlive
  <2>4. TargetPastOldest' /\ AnnouncedUnlessThrown'
    BY <2>1 DEF LayerInv, TargetPastOldest, InTransition, Oldest,
                AnnouncedUnlessThrown, Announced, Empty
  <2> QED BY <2>2, <2>3, <2>4 DEF LayerInv
<1>7. ASSUME NEW k \in DOMAIN chain, EndTransition(k) PROVE LayerInv'
  <2>1. /\ k \in 2..Len(chain)
        /\ phase' = Destroyed(phase) /\ chain' = <<chain[k]>>
        /\ announced' = Unloaded + 1
        /\ UNCHANGED <<query, target, visible, shellVisible, wanted>>
    BY <1>7 DEF EndTransition, CreateContent, visibleVars
  <2>2. /\ chain[k] \in Content /\ phase[chain[k]] = "live" /\ chain[k] # Oldest /\ ~Empty
        /\ InTransition
    BY <2>1, ChainFacts DEF LayerInv, ShownAlive, Oldest, InTransition
  <2>3. phase' \in [Content -> Phases] /\ phase'[chain[k]] = "live"
    BY <2>1, <2>2, DestroyedFacts DEF LayerInv, TypeOK
  <2>4. announced' = announced /\ announced' \in Int
    BY <2>1, <2>2 DEF Unloaded, LayerInv, TypeOK
  <2>5. TypeOK'
    BY <2>1, <2>2, <2>3, <2>4 DEF LayerInv, TypeOK
  <2>6. ShownAlive' /\ TargetPastOldest'
    BY <2>1, <2>3 DEF ShownAlive, TargetPastOldest, InTransition
  <2>7. TargetAlive'
    BY <2>1, <2>2, DestroyedFacts DEF LayerInv, TypeOK, TargetAlive, TargetPastOldest
  <2>8. AnnouncedUnlessThrown'
    BY <2>1, <2>2, <2>4 DEF LayerInv, AnnouncedUnlessThrown, Announced, Empty
  <2> QED BY <2>5, <2>6, <2>7, <2>8 DEF LayerInv
<1>8. ASSUME Dispose PROVE LayerInv'
  <2>1. /\ phase' = Destroyed(phase) /\ chain' = <<>>
        /\ announced' = Unloaded /\ target' = TheLayer
        /\ UNCHANGED <<query, visible, shellVisible, wanted>>
    BY <1>8 DEF Dispose, visibleVars
  <2>2. TypeOK'
    BY <2>1, DestroyedFacts DEF LayerInv, TypeOK, Unloaded
  <2>3. ShownAlive' /\ TargetAlive' /\ TargetPastOldest'
    BY <2>1 DEF ShownAlive, TargetAlive, TargetPastOldest, InTransition
  <2>4. AnnouncedUnlessThrown'
    BY <2>1 DEF LayerInv, TypeOK, AnnouncedUnlessThrown, Announced, Unloaded, Empty
  <2> QED BY <2>2, <2>3, <2>4 DEF LayerInv
<1>9. ASSUME NEW b \in BOOLEAN, SetVisible(b) PROVE LayerInv'
  <2>1. /\ visible' = [visible EXCEPT ![target] = b] /\ wanted' = b
        /\ UNCHANGED <<chain, phase, target, announced, query, shellVisible>>
    BY <1>9 DEF SetVisible, contentVars
  <2>2. TypeOK'
    BY <2>1 DEF LayerInv, TypeOK
  <2> QED BY <2>1, <2>2 DEF LayerInv, ShownAlive, TargetAlive, TargetPastOldest,
        InTransition, Oldest, AnnouncedUnlessThrown, Announced, Empty
<1>10. CASE UNCHANGED vars
  BY <1>10 DEF vars, LayerInv, TypeOK, ShownAlive, TargetAlive, TargetPastOldest,
        InTransition, Oldest, AnnouncedUnlessThrown, Announced, Empty
<1> QED
  BY <1>1, <1>2, <1>3, <1>4, <1>5, <1>6, <1>7, <1>8, <1>9, <1>10 DEF Next, LoadSome

-----------------------------------------------------------------------------
\* The invariant holds in every behaviour.
THEOREM LayerInvariant == Spec => []LayerInv
BY InitInv, NextInv, PTL DEF Spec

\* The state keeps its types: in particular chain is always a pile of contents
\* and the parameters' target a content or the layer.
THEOREM LayerTypes == Spec => []TypeOK
<1>1. LayerInv => TypeOK
  BY DEF LayerInv
<1> QED BY <1>1, LayerInvariant, PTL

\* Nothing the layer renders has been disposed.
THEOREM ShownStaysAlive == Spec => []ShownAlive
<1>1. LayerInv => ShownAlive
  BY DEF LayerInv
<1> QED BY <1>1, LayerInvariant, PTL

\* The layer's parameters never point at a disposed content.
THEOREM TargetStaysAlive == Spec => []TargetAlive
<1>1. LayerInv => TargetAlive
  BY DEF LayerInv
<1> QED BY <1>1, LayerInvariant, PTL

\* Unless a filter throws, LAYER_LOADED and LAYER_UNLOADED alternate: the
\* display may count on it.
THEOREM AnnouncedAlternates == ASSUME MayThrow = FALSE PROVE Spec => []Announced
<1>1. LayerInv => Announced
  BY DEF LayerInv, AnnouncedUnlessThrown
<1> QED BY <1>1, LayerInvariant, PTL

-----------------------------------------------------------------------------
(***************************************************************************)
(* Visibility: what the settings or the user last asked for is what shows. *)
(***************************************************************************)
\* A content not shown yet is as visible as it was built, and the parameters,
\* when they point at a content behind the layer, point at the newest one; it
\* is as visible as it was last asked to be, unless its transition was hidden.
VisibleInv ==
  /\ \A c \in Content : phase[c] \in {"unborn", "loading"} => visible[c]
  /\ target \in Shown =>
       target = Newest /\ (shellVisible => visible[target] = wanted)

\* A content that comes in is as visible as its settings asked for.
LEMMA AcceptVisible ==
  ASSUME LayerInv, VisibleInv, NEW c \in Content, NEW q \in Queries,
         NEW ph \in [Content -> Phases],
         phase[c] \in {"unborn", "loading"}, ph[c] = "live",
         \A x \in Content : ph[x] \in {"unborn", "loading"} =>
                            phase[x] \in {"unborn", "loading"} /\ x # c,
         Accept(c, q, ph)
  PROVE  VisibleInv'
<1>1. target' = c /\ wanted' = q.visible /\ visible[c]
  BY DEF Accept, VisibleInv
<1>2. CASE q.transition /\ ~Empty
  <2>1. /\ phase' = ph /\ chain' = Append(chain, c)
        /\ shellVisible' = q.visible /\ visible' = visible
    BY <1>2 DEF Accept, CreateTransition
  <2>2. Newest' = c
    <3>1. chain \in Seq(Content)
      BY DEF LayerInv, TypeOK
    <3> QED BY <2>1, <3>1, PushFacts DEF Newest
  <2>3. visible[c] \in BOOLEAN /\ q.visible \in BOOLEAN
    BY DEF LayerInv, TypeOK, Queries
  <2>4. \A x \in Content : phase'[x] \in {"unborn", "loading"} => visible'[x]
    BY <2>1 DEF VisibleInv
  <2>5. shellVisible' => visible'[target'] = wanted'
    BY <1>1, <2>1, <2>3
  <2> QED BY <1>1, <2>2, <2>4, <2>5 DEF VisibleInv
<1>3. CASE ~(q.transition /\ ~Empty)
  <2>1. /\ phase' = Destroyed(ph) /\ chain' = <<c>>
        /\ shellVisible' = TRUE /\ visible' = [visible EXCEPT ![c] = q.visible]
    BY <1>3 DEF Accept, CreateContent
  <2>2. Newest' = c /\ visible'[c] = q.visible
    BY <2>1 DEF Newest, LayerInv, TypeOK
  <2>3. \A x \in Content : phase'[x] \in {"unborn", "loading"} =>
          phase[x] \in {"unborn", "loading"} /\ x # c
    BY <2>1, ChainFacts DEF Destroyed, Phases
  <2>4. \A x \in Content : x # c => visible'[x] = visible[x]
    BY <2>1 DEF LayerInv, TypeOK
  <2>5. \A x \in Content : phase'[x] \in {"unborn", "loading"} => visible'[x]
    BY <2>3, <2>4 DEF VisibleInv
  <2> QED BY <1>1, <2>2, <2>5 DEF VisibleInv
<1> QED BY <1>2, <1>3

\* No content is behind the layer at first, and none has been hidden.
LEMMA VisibleInit == Init => VisibleInv
BY DEF Init, VisibleInv, Shown

\* Every step keeps the newest content as visible as was asked.
LEMMA VisibleNext ==
  ASSUME LayerInv, VisibleInv, [Next]_vars
  PROVE  VisibleInv'
<1> USE LayerAssumption
<1> DEFINE Unseen(x) == phase[x] \in {"unborn", "loading"}
<1>0. \A x \in Content : Unseen(x) => visible[x]
  BY DEF VisibleInv
<1>1. ASSUME NEW c \in Content, NEW q \in Requests, Load(c, q) PROVE VisibleInv'
  <2>1. /\ phase' = [phase EXCEPT ![c] = "loading"] /\ Unseen(c)
        /\ UNCHANGED <<chain, target, visible, shellVisible, wanted>>
    BY <1>1 DEF Load, visibleVars
  <2>2. \A x \in Content : phase'[x] \in {"unborn", "loading"} => Unseen(x)
    BY <2>1 DEF LayerInv, TypeOK
  <2> QED BY <2>1, <2>2 DEF VisibleInv, Shown, Newest
<1>2. ASSUME NEW c \in Content, NEW q \in Requests, LoadDevice(c, q) PROVE VisibleInv'
  <2> DEFINE ph == [phase EXCEPT ![c] = "live"]
  <2>1. /\ ph \in [Content -> Phases] /\ ph[c] = "live" /\ Unseen(c)
        /\ \A x \in Content : ph[x] \in {"unborn", "loading"} => Unseen(x) /\ x # c
    BY <1>2 DEF LoadDevice, LayerInv, TypeOK, Phases
  <2>2. Accept(c, q, ph) /\ q \in Queries
    BY <1>2, RequestsType DEF LoadDevice
  <2> HIDE DEF ph
  <2> QED BY <2>1, <2>2, AcceptVisible
<1>3. ASSUME NEW c \in Content, NEW d \in Content, NEW q \in Requests, LoadTwice(c, d, q)
      PROVE  VisibleInv'
  <2> DEFINE ph == [phase EXCEPT ![c] = "live", ![d] = "loading"]
  <2>1. /\ ph \in [Content -> Phases] /\ ph[c] = "live" /\ Unseen(c)
        /\ \A x \in Content : ph[x] \in {"unborn", "loading"} => Unseen(x) /\ x # c
    BY <1>3 DEF LoadTwice, LayerInv, TypeOK, Phases
  <2>2. Accept(c, q, ph) /\ q \in Queries
    BY <1>3, RequestsType DEF LoadTwice
  <2> HIDE DEF ph
  <2> QED BY <2>1, <2>2, AcceptVisible
<1>4. ASSUME NEW c \in Content, Answer(c) PROVE VisibleInv'
  <2> DEFINE ph == [phase EXCEPT ![c] = "live"]
  <2>1. /\ ph \in [Content -> Phases] /\ ph[c] = "live" /\ Unseen(c)
        /\ \A x \in Content : ph[x] \in {"unborn", "loading"} => Unseen(x) /\ x # c
    BY <1>4 DEF Answer, LayerInv, TypeOK, Phases
  <2>2. Accept(c, query[c], ph) /\ query[c] \in Queries
    BY <1>4 DEF Answer, LayerInv, TypeOK
  <2> HIDE DEF ph
  <2> QED BY <2>1, <2>2, AcceptVisible
<1>5. ASSUME NEW c \in Content, Fail(c) PROVE VisibleInv'
  <2>1. /\ phase[c] = "loading"
        /\ \/ phase' = [phase EXCEPT ![c] = "live"] /\ target' = c
           \/ phase' = [phase EXCEPT ![c] = "failed"] /\ target' = target
        /\ UNCHANGED <<chain, visible, shellVisible, wanted>>
    BY <1>5 DEF Fail, visibleVars
  <2>2. c \notin Shown
    BY <2>1, ChainFacts DEF Shown
  <2>3. \A x \in Content : phase'[x] \in {"unborn", "loading"} => Unseen(x)
    BY <2>1 DEF LayerInv, TypeOK
  <2> QED BY <2>1, <2>2, <2>3 DEF VisibleInv, Shown, Newest
<1>6. ASSUME NEW c \in Content, Forget(c) PROVE VisibleInv'
  <2>1. /\ phase[c] # "live" /\ phase' = [phase EXCEPT ![c] = "unborn"]
        /\ visible' = [visible EXCEPT ![c] = TRUE]
        /\ UNCHANGED <<chain, target, shellVisible, wanted>>
    BY <1>6 DEF Forget
  <2>2. visible'[c] /\ \A x \in Content : x # c => visible'[x] = visible[x]
    BY <2>1 DEF LayerInv, TypeOK
  <2>3. target \in Shown => target # c /\ target \in Content
    BY <2>1, ChainFacts DEF Shown
  <2>4. \A x \in Content : phase'[x] \in {"unborn", "loading"} => x = c \/ Unseen(x)
    BY <2>1 DEF LayerInv, TypeOK
  <2>5. \A x \in Content : phase'[x] \in {"unborn", "loading"} => visible'[x]
    BY <1>0, <2>2, <2>4
  <2>6. target' \in Shown' =>
          target' = Newest' /\ (shellVisible' => visible'[target'] = wanted')
    BY <2>1, <2>2, <2>3 DEF VisibleInv, Shown, Newest
  <2> QED BY <2>5, <2>6 DEF VisibleInv
<1>7. ASSUME NEW k \in DOMAIN chain, EndTransition(k) PROVE VisibleInv'
  <2>1. /\ chain' = <<chain[k]>> /\ phase' = Destroyed(phase)
        /\ UNCHANGED <<target, visible, shellVisible, wanted>>
    BY <1>7 DEF EndTransition, CreateContent, visibleVars
  <2>2. Shown' = {chain[k]} /\ Newest' = chain[k] /\ chain[k] \in Shown
    BY <2>1 DEF Shown, Newest
  <2>3. \A x \in Content : phase'[x] \in {"unborn", "loading"} => Unseen(x)
    BY <2>1, ChainFacts DEF Destroyed, LayerInv, TypeOK
  <2> QED BY <2>1, <2>2, <2>3 DEF VisibleInv
<1>8. ASSUME Dispose PROVE VisibleInv'
  <2>1. /\ chain' = <<>> /\ phase' = Destroyed(phase) /\ visible' = visible
    BY <1>8 DEF Dispose, visibleVars
  <2>2. \A x \in Content : phase'[x] \in {"unborn", "loading"} => Unseen(x)
    BY <2>1, ChainFacts DEF Destroyed, LayerInv, TypeOK
  <2> QED BY <2>1, <2>2 DEF VisibleInv, Shown
<1>9. ASSUME NEW b \in BOOLEAN, SetVisible(b) PROVE VisibleInv'
  <2>1. /\ target \in Content /\ phase[target] = "live"
        /\ visible' = [visible EXCEPT ![target] = b] /\ wanted' = b
        /\ UNCHANGED <<chain, phase, target, shellVisible>>
    BY <1>9 DEF SetVisible, contentVars, LayerInv, TargetAlive
  <2>2. /\ visible'[target] = b
        /\ \A x \in Content : x # target => visible'[x] = visible[x]
    BY <2>1 DEF LayerInv, TypeOK
  <2> QED BY <2>1, <2>2 DEF VisibleInv, Shown, Newest
<1>10. CASE UNCHANGED vars
  BY <1>10 DEF vars, VisibleInv, Shown, Newest
<1> QED
  BY <1>1, <1>2, <1>3, <1>4, <1>5, <1>6, <1>7, <1>8, <1>9, <1>10 DEF Next, LoadSome

\* Whatever the user loads, overlaps, hides and deletes, and even if a filter
\* throws: a content shown alone, with the parameters on it, is as visible as
\* its settings or the user last asked, unless its transition was hidden.
THEOREM VisibilityFollows == Spec => []VisibleAsAsked
<1>1. LayerInv /\ VisibleInv => VisibleAsAsked
  <2> SUFFICES ASSUME LayerInv, VisibleInv, Len(chain) = 1, target = Oldest, shellVisible
               PROVE  visible[Oldest] = wanted
    BY DEF VisibleAsAsked
  <2>1. Oldest \in Shown
    BY ChainFacts DEF Shown, Oldest
  <2> QED BY <2>1 DEF VisibleInv
<1>2. Init => LayerInv /\ VisibleInv
  BY InitInv, VisibleInit
<1>3. LayerInv /\ VisibleInv /\ [Next]_vars => LayerInv' /\ VisibleInv'
  BY NextInv, VisibleNext
<1> QED BY <1>1, <1>2, <1>3, PTL DEF Spec

-----------------------------------------------------------------------------
(***************************************************************************)
(* The user who waits for each load and each transition, and loads nothing *)
(* but files and devices: Overlap is FALSE, Kinds has neither sounds nor   *)
(* vdpong.                                                                 *)
(***************************************************************************)
CalmUser == Overlap = FALSE /\ Kinds \subseteq {"file", "device"}

\* One load at a time, and none while a transition is under way.
OneLoad ==
  /\ \A c, d \in Loading : c = d
  /\ InTransition => Loading = {}
  /\ \A c \in Loading : query[c].kind = "file"

\* The inductive invariant of a calm user.
CalmInv ==
  /\ LayerInv
  /\ OneLoad
  /\ OneTransition
  /\ NoOrphan
  /\ TargetShown

\* What a content that comes in does to a calm user's layer: it is alone on
\* it, or it lies over the one content that was there.
LEMMA CalmAccept ==
  ASSUME CalmInv, NEW c \in Content, NEW q \in Queries,
         NEW ph \in [Content -> Phases],
         ph[c] = "live", phase[c] # "live",
         \A x \in Content \ {c} : ph[x] = phase[x],
         Accept(c, q, ph), ~InTransition
  PROVE  /\ target' = c
         /\ \/ /\ q.transition /\ ~Empty
               /\ Len(chain') = 2 /\ chain'[1] = Oldest /\ chain'[2] = c
               /\ Live' = {Oldest, c}
            \/ /\ chain' = <<c>>
               /\ Live' = {c}
         /\ \A x \in Content \ {c} : phase'[x] = "loading" => phase[x] = "loading"
         /\ phase'[c] = "live"
         /\ ~Empty => Oldest # c
<1> USE DEF CalmInv
<1>1. /\ Empty => Live = {}
      /\ ~Empty => Live = {Oldest} /\ Oldest # c /\ Oldest \in Content
  BY ChainFacts DEF NoOrphan, Live, Shown, InTransition, Oldest
<1>2. CASE q.transition /\ ~Empty
  <2>1. phase' = ph /\ chain' = Append(chain, c) /\ target' = c
    BY <1>2 DEF Accept, CreateTransition
  <2>2. Len(chain) = 1
    BY <1>2, ChainFacts DEF InTransition
  <2>3. chain \in Seq(Content)
    BY DEF LayerInv, TypeOK
  <2>4. Len(chain') = 2 /\ chain'[1] = Oldest /\ chain'[2] = c
    <3>1. /\ Len(Append(chain, c)) = Len(chain) + 1
          /\ \A i \in 1..Len(chain) : Append(chain, c)[i] = chain[i]
          /\ Append(chain, c)[Len(chain) + 1] = c
      BY <2>3, PushFacts
    <3>2. 1 \in 1..Len(chain) /\ Len(chain) + 1 = 2
      BY <2>2
    <3>3. Append(chain, c)[1] = chain[1] /\ Append(chain, c)[2] = c
      BY <3>1, <3>2
    <3>4. Len(Append(chain, c)) = 2
      BY <3>1, <3>2
    <3> QED BY <2>1, <3>3, <3>4 DEF Oldest
  <2>5. Live' = {Oldest, c}
    BY <1>1, <1>2, <2>1 DEF Live
  <2> QED BY <1>1, <1>2, <2>1, <2>4, <2>5
<1>3. CASE ~(q.transition /\ ~Empty)
  <2>1. phase' = Destroyed(ph) /\ chain' = <<c>> /\ target' = c
    BY <1>3 DEF Accept, CreateContent
  <2>2. /\ \A x \in Content : phase'[x] = IF ~Empty /\ x = Oldest THEN "disposed" ELSE ph[x]
    BY <1>1, <2>1 DEF Destroyed
  <2>3. Live' = {c}
    BY <1>1, <2>2 DEF Live
  <2>4. /\ phase'[c] = "live"
        /\ \A x \in Content \ {c} : phase'[x] = "loading" => phase[x] = "loading"
    BY <1>1, <2>2
  <2> QED BY <1>1, <2>1, <2>3, <2>4
<1> QED BY <1>2, <1>3

\* A content that comes in keeps the calm invariant and is a step of LayerFade.
LEMMA CalmAcceptStep ==
  ASSUME CalmInv, LayerInv', NEW c \in Content, NEW q \in Queries,
         NEW ph \in [Content -> Phases],
         ph[c] = "live", phase[c] # "live",
         \A x \in Content \ {c} : ph[x] = phase[x],
         \A x \in Loading : x = c,
         Accept(c, q, ph), ~InTransition
  PROVE  CalmInv' /\ (Fade!Show(c) \/ Fade!StartFade(c))
<1> USE LayerAssumption
<1>1. /\ target' = c
      /\ \/ /\ ~Empty /\ Live' = {Oldest, c}
            /\ Len(chain') = 2 /\ chain'[1] = Oldest /\ chain'[2] = c
         \/ chain' = <<c>> /\ Live' = {c}
      /\ Loading' = {}
      /\ ~Empty => Oldest # c
  <2>1. \A x \in Content : phase'[x] # "loading"
    BY CalmAccept DEF Loading
  <2> QED BY CalmAccept, <2>1 DEF Loading
<1>2. CASE /\ ~Empty /\ Live' = {Oldest, c}
           /\ Len(chain') = 2 /\ chain'[1] = Oldest /\ chain'[2] = c
  <2>1. /\ Len(chain') = 2 /\ DOMAIN chain' = 1..2
        /\ chain'[1] = Oldest /\ chain'[2] = c
    BY <1>2 DEF LayerInv, TypeOK
  <2>2. OneLoad' /\ OneTransition'
    BY <1>1, <2>1 DEF OneLoad, OneTransition
  <2>3. NoOrphan'
    BY <1>2, <2>1 DEF NoOrphan, Shown
  <2>4. TargetShown'
    BY <1>1, <1>2, <2>1 DEF TargetShown, Empty, Newest
  <2>5. Fade!StartFade(c)
    <3>1. c \notin Live
      BY DEF Live
    <3>2. /\ Oldest # TheLayer /\ Oldest' = Oldest /\ Newest' = c
          /\ InTransition' /\ ~Empty'
      BY <1>2, <2>1, ChainFacts DEF CalmInv, Oldest, Newest, InTransition, Empty
    <3>3. Live' = Live \cup {c}
      BY <1>2, ChainFacts DEF CalmInv, NoOrphan, Live, Shown, InTransition, Oldest
    <3> QED BY <1>2, <3>1, <3>2, <3>3 DEF Fade!StartFade
  <2> QED BY <2>2, <2>3, <2>4, <2>5 DEF CalmInv
<1>3. CASE chain' = <<c>> /\ Live' = {c}
  <2>1. /\ Len(chain') = 1 /\ DOMAIN chain' = 1..1 /\ chain'[1] = c
    BY <1>3
  <2>2. OneLoad' /\ OneTransition'
    BY <1>1, <2>1 DEF OneLoad, OneTransition
  <2>3. NoOrphan'
    BY <1>3, <2>1 DEF NoOrphan, Shown
  <2>4. TargetShown'
    BY <1>1, <1>3, <2>1 DEF TargetShown, Empty, Newest
  <2>5. Fade!Show(c)
    <3>1. c \notin Live
      BY DEF Live
    <3>2. Oldest' = c /\ ~InTransition' /\ ~Empty'
      BY <1>3, <2>1 DEF Oldest, InTransition, Empty
    <3> QED BY <1>3, <3>1, <3>2 DEF Fade!Show
  <2> QED BY <2>2, <2>3, <2>4, <2>5 DEF CalmInv
<1> QED BY <1>1, <1>2, <1>3

\* The first state of a layer is an empty LayerFade.
LEMMA CalmInit == CalmUser /\ Init => CalmInv /\ Fade!Init
<1> SUFFICES ASSUME Init PROVE CalmInv /\ Fade!Init
  OBVIOUS
<1>1. LayerInv
  BY InitInv
<1>2. chain = <<>> /\ target = TheLayer /\ \A c \in Content : phase[c] = "unborn"
  BY DEF Init
<1>3. OneLoad /\ OneTransition /\ NoOrphan /\ TargetShown
  BY <1>2 DEF OneLoad, OneTransition, NoOrphan, TargetShown, Loading, Live, Shown,
              InTransition, Empty
<1>4. Fade!Init
  BY <1>2 DEF Fade!Init, Live, InTransition, Empty
<1> QED BY <1>1, <1>3, <1>4 DEF CalmInv

\* Every step of a calm user's layer keeps the calm invariant, and is a step
\* of LayerFade or leaves it as it was.
LEMMA CalmNext ==
  ASSUME CalmUser, CalmInv, [Next]_vars
  PROVE  CalmInv' /\ [Fade!Next]_(Fade!vars)
<1> USE LayerAssumption
<1>0. LayerInv' /\ LayerInv
  BY NextInv DEF CalmInv
<1> DEFINE Same == /\ chain' = chain /\ Live' = Live
<1>a. ASSUME Same PROVE UNCHANGED Fade!vars /\ OneTransition' /\ NoOrphan'
  BY <1>a DEF Fade!vars, Empty, Oldest, Newest, InTransition, OneTransition, NoOrphan, Shown,
              CalmInv
<1>1. ASSUME NEW c \in Content, NEW q \in Requests, Load(c, q)
      PROVE  CalmInv' /\ UNCHANGED Fade!vars
  <2>1. /\ phase' = [phase EXCEPT ![c] = "loading"] /\ phase[c] # "live"
        /\ query' = [query EXCEPT ![c] = q] /\ q.kind = "file"
        /\ Loading = {} /\ ~InTransition
        /\ UNCHANGED <<chain, target>>
    BY <1>1 DEF Load, CalmUser, MayAct, Calm, Requests
  <2>2. Same /\ Loading' = {c}
    BY <1>0, <2>1 DEF Live, Loading, LayerInv, TypeOK
  <2>3. OneLoad'
    BY <1>0, <2>1, <2>2 DEF OneLoad, InTransition, LayerInv, TypeOK
  <2>4. TargetShown'
    BY <2>1 DEF CalmInv, TargetShown, Empty, Newest
  <2> QED BY <1>0, <1>a, <2>2, <2>3, <2>4 DEF CalmInv
<1>2. ASSUME NEW c \in Content, NEW q \in Requests, LoadDevice(c, q)
      PROVE  CalmInv' /\ (Fade!Show(c) \/ Fade!StartFade(c))
  <2> DEFINE ph == [phase EXCEPT ![c] = "live"]
  <2>1. /\ ph \in [Content -> Phases] /\ ph[c] = "live" /\ phase[c] # "live"
        /\ \A x \in Content \ {c} : ph[x] = phase[x]
    BY <1>0, <1>2 DEF LoadDevice, LayerInv, TypeOK, Phases
  <2>2. Accept(c, q, ph) /\ q \in Queries /\ Loading = {} /\ ~InTransition
    BY <1>2, RequestsType DEF LoadDevice, CalmUser, MayAct, Calm
  <2> HIDE DEF ph
  <2> QED BY <1>0, <2>1, <2>2, CalmAcceptStep
<1>3. ASSUME NEW c \in Content, NEW d \in Content, NEW q \in Requests, LoadTwice(c, d, q)
      PROVE  FALSE
  BY <1>3 DEF LoadTwice, CalmUser, Requests
<1>4. ASSUME NEW c \in Content, Answer(c)
      PROVE  CalmInv' /\ (Fade!Show(c) \/ Fade!StartFade(c))
  <2> DEFINE ph == [phase EXCEPT ![c] = "live"]
  <2>1. /\ ph \in [Content -> Phases] /\ ph[c] = "live" /\ phase[c] # "live"
        /\ \A x \in Content \ {c} : ph[x] = phase[x]
    BY <1>0, <1>4 DEF Answer, LayerInv, TypeOK, Phases
  <2>2. Accept(c, query[c], ph) /\ query[c] \in Queries
    BY <1>0, <1>4 DEF Answer, LayerInv, TypeOK
  <2>3. c \in Loading
    BY <1>4 DEF Answer, Loading
  <2>4. ~InTransition /\ \A x \in Loading : x = c
    BY <2>3 DEF CalmInv, OneLoad
  <2> HIDE DEF ph
  <2> QED BY <1>0, <2>1, <2>2, <2>4, CalmAcceptStep
<1>5. ASSUME NEW c \in Content, Fail(c)
      PROVE  CalmInv' /\ UNCHANGED Fade!vars
  <2>1. c \in Loading /\ query[c].kind = "file"
    BY <1>5 DEF Fail, Loading, CalmInv, OneLoad
  <2>2. /\ phase' = [phase EXCEPT ![c] = "failed"] /\ phase[c] = "loading"
        /\ UNCHANGED <<chain, target>>
    BY <1>5, <2>1 DEF Fail
  <2>3. Same /\ Loading' = {}
    BY <1>0, <2>1, <2>2 DEF Live, Loading, LayerInv, TypeOK, CalmInv, OneLoad
  <2>4. OneLoad'
    BY <2>3 DEF OneLoad
  <2>5. TargetShown'
    BY <2>2 DEF CalmInv, TargetShown, Empty, Newest
  <2> QED BY <1>0, <1>a, <2>3, <2>4, <2>5 DEF CalmInv
<1>6. ASSUME NEW c \in Content, Forget(c)
      PROVE  CalmInv' /\ UNCHANGED Fade!vars
  <2>1. /\ phase[c] \notin {"live", "loading"} /\ phase' = [phase EXCEPT ![c] = "unborn"]
        /\ UNCHANGED <<chain, target, query>>
    BY <1>6 DEF Forget
  <2>2. Same /\ Loading' = Loading
    BY <1>0, <2>1 DEF Live, Loading, LayerInv, TypeOK
  <2>3. OneLoad' /\ TargetShown'
    BY <2>1, <2>2 DEF CalmInv, OneLoad, InTransition, TargetShown, Empty, Newest
  <2> QED BY <1>0, <1>a, <2>2, <2>3 DEF CalmInv
<1>7. ASSUME NEW k \in DOMAIN chain, EndTransition(k)
      PROVE  CalmInv' /\ Fade!EndFade
  <2>1. /\ k = 2 /\ Len(chain) = 2 /\ InTransition
        /\ phase' = Destroyed(phase) /\ chain' = <<Newest>> /\ target' = target
    BY <1>0, <1>7, ChainFacts
    DEF EndTransition, CreateContent, CalmInv, OneTransition, InTransition, Newest
  <2>2. /\ Newest \in Content /\ Oldest \in Content /\ Newest # Oldest /\ ~Empty
        /\ Live = {Oldest, Newest}
    BY <1>0, <2>1, ChainFacts
    DEF CalmInv, NoOrphan, Live, Shown, Oldest, Newest, LayerInv, ShownAlive
  <2>3. \A x \in Content : phase'[x] = IF x = Oldest THEN "disposed" ELSE phase[x]
    BY <1>0, <2>1, <2>2 DEF Destroyed, LayerInv, TypeOK
  <2>4. Live' = {Newest} /\ Loading' = {}
    BY <2>1, <2>2, <2>3 DEF Live, Loading, CalmInv, OneLoad
  <2>5. /\ ~InTransition' /\ ~Empty' /\ Oldest' = Newest /\ Newest' = Newest
        /\ Len(chain') = 1 /\ DOMAIN chain' = 1..1
    BY <2>1 DEF InTransition, Empty, Oldest, Newest
  <2>6. OneLoad' /\ OneTransition'
    BY <2>4, <2>5 DEF OneLoad, OneTransition
  <2>7. NoOrphan'
    BY <2>1, <2>4, <2>5 DEF NoOrphan, Shown
  <2>8. TargetShown'
    BY <2>1, <2>2, <2>5 DEF CalmInv, TargetShown
  <2>9. Fade!EndFade
    BY <2>1, <2>2, <2>4, <2>5 DEF Fade!EndFade
  <2> QED BY <1>0, <2>6, <2>7, <2>8, <2>9 DEF CalmInv
<1>8. ASSUME Dispose PROVE CalmInv' /\ Fade!Clear
  <2>1. /\ ~InTransition /\ phase' = Destroyed(phase) /\ chain' = <<>>
        /\ target' = TheLayer /\ query' = query
    BY <1>8 DEF Dispose, CalmUser, MayAct, Calm
  <2>2. /\ Empty => Live = {}
        /\ ~Empty => Live = {Oldest} /\ Oldest \in Content
    BY <1>0, <2>1, ChainFacts DEF CalmInv, NoOrphan, Live, Shown, InTransition, Oldest
  <2>3. \A x \in Content : phase'[x] = IF ~Empty /\ x = Oldest THEN "disposed" ELSE phase[x]
    BY <1>0, <2>1, <2>2 DEF Destroyed, LayerInv, TypeOK
  <2>4. Live' = {}
    BY <2>2, <2>3 DEF Live
  <2>5. Loading' \subseteq Loading
    BY <2>3 DEF Loading
  <2>6. OneLoad' /\ OneTransition' /\ NoOrphan' /\ TargetShown'
    BY <2>1, <2>4, <2>5 DEF CalmInv, OneLoad, OneTransition, NoOrphan, TargetShown,
                            InTransition, Empty
  <2>7. Fade!Clear
    BY <2>1, <2>4 DEF Fade!Clear, InTransition, Empty
  <2> QED BY <1>0, <2>6, <2>7 DEF CalmInv
<1>9. ASSUME NEW b \in BOOLEAN, SetVisible(b)
      PROVE  CalmInv' /\ UNCHANGED Fade!vars
  <2>1. UNCHANGED <<chain, phase, target, query>>
    BY <1>9 DEF SetVisible, contentVars
  <2>2. Same /\ Loading' = Loading
    BY <2>1 DEF Live, Loading
  <2>3. OneLoad' /\ TargetShown'
    BY <2>1, <2>2 DEF CalmInv, OneLoad, InTransition, TargetShown, Empty, Newest
  <2> QED BY <1>0, <1>a, <2>2, <2>3 DEF CalmInv
<1>10. ASSUME UNCHANGED vars
       PROVE  CalmInv' /\ UNCHANGED Fade!vars
  <2>1. UNCHANGED <<chain, phase, target, query>>
    BY <1>10 DEF vars
  <2>2. Same /\ Loading' = Loading
    BY <2>1 DEF Live, Loading
  <2>3. OneLoad' /\ TargetShown'
    BY <2>1, <2>2 DEF CalmInv, OneLoad, InTransition, TargetShown, Empty, Newest
  <2> QED BY <1>0, <1>a, <2>2, <2>3 DEF CalmInv
<1> HIDE DEF Same
<1>11. CASE UNCHANGED vars
  BY <1>10, <1>11
<1>12. CASE Next
  <2>1. CASE \E c \in Content, q \in Requests : LoadSome(c, q)
    BY <1>1, <1>2, <2>1 DEF LoadSome, Fade!Next
  <2>2. CASE \E c \in Content : Answer(c) \/ Fail(c) \/ Forget(c)
    BY <1>4, <1>5, <1>6, <2>2 DEF Fade!Next
  <2>3. CASE Dispose \/ \E k \in DOMAIN chain : EndTransition(k)
    BY <1>7, <1>8, <2>3 DEF Fade!Next
  <2>4. CASE \E b \in BOOLEAN : SetVisible(b)
    BY <1>9, <2>4
  <2> QED BY <1>12, <1>3, <2>1, <2>2, <2>3, <2>4 DEF Next
<1> QED BY <1>11, <1>12

\* A user who waits never sees a transition over a transition, leaks no
\* content, and drives the newest content.
THEOREM CalmInvariant == ASSUME CalmUser PROVE Spec => []CalmInv
<1>1. Init => CalmInv
  BY CalmInit
<1>2. CalmInv /\ [Next]_vars => CalmInv'
  BY CalmNext
<1> QED BY <1>1, <1>2, PTL DEF Spec

\* The controls of a calm user's layer drive the content that stays.
THEOREM CalmTarget == ASSUME CalmUser PROVE Spec => []TargetShown
<1>1. CalmInv => TargetShown
  BY DEF CalmInv
<1> QED BY <1>1, CalmInvariant, PTL

\* Every behaviour of a calm user's layer is one of LayerFade, up to the
\* fairness of its EndFade.
THEOREM CalmImplementsFade ==
  ASSUME CalmUser PROVE Spec => Fade!Init /\ [][Fade!Next]_(Fade!vars)
<1>1. Init => CalmInv /\ Fade!Init
  BY CalmInit
<1>2. CalmInv /\ [Next]_vars => CalmInv' /\ [Fade!Next]_(Fade!vars)
  BY CalmNext
<1> QED BY <1>1, <1>2, PTL DEF Spec

\* A pile that is not empty and holds no transition over a transition holds
\* one content or two.
LEMMA ShortPile ==
  ASSUME NEW S, NEW s \in Seq(S), s # <<>>, Len(s) <= 2
  PROVE  /\ Len(s) \in {1, 2} /\ DOMAIN s = 1..Len(s)
         /\ \A i \in DOMAIN s : s[i] \in S
<1>1. Len(s) \in Nat /\ Len(s) # 0
  OBVIOUS
<1>2. \A n \in Nat : n # 0 /\ n <= 2 => n \in {1, 2}
  OBVIOUS
<1>3. Len(s) \in {1, 2}
  BY <1>1, <1>2
<1>4. DOMAIN s = 1..Len(s)
  OBVIOUS
<1>5. \A i \in DOMAIN s : s[i] \in S
  OBVIOUS
<1> QED BY <1>3, <1>4, <1>5

\* A calm user's layer never goes back to a content it has replaced: the newest
\* content only gives way to one that was not behind the layer.
THEOREM CalmNeverReverts == ASSUME CalmUser PROVE Spec => NewestNeverReverts
<1> DEFINE Reverts == ~Empty /\ ~Empty' /\ Newest' # Newest /\ Newest' \in Shown
<1>1. ASSUME CalmInv, CalmInv', [Fade!Next]_(Fade!vars) PROVE ~Reverts
  <2> SUFFICES ASSUME Reverts PROVE FALSE
    OBVIOUS
  <2>1. /\ \A i \in DOMAIN chain : chain[i] \in Content /\ phase[chain[i]] = "live"
        /\ Len(chain) \in {1, 2} /\ DOMAIN chain = 1..Len(chain)
        /\ Len(chain') \in {1, 2} /\ DOMAIN chain' = 1..Len(chain')
        /\ \A i \in DOMAIN chain' : chain'[i] \in Content
    <3>1. chain \in Seq(Content) /\ Len(chain) <= 2 /\ chain # <<>>
      BY <1>1 DEF CalmInv, LayerInv, TypeOK, OneTransition, Empty
    <3>2. chain' \in Seq(Content) /\ Len(chain') <= 2 /\ chain' # <<>>
      BY <1>1 DEF CalmInv, LayerInv, TypeOK, OneTransition, Empty
    <3>3. ShownAlive
      BY <1>1 DEF CalmInv, LayerInv
    <3> QED BY <3>1, <3>2, <3>3, ShortPile DEF ShownAlive
  <2>2. /\ Newest' \in Live /\ TheLayer \notin Content
        /\ Newest \in Content /\ Newest' \in Content
    BY <2>1, LayerAssumption DEF Shown, Live, Newest
  <2>3. /\ ~InTransition => Newest = Oldest
        /\ ~InTransition' => Newest' = Oldest'
    BY <2>1 DEF InTransition, Newest, Oldest
  <2>4. ASSUME NEW c \in Content, Fade!Show(c) PROVE FALSE
    <3>1. Oldest' = c /\ ~InTransition' /\ c \notin Live
      BY <2>2, <2>4 DEF Fade!Show
    <3> QED BY <2>2, <2>3, <3>1
  <2>5. ASSUME NEW c \in Content, Fade!StartFade(c) PROVE FALSE
    <3>1. c \notin Live /\ InTransition' /\ Newest' = c
      BY <2>5, LayerAssumption DEF Fade!StartFade
    <3> QED BY <2>2, <3>1
  <2>6. CASE Fade!EndFade
    <3>1. Oldest' = Newest /\ ~InTransition'
      BY <2>2, <2>6 DEF Fade!EndFade
    <3> QED BY <2>3, <3>1
  <2>7. CASE Fade!Clear
    <3>1. Empty' \/ Oldest' = TheLayer
      BY <2>7 DEF Fade!Clear
    <3>2. Oldest' \in Content
      BY <2>1 DEF Oldest
    <3> QED BY <2>2, <3>1, <3>2
  <2>8. CASE UNCHANGED Fade!vars
    <3>1. Oldest' = Oldest /\ (InTransition' => InTransition /\ Newest' = Newest)
               /\ (InTransition => InTransition')
      BY <2>2, <2>8 DEF Fade!vars
    <3> QED BY <2>3, <3>1
  <2> QED BY <1>1, <2>4, <2>5, <2>6, <2>7, <2>8 DEF Fade!Next
<1>2. Init => CalmInv
  BY CalmInit
<1>3. CalmInv /\ [Next]_vars => CalmInv' /\ [Fade!Next]_(Fade!vars)
  BY CalmNext
<1>4. CalmInv /\ CalmInv' /\ [Fade!Next]_(Fade!vars)
        => [~Empty /\ ~Empty' /\ Newest' # Newest => Newest' \notin Shown]_vars
  BY <1>1
<1> QED BY <1>2, <1>3, <1>4, PTL DEF Spec, NewestNeverReverts

-----------------------------------------------------------------------------
(* The filters of a layer and their pane *)

\* A filter that no load was answered twice with is on one content at most,
\* the one it says it is on.
Owned == \A c \in Content : \A f \in filters[c] \ reused : owner[f] = c

\* The settings of a load under way hold filters no content has, and none that
\* the settings of another load hold.
CarriedOnce ==
  \A c \in Content : \A f \in carried[c] \ reused :
    owner[f] = TheLayer /\ \A d \in Content : f \in carried[d] => c = d

\* A content loses its filters before it is disposed of, and gets none before
\* it comes in.
OnlyLiveHold == \A c \in Content : phase[c] # "live" => filters[c] = {}

\* The pane covers every content of the pile: whichever transition ends first,
\* the content it leaves is covered.
ShownCovered == \A c \in Shown : filters[c] \subseteq pane \cup reused \cup thrown

\* The inductive invariant of FSpec, beside that of Layer.
FilterInv ==
  /\ FiltersTypeOK
  /\ Owned
  /\ CarriedOnce
  /\ OnlyLiveHold
  /\ ShownCovered

\* What a calm user's pane and settings keep beside it.
CalmPane == reused = {} /\ PaneMirrors /\ paneMuted \subseteq pane

-----------------------------------------------------------------------------
\* What Exchange does to each content, each filter and the pane.
Exchanged(gone, c, F, ready, mutes) ==
  /\ filters' \in [Content -> SUBSET Filter]
  /\ filters'[c] = filters[c] \cup F
  /\ \A x \in Content \ {c} :
       filters'[x] = IF ~Empty /\ x = Oldest THEN filters[x] \ gone ELSE filters[x]
  /\ owner' \in [Filter -> Content \cup {TheLayer}]
  /\ \A f \in F : owner'[f] = c
  /\ \A f \in Filter \ F : owner'[f] = owner[f]
  /\ pane' = (pane \ gone) \cup ready
  /\ paneMuted' = (paneMuted \ (gone \cup ready)) \cup (ready \cap mutes)
  /\ mutedInFade' = mutedInFade \ (gone \cup ready)
  /\ thrown' = (thrown \ ready) \cup (F \ ready)
  /\ muted' = mutes /\ dead' = (dead \cup gone) \ F

\* Exchange written out for each content and each filter.
LEMMA ExchangeFacts ==
  ASSUME FiltersTypeOK, NEW gone \in SUBSET Filter, NEW c \in Content,
         NEW F \in SUBSET Filter, NEW ready \in SUBSET F, NEW mutes \in SUBSET Filter,
         Exchange(gone, c, F, ready, mutes)
  PROVE  Exchanged(gone, c, F, ready, mutes)
<1>1. /\ filters' = [x \in Content |->
           IF x = c THEN filters[x] \cup F
           ELSE IF ~Empty /\ x = Oldest THEN filters[x] \ gone ELSE filters[x]]
      /\ owner' = [f \in Filter |-> IF f \in F THEN c ELSE owner[f]]
      /\ pane' = (pane \ gone) \cup ready
      /\ paneMuted' = (paneMuted \ (gone \cup ready)) \cup (ready \cap mutes)
      /\ mutedInFade' = mutedInFade \ (gone \cup ready)
      /\ thrown' = (thrown \ ready) \cup (F \ ready)
      /\ muted' = mutes /\ dead' = (dead \cup gone) \ F
  BY DEF Exchange, Registered
<1>2. filters \in [Content -> SUBSET Filter] /\ owner \in [Filter -> Content \cup {TheLayer}]
  BY DEF FiltersTypeOK
<1>3. \A x \in Content : filters[x] \in SUBSET Filter
  BY <1>2
<1>4. filters' \in [Content -> SUBSET Filter]
  BY <1>1, <1>3
<1>5. owner' \in [Filter -> Content \cup {TheLayer}]
  BY <1>1, <1>2
<1> QED BY <1>1, <1>4, <1>5 DEF Exchanged

\* Filters are exchanged: if those that come were nobody's, and those that go
\* are the old content's, which then is no longer shown, the invariant is kept.
LEMMA ExchangeKeeps ==
  ASSUME FilterInv, NEW c \in Content, NEW gone \in SUBSET Filter,
         NEW F \in SUBSET Filter, NEW ready \in SUBSET F, NEW mutes \in SUBSET Filter,
         Exchange(gone, c, F, ready, mutes), gone \subseteq Cleared, ~Empty => Oldest \in Content,
         \A f \in F : f \in reused' \/ owner[f] = TheLayer,
         reused \subseteq reused', reused' \in SUBSET Filter,
         carried' \in [Content -> SUBSET Filter],
         \A x \in Content : carried'[x] \ reused' \subseteq carried[x] \ F,
         phase'[c] = "live", lost' \in Nat,
         \A x \in Content : phase[x] = "live" /\ phase'[x] # "live" =>
            ~Empty /\ x = Oldest /\ gone = Cleared,
         Shown' \subseteq Content,
         \A x \in Shown' : \/ filters[x] = {}
                           \/ x \in Shown /\ (gone = {} \/ x # Oldest)
  PROVE  FilterInv'
<1> USE LayerAssumption
<1>1. FiltersTypeOK /\ Owned /\ CarriedOnce /\ OnlyLiveHold /\ ShownCovered
  BY DEF FilterInv
<1>2. Exchanged(gone, c, F, ready, mutes)
  BY <1>1, ExchangeFacts
<1> USE DEF Exchanged
<1>3. /\ \A x \in Content : filters[x] \in SUBSET Filter /\ carried[x] \in SUBSET Filter
      /\ \A x \in Content : filters'[x] \in SUBSET Filter /\ carried'[x] \in SUBSET Filter
  BY <1>1, <1>2 DEF FiltersTypeOK
<1>4. FiltersTypeOK'
  <2>1. /\ pane \in SUBSET Filter /\ paneMuted \in SUBSET Filter /\ dead \in SUBSET Filter
        /\ thrown \in SUBSET Filter /\ mutedInFade \in SUBSET Filter
    BY <1>1 DEF FiltersTypeOK
  <2>2. /\ pane' \in SUBSET Filter /\ paneMuted' \in SUBSET Filter
        /\ dead' \in SUBSET Filter /\ muted' \in SUBSET Filter
        /\ thrown' \in SUBSET Filter /\ mutedInFade' \in SUBSET Filter
    BY <1>2, <2>1
  <2> QED BY <1>2, <2>2 DEF FiltersTypeOK
<1>5. Owned'
  <2> SUFFICES ASSUME NEW x \in Content, NEW f \in filters'[x], f \notin reused'
               PROVE  owner'[f] = x
    BY DEF Owned
  <2>1. f \in Filter /\ f \notin reused
    BY <1>3
  <2>2. f \in filters[x] => owner[f] = x
    BY <1>1, <2>1 DEF Owned
  <2>3. CASE f \in F
    BY <1>2, <2>2, <2>3
  <2>4. CASE f \notin F
    <3>1. f \in filters[x]
      BY <1>2, <2>4
    <3> QED BY <1>2, <2>1, <2>2, <2>4, <3>1
  <2> QED BY <2>3, <2>4
<1>6. CarriedOnce'
  <2> SUFFICES ASSUME NEW x \in Content, NEW f \in carried'[x], f \notin reused'
               PROVE  owner'[f] = TheLayer /\ \A d \in Content : f \in carried'[d] => x = d
    BY DEF CarriedOnce
  <2>1. f \in Filter \ F /\ f \notin reused /\ f \in carried[x]
    BY <1>3
  <2>2. owner[f] = TheLayer /\ \A d \in Content : f \in carried[d] => x = d
    BY <1>1, <2>1 DEF CarriedOnce
  <2>3. \A d \in Content : f \in carried'[d] => f \in carried[d]
    BY <2>1
  <2> QED BY <1>2, <2>1, <2>2, <2>3
<1>7. OnlyLiveHold'
  <2> SUFFICES ASSUME NEW x \in Content, phase'[x] # "live" PROVE filters'[x] = {}
    BY DEF OnlyLiveHold
  <2>1. x # c
    OBVIOUS
  <2>2. CASE phase[x] # "live"
    <3>1. filters[x] = {}
      BY <1>1, <2>2 DEF OnlyLiveHold
    <3> QED BY <1>2, <2>1, <3>1
  <2>3. CASE phase[x] = "live"
    <3>1. ~Empty /\ x = Oldest /\ gone = filters[x]
      BY <2>3 DEF Cleared
    <3> QED BY <1>2, <2>1, <3>1
  <2> QED BY <2>2, <2>3
<1>8. ShownCovered'
  <2> SUFFICES ASSUME NEW x \in Shown', NEW f \in filters'[x], f \notin reused'
               PROVE  f \in pane' \cup thrown'
    BY DEF ShownCovered
  <2>1. x \in Content
    OBVIOUS
  <2>2. CASE f \in F
    BY <1>2, <2>2
  <2>3. CASE f \notin F
    <3>1. f \in filters[x] /\ f \notin reused
      BY <1>2, <2>1, <2>3
    <3>2. x \in Shown /\ (gone = {} \/ x # Oldest)
      BY <3>1
    <3>3. f \in pane \cup thrown
      BY <1>1, <3>1, <3>2 DEF ShownCovered
    <3>4. f \notin gone
      <4>1. owner[f] = x
        BY <1>1, <2>1, <3>1 DEF Owned
      <4>2. f \in gone => ~Empty /\ f \in filters[Oldest]
        BY DEF Cleared
      <4>3. f \in gone => owner[f] = Oldest
        BY <1>1, <3>1, <4>2 DEF Owned
      <4> QED BY <3>2, <4>1, <4>3
    <3> QED BY <1>2, <3>3, <3>4
  <2> QED BY <2>2, <2>3
<1> QED BY <1>4, <1>5, <1>6, <1>7, <1>8 DEF FilterInv

\* The content that comes in is behind the layer, with what was there or alone;
\* what is then let go is the old content, disposed of with its filters.
LEMMA AcceptShown ==
  ASSUME LayerInv, NEW c \in Content, NEW q \in Queries,
         NEW ph \in [Content -> Phases],
         phase[c] # "live", ph[c] = "live",
         \A x \in Content : phase[x] = "live" => ph[x] = "live",
         Accept(c, q, ph)
  PROVE  /\ phase'[c] = "live"
         /\ \/ q.transition /\ ~Empty /\ Shown' = Shown \cup {c} /\ phase' = ph
            \/ (~q.transition \/ Empty) /\ Shown' = {c}
         /\ \A x \in Content : phase[x] = "live" /\ phase'[x] # "live" =>
              ~Empty /\ x = Oldest /\ ~q.transition
<1>1. ~Empty => Oldest \in Content /\ phase[Oldest] = "live" /\ Oldest # c
  BY ChainFacts
<1>2. CASE q.transition /\ ~Empty
  <2>1. phase' = ph /\ chain' = Append(chain, c)
    BY <1>2 DEF Accept, CreateTransition
  <2>2. Shown' = Shown \cup {c}
    <3>1. chain \in Seq(Content)
      BY DEF LayerInv, TypeOK
    <3>2. /\ Len(chain) \in Nat /\ DOMAIN chain = 1..Len(chain)
          /\ DOMAIN chain' = 1..Len(chain) + 1
          /\ \A i \in 1..Len(chain) : chain'[i] = chain[i]
          /\ chain'[Len(chain) + 1] = c
      BY <2>1, <3>1, PushFacts
    <3>3. 1..Len(chain) + 1 = 1..Len(chain) \cup {Len(chain) + 1}
      BY <3>2
    <3> QED BY <3>2, <3>3 DEF Shown
  <2> QED BY <1>2, <2>1, <2>2
<1>3. CASE ~(q.transition /\ ~Empty)
  <2>1. phase' = Destroyed(ph) /\ chain' = <<c>>
    BY <1>3 DEF Accept, CreateContent
  <2>2. Shown' = {c}
    BY <2>1 DEF Shown
  <2>3. \A x \in Content : phase'[x] = IF ~Empty /\ x = Oldest THEN "disposed" ELSE ph[x]
    BY <1>1, <2>1 DEF Destroyed
  <2> QED BY <1>1, <1>3, <2>2, <2>3
<1> QED BY <1>2, <1>3

\* The settings of a load reach the content that comes in: nobody else had
\* their filters, unless the load is answered twice.
LEMMA ApplyKeeps ==
  ASSUME LayerInv, FilterInv, NEW c \in Content, NEW q \in Queries,
         NEW ph \in [Content -> Phases],
         phase[c] # "live", ph[c] = "live",
         \A x \in Content : phase[x] = "live" => ph[x] = "live",
         Accept(c, q, ph),
         NEW F \in SUBSET Filter, NEW mutes \in SUBSET Filter, Apply(c, q, F, mutes),
         \A f \in F : f \in reused' \/ owner[f] = TheLayer,
         reused \subseteq reused', reused' \in SUBSET Filter,
         carried' \in [Content -> SUBSET Filter],
         \A x \in Content : carried'[x] \ reused' \subseteq carried[x] \ F
  PROVE  FilterInv'
<1> DEFINE gone == IF q.transition THEN {} ELSE Cleared
<1>1. PICK A \in SUBSET F : \E ready \in SUBSET A : Exchange(gone, c, A, ready, mutes)
  BY DEF Apply
<1>0. PICK ready \in SUBSET A : Exchange(gone, c, A, ready, mutes)
  BY <1>1
<1>9. /\ A \in SUBSET Filter /\ lost' \in Nat
      /\ \A f \in A : f \in reused' \/ owner[f] = TheLayer
      /\ \A x \in Content : carried'[x] \ reused' \subseteq carried[x] \ A
  BY DEF Apply, FilterInv, FiltersTypeOK
<1>2. /\ phase'[c] = "live"
      /\ \/ q.transition /\ ~Empty /\ Shown' = Shown \cup {c} /\ phase' = ph
         \/ (~q.transition \/ Empty) /\ Shown' = {c}
      /\ \A x \in Content : phase[x] = "live" /\ phase'[x] # "live" =>
           ~Empty /\ x = Oldest /\ ~q.transition
  BY AcceptShown
<1>3. Shown \subseteq Content /\ (~Empty => Oldest \in Content)
  BY ChainFacts DEF Shown
<1>4. gone \in SUBSET Filter /\ gone \subseteq Cleared
  BY <1>3 DEF Cleared, FilterInv, FiltersTypeOK
<1>5. filters[c] = {}
  BY DEF FilterInv, OnlyLiveHold
<1>6. \A x \in Shown' : \/ filters[x] = {}
                        \/ x \in Shown /\ (gone = {} \/ x # Oldest)
  BY <1>2, <1>5
<1>7. \A x \in Content : phase[x] = "live" /\ phase'[x] # "live" =>
        ~Empty /\ x = Oldest /\ gone = Cleared
  BY <1>2
<1>8. Shown' \subseteq Content
  BY <1>2, <1>3
<1> HIDE DEF gone
<1> QED BY <1>0, <1>2, <1>3, <1>4, <1>6, <1>7, <1>8, <1>9, ExchangeKeeps

\* Every step of the layer with its filters is a step of the layer, or leaves
\* it as it was.
LEMMA StepOfLayer == [FNext]_allVars => [Next]_vars
BY DEF FNext, allVars, FLoad, FLoadDevice, FLoadTwice, FAnswer, FFail, FEndTransition, FDispose,
       AddFilter, RemoveFilter, MuteFilter, ForgetFilter, Next, LoadSome

\* At first no content has filters, and no settings are under way.
LEMMA FilterInit == FInit => FilterInv
BY DEF FInit, Init, FilterInv, FiltersTypeOK, Owned, CarriedOnce, OnlyLiveHold, ShownCovered,
       Shown

\* The filters the user may load or drop are nobody's.
LEMMA FreshFacts ==
  ASSUME FilterInv, NEW F \in SUBSET Fresh
  PROVE  /\ F \in SUBSET Filter
         /\ \A f \in F : owner[f] = TheLayer
         /\ \A c \in Content : carried[c] \cap F = {}
         /\ \A c \in Content : filters[c] \cap F \subseteq reused
<1>1. F \in SUBSET Filter /\ \A f \in F : owner[f] = TheLayer
  BY DEF Fresh
<1>2. \A c \in Content : carried[c] \cap F = {}
  BY DEF Fresh, Carried
<1>3. \A c \in Content : filters[c] \cap F \subseteq reused
  BY <1>1, LayerAssumption DEF FilterInv, Owned
<1> QED BY <1>1, <1>2, <1>3

\* Every step keeps the invariant.
LEMMA FilterNext ==
  ASSUME LayerInv, FilterInv, [FNext]_allVars
  PROVE  FilterInv'
<1> USE LayerAssumption, FilterAssumption
<1>0. /\ FiltersTypeOK /\ Owned /\ CarriedOnce /\ OnlyLiveHold /\ ShownCovered
      /\ filters \in [Content -> SUBSET Filter] /\ carried \in [Content -> SUBSET Filter]
      /\ owner \in [Filter -> Content \cup {TheLayer}]
      /\ muted \in SUBSET Filter /\ reused \in SUBSET Filter /\ dead \in SUBSET Filter
      /\ pane \in SUBSET Filter /\ paneMuted \in SUBSET Filter
      /\ thrown \in SUBSET Filter /\ mutedInFade \in SUBSET Filter /\ lost \in Nat
      /\ phase \in [Content -> Phases] /\ query \in [Content -> Queries]
  BY DEF FilterInv, FiltersTypeOK, LayerInv, TypeOK
<1>1. ASSUME NEW F \in SUBSET Fresh, NEW M \in SUBSET F, NEW c \in Content, NEW q \in Requests,
             FLoad(c, q, F, M)
      PROVE  FilterInv'
  <2>1. /\ phase' = [phase EXCEPT ![c] = "loading"] /\ phase[c] # "live" /\ chain' = chain
        /\ carried' = [carried EXCEPT ![c] = F] /\ muted' = muted \cup M
        /\ UNCHANGED <<filters, owner, dead, pane, paneMuted, reused, thrown, mutedInFade,
                       lost>>
    BY <1>1 DEF FLoad, Load
  <2>2. /\ F \in SUBSET Filter
        /\ \A f \in F : owner[f] = TheLayer
        /\ \A x \in Content : carried[x] \cap F = {}
    BY FreshFacts
  <2>3. FiltersTypeOK'
    BY <1>0, <2>1, <2>2 DEF FiltersTypeOK
  <2>4. CarriedOnce'
    BY <1>0, <2>1, <2>2 DEF CarriedOnce
  <2>5. OnlyLiveHold'
    BY <1>0, <2>1 DEF OnlyLiveHold
  <2>6. Owned' /\ ShownCovered'
    BY <1>0, <2>1 DEF Owned, ShownCovered, Shown
  <2> QED BY <2>3, <2>4, <2>5, <2>6 DEF FilterInv
<1>2. ASSUME NEW F \in SUBSET Fresh, NEW M \in SUBSET F, NEW c \in Content, NEW q \in Requests,
             FLoadDevice(c, q, F, M)
      PROVE  FilterInv'
  <2> DEFINE ph == [phase EXCEPT ![c] = "live"]
             mutes == muted \cup M
  <2>1. /\ ph \in [Content -> Phases] /\ ph[c] = "live" /\ phase[c] # "live"
        /\ \A x \in Content : phase[x] = "live" => ph[x] = "live"
    BY <1>0, <1>2 DEF FLoadDevice, LoadDevice, Phases
  <2>2. /\ Accept(c, q, ph) /\ q \in Queries
        /\ Apply(c, q, F, mutes) /\ carried' = carried /\ reused' = reused
    BY <1>2, RequestsType DEF FLoadDevice, LoadDevice
  <2>3. /\ F \in SUBSET Filter /\ mutes \in SUBSET Filter
        /\ \A f \in F : owner[f] = TheLayer
        /\ \A x \in Content : carried[x] \cap F = {}
    BY <1>0, FreshFacts
  <2>4. \A x \in Content : carried'[x] \ reused' \subseteq carried[x] \ F
    BY <2>2, <2>3
  <2> HIDE DEF ph, mutes
  <2> QED BY <1>0, <2>1, <2>2, <2>3, <2>4, ApplyKeeps
<1>3. ASSUME NEW F \in SUBSET Fresh, NEW M \in SUBSET F, NEW c \in Content, NEW d \in Content,
             NEW q \in Requests, FLoadTwice(c, d, q, F, M)
      PROVE  FilterInv'
  <2> DEFINE ph == [phase EXCEPT ![c] = "live", ![d] = "loading"]
             mutes == muted \cup M
  <2>1. /\ ph \in [Content -> Phases] /\ ph[c] = "live" /\ phase[c] # "live"
        /\ \A x \in Content : phase[x] = "live" => ph[x] = "live"
    BY <1>0, <1>3 DEF FLoadTwice, LoadTwice, Phases
  <2>2. /\ Accept(c, q, ph) /\ q \in Queries
        /\ Apply(c, q, F, mutes)
        /\ carried' = [carried EXCEPT ![d] = F] /\ reused' = reused \cup F
    BY <1>3, RequestsType DEF FLoadTwice, LoadTwice
  <2>3. F \in SUBSET Filter /\ mutes \in SUBSET Filter
    BY <1>0, FreshFacts
  <2>4. /\ carried' \in [Content -> SUBSET Filter] /\ reused' \in SUBSET Filter
        /\ reused \subseteq reused' /\ \A f \in F : f \in reused'
    BY <1>0, <2>2, <2>3
  <2>5. \A x \in Content : carried'[x] \ reused' \subseteq carried[x] \ F
    <3> SUFFICES ASSUME NEW x \in Content, NEW f \in carried'[x], f \notin reused'
                 PROVE  f \in carried[x] /\ f \notin F
      OBVIOUS
    <3>1. f \notin F /\ x # d /\ f \in carried[x]
      BY <1>0, <2>2
    <3> QED BY <3>1
  <2> HIDE DEF ph, mutes
  <2> QED BY <2>1, <2>2, <2>3, <2>4, <2>5, ApplyKeeps
<1>4. ASSUME NEW c \in Content, FAnswer(c) PROVE FilterInv'
  <2> DEFINE ph == [phase EXCEPT ![c] = "live"]
             F == carried[c]
  <2>1. /\ ph \in [Content -> Phases] /\ ph[c] = "live" /\ phase[c] # "live"
        /\ \A x \in Content : phase[x] = "live" => ph[x] = "live"
    BY <1>0, <1>4 DEF FAnswer, Answer, Phases
  <2>2. /\ Accept(c, query[c], ph) /\ query[c] \in Queries
        /\ Apply(c, query[c], F, muted)
        /\ carried' = [carried EXCEPT ![c] = {}] /\ reused' = reused
    BY <1>0, <1>4 DEF FAnswer, Answer
  <2>3. F \in SUBSET Filter /\ \A f \in F : f \in reused' \/ owner[f] = TheLayer
    BY <1>0, <2>2 DEF CarriedOnce
  <2>4. carried' \in [Content -> SUBSET Filter]
    BY <1>0, <2>2
  <2>5. \A x \in Content : carried'[x] \ reused' \subseteq carried[x] \ F
    <3> SUFFICES ASSUME NEW x \in Content, NEW f \in carried'[x]
                 PROVE  f \in carried[x] /\ (f \in F => f \in reused)
      BY <2>2
    <3>1. x # c /\ f \in carried[x]
      BY <1>0, <2>2
    <3>2. f \in F => f \in reused
      BY <1>0, <3>1 DEF CarriedOnce
    <3> QED BY <3>1, <3>2
  <2> HIDE DEF ph, F
  <2> QED BY <1>0, <2>1, <2>2, <2>3, <2>4, <2>5, ApplyKeeps
<1>5. ASSUME NEW c \in Content, FFail(c) PROVE FilterInv'
  <2>1. /\ \A x \in Content : phase'[x] # "live" => phase[x] # "live"
        /\ chain' = chain
        /\ carried' = [carried EXCEPT ![c] = {}]
        /\ UNCHANGED <<filters, owner, dead, muted, pane, paneMuted, reused, thrown,
                       mutedInFade, lost>>
    BY <1>0, <1>5 DEF FFail, Fail
  <2>2. FiltersTypeOK'
    BY <1>0, <2>1 DEF FiltersTypeOK
  <2>3. CarriedOnce'
    BY <1>0, <2>1 DEF CarriedOnce
  <2>4. OnlyLiveHold' /\ Owned' /\ ShownCovered'
    BY <1>0, <2>1 DEF OnlyLiveHold, Owned, ShownCovered, Shown
  <2> QED BY <2>2, <2>3, <2>4 DEF FilterInv
<1>6. ASSUME NEW k \in DOMAIN chain, FEndTransition(k) PROVE FilterInv'
  <2>1. /\ k \in 2..Len(chain) /\ chain' = <<chain[k]>> /\ phase' = Destroyed(phase)
        /\ Exchange(Cleared, chain[k], {}, {}, muted)
        /\ carried' = carried /\ reused' = reused /\ lost' = lost
    BY <1>6 DEF FEndTransition, EndTransition, CreateContent
  <2>2. /\ ~Empty /\ Oldest \in Content /\ chain[k] \in Content /\ chain[k] # Oldest
        /\ chain[k] \in Shown /\ Shown' = {chain[k]} /\ phase[chain[k]] = "live"
    BY <2>1, ChainFacts DEF LayerInv, ShownAlive, Oldest, Shown
  <2>3. \A x \in Content : phase'[x] = IF x = Oldest THEN "disposed" ELSE phase[x]
    BY <1>0, <2>1, <2>2 DEF Destroyed
  <2>4. Cleared \in SUBSET Filter
    BY <1>0, <2>2 DEF Cleared
  <2>5. /\ phase'[chain[k]] = "live"
        /\ \A x \in Content : phase[x] = "live" /\ phase'[x] # "live" =>
             ~Empty /\ x = Oldest
    BY <2>2, <2>3
  <2>6. \A x \in Content : carried'[x] \ reused' \subseteq carried[x] \ {}
    BY <2>1
  <2>7. \A x \in Shown' : x \in Shown /\ x # Oldest
    BY <2>2
  <2> DEFINE F == {}
  <2>8. F \in SUBSET Filter /\ \A f \in F : f \in reused' \/ owner[f] = TheLayer
    OBVIOUS
  <2> QED BY <1>0, <2>1, <2>2, <2>4, <2>5, <2>6, <2>7, <2>8, ExchangeKeeps
<1>7. ASSUME FDispose PROVE FilterInv'
  <2>1. /\ chain' = <<>> /\ phase' = Destroyed(phase)
        /\ filters' = IF Empty THEN filters ELSE [filters EXCEPT ![Oldest] = {}]
        /\ dead' = dead \cup Cleared
        /\ pane' = (pane \ Cleared) \cup {}
        /\ paneMuted' = (paneMuted \ (Cleared \cup {})) \cup ({} \cap muted)
        /\ mutedInFade' = mutedInFade \ (Cleared \cup {})
        /\ UNCHANGED <<owner, muted, carried, reused, thrown, lost>>
    BY <1>7 DEF FDispose, Dispose, Registered
  <2>2. ~Empty => Oldest \in Content
    BY ChainFacts
  <2>3. \A x \in Content : /\ phase'[x] = IF ~Empty /\ x = Oldest THEN "disposed" ELSE phase[x]
                           /\ filters'[x] = IF ~Empty /\ x = Oldest THEN {} ELSE filters[x]
    BY <1>0, <2>1, <2>2 DEF Destroyed
  <2>4. Cleared \in SUBSET Filter
    BY <1>0, <2>2 DEF Cleared
  <2>5. FiltersTypeOK'
    BY <1>0, <2>1, <2>2, <2>4 DEF FiltersTypeOK
  <2>6. Owned' /\ CarriedOnce' /\ OnlyLiveHold'
    BY <1>0, <2>1, <2>3 DEF Owned, CarriedOnce, OnlyLiveHold
  <2>7. ShownCovered'
    BY <2>1 DEF ShownCovered, Shown
  <2> QED BY <2>5, <2>6, <2>7 DEF FilterInv
<1>8. ASSUME NEW f \in Filter, AddFilter(f) PROVE FilterInv'
  <2>1. /\ ~Empty /\ f \in Fresh
        /\ \E ready \in SUBSET {f} : Exchange({}, Newest, {f}, ready, muted)
        /\ UNCHANGED <<chain, phase, carried, reused, lost>>
    BY <1>8 DEF AddFilter, vars
  <2>2. /\ Newest \in Content /\ Newest \in Shown /\ phase[Newest] = "live"
        /\ Oldest \in Content /\ Shown \subseteq Content
    BY <2>1, ChainFacts DEF Newest, Shown
  <2>3. /\ owner[f] = TheLayer
        /\ \A x \in Content : carried[x] \cap {f} = {}
    BY <2>1 DEF Fresh, Carried
  <2>4. Shown' = Shown /\ phase' = phase
    BY <2>1 DEF Shown
  <2>5. \A x \in Content : carried'[x] \ reused' \subseteq carried[x] \ {f}
    BY <2>1, <2>3
  <2> DEFINE F == {f}
             gone == {}
  <2>6. /\ F \in SUBSET Filter /\ gone \in SUBSET Filter /\ gone \subseteq Cleared
        /\ \A g \in F : owner[g] = TheLayer
    BY <2>3
  <2>7. PICK ready \in SUBSET F : Exchange(gone, Newest, F, ready, muted)
    BY <2>1
  <2> QED BY <1>0, <2>1, <2>2, <2>4, <2>5, <2>6, <2>7, ExchangeKeeps
<1>9. ASSUME NEW f \in Filter, RemoveFilter(f) PROVE FilterInv'
  <2> DEFINE c == owner[f]
  <2>1. /\ filters' = [filters EXCEPT ![c] = @ \ {f}]
        /\ f \in filters[c]
        /\ dead' = dead \cup {f}
        /\ \/ c \in Shown /\ pane' = pane \ {f} /\ paneMuted' = paneMuted \ {f}
           \/ c \notin Shown /\ UNCHANGED <<pane, paneMuted>>
        /\ mutedInFade' \subseteq mutedInFade
        /\ UNCHANGED <<chain, phase, owner, muted, carried, reused, thrown, lost>>
    <3>1. IF HeardRemoved(c) THEN Registered({f}, {}, muted)
          ELSE UNCHANGED <<pane, paneMuted, mutedInFade>>
      BY <1>9 DEF RemoveFilter
    <3>2. CASE c \in Shown
      BY <1>9, <3>1, <3>2 DEF RemoveFilter, HeardRemoved, Registered, vars
    <3>3. CASE c \notin Shown
      BY <1>9, <3>1, <3>3 DEF RemoveFilter, HeardRemoved, vars
    <3> QED BY <3>2, <3>3
  <2>2. c \in Content \/ c = TheLayer
    BY <1>0
  <2>3. \A x \in Content : filters'[x] = IF x = c THEN filters[x] \ {f} ELSE filters[x]
    BY <1>0, <2>1
  <2>4. FiltersTypeOK'
    <3>1. \A x \in Content : filters[x] \ {f} \in SUBSET Filter
      BY <1>0
    <3>2. c \in DOMAIN filters => filters[c] \ {f} \in SUBSET Filter
      BY <1>0, <3>1
    <3>3. filters' \in [Content -> SUBSET Filter]
      BY <1>0, <2>1, <3>2
    <3> QED BY <1>0, <2>1, <3>3 DEF FiltersTypeOK
  <2>5. Owned' /\ CarriedOnce' /\ OnlyLiveHold'
    BY <1>0, <2>1, <2>3 DEF Owned, CarriedOnce, OnlyLiveHold
  <2>6. ShownCovered'
    <3> SUFFICES ASSUME NEW x \in Shown, NEW g \in filters'[x], g \notin reused
                 PROVE  g \in pane' \cup thrown
      BY <2>1 DEF ShownCovered, Shown
    <3>1. x \in Content
      BY ChainFacts DEF Shown
    <3>2. g \in filters[x] /\ (x = c => g # f)
      BY <2>3, <3>1
    <3>3. g \in pane \cup thrown /\ owner[g] = x
      <4>1. Owned /\ ShownCovered
        BY <1>0
      <4> QED BY <3>1, <3>2, <4>1 DEF ShownCovered, Owned
    <3>4. g # f
      BY <3>2, <3>3
    <3> QED BY <2>1, <3>3, <3>4
  <2> QED BY <2>4, <2>5, <2>6 DEF FilterInv
<1>10. ASSUME NEW f \in Filter, MuteFilter(f) PROVE FilterInv'
  <2>1. /\ muted' \in SUBSET Filter /\ paneMuted' \in SUBSET Filter
        /\ mutedInFade' \in SUBSET Filter
        /\ UNCHANGED <<chain, phase, filters, owner, dead, carried, pane, reused, thrown, lost>>
    BY <1>0, <1>10 DEF MuteFilter, Redrawn, vars
  <2> QED BY <1>0, <2>1 DEF FilterInv, FiltersTypeOK, Owned, CarriedOnce, OnlyLiveHold,
                            ShownCovered, Shown
<1>11. ASSUME NEW f \in Filter, ForgetFilter(f) PROVE FilterInv'
  <2>1. /\ f \notin Carried /\ f \notin pane
        /\ \A c \in Content : f \notin filters[c]
        /\ owner' = [owner EXCEPT ![f] = TheLayer]
        /\ dead' = dead \ {f} /\ muted' = muted \ {f} /\ reused' = reused \ {f}
        /\ thrown' = thrown \ {f} /\ mutedInFade' = mutedInFade \ {f}
        /\ UNCHANGED <<chain, phase, filters, carried, pane, paneMuted, lost>>
    BY <1>11 DEF ForgetFilter, vars
  <2>2. \A c \in Content : f \notin carried[c]
    BY <2>1 DEF Carried
  <2>3. \A g \in Filter : g # f => owner'[g] = owner[g]
    BY <1>0, <2>1
  <2>4. FiltersTypeOK'
    BY <1>0, <2>1 DEF FiltersTypeOK
  <2>5. Owned' /\ CarriedOnce'
    BY <1>0, <2>1, <2>2, <2>3 DEF Owned, CarriedOnce
  <2>6. OnlyLiveHold' /\ ShownCovered'
    BY <1>0, <2>1, ChainFacts DEF OnlyLiveHold, ShownCovered, Shown
  <2> QED BY <2>4, <2>5, <2>6 DEF FilterInv
<1>12. ASSUME NEW c \in Content, Forget(c), UNCHANGED filterVars PROVE FilterInv'
  <2>1. /\ phase[c] # "live" /\ phase' = [phase EXCEPT ![c] = "unborn"] /\ chain' = chain
        /\ UNCHANGED <<filters, owner, dead, muted, carried, pane, paneMuted, reused, thrown,
                       mutedInFade, lost>>
    BY <1>12 DEF Forget, filterVars
  <2> QED BY <1>0, <2>1 DEF FilterInv, FiltersTypeOK, Owned, CarriedOnce, OnlyLiveHold,
                            ShownCovered, Shown
<1>13. ASSUME UNCHANGED <<chain, phase>>, UNCHANGED filterVars PROVE FilterInv'
  BY <1>0, <1>13 DEF filterVars, FilterInv, FiltersTypeOK, Owned, CarriedOnce, OnlyLiveHold,
                     ShownCovered, Shown
<1>14. ASSUME NEW b \in BOOLEAN, SetVisible(b), UNCHANGED filterVars PROVE FilterInv'
  BY <1>13, <1>14 DEF SetVisible, contentVars
<1>15. CASE UNCHANGED allVars
  BY <1>13, <1>15 DEF allVars, vars
<1> QED
  BY <1>1, <1>2, <1>3, <1>4, <1>5, <1>6, <1>7, <1>8, <1>9, <1>10, <1>11, <1>12, <1>14, <1>15
  DEF FNext

-----------------------------------------------------------------------------
\* A layer with its filters is a layer: what holds of every behaviour of Layer
\* holds of every behaviour of LayerFilters.
THEOREM FiltersAreOverLayer == FSpec => Spec
<1>1. FInit => Init
  BY DEF FInit
<1> QED BY <1>1, StepOfLayer, PTL DEF FSpec, Spec

\* The invariants of the layer and of its filters hold in every behaviour, also
\* when a filter that throws ends the addition of its settings' filters.
THEOREM FilterInvariant == FSpec => [](LayerInv /\ FilterInv)
<1>1. FInit => LayerInv /\ FilterInv
  BY InitInv, FilterInit DEF FInit
<1>2. LayerInv /\ FilterInv /\ [FNext]_allVars => LayerInv' /\ FilterInv'
  BY StepOfLayer, NextInv, FilterNext
<1> QED BY <1>1, <1>2, PTL DEF FSpec

\* Whatever loads, transitions and deletes overlap, and wherever filters throw, the
\* user has a control for every filter of the newest content but those that threw
\* when they were initialized and those of a load that is answered twice.
THEOREM NewestIsCovered == FSpec => []PaneCoversNewest
<1>1. LayerInv /\ FilterInv => PaneCoversNewest
  <2> SUFFICES ASSUME LayerInv, FilterInv, ~Empty
               PROVE  filters[Newest] \subseteq pane \cup reused \cup thrown
    BY DEF PaneCoversNewest
  <2>1. Newest \in Shown
    BY ChainFacts DEF Newest, Shown
  <2> QED BY <2>1 DEF FilterInv, ShownCovered
<1> QED BY <1>1, FilterInvariant, PTL

\* A content that comes in is counted once, unless its LAYER_LOADED is lost: then
\* the loss is counted.
LEMMA ApplyCounts ==
  ASSUME LayerInv, FilterInv, AnnouncedUnlessLost, NEW c \in Content, NEW q \in Queries,
         NEW ph, Accept(c, q, ph), NEW F, NEW mutes, Apply(c, q, F, mutes)
  PROVE  AnnouncedUnlessLost'
<1>1. /\ lost \in Nat /\ announced \in Int /\ chain \in Seq(Content)
      /\ announced + lost = IF Empty THEN 0 ELSE 1
  BY DEF LayerInv, TypeOK, FilterInv, FiltersTypeOK, AnnouncedUnlessLost
<1>2. CASE q.transition /\ ~Empty
  <2>1. announced' = announced /\ chain' = Append(chain, c) /\ lost' = lost
    BY <1>2 DEF Accept, CreateTransition, Apply
  <2>2. ~Empty'
    BY <1>1, <2>1, PushFacts DEF Empty
  <2> QED BY <1>1, <1>2, <2>1, <2>2 DEF AnnouncedUnlessLost
<1>3. CASE ~(q.transition /\ ~Empty)
  <2>1. chain' = <<c>>
    BY <1>3 DEF Accept, CreateContent
  <2>2. Unloaded = -lost
    BY <1>1 DEF Unloaded
  <2>3. \/ announced' = Unloaded + 1 /\ lost' = lost
        \/ announced' = Unloaded /\ lost' = lost + 1
    BY <1>3 DEF Apply
  <2>4. announced' + lost' = 1
    BY <1>1, <2>2, <2>3
  <2> QED BY <2>1, <2>4 DEF AnnouncedUnlessLost, Empty
<1> QED BY <1>2, <1>3

\* Whatever loads, answers, transitions' ends and deletes overlap, and wherever
\* filters throw, the display's count is short of exactly the LAYER_LOADED events
\* that were lost: no other is missing, and none is sent twice.
THEOREM OnlyLostAreMissing == FSpec => []AnnouncedUnlessLost
<1>1. FInit => AnnouncedUnlessLost
  BY DEF FInit, Init, AnnouncedUnlessLost, Empty
<1>2. ASSUME LayerInv, FilterInv, AnnouncedUnlessLost, [FNext]_allVars
      PROVE  AnnouncedUnlessLost'
  <2>0. /\ lost \in Nat /\ announced \in Int /\ phase \in [Content -> Phases]
        /\ query \in [Content -> Queries]
        /\ announced + lost = IF Empty THEN 0 ELSE 1
    BY <1>2 DEF LayerInv, TypeOK, FilterInv, FiltersTypeOK, AnnouncedUnlessLost
  <2>a. ASSUME UNCHANGED <<chain, announced, lost>> PROVE AnnouncedUnlessLost'
    BY <1>2, <2>a DEF AnnouncedUnlessLost, Empty
  <2>1. ASSUME NEW F, NEW M, NEW c \in Content, NEW q \in Requests, FLoad(c, q, F, M)
        PROVE  AnnouncedUnlessLost'
    BY <2>1, <2>a DEF FLoad, Load
  <2>2. ASSUME NEW F, NEW M, NEW c \in Content, NEW q \in Requests, FLoadDevice(c, q, F, M)
        PROVE  AnnouncedUnlessLost'
    BY <1>2, <2>2, ApplyCounts, RequestsType DEF FLoadDevice, LoadDevice
  <2>3. ASSUME NEW F, NEW M, NEW c \in Content, NEW d \in Content, NEW q \in Requests,
               FLoadTwice(c, d, q, F, M)
        PROVE  AnnouncedUnlessLost'
    BY <1>2, <2>3, ApplyCounts, RequestsType DEF FLoadTwice, LoadTwice
  <2>4. ASSUME NEW c \in Content, FAnswer(c) PROVE AnnouncedUnlessLost'
    <3>1. Accept(c, query[c], [phase EXCEPT ![c] = "live"]) /\ query[c] \in Queries
      BY <2>0, <2>4 DEF FAnswer, Answer
    <3> QED BY <1>2, <2>4, <3>1, ApplyCounts DEF FAnswer
  <2>5. ASSUME NEW c \in Content, FFail(c) PROVE AnnouncedUnlessLost'
    BY <2>5, <2>a DEF FFail, Fail
  <2>6. ASSUME NEW k \in DOMAIN chain, FEndTransition(k) PROVE AnnouncedUnlessLost'
    <3>1. /\ k \in 2..Len(chain) /\ chain' = <<chain[k]>> /\ announced' = Unloaded + 1
          /\ lost' = lost
      BY <2>6 DEF FEndTransition, EndTransition, CreateContent
    <3>2. ~Empty
      BY <1>2, <3>1, ChainFacts
    <3>3. announced' + lost' = 1
      BY <2>0, <3>1, <3>2 DEF Unloaded
    <3> QED BY <3>1, <3>3 DEF AnnouncedUnlessLost, Empty
  <2>7. ASSUME FDispose PROVE AnnouncedUnlessLost'
    <3>1. chain' = <<>> /\ announced' = Unloaded /\ lost' = lost
      BY <2>7 DEF FDispose, Dispose
    <3> QED BY <2>0, <3>1 DEF Unloaded, AnnouncedUnlessLost, Empty
  <2>8. ASSUME NEW f \in Filter, AddFilter(f) \/ RemoveFilter(f) \/ MuteFilter(f) \/ ForgetFilter(f)
        PROVE  AnnouncedUnlessLost'
    BY <2>8, <2>a DEF AddFilter, RemoveFilter, MuteFilter, ForgetFilter, vars
  <2>9. ASSUME UNCHANGED filterVars,
               (\E c \in Content : Forget(c)) \/ (\E b \in BOOLEAN : SetVisible(b))
        PROVE  AnnouncedUnlessLost'
    BY <2>9, <2>a DEF Forget, SetVisible, contentVars, filterVars
  <2>10. CASE UNCHANGED allVars
    BY <2>10, <2>a DEF allVars, vars, filterVars
  <2> QED BY <1>2, <2>1, <2>2, <2>3, <2>4, <2>5, <2>6, <2>7, <2>8, <2>9, <2>10 DEF FNext
<1> QED BY <1>1, <1>2, FilterInvariant, PTL DEF FSpec

-----------------------------------------------------------------------------
(***************************************************************************)
(* The user who waits: the pane shows the layer's filters and no other.    *)
(***************************************************************************)
\* What is behind a calm user's layer: nothing, one content, or a content
\* faded out under the newest one; and only that is alive.
LEMMA CalmShown ==
  ASSUME CalmInv
  PROVE  /\ Shown = Live /\ Shown \subseteq Content
         /\ Empty => Shown = {}
         /\ ~Empty /\ ~InTransition => Shown = {Oldest}
         /\ InTransition => Shown = {Oldest, Newest} /\ Oldest # Newest /\ ~Empty
<1>1. /\ LayerInv /\ NoOrphan /\ OneTransition
      /\ DOMAIN chain = 1..Len(chain) /\ Len(chain) \in Nat
      /\ \A i \in 1..Len(chain) : chain[i] \in Content /\ phase[chain[i]] = "live"
      /\ Empty <=> Len(chain) = 0
  BY ChainFacts DEF CalmInv
<1>2. Shown = Live /\ Shown \subseteq Content
  BY <1>1 DEF Shown, Live, NoOrphan
<1>3. Empty => Shown = {}
  BY <1>1 DEF Shown
<1>4. ~Empty /\ ~InTransition => Shown = {Oldest}
  <2>1. ~Empty /\ ~InTransition => 1..Len(chain) = {1}
    BY <1>1 DEF InTransition
  <2> QED BY <1>1, <2>1 DEF Shown, Oldest
<1>5. InTransition => Shown = {Oldest, Newest} /\ Oldest # Newest /\ ~Empty
  <2> SUFFICES ASSUME InTransition PROVE Shown = {Oldest, Newest} /\ Oldest # Newest /\ ~Empty
    OBVIOUS
  <2>1. Len(chain) = 2
    BY <1>1 DEF InTransition, OneTransition
  <2>2. 1..2 = {1, 2}
    OBVIOUS
  <2>3. Shown = {Oldest, Newest}
    BY <1>1, <2>1, <2>2 DEF Shown, Oldest, Newest
  <2>4. Oldest # Newest
    BY <1>1, <2>1 DEF LayerInv, ShownAlive, Oldest, Newest
  <2> QED BY <1>1, <2>1, <2>3, <2>4
<1> QED BY <1>2, <1>3, <1>4, <1>5

\* Without loads answered twice, a filter is on one content, and a content that
\* is not behind the layer has none.
LEMMA CalmFilters ==
  ASSUME CalmInv, FilterInv, CalmPane
  PROVE  /\ \A c \in Content : \A f \in filters[c] : f \in Filter /\ owner[f] = c
         /\ \A c \in Content : \A f \in carried[c] : f \in Filter /\ owner[f] = TheLayer
         /\ \A c \in Content \ Shown : filters[c] = {}
         /\ \A f \in pane : owner[f] \in Shown /\ f \in filters[owner[f]] /\ owner[f] # TheLayer
         /\ pane \cap thrown = {}
         /\ \A c \in Shown : filters[c] \subseteq pane \cup thrown
         /\ paneMuted \subseteq pane
         /\ \A f \in pane \ mutedInFade : f \in paneMuted <=> f \in muted
<1>1. FiltersTypeOK /\ Owned /\ CarriedOnce /\ OnlyLiveHold /\ reused = {} /\ PaneMirrors
  BY DEF FilterInv, CalmPane
<1>2. \A c \in Content : filters[c] \in SUBSET Filter /\ carried[c] \in SUBSET Filter
  BY <1>1 DEF FiltersTypeOK
<1>3. \A c \in Content : \A f \in filters[c] : f \in Filter /\ owner[f] = c
  BY <1>1, <1>2 DEF Owned
<1>4. \A c \in Content : \A f \in carried[c] : f \in Filter /\ owner[f] = TheLayer
  BY <1>1, <1>2 DEF CarriedOnce
<1>5. Shown = Live /\ Shown \subseteq Content
  BY CalmShown
<1>6. \A c \in Content \ Shown : filters[c] = {}
  BY <1>1, <1>5 DEF OnlyLiveHold, Live
<1>7. /\ pane = Applied \ thrown
      /\ paneMuted \ mutedInFade = (pane \cap muted) \ mutedInFade
      /\ paneMuted \subseteq pane
  BY DEF CalmPane, PaneMirrors
<1>8. \A f \in pane : \E c \in Shown : f \in filters[c]
  BY <1>7 DEF Applied
<1>11. pane \cap thrown = {} /\ \A c \in Shown : filters[c] \subseteq pane \cup thrown
  BY <1>7 DEF Applied
<1>12. \A f \in pane \ mutedInFade : f \in paneMuted <=> f \in muted
  BY <1>7
<1>9. \A f \in pane : owner[f] \in Shown /\ f \in filters[owner[f]]
  BY <1>3, <1>5, <1>8
<1>10. TheLayer \notin Shown
  BY <1>5, LayerAssumption
<1> QED BY <1>3, <1>4, <1>6, <1>7, <1>9, <1>10, <1>11, <1>12

\* What the pane has to show after a step for it to mirror the layer.
LEMMA CalmPaneFacts ==
  ASSUME \A x \in Shown' : filters'[x] \subseteq pane' \cup thrown',
         \A f \in pane' : f \notin thrown' /\ \E x \in Shown' : f \in filters'[x],
         paneMuted' \subseteq pane',
         \A f \in pane' \ mutedInFade' : f \in paneMuted' <=> f \in muted'
  PROVE  PaneMirrors'
<1>1. \A f : f \in pane' <=> f \in Applied' \ thrown'
  BY DEF Applied
<1>2. \A f : f \in paneMuted' \ mutedInFade' <=> f \in (pane' \cap muted') \ mutedInFade'
  OBVIOUS
<1>3. pane' = Applied' \ thrown'
  BY <1>1
<1>4. paneMuted' \ mutedInFade' = (pane' \cap muted') \ mutedInFade'
  BY <1>2
<1> QED BY <1>3, <1>4 DEF PaneMirrors

\* A content comes in with its filters, or one fades out with its own: the pane
\* follows, and mutes drawn before stay as they are.
LEMMA CalmExchange ==
  ASSUME CalmInv, FilterInv, CalmPane, reused' = {},
         NEW c \in Content, NEW gone \in SUBSET Filter,
         NEW F \in SUBSET Filter, NEW ready \in SUBSET F, NEW mutes \in SUBSET Filter,
         Exchange(gone, c, F, ready, mutes),
         F \cap pane = {}, mutes \cap pane = muted \cap pane,
         c \in Shown', Shown' \subseteq Shown \cup {c},
         c \in Shown \/ filters[c] = {},
         ~Empty /\ Oldest \in Shown' => gone = {},
         \A x \in Shown \ Shown' : ~Empty /\ x = Oldest /\ gone = filters[x],
         gone = {} \/ gone = Cleared
  PROVE  CalmPane'
<1>0. FiltersTypeOK
  BY DEF FilterInv
<1>1. Exchanged(gone, c, F, ready, mutes)
  BY <1>0, ExchangeFacts
<1> USE DEF Exchanged
<1>2. /\ \A x \in Content : \A f \in filters[x] : f \in Filter /\ owner[f] = x
      /\ \A f \in pane : owner[f] \in Shown /\ f \in filters[owner[f]]
      /\ \A x \in Shown : filters[x] \subseteq pane \cup thrown
      /\ pane \cap thrown = {} /\ paneMuted \subseteq pane
      /\ \A f \in pane \ mutedInFade : f \in paneMuted <=> f \in muted
  BY CalmFilters
<1>3. Shown \subseteq Content /\ (~Empty => Oldest \in Shown)
  BY CalmShown
<1>4. \A f \in gone : ~Empty /\ f \in filters[Oldest] /\ owner[f] = Oldest /\ gone = filters[Oldest]
  BY <1>2, <1>3 DEF Cleared
<1>5. ASSUME NEW x \in Shown', NEW f \in filters'[x] PROVE f \in pane' \cup thrown'
  <2>1. CASE f \in F
    BY <1>1, <2>1
  <2>2. CASE f \notin F
    <3>1. f \in filters[x] /\ x \in Shown
      BY <1>1, <1>3, <2>2
    <3>2. f \in pane \cup thrown /\ owner[f] = x
      BY <1>2, <1>3, <3>1
    <3>3. f \notin gone
      BY <1>4, <3>2
    <3> QED BY <1>1, <3>2, <3>3
  <2> QED BY <2>1, <2>2
<1>6. ASSUME NEW f \in pane' PROVE f \notin thrown' /\ \E x \in Shown' : f \in filters'[x]
  <2>1. CASE f \in F
    BY <1>1, <2>1
  <2>2. CASE f \notin F
    <3>0. f \notin thrown'
      BY <1>1, <1>2, <2>2
    <3> DEFINE x == owner[f]
    <3>1. f \in pane /\ f \notin gone /\ x \in Shown /\ x \in Content /\ f \in filters[x]
      BY <1>1, <1>2, <1>3, <2>2
    <3>2. x \in Shown'
      BY <3>1
    <3>3. f \in filters'[x]
      BY <1>1, <3>1
    <3> QED BY <3>0, <3>2, <3>3
  <2> QED BY <2>1, <2>2
<1>7. paneMuted' \subseteq pane'
  BY <1>1, <1>2
<1>8. ASSUME NEW f \in pane' \ mutedInFade' PROVE f \in paneMuted' <=> f \in muted'
  <2>1. CASE f \in ready
    BY <1>1, <2>1
  <2>2. CASE f \notin ready
    <3>1. f \in pane /\ f \notin gone /\ f \notin mutedInFade
      BY <1>1, <1>8, <2>2
    <3> QED BY <1>1, <1>2, <2>2, <3>1
  <2> QED BY <2>1, <2>2
<1>9. PaneMirrors'
  <2>1. \A x \in Shown' : filters'[x] \subseteq pane' \cup thrown'
    BY <1>5
  <2> QED BY <1>6, <1>7, <1>8, <2>1, CalmPaneFacts
<1> QED BY <1>7, <1>9 DEF CalmPane

\* The content that comes in on a calm user's layer brings its filters into the
\* pane, and the one it replaces takes its own out.
LEMMA CalmApply ==
  ASSUME CalmInv, FilterInv, CalmPane, ~InTransition, reused' = {},
         NEW c \in Content, NEW q \in Queries, NEW ph \in [Content -> Phases],
         phase[c] # "live", ph[c] = "live",
         \A x \in Content : phase[x] = "live" => ph[x] = "live",
         Accept(c, q, ph),
         NEW F \in SUBSET Filter, NEW mutes \in SUBSET Filter, Apply(c, q, F, mutes),
         F \cap pane = {}, mutes \cap pane = muted \cap pane
  PROVE  CalmPane'
<1> DEFINE gone == IF q.transition THEN {} ELSE Cleared
<1>1. PICK A \in SUBSET F : \E ready \in SUBSET A : Exchange(gone, c, A, ready, mutes)
  BY DEF Apply
<1>0. PICK ready \in SUBSET A : Exchange(gone, c, A, ready, mutes)
  BY <1>1
<1>9. A \in SUBSET Filter /\ A \cap pane = {}
  OBVIOUS
<1>2. LayerInv /\ FiltersTypeOK /\ OnlyLiveHold
  BY DEF CalmInv, FilterInv
<1>3. \/ q.transition /\ ~Empty /\ Shown' = Shown \cup {c}
      \/ (~q.transition \/ Empty) /\ Shown' = {c}
  BY <1>2, AcceptShown
<1>4. /\ Shown \subseteq Content
      /\ Empty => Shown = {}
      /\ ~Empty => Shown = {Oldest}
  BY CalmShown
<1>5. /\ Empty => Cleared = {}
      /\ ~Empty => Cleared = filters[Oldest] /\ Oldest # c /\ Oldest \in Content
  BY <1>2, ChainFacts DEF Cleared
<1>6. gone \in SUBSET Filter /\ (gone = {} \/ gone = Cleared)
  BY <1>2, <1>5 DEF FiltersTypeOK
<1>7. filters[c] = {}
  BY <1>2 DEF OnlyLiveHold
<1>8. /\ c \in Shown' /\ Shown' \subseteq Shown \cup {c}
      /\ ~Empty /\ Oldest \in Shown' => gone = {}
      /\ \A x \in Shown \ Shown' : ~Empty /\ x = Oldest /\ gone = filters[x]
  BY <1>3, <1>4, <1>5
<1> HIDE DEF gone
<1> QED BY <1>0, <1>6, <1>7, <1>8, <1>9, CalmExchange

\* Every step of a calm user's layer keeps the pane a mirror of it.
LEMMA CalmPaneNext ==
  ASSUME CalmUser, CalmInv, FilterInv, CalmPane, [FNext]_allVars
  PROVE  CalmPane'
<1> USE LayerAssumption, FilterAssumption
<1>0. /\ FiltersTypeOK /\ reused = {} /\ LayerInv
      /\ filters \in [Content -> SUBSET Filter] /\ carried \in [Content -> SUBSET Filter]
      /\ owner \in [Filter -> Content \cup {TheLayer}]
      /\ muted \in SUBSET Filter
      /\ pane \in SUBSET Filter /\ paneMuted \in SUBSET Filter
      /\ phase \in [Content -> Phases] /\ query \in [Content -> Queries]
  BY DEF FilterInv, FiltersTypeOK, CalmPane, CalmInv, LayerInv, TypeOK
<1>a. /\ \A c \in Content : \A f \in filters[c] : f \in Filter /\ owner[f] = c
      /\ \A c \in Content : \A f \in carried[c] : f \in Filter /\ owner[f] = TheLayer
      /\ \A f \in pane : owner[f] \in Shown /\ f \in filters[owner[f]] /\ owner[f] # TheLayer
      /\ \A c \in Shown : filters[c] \subseteq pane \cup thrown
      /\ pane \cap thrown = {} /\ paneMuted \subseteq pane
      /\ \A f \in pane \ mutedInFade : f \in paneMuted <=> f \in muted
  BY CalmFilters
<1>b. Fresh \cap pane = {} /\ \A c \in Content : carried[c] \cap pane = {}
  BY <1>a DEF Fresh
<1>c. MayAct => ~InTransition
  BY DEF MayAct, Calm, CalmUser
<1>1. ASSUME NEW F \in SUBSET Fresh, NEW M \in SUBSET F, NEW c \in Content, NEW q \in Requests,
             FLoad(c, q, F, M)
      PROVE  CalmPane'
  <2>1. /\ chain' = chain /\ muted' = muted \cup M
        /\ UNCHANGED <<filters, pane, paneMuted, reused, thrown, mutedInFade>>
    BY <1>1 DEF FLoad, Load
  <2>2. pane \cap muted' = pane \cap muted
    BY <1>b, <2>1
  <2> QED BY <2>1, <2>2 DEF CalmPane, PaneMirrors, Applied, Shown
<1>2. ASSUME NEW F \in SUBSET Fresh, NEW M \in SUBSET F, NEW c \in Content, NEW q \in Requests,
             FLoadDevice(c, q, F, M)
      PROVE  CalmPane'
  <2> DEFINE ph == [phase EXCEPT ![c] = "live"]
             mutes == muted \cup M
  <2>1. /\ ph \in [Content -> Phases] /\ ph[c] = "live" /\ phase[c] # "live"
        /\ \A x \in Content : phase[x] = "live" => ph[x] = "live"
    BY <1>0, <1>2 DEF FLoadDevice, LoadDevice, Phases
  <2>2. /\ Accept(c, q, ph) /\ q \in Queries /\ ~InTransition
        /\ Apply(c, q, F, mutes) /\ reused' = {}
    BY <1>0, <1>2, <1>c, RequestsType DEF FLoadDevice, LoadDevice
  <2>3. F \in SUBSET Filter /\ mutes \in SUBSET Filter
    BY <1>0, FreshFacts
  <2>4. F \cap pane = {} /\ mutes \cap pane = muted \cap pane
    BY <1>b
  <2> HIDE DEF ph, mutes
  <2> QED BY <2>1, <2>2, <2>3, <2>4, CalmApply
<1>3. ASSUME NEW F \in SUBSET Fresh, NEW M \in SUBSET F, NEW c \in Content, NEW d \in Content,
             NEW q \in Requests, FLoadTwice(c, d, q, F, M)
      PROVE  FALSE
  BY <1>3 DEF FLoadTwice, LoadTwice, CalmUser, Requests
<1>4. ASSUME NEW c \in Content, FAnswer(c) PROVE CalmPane'
  <2> DEFINE ph == [phase EXCEPT ![c] = "live"]
             F == carried[c]
  <2>1. /\ ph \in [Content -> Phases] /\ ph[c] = "live" /\ phase[c] # "live"
        /\ \A x \in Content : phase[x] = "live" => ph[x] = "live"
    BY <1>0, <1>4 DEF FAnswer, Answer, Phases
  <2>2. /\ Accept(c, query[c], ph) /\ query[c] \in Queries
        /\ Apply(c, query[c], F, muted) /\ reused' = {}
    BY <1>0, <1>4 DEF FAnswer, Answer
  <2>3. ~InTransition
    BY <1>4 DEF FAnswer, Answer, CalmInv, OneLoad, Loading
  <2>4. F \in SUBSET Filter /\ F \cap pane = {}
    BY <1>0, <1>b
  <2> HIDE DEF ph, F
  <2> QED BY <1>0, <2>1, <2>2, <2>3, <2>4, CalmApply
<1>5. ASSUME NEW c \in Content, FFail(c) PROVE CalmPane'
  <2>1. chain' = chain /\ UNCHANGED <<filters, muted, pane, paneMuted, reused, thrown, mutedInFade>>
    BY <1>5 DEF FFail, Fail
  <2> QED BY <2>1 DEF CalmPane, PaneMirrors, Applied, Shown
<1>6. ASSUME NEW k \in DOMAIN chain, FEndTransition(k) PROVE CalmPane'
  <2>1. /\ k \in 2..Len(chain) /\ chain' = <<chain[k]>>
        /\ Exchange(Cleared, chain[k], {}, {}, muted) /\ reused' = {}
    BY <1>0, <1>6 DEF FEndTransition, EndTransition, CreateContent
  <2>2. InTransition /\ chain[k] = Newest
    BY <1>0, <2>1, ChainFacts DEF InTransition, CalmInv, OneTransition, Newest
  <2>3. /\ Shown = {Oldest, Newest} /\ Oldest # Newest /\ ~Empty /\ Shown \subseteq Content
        /\ Shown' = {Newest}
    BY <2>1, <2>2, CalmShown DEF Shown
  <2>4. /\ Cleared \in SUBSET Filter /\ Cleared = filters[Oldest]
        /\ Oldest \in Content /\ Newest \in Content
    BY <1>0, <2>3 DEF Cleared
  <2> DEFINE F == {}
             c == Newest
  <2>5. /\ F \in SUBSET Filter /\ F \cap pane = {} /\ Exchange(Cleared, c, F, F, muted)
        /\ F \in SUBSET F
        /\ c \in Shown' /\ Shown' \subseteq Shown \cup {c} /\ c \in Shown /\ c \in Content
        /\ ~(Oldest \in Shown')
        /\ \A x \in Shown \ Shown' : ~Empty /\ x = Oldest /\ Cleared = filters[x]
    BY <2>1, <2>2, <2>3, <2>4
  <2> HIDE DEF F, c
  <2> QED BY <1>0, <2>1, <2>4, <2>5, CalmExchange
<1>7. ASSUME FDispose PROVE CalmPane'
  <2>1. /\ chain' = <<>> /\ ~InTransition
        /\ pane' = (pane \ Cleared) \cup {}
        /\ paneMuted' = (paneMuted \ (Cleared \cup {})) \cup ({} \cap muted)
        /\ muted' = muted /\ reused' = {}
    BY <1>0, <1>7, <1>c DEF FDispose, Dispose, Registered
  <2>2. pane \subseteq Cleared
    BY <1>a, <2>1, CalmShown DEF Cleared
  <2>3. pane' = {} /\ paneMuted' = {} /\ Shown' = {}
    BY <1>a, <2>1, <2>2 DEF Shown
  <2>4. PaneMirrors'
    BY <2>3 DEF PaneMirrors, Applied
  <2> QED BY <2>1, <2>3, <2>4 DEF CalmPane
<1>8. ASSUME NEW f \in Filter, AddFilter(f) PROVE CalmPane'
  <2>1. /\ ~Empty /\ f \in Fresh
        /\ \E ready \in SUBSET {f} : Exchange({}, Newest, {f}, ready, muted)
        /\ chain' = chain /\ reused' = {}
    BY <1>0, <1>8 DEF AddFilter, vars
  <2>2. Shown' = Shown /\ Newest \in Shown /\ Newest \in Content
    BY <1>0, <2>1, ChainFacts DEF Shown, Newest
  <2> DEFINE F == {f}
             gone == {}
             c == Newest
  <2>3. /\ F \in SUBSET Filter /\ gone \in SUBSET Filter /\ gone = {}
        /\ F \cap pane = {} /\ \E ready \in SUBSET F : Exchange(gone, c, F, ready, muted)
        /\ c \in Content /\ c \in Shown' /\ c \in Shown /\ Shown' \subseteq Shown \cup {c}
        /\ Shown \ Shown' = {}
    BY <1>b, <2>1, <2>2
  <2> HIDE DEF F, gone, c
  <2>4. PICK ready \in SUBSET F : Exchange(gone, c, F, ready, muted)
    BY <2>3
  <2> QED BY <1>0, <2>1, <2>3, <2>4, CalmExchange
<1>9. ASSUME NEW f \in Filter, RemoveFilter(f) PROVE CalmPane'
  <2> DEFINE c == owner[f]
  <2>1. c \in Shown /\ c \in Content /\ f \in filters[c]
    BY <1>9, <1>a, CalmShown DEF RemoveFilter
  <2>2. Registered({f}, {}, muted)
    BY <1>9, <2>1 DEF RemoveFilter, HeardRemoved
  <2>3. /\ filters' = [filters EXCEPT ![c] = @ \ {f}]
        /\ pane' = (pane \ {f}) \cup {}
        /\ paneMuted' = (paneMuted \ ({f} \cup {})) \cup ({} \cap muted)
        /\ mutedInFade' = mutedInFade \ ({f} \cup {}) /\ thrown' = thrown
        /\ chain' = chain /\ owner' = owner /\ muted' = muted /\ reused' = {}
    BY <1>0, <1>9, <2>2 DEF RemoveFilter, Registered, vars
  <2>4. \A x \in Content : filters'[x] = IF x = c THEN filters[x] \ {f} ELSE filters[x]
    BY <1>0, <2>3
  <2>5. Shown' = Shown /\ Shown \subseteq Content
    BY <2>3, CalmShown DEF Shown
  <2>6. \A x \in Shown' : filters'[x] \subseteq pane' \cup thrown'
    <3> SUFFICES ASSUME NEW x \in Shown, NEW g \in filters'[x] PROVE g \in pane \cup thrown /\ g # f
      BY <2>3, <2>5
    <3>1. x \in Content /\ g \in filters[x]
      BY <2>4, <2>5
    <3>2. owner[g] = x /\ g \in pane \cup thrown
      BY <1>a, <3>1
    <3> QED BY <2>4, <3>1, <3>2
  <2>7. \A g \in pane' : g \notin thrown' /\ \E x \in Shown' : g \in filters'[x]
    <3> SUFFICES ASSUME NEW g \in pane, g # f PROVE \E x \in Shown : g \in filters'[x]
      BY <1>a, <2>3, <2>5
    <3>1. owner[g] \in Shown /\ owner[g] \in Content /\ g \in filters[owner[g]]
      BY <1>a, <2>5
    <3>2. g \in filters'[owner[g]]
      BY <2>4, <3>1
    <3> QED BY <3>1, <3>2
  <2>8. /\ paneMuted' \subseteq pane'
        /\ \A g \in pane' \ mutedInFade' : g \in paneMuted' <=> g \in muted'
    BY <1>a, <2>3
  <2>9. PaneMirrors'
    BY <2>6, <2>7, <2>8, CalmPaneFacts
  <2> QED BY <2>3, <2>8, <2>9 DEF CalmPane
<1>10. ASSUME NEW f \in Filter, MuteFilter(f) PROVE CalmPane'
  <2>1. /\ f \in pane /\ Shown' = Shown
        /\ muted' = IF f \in muted THEN muted \ {f} ELSE muted \cup {f}
        /\ UNCHANGED <<filters, pane, reused, thrown>>
    BY <1>10 DEF MuteFilter, vars, Shown
  <2>2. CASE ~Empty /\ owner[f] = Oldest
    <3>1. Redrawn(f) /\ mutedInFade' = mutedInFade \ {f}
      BY <1>10, <2>2 DEF MuteFilter, HeardMuted
    <3>2. /\ paneMuted' \subseteq pane'
          /\ \A g \in pane' \ mutedInFade' : g \in paneMuted' <=> g \in muted'
      BY <1>a, <2>1, <3>1 DEF Redrawn
    <3>3. /\ \A x \in Shown' : filters'[x] \subseteq pane' \cup thrown'
          /\ \A g \in pane' : g \notin thrown' /\ \E x \in Shown' : g \in filters'[x]
      BY <1>a, <2>1
    <3>4. PaneMirrors'
      BY <3>2, <3>3, CalmPaneFacts
    <3> QED BY <1>0, <2>1, <3>2, <3>4 DEF CalmPane
  <2>3. CASE ~(~Empty /\ owner[f] = Oldest)
    <3>1. paneMuted' = paneMuted /\ mutedInFade' = mutedInFade \cup {f}
      BY <1>10, <2>3 DEF MuteFilter, HeardMuted
    <3>2. /\ paneMuted' \subseteq pane'
          /\ \A g \in pane' \ mutedInFade' : g \in paneMuted' <=> g \in muted'
      BY <1>a, <2>1, <3>1
    <3>3. /\ \A x \in Shown' : filters'[x] \subseteq pane' \cup thrown'
          /\ \A g \in pane' : g \notin thrown' /\ \E x \in Shown' : g \in filters'[x]
      BY <1>a, <2>1
    <3>4. PaneMirrors'
      BY <3>2, <3>3, CalmPaneFacts
    <3> QED BY <1>0, <2>1, <3>2, <3>4 DEF CalmPane
  <2> QED BY <2>2, <2>3
<1>11. ASSUME NEW f \in Filter, ForgetFilter(f) PROVE CalmPane'
  <2>1. /\ f \notin pane /\ Shown' = Shown /\ \A c \in Content : f \notin filters[c]
        /\ muted' = muted \ {f} /\ reused' = reused \ {f}
        /\ thrown' = thrown \ {f} /\ mutedInFade' = mutedInFade \ {f}
        /\ UNCHANGED <<filters, pane, paneMuted>>
    BY <1>11 DEF ForgetFilter, vars, Shown
  <2>2. Shown \subseteq Content
    BY CalmShown
  <2>3. /\ \A x \in Shown' : filters'[x] \subseteq pane' \cup thrown'
        /\ \A g \in pane' : g \notin thrown' /\ \E x \in Shown' : g \in filters'[x]
        /\ paneMuted' \subseteq pane'
        /\ \A g \in pane' \ mutedInFade' : g \in paneMuted' <=> g \in muted'
    BY <1>a, <2>1, <2>2
  <2>4. PaneMirrors'
    BY <2>3, CalmPaneFacts
  <2> QED BY <1>0, <2>1, <2>3, <2>4 DEF CalmPane
<1>12. ASSUME chain' = chain, UNCHANGED filterVars PROVE CalmPane'
  BY <1>12 DEF filterVars, CalmPane, PaneMirrors, Applied, Shown
<1>13. ASSUME NEW c \in Content, Forget(c), UNCHANGED filterVars PROVE CalmPane'
  BY <1>12, <1>13 DEF Forget
<1>14. ASSUME NEW b \in BOOLEAN, SetVisible(b), UNCHANGED filterVars PROVE CalmPane'
  BY <1>12, <1>14 DEF SetVisible, contentVars
<1>15. CASE UNCHANGED allVars
  BY <1>12, <1>15 DEF allVars, vars
<1> QED
  BY <1>1, <1>2, <1>3, <1>4, <1>5, <1>6, <1>7, <1>8, <1>9, <1>10, <1>11, <1>13, <1>14, <1>15
  DEF FNext

\* For a user who waits, the pane has a control for every filter of the contents
\* shown, the one being faded out included, that did not throw when it was
\* initialized, and for no other, and draws as muted those that are, unless they
\* were muted on a content being faded in.
THEOREM PaneIsMirror == ASSUME CalmUser PROVE FSpec => []PaneMirrors
<1>1. FInit => CalmInv /\ FilterInv /\ CalmPane
  <2>1. FInit => CalmInv /\ FilterInv
    BY CalmInit, FilterInit DEF FInit
  <2>2. FInit => CalmPane
    BY DEF FInit, Init, CalmPane, PaneMirrors, Applied, Shown
  <2> QED BY <2>1, <2>2
<1>2. CalmInv /\ FilterInv /\ CalmPane /\ [FNext]_allVars => CalmInv' /\ FilterInv' /\ CalmPane'
  <2> SUFFICES ASSUME CalmInv, FilterInv, CalmPane, [FNext]_allVars
               PROVE  CalmInv' /\ FilterInv' /\ CalmPane'
    OBVIOUS
  <2>1. LayerInv /\ [Next]_vars
    BY StepOfLayer DEF CalmInv
  <2> QED BY <2>1, CalmNext, FilterNext, CalmPaneNext
<1>3. CalmPane => PaneMirrors
  BY DEF CalmPane
<1> QED BY <1>1, <1>2, <1>3, PTL DEF FSpec
=============================================================================
