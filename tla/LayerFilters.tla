----------------------------- MODULE LayerFilters -----------------------------
(***************************************************************************)
(* The filters of one layer's contents and the layer's filter pane in the  *)
(* user interface: FilterArray.as, Filter.as, LayerSettings.apply,         *)
(* UIFilterControl.as and FilterPane.as, over the contents of Layer.       *)
(*                                                                         *)
(* The pane only knows what FILTER_* events reach the layer.  The layer    *)
(* listens to the content it holds and to the plain content at the bottom  *)
(* of the pile; a transition forwards what it hears from the two contents  *)
(* it joins, FILTER_MUTED excepted.  The order of the filters is left out. *)
(*                                                                         *)
(* A filter may throw when it is initialized (MayThrow): it is on its      *)
(* content by then, but FILTER_ADDED is not sent, and the filters after it *)
(* in the settings are not added.                                          *)
(***************************************************************************)
EXTENDS Layer

CONSTANTS
  Filter,       \* names for the filter instances
  MaxLost       \* how many LAYER_LOADED may be lost: bounds lost

ASSUME FilterAssumption ==
  Filter \cap (Content \cup {TheLayer}) = {} /\ MaxLost \in Nat

VARIABLES
  filters,      \* the FilterArray of each content
  owner,        \* Filter.content, TheLayer until the filter is first added
  dead,         \* the filters disposed since they were last added
  muted,        \* Filter._muted
  carried,      \* the filters in the settings of each load under way
  pane,         \* the filters with a control in the pane
  paneMuted,    \* the filters whose control is drawn as muted
  reused,       \* the filters of settings that are answered twice
  thrown,       \* the filters on a content whose initialize threw
  mutedInFade,  \* the filters last muted on a content not at the bottom of the pile
  lost          \* LAYER_LOADED events a throwing filter has kept from being sent

filterVars == <<filters, owner, dead, muted, carried, pane, paneMuted, reused, thrown,
                mutedInFade, lost>>
allVars == <<vars, filterVars>>

FiltersTypeOK ==
  /\ filters \in [Content -> SUBSET Filter]
  /\ owner \in [Filter -> Content \cup {TheLayer}]
  /\ dead \in SUBSET Filter /\ muted \in SUBSET Filter
  /\ carried \in [Content -> SUBSET Filter]
  /\ pane \in SUBSET Filter /\ paneMuted \in SUBSET Filter /\ reused \in SUBSET Filter
  /\ thrown \in SUBSET Filter /\ mutedInFade \in SUBSET Filter /\ lost \in Nat

FInit ==
  /\ Init
  /\ filters = [c \in Content |-> {}]
  /\ owner = [f \in Filter |-> TheLayer]
  /\ dead = {} /\ muted = {}
  /\ carried = [c \in Content |-> {}]
  /\ pane = {} /\ paneMuted = {} /\ reused = {}
  /\ thrown = {} /\ mutedInFade = {} /\ lost = 0

-----------------------------------------------------------------------------
Carried == UNION {carried[c] : c \in Content}

\* Names not in use.
Fresh ==
  {f \in Filter : owner[f] = TheLayer}
    \ (Carried \cup dead \cup muted \cup reused \cup thrown \cup mutedInFade)

\* What is cleared with the content at the bottom of the pile.
Cleared == IF Empty THEN {} ELSE filters[Oldest]

\* Mutant: a transition does not listen to its new content.
HeardRemovedOldest(c) == ~Empty /\ c = Oldest

\* FILTER_REMOVED is heard from every content of the pile, FILTER_ADDED is only
\* sent by its newest one, FILTER_MUTED is heard from its bottom alone.
HeardRemoved(c) == c \in Shown

\* Mutant: the layer does not listen for FILTER_MUTED.
HeardMutedNever(c) == FALSE
HeardMuted(c) == ~Empty /\ c = Oldest

\* register and unregister: the pane drops the controls of the filters gone and
\* makes one for each filter of F, drawn from the filter's muted flag.
Registered(gone, F, mutes) ==
  /\ pane' = (pane \ gone) \cup F
  /\ paneMuted' = (paneMuted \ (gone \cup F)) \cup (F \cap mutes)
  /\ mutedInFade' = mutedInFade \ (gone \cup F)

\* mute: the control of f is drawn again.
Redrawn(f) ==
  paneMuted' = IF f \in muted' THEN paneMuted \cup {f} ELSE paneMuted \ {f}

\* Mutant: the settings are applied before the layer listens to the content.
ExchangeUnheard(gone, c, F, ready, mutes) ==
  /\ filters' = [x \in Content |->
       IF x = c THEN filters[x] \cup F
       ELSE IF ~Empty /\ x = Oldest THEN filters[x] \ gone ELSE filters[x]]
  /\ owner' = [f \in Filter |-> IF f \in F THEN c ELSE owner[f]]
  /\ dead' = (dead \cup gone) \ F
  /\ muted' = mutes
  /\ thrown' = (thrown \ ready) \cup (F \ ready)
  /\ Registered(gone, {}, mutes)
\* dispose() of the bottom of the pile clears its filters, each is disposed,
\* cleaned and announced as removed; then F is added to c; those of F whose
\* initialize returns, the ready ones, are announced and get a control.
Exchange(gone, c, F, ready, mutes) ==
  /\ filters' = [x \in Content |->
       IF x = c THEN filters[x] \cup F
       ELSE IF ~Empty /\ x = Oldest THEN filters[x] \ gone ELSE filters[x]]
  /\ owner' = [f \in Filter |-> IF f \in F THEN c ELSE owner[f]]
  /\ dead' = (dead \cup gone) \ F
  /\ muted' = mutes
  /\ thrown' = (thrown \ ready) \cup (F \ ready)
  /\ Registered(gone, ready, mutes)

\* The settings F reach the content c that has just come in.  If a filter throws,
\* it is the last one added; without a transition, LAYER_LOADED is lost then.
Apply(c, q, F, mutes) ==
  LET gone == IF q.transition THEN {} ELSE Cleared
      over == q.transition /\ ~Empty
  IN  \/ /\ over \/ announced' = Unloaded + 1
         /\ Exchange(gone, c, F, F, mutes)
         /\ UNCHANGED lost
      \/ /\ MayThrow /\ (over \/ lost < MaxLost)
         /\ over \/ announced' = Unloaded
         /\ \E A \in SUBSET F : \E f \in A : Exchange(gone, c, A, A \ {f}, mutes)
         /\ lost' = IF over THEN lost ELSE lost + 1

-----------------------------------------------------------------------------
\* load with settings that hold the filters F, those of M muted.
FLoad(c, q, F, M) ==
  /\ Load(c, q)
  /\ carried' = [carried EXCEPT ![c] = F]
  /\ muted' = muted \cup M
  /\ UNCHANGED <<filters, owner, dead, pane, paneMuted, reused, thrown, mutedInFade,
                 lost>>

FLoadDevice(c, q, F, M) ==
  /\ LoadDevice(c, q)
  /\ Apply(c, q, F, muted \cup M)
  /\ UNCHANGED <<carried, reused>>

\* Both answers of a vdpong load bring the same settings, the same filters.
FLoadTwice(c, d, q, F, M) ==
  /\ LoadTwice(c, d, q)
  /\ Apply(c, q, F, muted \cup M)
  /\ carried' = [carried EXCEPT ![d] = F]
  /\ reused' = reused \cup F

FAnswer(c) ==
  /\ Answer(c)
  /\ Apply(c, query[c], carried[c], muted)
  /\ carried' = [carried EXCEPT ![c] = {}]
  /\ UNCHANGED reused

FFail(c) ==
  /\ Fail(c)
  /\ carried' = [carried EXCEPT ![c] = {}]
  /\ UNCHANGED <<filters, owner, dead, muted, pane, paneMuted, reused, thrown, mutedInFade,
                 lost>>

FEndTransition(k) ==
  /\ EndTransition(k)
  /\ Exchange(Cleared, chain[k], {}, {}, muted)
  /\ UNCHANGED <<carried, reused, lost>>

FDispose ==
  /\ Dispose
  /\ filters' = IF Empty THEN filters ELSE [filters EXCEPT ![Oldest] = {}]
  /\ dead' = dead \cup Cleared
  /\ Registered(Cleared, {}, muted)
  /\ UNCHANGED <<owner, muted, carried, reused, thrown, lost>>

\* A filter is dropped on the layer: the newest content gets it.
AddFilter(f) ==
  /\ ~Empty /\ f \in Fresh
  /\ \E ready \in {{f}} \cup (IF MayThrow THEN {{}} ELSE {}) :
       Exchange({}, Newest, {f}, ready, muted)
  /\ UNCHANGED <<vars, carried, reused, lost>>

\* The delete button of a control: the filter is removed from its own content.
RemoveFilter(f) ==
  /\ f \in pane /\ f \in filters[owner[f]]
  /\ filters' = [filters EXCEPT ![owner[f]] = @ \ {f}]
  /\ dead' = dead \cup {f}
  /\ IF HeardRemoved(owner[f])
     THEN Registered({f}, {}, muted)
     ELSE UNCHANGED <<pane, paneMuted, mutedInFade>>
  /\ UNCHANGED <<vars, owner, muted, carried, reused, thrown, lost>>

\* Alt-click on a control: the filter's own content mutes or unmutes it.
MuteFilter(f) ==
  /\ f \in pane
  /\ muted' = IF f \in muted THEN muted \ {f} ELSE muted \cup {f}
  /\ IF HeardMuted(owner[f]) THEN Redrawn(f) ELSE UNCHANGED paneMuted
  /\ mutedInFade' = IF ~Empty /\ owner[f] = Oldest THEN mutedInFade \ {f}
                    ELSE mutedInFade \cup {f}
  /\ UNCHANGED <<vars, filters, owner, dead, carried, pane, reused, thrown, lost>>

\* A filter nothing holds is garbage: its name may be used again.
ForgetFilter(f) ==
  /\ f \notin pane \cup Carried
  /\ \A c \in Content : f \notin filters[c]
  /\ owner' = [owner EXCEPT ![f] = TheLayer]
  /\ dead' = dead \ {f}
  /\ muted' = muted \ {f}
  /\ reused' = reused \ {f}
  /\ thrown' = thrown \ {f}
  /\ mutedInFade' = mutedInFade \ {f}
  /\ UNCHANGED <<vars, filters, carried, pane, paneMuted, lost>>

FNext ==
  \/ \E F \in SUBSET Fresh : \E M \in SUBSET F, c \in Content, q \in Requests :
       FLoad(c, q, F, M) \/ FLoadDevice(c, q, F, M)
  \/ \E F \in SUBSET Fresh : \E M \in SUBSET F, c, d \in Content, q \in Requests :
       FLoadTwice(c, d, q, F, M)
  \/ \E c \in Content : FAnswer(c)
  \/ \E c \in Content : FFail(c)
  \/ \E k \in DOMAIN chain : FEndTransition(k)
  \/ FDispose
  \/ \E f \in Filter : AddFilter(f)
  \/ \E f \in Filter : RemoveFilter(f)
  \/ \E f \in Filter : MuteFilter(f)
  \/ \E f \in Filter : ForgetFilter(f)
  \/ (\E c \in Content : Forget(c)) /\ UNCHANGED filterVars
  \/ (\E b \in BOOLEAN : SetVisible(b)) /\ UNCHANGED filterVars

FSpec == FInit /\ [][FNext]_allVars

\* Frames go on, as in Layer.
FFairSpec == FSpec /\ WF_allVars(\E k \in DOMAIN chain : FEndTransition(k))

-----------------------------------------------------------------------------
Applied == UNION {filters[c] : c \in Shown}

\* For a user who waits for the layer, the pane has a control for each filter
\* the layer applies whose initialize returned, and no other, those of the
\* content being faded out included (LayerImplementor.as:174 would have them gone,
\* see OldFiltersGone): every addition and removal reaches it whatever content it
\* is on.  And a control is drawn as muted exactly when its filter is, unless it
\* was last muted on a content being faded in, which FILTER_MUTED does not leave.
PaneMirrors ==
  /\ pane = Applied \ thrown
  /\ paneMuted \ mutedInFade = (pane \cap muted) \ mutedInFade

\* "here we need to dispatch that our old filters went away"
\* (LayerImplementor.as:174): once a transition is there, the content it fades out
\* has no control left.
OldFiltersGone == InTransition => filters[Oldest] \cap pane = {}

\* Even when loads, transitions and deletes overlap and filters throw, the user
\* has a control for every filter of the newest content.  Settings hand out the
\* instances they hold and not clones (LayerSettings.apply), so those of a load
\* that is answered twice are excepted, and so are those that threw themselves.
PaneCoversNewest == Empty \/ filters[Newest] \subseteq pane \cup reused \cup thrown

\* The display counts one entry for a layer that holds something, and none for an
\* empty one (layerLoadHandler relies on it), and is short of one for every
\* LAYER_LOADED that was lost because a filter threw: those sent alternate with
\* LAYER_UNLOADED, a transition's start is silent and its end sends both.
AnnouncedUnlessLost == announced + lost = IF Empty THEN 0 ELSE 1

\* A transition ends: its frames are rendered until it has elapsed.  Only a layer
\* whose LAYER_LOADED was lost is not rendered.
TransitionEnds == InTransition ~> ~InTransition \/ lost > 0
=============================================================================
