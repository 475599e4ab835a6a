-------------------------------- MODULE Layer --------------------------------
(***************************************************************************)
(* One layer of the mix: LayerImplementor.as, the ContentTransition.as it  *)
(* wraps contents in, and the asset queries that answer its loads          *)
(* (AssetFile.as, AIRContentQuery.as, VPContentQuery.as).                  *)
(*                                                                         *)
(* A transition is a content too: its old content may itself be a          *)
(* transition, its new content never is.  What the layer holds is thus a   *)
(* pile: chain[1] is a plain content and, for k > 1, chain[k] is the new   *)
(* content of a transition whose old content is the pile below it.  The    *)
(* layer's content is the top of the pile; <<>> is NULL_LAYER.             *)
(***************************************************************************)
EXTENDS Integers, Sequences, FiniteSets

CONSTANTS
  Content,      \* names for the content objects the queries build
  TheLayer,     \* the layer itself, as the target of its own parameters
  Kinds,        \* the kinds of asset the user loads, a subset of AllKinds
  Overlap,      \* may the user act while a load or a transition is pending?
  MayThrow,     \* may a filter throw while the settings are applied?
  Hides         \* do settings and user hide contents, or leave them visible?

\* "file": read through the adapter, answered once, maybe by an error.
\* "sound": the same, but an error still builds a content (ContentMP3).
\* "device": camera and line-in, answered inside the call.
\* "vdpong": answered inside the call and a second time by the network query.
AllKinds == {"file", "sound", "device", "vdpong"}

ASSUME LayerAssumption ==
  /\ TheLayer \notin Content
  /\ Kinds \subseteq AllKinds
  /\ Overlap \in BOOLEAN
  /\ MayThrow \in BOOLEAN
  /\ Hides \in BOOLEAN

VARIABLES
  chain,        \* the pile of contents behind LayerImplementor.content
  phase,        \* what became of each content object
  query,        \* the arguments of the load that is to build each content
  target,       \* the target of layerProperties, the layer's parameters
  announced,    \* LAYER_LOADED events minus LAYER_UNLOADED events so far
  visible,      \* ContentBase._visible of each content
  shellVisible, \* ContentBase._visible of the transition that brought in the
                \* newest content, TRUE if none did
  wanted        \* the visibility last asked for the newest content

contentVars == <<chain, phase, target, announced>>
visibleVars == <<visible, shellVisible, wanted>>
vars == <<chain, phase, query, target, announced, visible, shellVisible, wanted>>

Phases == {"unborn", "loading", "live", "disposed", "failed"}
Queries == [kind : AllKinds, transition : BOOLEAN, visible : BOOLEAN]
Requests == {q \in Queries : q.kind \in Kinds /\ (q.visible \/ Hides)}
NoQuery == [kind |-> "file", transition |-> FALSE, visible |-> TRUE]

TypeOK ==
  /\ chain \in Seq(Content)
  /\ phase \in [Content -> Phases]
  /\ query \in [Content -> Queries]
  /\ target \in Content \cup {TheLayer}
  /\ announced \in Int
  /\ visible \in [Content -> BOOLEAN]
  /\ shellVisible \in BOOLEAN
  /\ wanted \in BOOLEAN

Init ==
  /\ chain = <<>>
  /\ phase = [c \in Content |-> "unborn"]
  /\ query = [c \in Content |-> NoQuery]
  /\ target = TheLayer
  /\ announced = 0
  /\ visible = [c \in Content |-> TRUE]
  /\ shellVisible = TRUE
  /\ wanted = TRUE

-----------------------------------------------------------------------------
Empty == chain = <<>>
InTransition == Len(chain) > 1
Oldest == chain[1]
Newest == chain[Len(chain)]
Shown == {chain[i] : i \in DOMAIN chain}
Loading == {c \in Content : phase[c] = "loading"}
Live == {c \in Content : phase[c] = "live"}

\* The user of the calm runs waits for a load to be answered, and for the
\* transition to end, before the next one.
Calm == Loading = {} /\ ~InTransition
MayAct == Overlap \/ Calm

\* Mutants: a transition disposes its new content; dispose() is forgotten.
DestroyedNewest(ph) == IF Empty THEN ph ELSE [ph EXCEPT ![Newest] = "disposed"]
DestroyedNot(ph) == ph

\* dispose() of the content on top: a transition disposes its old content and
\* leaves its new content alone, so only the bottom of the pile is disposed.
Destroyed(ph) == IF Empty THEN ph ELSE [ph EXCEPT ![Oldest] = "disposed"]

\* LAYER_UNLOADED, sent by _destroyContent when there is something to destroy.
Unloaded == IF Empty THEN announced ELSE announced - 1

\* _createContent of a plain content; the LAYER_LOADED that ends it is lost
\* when applying the settings throws.
CreateContent(c, ph, throws) ==
  /\ phase' = Destroyed(ph)
  /\ chain' = <<c>>
  /\ announced' = IF throws THEN Unloaded ELSE Unloaded + 1

\* Mutants: the transition announces its content, or the end of the old one.
CreateTransitionLoaded(c, ph) ==
  phase' = ph /\ chain' = Append(chain, c) /\ announced' = announced + 1
CreateTransitionUnloaded(c, ph) ==
  phase' = ph /\ chain' = Append(chain, c) /\ announced' = Unloaded

\* new ContentTransition over the current pile.  Its constructor leaves the
\* parameters on the new content, while the settings go to the transition.
CreateTransition(c, ph) ==
  /\ phase' = ph
  /\ chain' = Append(chain, c)
  /\ UNCHANGED announced

\* Mutant: the transition gives the parameters back to the old content.
AcceptOldTarget(c, q, ph) ==
  /\ wanted' = q.visible
  /\ IF q.transition /\ ~Empty
     THEN /\ CreateTransition(c, ph)
          /\ shellVisible' = q.visible
          /\ target' = Newest
          /\ UNCHANGED visible
     ELSE /\ CreateContent(c, ph, FALSE)
          /\ visible' = [visible EXCEPT ![c] = q.visible]
          /\ target' = c
          /\ shellVisible' = TRUE

\* loadStatus with EVENT_COMPLETE: the content c, built by query q, comes in.
Accept(c, q, ph) ==
  /\ target' = c
  /\ wanted' = q.visible
  /\ IF q.transition /\ ~Empty
     THEN /\ CreateTransition(c, ph)
          /\ shellVisible' = q.visible
          /\ UNCHANGED visible
     ELSE /\ \E throws \in {FALSE, MayThrow} : CreateContent(c, ph, throws)
          /\ visible' = [visible EXCEPT ![c] = q.visible]
          /\ shellVisible' = TRUE

-----------------------------------------------------------------------------
\* load of a file or a sound: the adapter reads it and calls back later.
Load(c, q) ==
  /\ MayAct
  /\ phase[c] = "unborn"
  /\ q.kind \in {"file", "sound"}
  /\ phase' = [phase EXCEPT ![c] = "loading"]
  /\ query' = [query EXCEPT ![c] = q]
  /\ UNCHANGED <<chain, target, announced, visibleVars>>

\* load of a device: its protocol calls back before load returns.
LoadDevice(c, q) ==
  /\ MayAct
  /\ phase[c] = "unborn"
  /\ q.kind = "device"
  /\ Accept(c, q, [phase EXCEPT ![c] = "live"])
  /\ UNCHANGED query

\* load of a vdpong asset: the protocol calls back with c at once, and a
\* content query that will call back with d is started all the same.
LoadTwice(c, d, q) ==
  /\ MayAct
  /\ c # d /\ phase[c] = "unborn" /\ phase[d] = "unborn"
  /\ q.kind = "vdpong"
  /\ query' = [query EXCEPT ![d] = q]
  /\ Accept(c, q, [phase EXCEPT ![c] = "live", ![d] = "loading"])

\* The query's COMPLETE event: it builds the content and calls loadStatus.
Answer(c) ==
  /\ phase[c] = "loading"
  /\ Accept(c, query[c], [phase EXCEPT ![c] = "live"])
  /\ query' = [query EXCEPT ![c] = NoQuery]

\* The query's error: loadStatus only logs it, but a sound's content has been
\* built by then, and building it moved the layer's parameters onto it.
Fail(c) ==
  /\ phase[c] = "loading"
  /\ IF query[c].kind = "sound"
     THEN phase' = [phase EXCEPT ![c] = "live"] /\ target' = c
     ELSE phase' = [phase EXCEPT ![c] = "failed"] /\ UNCHANGED target
  /\ query' = [query EXCEPT ![c] = NoQuery]
  /\ UNCHANGED <<chain, announced, visibleVars>>

\* A frame in which the transition that brought chain[k] in has elapsed, and
\* none above it has: render() sends TRANSITION_END, and _endTransition makes
\* chain[k] the content.  The display only renders the layers announced to it.
EndTransition(k) ==
  /\ k \in 2..Len(chain)
  /\ announced > 0
  /\ CreateContent(chain[k], phase, FALSE)
  /\ UNCHANGED <<query, target, visibleVars>>

\* Mutants: the parameters stay on the content, or are left without a target.
DisposeKeepsTarget ==
  /\ MayAct \/ ~InTransition
  /\ phase' = Destroyed(phase)
  /\ chain' = <<>>
  /\ announced' = Unloaded
  /\ UNCHANGED <<query, target, visibleVars>>
DisposeNullTarget ==
  /\ MayAct \/ ~InTransition
  /\ phase' = Destroyed(phase)
  /\ chain' = <<>>
  /\ announced' = Unloaded
  /\ target' = "null"
  /\ UNCHANGED <<query, visibleVars>>

\* dispose(), the user's delete button.  A load under way is not cancelled.
Dispose ==
  /\ MayAct \/ ~InTransition
  /\ phase' = Destroyed(phase)
  /\ chain' = <<>>
  /\ announced' = Unloaded
  /\ target' = TheLayer
  /\ UNCHANGED <<query, visibleVars>>

\* Mutant: the parameter is written to the content being replaced.
SetVisibleOnOldest(b) ==
  /\ Hides
  /\ ~Empty /\ target \in Content
  /\ visible[Oldest] # b
  /\ visible' = [visible EXCEPT ![Oldest] = b]
  /\ wanted' = b
  /\ UNCHANGED <<contentVars, query, shellVisible>>

\* The user sets a parameter of the layer: it is written to the target.
SetVisible(b) ==
  /\ Hides
  /\ target \in Content
  /\ visible[target] # b
  /\ visible' = [visible EXCEPT ![target] = b]
  /\ wanted' = b
  /\ UNCHANGED <<contentVars, query, shellVisible>>

\* A content that was disposed, or never built, is garbage: its name may stand
\* for the content of a later load, so behaviours are not bounded by Content.
Forget(c) ==
  /\ phase[c] \in {"disposed", "failed"}
  /\ phase' = [phase EXCEPT ![c] = "unborn"]
  /\ visible' = [visible EXCEPT ![c] = TRUE]
  /\ UNCHANGED <<chain, query, target, announced, shellVisible, wanted>>

LoadSome(c, q) == Load(c, q) \/ LoadDevice(c, q)

Next ==
  \/ \E c \in Content, q \in Requests : LoadSome(c, q)
  \/ \E c, d \in Content, q \in Requests : LoadTwice(c, d, q)
  \/ \E c \in Content : Answer(c)
  \/ \E c \in Content : Fail(c)
  \/ \E c \in Content : Forget(c)
  \/ \E k \in DOMAIN chain : EndTransition(k)
  \/ Dispose
  \/ \E b \in BOOLEAN : SetVisible(b)

Spec == Init /\ [][Next]_vars

\* Frames go on and the clock with them; the user and the disk owe nothing.
FairSpec == Spec /\ WF_vars(\E k \in DOMAIN chain : EndTransition(k))

-----------------------------------------------------------------------------
\* Unless a filter throws, LAYER_LOADED and LAYER_UNLOADED alternate: the display
\* counts one entry for a layer that holds something, and none for an empty one.
Announced == announced = IF Empty THEN 0 ELSE 1

\* Nothing the layer renders has been disposed: dispose() closes streams and
\* frees bitmaps, and rendering a freed BitmapData throws.
ShownAlive ==
  /\ \A i \in DOMAIN chain : phase[chain[i]] = "live"
  /\ \A i, j \in DOMAIN chain : chain[i] = chain[j] => i = j

\* The layer's parameters never point at a disposed content, whatever order
\* the answers, the transitions' ends and the deletes come in.
TargetAlive == target \in Content => phase[target] = "live"

\* "if current content is already a transition, destroy it, then load"
\* (LayerImplementor.loadStatus): at most one transition is under way.
OneTransition == Len(chain) <= 2

\* Every live content is behind the layer: what the layer lets go, it disposes
\* (a FLV's stream, a swf's reference count and the filters depend on it).
NoOrphan == Live \subseteq Shown

\* The controls drive the newest content, the one that stays.
TargetShown == target = IF Empty THEN TheLayer ELSE Newest

\* "Applies values to a layer" (LayerSettings.apply): once no transition is
\* under way, the content is as visible as it was last asked to be, by settings
\* or by the user.  Settings that hide a content and bring it in with a
\* transition are excepted: they reach the transition and end with it.
VisibleAsAsked ==
  Len(chain) = 1 /\ target = Oldest /\ shellVisible => visible[Oldest] = wanted

\* The newest content only gives way to one that has just been loaded, never
\* back to an older one.
NewestNeverReverts ==
  [][~Empty /\ ~Empty' /\ Newest' # Newest => Newest' \notin Shown]_vars

\* A user who waits for the layer gets the simple promise of LayerFade: the
\* bottom of the pile is shown, its top is faded in, the rest is released.
Fade == INSTANCE LayerFade WITH
  None <- TheLayer,
  showing <- IF Empty THEN TheLayer ELSE Oldest,
  incoming <- IF InTransition THEN Newest ELSE TheLayer,
  alive <- Live
FadeSpec == Fade!Spec
=============================================================================
