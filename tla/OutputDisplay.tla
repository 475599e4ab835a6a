----------------------------- MODULE OutputDisplay -----------------------------
(***************************************************************************)
(* The display that mixes the layers: OutputDisplay.as and swap.as.        *)
(*                                                                         *)
(* The display keeps the layers in their slots and, apart from them, the   *)
(* list of those it renders, which it edits on each LAYER_LOADED and       *)
(* LAYER_UNLOADED.  Of a layer only what Layer shows of it is kept: a load *)
(* over nothing announces one event, a load over a content and the end of  *)
(* a transition both, a transition's start none.                           *)
(*                                                                         *)
(* A frame is a loop over the list, and rendering a layer may end its      *)
(* transition, which edits the list under the loop, or, when transitions   *)
(* are nested, throw out of the loop.  Flash runs one event at a time:     *)
(* loads and the user come between two frames.                             *)
(***************************************************************************)
EXTENDS Naturals, Sequences, FiniteSets, SequencesExt

CONSTANT Slot           \* the layers

ASSUME DisplayAssumption == IsFiniteSet(Slot) /\ Slot # {}

VARIABLES
  layers,       \* OutputDisplay._layers, the layers by index
  valid,        \* OutputDisplay._valid, the layers to render
  validLen,     \* OutputDisplay._validLen
  content,      \* what each layer holds, one of Contents
  cursor,       \* the position in _valid of the layer to render, 0 if none
  drawn,        \* the layers drawn by the last frame, in order
  mixed         \* has a layer that is rendered been moved with one that is not?

vars == <<layers, valid, validLen, content, cursor, drawn, mixed>>

\* Nothing, a content, a transition, or a transition of an older transition.
Contents == {"none", "plain", "fading", "nested"}

\* The slots, from the top of the mix down: one layer each.
Orders == Bijection(1..Cardinality(Slot), Slot)

TypeOK ==
  /\ layers \in Orders
  /\ valid \in Seq(Slot) /\ validLen \in Nat
  /\ content \in [Slot -> Contents]
  /\ cursor \in Nat
  /\ drawn \in Seq(Slot)
  /\ mixed \in BOOLEAN

\* createLayers, called once.
Init ==
  /\ layers \in Orders
  /\ valid = <<>> /\ validLen = 0
  /\ content = [l \in Slot |-> "none"]
  /\ cursor = 0
  /\ drawn = <<>>
  /\ mixed = FALSE

-----------------------------------------------------------------------------
IndexIn(l, s) == CHOOSE i \in DOMAIN s : s[i] = l
Index(l) == IndexIn(l, layers)
Rendering == cursor > 0

\* Mutant: the layer is put first.
PlaceFirst(l, v) == 1
\* layerLoadHandler puts the layer before the first one of a higher index.
Place(l, v) ==
  LET higher == {i \in DOMAIN v : Index(l) < Index(v[i])}
  IN  IF higher = {} THEN Len(v) + 1 ELSE CHOOSE i \in higher : \A j \in higher : i <= j
Loaded(l, v) == InsertAt(v, Place(l, v), l)

\* Mutant: the handler pops the list instead of looking for its layer.
UnloadedPop(l, v) == IF v = <<>> THEN v ELSE Front(v)

\* layerUnloadHandler takes out the layer; of one that is not in the list,
\* splice(-1, 1) takes out the last.
Unloaded(l, v) ==
  IF v = <<>> THEN v
  ELSE RemoveAt(v, IF Contains(v, l) THEN IndexIn(l, v) ELSE Len(v))

\* swap(array, item, i), of an item that may not be there.
Swap(s, item, i) ==
  IF Contains(s, item)
  THEN [s EXCEPT ![IndexIn(item, s)] = s[i], ![i] = item]
  ELSE s

-----------------------------------------------------------------------------
\* A content is loaded into an empty layer.
Load(l) ==
  /\ ~Rendering /\ content[l] = "none"
  /\ content' = [content EXCEPT ![l] = "plain"]
  /\ valid' = Loaded(l, valid)
  /\ validLen' = validLen + 1
  /\ UNCHANGED <<layers, cursor, drawn, mixed>>

\* A content comes in for another: _destroyContent sends LAYER_UNLOADED and
\* _createContent LAYER_LOADED, the length goes down and up again.
Exchanged(l) ==
  /\ content' = [content EXCEPT ![l] = "plain"]
  /\ valid' = Loaded(l, Unloaded(l, valid))
  /\ UNCHANGED <<layers, validLen, mixed>>

\* A content is loaded over what the layer holds, without a transition.
Replace(l) ==
  /\ ~Rendering /\ content[l] # "none"
  /\ Exchanged(l)
  /\ UNCHANGED <<cursor, drawn>>

\* A content is loaded with a transition: the display is told nothing.  Over a
\* transition, this one becomes the old content of the new one.
Fade(l) ==
  /\ ~Rendering /\ content[l] # "none"
  /\ content' = [content EXCEPT ![l] = IF @ = "plain" THEN "fading" ELSE "nested"]
  /\ UNCHANGED <<layers, valid, validLen, cursor, drawn, mixed>>

\* The user empties a layer.
Delete(l) ==
  /\ ~Rendering /\ content[l] # "none"
  /\ content' = [content EXCEPT ![l] = "none"]
  /\ valid' = Unloaded(l, valid)
  /\ validLen' = validLen - 1
  /\ UNCHANGED <<layers, cursor, drawn, mixed>>

\* moveLayer swaps the layer with the one at index i; the list of layers to
\* render only changes when it holds them both.
MoveLayer(l, i) ==
  /\ ~Rendering
  /\ i \in DOMAIN layers /\ layers[i] # l
  /\ layers' = Swap(layers, l, i)
  /\ valid' = IF Contains(valid, layers[i])
              THEN Swap(valid, l, IndexIn(layers[i], valid)) ELSE valid
  /\ mixed' = (mixed \/ (Contains(valid, l) # Contains(valid, layers[i])))
  /\ UNCHANGED <<validLen, content, cursor, drawn>>

\* ENTER_FRAME: render starts its loop at the end of the list.
StartFrame ==
  /\ ~Rendering /\ validLen > 0
  /\ cursor' = validLen
  /\ drawn' = <<>>
  /\ UNCHANGED <<layers, valid, validLen, content, mixed>>

\* One turn of the loop.  The layer is read from the list, then rendered; when
\* its transition, the outer one of nested ones, has elapsed, rendering it
\* exchanges its content.
RenderLayer ==
  /\ Rendering
  /\ drawn' = Append(drawn, valid[cursor])
  /\ cursor' = cursor - 1
  /\ \/ UNCHANGED <<layers, valid, validLen, content, mixed>>
     \/ content[valid[cursor]] \in {"fading", "nested"} /\ Exchanged(valid[cursor])

\* An inner transition has elapsed: its end exchanges the content and disposes the
\* outer one in the middle of its render, which then calls render of its cleared
\* newContent.  The TypeError leaves the loop: nothing catches it before the
\* player, and the layer itself and those above it are not drawn.
RenderAborts ==
  /\ Rendering
  /\ content[valid[cursor]] = "nested"
  /\ Exchanged(valid[cursor])
  /\ cursor' = 0
  /\ UNCHANGED drawn

Next ==
  \/ \E l \in Slot : Load(l)
  \/ \E l \in Slot : Replace(l)
  \/ \E l \in Slot : Fade(l)
  \/ \E l \in Slot : Delete(l)
  \/ \E l \in Slot, i \in DOMAIN layers : MoveLayer(l, i)
  \/ StartFrame
  \/ RenderLayer
  \/ RenderAborts

Spec == Init /\ [][Next]_vars

-----------------------------------------------------------------------------
Held == {l \in Slot : content[l] # "none"}
Descending(s) == \A i, j \in DOMAIN s : i < j => Index(s[i]) > Index(s[j])
FrameEnds == Rendering /\ ~Rendering'

\* The display renders exactly the layers that hold something, each once in the
\* list, however loads, deletes, moves and transitions alternate.
ValidIsHeld ==
  /\ validLen = Len(valid)
  /\ IsInjective(valid)
  /\ Range(valid) = Held

\* "Moves a layer to a specified index" (moveLayer): the list is in the order of
\* the layers' indices, which layerLoadHandler both relies on and maintains.
ValidInOrder == \A i, j \in DOMAIN valid : i < j => Index(valid[i]) < Index(valid[j])

\* Moving two layers that are both rendered, or neither, keeps the list in order;
\* so do loads, deletes and transitions, in mid-frame too.
OrderedUnlessMixed == mixed \/ ValidInOrder

\* "loop through layers and render" (renderLayers): while the list is in order, a
\* frame draws every layer that holds something, none twice, from the last to the
\* first, so that upper layers are drawn over lower ones, even if transitions end
\* under the loop.  Only if the inner one of nested transitions ends does the frame
\* stop short, and then it has drawn exactly the layers below the one it stopped at.
EachRenderedOnce ==
  [][FrameEnds /\ ~mixed =>
       /\ IsInjective(drawn') /\ Descending(drawn)'
       /\ \/ Range(drawn') = Held'
          \/ /\ content[valid[cursor]] = "nested"
             /\ Range(drawn') = {l \in Held' : Index(l) > Index(valid[cursor])}]_vars
=============================================================================
