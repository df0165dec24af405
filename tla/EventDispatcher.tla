------------------------- MODULE EventDispatcher -------------------------
(***************************************************************************)
(* AL::event::EventDispatcher and AL::event::Callback, as operators on     *)
(* values.                                                                 *)
(*                                                                         *)
(*   source  plugin/al/utils/AL/event/EventHandler.{h,cpp}                 *)
(*                                                                         *)
(* A dispatcher is one event: its id, its name and the vector of callbacks *)
(* that run when the event is triggered.  The vector is kept in ascending  *)
(* order of weight by construction of the insertion point.                 *)
(***************************************************************************)
EXTENDS Integers, Sequences, SequencesExt

CONSTANTS
  Names,    \* event names
  Tags,     \* callback tags
  Datas,    \* user data pointers of C callbacks, NoData (nullptr) included
  NoData,   \* nullptr; what a python or MEL callback carries
  NoTag,    \* the empty tag of a default constructed Callback
  Owners,   \* associatedData of an event: nodes, and NoOwner (nullptr)
  NoOwner,
  Weights   \* callback weights (uint32_t)

ASSUME DataAssumption   == NoData \in Datas
ASSUME TagAssumption    == NoTag \notin Tags
ASSUME OwnerAssumption  == NoOwner \in Owners
ASSUME WeightAssumption == Weights \subseteq Nat /\ 0 \in Weights

(***************************************************************************)
(* Event types.                                                            *)
(***************************************************************************)
UnknownType == 0
UserType    == 1
SchemaType  == 2
USDMayaType == 3
MayaType    == 4
EventTypes  == {UnknownType, UserType, SchemaType, USDMayaType, MayaType}

(***************************************************************************)
(* A CallbackId packs three fields into 64 bits, 20 for the event (the     *)
(* high ones), 4 for the type and 40 for the number.  While the fields fit *)
(* the packed ids are equal, and compare, as the triples do: here the id   *)
(* is the triple, and ++newId adds one to its number.                      *)
(***************************************************************************)
CallbackIds == [event : Nat, type : EventTypes, num : Nat]
InvalidId   == [event |-> 0, type |-> UnknownType, num |-> 0]

IdLeq(a, b) ==
  \/ a.event < b.event
  \/ a.event = b.event /\ a.type < b.type
  \/ a.event = b.event /\ a.type = b.type /\ a.num <= b.num

Callbacks ==
  [id : CallbackIds, tag : Tags \cup {NoTag}, data : Datas, weight : Weights]

\* A default constructed Callback: what buildCallback returns on failure.
EmptyCallback ==
  [id |-> InvalidId, tag |-> NoTag, data |-> NoData, weight |-> 0]

Dispatchers ==
  [id : Nat, name : Names, type : EventTypes, owner : Owners,
   parent : CallbackIds, cbs : Seq(Callbacks)]

-----------------------------------------------------------------------------
(***************************************************************************)
(* The id the next callback of d gets: one more than the largest id in     *)
(* use, starting from the base id of the event and its current type.       *)
(***************************************************************************)
BaseId(d) == [event |-> d.id, type |-> d.type, num |-> 0]

LiveIds(d) == {d.cbs[i].id : i \in 1..Len(d.cbs)}

\* Mutants: the largest id is not looked for; the id of the event is left out;
\* the number goes down.
NewCallbackIdFirst(d) == [BaseId(d) EXCEPT !.num = 1]
NewCallbackIdNoEvent(d) ==
  [InvalidId EXCEPT !.num = Max({x.num : x \in LiveIds(d)} \cup {0}) + 1]
NewCallbackIdDown(d) == [BaseId(d) EXCEPT !.num = @ - 1]

NewCallbackId(d) ==
  LET ids == LiveIds(d) \cup {BaseId(d)}
      top == CHOOSE x \in ids : \A y \in ids : IdLeq(y, x)
  IN  [top EXCEPT !.num = @ + 1]

(***************************************************************************)
(* The duplicate checks: a script (python, MEL) is refused when its tag is *)
(* in use, a C callback when its tag and its user data are.                *)
(***************************************************************************)
TagTaken(cbs, tag) == \E i \in 1..Len(cbs) : cbs[i].tag = tag

SiteTaken(cbs, tag, data) ==
  \E i \in 1..Len(cbs) : cbs[i].tag = tag /\ cbs[i].data = data

(***************************************************************************)
(* A callback goes in front of the first one whose weight is no smaller.   *)
(***************************************************************************)
\* Mutant: a callback always goes last.
InsertLocationLast(cbs, weight) == Len(cbs) + 1

InsertLocation(cbs, weight) ==
  Min({i \in 1..Len(cbs)+1 : i <= Len(cbs) => cbs[i].weight >= weight})

InsertCallback(cbs, cb) == InsertAt(cbs, InsertLocation(cbs, cb.weight), cb)

(***************************************************************************)
(* unregisterCallback erases the first callback that carries the id.       *)
(***************************************************************************)
HasId(cbs, id) == \E i \in 1..Len(cbs) : cbs[i].id = id

FirstWithId(cbs, id) == Min({i \in 1..Len(cbs) : cbs[i].id = id})

EraseCallback(cbs, id) == RemoveAt(cbs, FirstWithId(cbs, id))

(***************************************************************************)
(* buildCallback makes a callback without storing it.                      *)
(***************************************************************************)
BuiltScript(d, tag, weight) ==
  IF TagTaken(d.cbs, tag)
  THEN EmptyCallback
  ELSE [id |-> NewCallbackId(d), tag |-> tag, data |-> NoData, weight |-> weight]

BuiltFunction(d, tag, weight, data) ==
  IF SiteTaken(d.cbs, tag, data)
  THEN EmptyCallback
  ELSE [id |-> NewCallbackId(d), tag |-> tag, data |-> data, weight |-> weight]

=============================================================================
