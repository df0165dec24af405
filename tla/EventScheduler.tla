-------------------------- MODULE EventScheduler --------------------------
(***************************************************************************)
(* AL::event::EventScheduler, with the Maya event handler it notifies.     *)
(*                                                                         *)
(*   source  plugin/al/utils/AL/event/EventHandler.{h,cpp}                 *)
(*                                                                         *)
(* The clients of the scheduler are the C++ code, the commands of module   *)
(* CallbackCommands and the nodes of module NodeEvents.  Any of them may   *)
(* call any operation at any time with any id, so Next is the closure of   *)
(* the public interface.  A call the code refuses and that changes nothing *)
(* is a stuttering step and has no action.                                 *)
(***************************************************************************)
EXTENDS MayaEventHandler

CONSTANTS
  MayaNames,   \* the names MayaEventHandler registers, in order
  ClientTypes, \* the types other clients register events with
  Parents,     \* parent callback ids used for events, InvalidId included
  MaxEvents,   \* bound: events registered at any time
  MaxNum,      \* bound: callback numbers
  MaxInfos     \* bound: callbacks built or taken out and held by clients

ASSUME ParentAssumption == Parents \subseteq CallbackIds /\ InvalidId \in Parents
ASSUME MayaNamesAssumption ==
  /\ MayaNames \in Seq(Names)
  /\ \A i, j \in 1..Len(MayaNames) : MayaNames[i] = MayaNames[j] => i = j
ASSUME ClientTypeAssumption ==
  ClientTypes \subseteq {UserType, SchemaType, USDMayaType}
ASSUME BoundAssumption ==
  MaxEvents \in Nat /\ MaxNum \in Nat /\ MaxInfos \in Nat

VARIABLES
  events,   \* m_registeredEvents
  maya,     \* m_callbacks and m_eventMapping of the MayaEventHandler
  infos     \* the Callback objects clients hold outside the scheduler

vars == <<events, maya, infos>>

TypeOK ==
  /\ events \in Seq(Dispatchers)
  /\ maya \in [1..Len(MayaNames) -> MayaInfos]
  /\ infos \subseteq Callbacks

-----------------------------------------------------------------------------
(***************************************************************************)
(* Looking an event up, by id with std::lower_bound or by its first name.  *)
(***************************************************************************)
LowerBound(evs, id) ==
  Min({i \in 1..Len(evs)+1 : i <= Len(evs) => evs[i].id >= id})

HasEvent(evs, id) ==
  LowerBound(evs, id) <= Len(evs) /\ evs[LowerBound(evs, id)].id = id

HasName(evs, name) == \E i \in 1..Len(evs) : evs[i].name = name

FirstNamed(evs, name) == Min({i \in 1..Len(evs) : evs[i].name = name})

(***************************************************************************)
(* registerEvent.  An event of the same name stands in the way when its    *)
(* type is unknown (it is promoted in place, callbacks and id kept) or its *)
(* owner and parent are the same too (the call is refused).  Otherwise the *)
(* event takes the smallest id not in use, at the place of that id.        *)
(***************************************************************************)
\* Mutant: an event of unknown type is not in the way.
InTheWayExact(evs, name, owner, parent) ==
  {i \in 1..Len(evs) :
     evs[i].name = name /\ evs[i].owner = owner /\ evs[i].parent = parent}

InTheWay(evs, name, owner, parent) ==
  {i \in 1..Len(evs) :
     /\ evs[i].name = name
     /\ \/ evs[i].type = UnknownType
        \/ evs[i].owner = owner /\ evs[i].parent = parent}

UnusedId(evs) == Min({n \in 1..Len(evs)+1 : n <= Len(evs) => evs[n].id # n})

NewEvent(id, name, type, owner, parent) ==
  [id |-> id, name |-> name, type |-> type, owner |-> owner,
   parent |-> parent, cbs |-> << >>]

Promoted(evs, i, type, owner, parent) ==
  [evs EXCEPT ![i] = [@ EXCEPT !.type = type, !.owner = owner, !.parent = parent]]

\* Mutant: the new event goes last.
WithNewEventLast(evs, name, type, owner, parent) ==
  Append(evs, NewEvent(UnusedId(evs), name, type, owner, parent))

WithNewEvent(evs, name, type, owner, parent) ==
  InsertAt(evs, UnusedId(evs), NewEvent(UnusedId(evs), name, type, owner, parent))

AfterRegisterEvent(evs, name, type, owner, parent) ==
  LET I == InTheWay(evs, name, owner, parent)
  IN  IF I = {} THEN WithNewEvent(evs, name, type, owner, parent)
      ELSE IF evs[Min(I)].type = UnknownType
           THEN Promoted(evs, Min(I), type, owner, parent)
           ELSE evs

\* The id registerEvent returns, 0 when it refuses.
RegisteredId(evs, name, owner, parent) ==
  LET I == InTheWay(evs, name, owner, parent)
  IN  IF I = {} THEN UnusedId(evs)
      ELSE IF evs[Min(I)].type = UnknownType THEN evs[Min(I)].id ELSE 0

RegisterEvent(name, type, owner, parent) ==
  /\ RegisteredId(events, name, owner, parent) # 0
  /\ events' = AfterRegisterEvent(events, name, type, owner, parent)
  /\ Len(events') <= MaxEvents
  /\ UNCHANGED <<maya, infos>>

(***************************************************************************)
(* unregisterEvent erases the dispatcher with every callback it holds; the *)
(* handlers are not told.  By name it takes the first that has no owner.   *)
(***************************************************************************)
UnregisterEvent(id) ==
  /\ HasEvent(events, id)
  /\ events' = RemoveAt(events, LowerBound(events, id))
  /\ UNCHANGED <<maya, infos>>

Unowned(evs, name) ==
  {i \in 1..Len(evs) : evs[i].name = name /\ evs[i].owner = NoOwner}

UnregisterNamedEvent(name) ==
  /\ Unowned(events, name) # {}
  /\ events' = RemoveAt(events, Min(Unowned(events, name)))
  /\ UNCHANGED <<maya, infos>>

-----------------------------------------------------------------------------
(***************************************************************************)
(* registerCallback(eventId, ...): build and store in one call.            *)
(***************************************************************************)
WithCallback(evs, i, cb) == [evs EXCEPT ![i].cbs = InsertCallback(@, cb)]

RegisterBuilt(i, cb) ==
  /\ cb # EmptyCallback
  /\ cb.id.num <= MaxNum /\ CanCreate(maya, cb.id)
  /\ events' = WithCallback(events, i, cb)
  /\ maya' = OnCallbackCreated(maya, cb.id)
  /\ UNCHANGED infos

RegisterScript(id, tag, weight) ==
  /\ HasEvent(events, id)
  /\ LET i == LowerBound(events, id)
     IN  RegisterBuilt(i, BuiltScript(events[i], tag, weight))

RegisterFunction(id, tag, weight, data) ==
  /\ HasEvent(events, id)
  /\ LET i == LowerBound(events, id)
     IN  RegisterBuilt(i, BuiltFunction(events[i], tag, weight, data))

(***************************************************************************)
(* buildCallback(eventId, ...) and buildCallback(eventName, ...): the      *)
(* callback goes to the client, not to the event.  A name nobody has       *)
(* registered yet is registered as an event of unknown type.               *)
(***************************************************************************)
Hold(cb) ==
  /\ cb # EmptyCallback
  /\ cb.id.num <= MaxNum
  /\ infos' = infos \cup {cb}
  /\ Cardinality(infos') <= MaxInfos

EventsForBuild(evs, name) ==
  IF HasName(evs, name) THEN evs
  ELSE AfterRegisterEvent(evs, name, UnknownType, NoOwner, InvalidId)

BuildScriptOn(id, tag, weight) ==
  /\ HasEvent(events, id)
  /\ Hold(BuiltScript(events[LowerBound(events, id)], tag, weight))
  /\ UNCHANGED <<events, maya>>

BuildFunctionOn(id, tag, weight, data) ==
  /\ HasEvent(events, id)
  /\ Hold(BuiltFunction(events[LowerBound(events, id)], tag, weight, data))
  /\ UNCHANGED <<events, maya>>

BuildScript(name, tag, weight) ==
  /\ events' = EventsForBuild(events, name)
  /\ Len(events') <= MaxEvents
  /\ Hold(BuiltScript(events'[FirstNamed(events', name)], tag, weight))
  /\ UNCHANGED maya

BuildFunction(name, tag, weight, data) ==
  /\ events' = EventsForBuild(events, name)
  /\ Len(events') <= MaxEvents
  /\ Hold(BuiltFunction(events'[FirstNamed(events', name)], tag, weight, data))
  /\ UNCHANGED maya

(***************************************************************************)
(* registerCallback(info): store a callback built or taken out earlier,    *)
(* under the id it already has.  The dispatcher refuses it silently when   *)
(* its tag and user data are in use; the handler is told in either case,   *)
(* and the refused object stays with the client.                           *)
(***************************************************************************)
\* Mutant: the dispatcher does not check what it is given.
AfterRegisterInfoAlways(evs, cb) ==
  WithCallback(evs, LowerBound(evs, cb.id.event), cb)

AfterRegisterInfo(evs, cb) ==
  LET i == LowerBound(evs, cb.id.event)
  IN  IF SiteTaken(evs[i].cbs, cb.tag, cb.data) THEN evs
      ELSE WithCallback(evs, i, cb)

RegisterInfo(cb) ==
  /\ cb \in infos
  /\ HasEvent(events, cb.id.event)
  /\ CanCreate(maya, cb.id)
  /\ events' = AfterRegisterInfo(events, cb)
  /\ maya' = OnCallbackCreated(maya, cb.id)
  /\ infos' = IF events' = events THEN infos ELSE infos \ {cb}

(***************************************************************************)
(* unregisterCallback(id) and unregisterCallback(id, info).                *)
(***************************************************************************)
HasCallback(evs, id) ==
  HasEvent(evs, id.event) /\ HasId(evs[LowerBound(evs, id.event)].cbs, id)

FoundCallback(evs, id) ==
  LET cbs == evs[LowerBound(evs, id.event)].cbs IN cbs[FirstWithId(cbs, id)]

WithoutCallback(evs, id) ==
  [evs EXCEPT ![LowerBound(evs, id.event)].cbs = EraseCallback(@, id)]

UnregisterCallback(id) ==
  /\ HasCallback(events, id)
  /\ events' = WithoutCallback(events, id)
  /\ maya' = OnCallbackDestroyed(maya, id)
  /\ UNCHANGED infos

TakeCallback(id) ==
  /\ HasCallback(events, id)
  /\ Hold(FoundCallback(events, id))
  /\ events' = WithoutCallback(events, id)
  /\ maya' = OnCallbackDestroyed(maya, id)

-----------------------------------------------------------------------------
(***************************************************************************)
(* The handler's constructor registers Maya's events on the empty          *)
(* scheduler, in order, and only then becomes the handler of their type.   *)
(***************************************************************************)
Init ==
  /\ events = [i \in 1..Len(MayaNames) |->
                 NewEvent(i, MayaNames[i], MayaType, NoOwner, InvalidId)]
  /\ maya = [i \in 1..Len(MayaNames) |-> [refCount |-> 0, installed |-> 0]]
  /\ infos = {}

EventIds == {events[i].id : i \in 1..Len(events)}
StoredIds == UNION {LiveIds(events[i]) : i \in 1..Len(events)}

NextEvents ==
  \/ \E name \in Names, type \in ClientTypes,
        owner \in Owners, parent \in Parents :
          RegisterEvent(name, type, owner, parent)
  \/ \E id \in EventIds : UnregisterEvent(id)
  \/ \E name \in Names : UnregisterNamedEvent(name)

NextDirect ==
  \/ \E id \in EventIds, tag \in Tags, weight \in Weights :
       \/ RegisterScript(id, tag, weight)
       \/ \E data \in Datas : RegisterFunction(id, tag, weight, data)
  \/ \E id \in StoredIds : UnregisterCallback(id)

NextHeld ==
  \/ \E tag \in Tags, weight \in Weights :
       \/ \E id \in EventIds :
            \/ BuildScriptOn(id, tag, weight)
            \/ \E data \in Datas : BuildFunctionOn(id, tag, weight, data)
       \/ \E name \in Names :
            \/ BuildScript(name, tag, weight)
            \/ \E data \in Datas : BuildFunction(name, tag, weight, data)
  \/ \E cb \in infos : RegisterInfo(cb)
  \/ \E id \in StoredIds : TakeCallback(id)

Next == NextEvents \/ NextDirect \/ NextHeld

Spec == Init /\ [][Next]_vars

-----------------------------------------------------------------------------
(***************************************************************************)
(* Properties.                                                             *)
(***************************************************************************)
\* The events are in ascending order of id, none of them 0: what lower_bound
\* needs to find an event, and the gap search of registerEvent to return an
\* id nobody has (EventHandler.cpp:250-260, 264-345).
Ascending(evs) ==
  /\ \A i \in 1..Len(evs) : evs[i].id >= 1
  /\ \A i, j \in 1..Len(evs) : i < j => evs[i].id < evs[j].id

IdsAscending == Ascending(events)

\* The callbacks of an event are in ascending order of weight, whatever was
\* registered, taken out and put back: "Lower weighted callbacks are triggered
\* before weighted ones" (EventHandler.h:453).
Ordered(cbs) ==
  \A i, j \in 1..Len(cbs) : i < j => cbs[i].weight <= cbs[j].weight

WeightsAscending == \A k \in 1..Len(events) : Ordered(events[k].cbs)

\* A tag and user data identify at most one callback of an event, on each of
\* the paths by which a callback gets in (EventHandler.cpp:77-194).
OnePerSite(cbs) ==
  \A i, j \in 1..Len(cbs) :
    cbs[i].tag = cbs[j].tag /\ cbs[i].data = cbs[j].data => i = j

SitesUnique == \A k \in 1..Len(events) : OnePerSite(events[k].cbs)

\* An event of unknown type is the only one of its name, and two events of one
\* name differ in owner or parent.  Both are needed: the duplicate check of
\* registerEvent looks at the first event in its way only, and a promotion
\* changes owner and parent without looking at the others.
Distinct(evs) ==
  \A i, j \in 1..Len(evs) :
    i # j /\ evs[i].name = evs[j].name =>
      /\ evs[i].type # UnknownType
      /\ <<evs[i].owner, evs[i].parent>> # <<evs[j].owner, evs[j].parent>>

EventsDistinct == Distinct(events)

\* A stored callback is found through the event id in its own id, the only way
\* unregisterCallback and findCallback look for it (EventHandler.cpp:348-400).
Reachable(d) == \A i \in 1..Len(d.cbs) : d.cbs[i].id.event = d.id

CallbacksReachable == \A k \in 1..Len(events) : Reachable(events[k])

\* Where the callbacks of Maya's type are in the event with id e.
MayaCallbacks(e) ==
  UNION {{i \in 1..Len(events[k].cbs) : events[k].cbs[i].id.type = MayaType} :
           k \in {j \in 1..Len(events) : events[j].id = e}}

\* The handler counts no fewer callbacks than are stored under its ids, so the
\* unsigned count never wraps and a Maya callback is installed, once, while a
\* callback needs it (MayaEventManager.cpp:640-676) ...
CountCovers ==
  \A e \in DOMAIN maya :
    /\ maya[e].refCount >= Cardinality(MayaCallbacks(e))
    /\ maya[e].installed = IF maya[e].refCount = 0 THEN 0 ELSE 1

\* ... and no more than that, so it is removed with the last one.
CountExact ==
  \A e \in DOMAIN maya : maya[e].refCount = Cardinality(MayaCallbacks(e))

\* "The 3 fields are used to uniquely define a callback within the event
\* system" (EventHandler.h:66): no two stored callbacks share an id.
UniqueIds ==
  \A k \in 1..Len(events) : \A i, j \in 1..Len(events[k].cbs) :
    events[k].cbs[i].id = events[k].cbs[j].id => i = j

=============================================================================
