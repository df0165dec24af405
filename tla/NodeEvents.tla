---------------------------- MODULE NodeEvents ----------------------------
(***************************************************************************)
(* AL::event::NodeEvents: the interface through which a node (ProxyShape   *)
(* is the one in the plug-in) keeps events of its own in the scheduler.    *)
(*                                                                         *)
(*   source  plugin/al/utils/AL/event/EventHandler.h                       *)
(*                                                                         *)
(* A node remembers its events by name in m_events and unregisters them    *)
(* when it is destroyed.  The scheduler is shared with everyone else.      *)
(***************************************************************************)
EXTENDS EventScheduler

CONSTANT
  FreedReads   \* what reading a freed map node may yield besides what it held

ASSUME FreedReadsAssumption == FreedReads \subseteq Nat

VARIABLE nodeEvents   \* m_events of every node that is alive

nodeVars == <<vars, nodeEvents>>

Nodes == Owners \ {NoOwner}

NodeTypeOK ==
  /\ TypeOK
  /\ DOMAIN nodeEvents \subseteq Nodes
  /\ \A n \in DOMAIN nodeEvents :
       \E N \in SUBSET Names : nodeEvents[n] \in [N -> Nat]

IdOnNode(n, name) ==
  IF name \in DOMAIN nodeEvents[n] THEN nodeEvents[n][name] ELSE 0

(***************************************************************************)
(* unordered_map::emplace keeps the entry that is already there.           *)
(***************************************************************************)
\* Mutant: the entry is not made.
EmplaceNothing(m, name, id) == m

Emplace(m, name, id) ==
  [x \in DOMAIN m \cup {name} |-> IF x \in DOMAIN m THEN m[x] ELSE id]

NodeRegisterEvent(n, name, type, parent) ==
  /\ n \in DOMAIN nodeEvents
  /\ RegisterEvent(name, type, n, parent)
  /\ nodeEvents' =
       [nodeEvents EXCEPT ![n] = Emplace(@, name, RegisteredId(events, name, n, parent))]

(***************************************************************************)
(* unregisterEvent erases the map entry and then reads the id through the  *)
(* iterator it erased: the read yields what the entry held if its memory   *)
(* is intact, anything in FreedReads if it is not.                         *)
(***************************************************************************)
EventsWithout(id, evs) ==
  IF HasEvent(evs, id) THEN RemoveAt(evs, LowerBound(evs, id)) ELSE evs

NodeUnregisterEvent(n, name) ==
  /\ n \in DOMAIN nodeEvents
  /\ name \in DOMAIN nodeEvents[n]
  /\ \E id \in {nodeEvents[n][name]} \cup FreedReads :
       events' = EventsWithout(id, events)
  /\ nodeEvents' = [nodeEvents EXCEPT ![n] = Restrict(@, DOMAIN @ \ {name})]
  /\ UNCHANGED <<maya, infos>>

(***************************************************************************)
(* The destructor unregisters by id, in the order of the hash map.         *)
(***************************************************************************)
OwnIds(n) == {nodeEvents[n][name] : name \in DOMAIN nodeEvents[n]}

\* Mutant: the destructor leaves the node's events registered.
NodeDestroyedKeepsEvents(n) ==
  /\ n \in DOMAIN nodeEvents
  /\ nodeEvents' = Restrict(nodeEvents, DOMAIN nodeEvents \ {n})
  /\ UNCHANGED <<events, maya, infos>>

NodeDestroyed(n) ==
  /\ n \in DOMAIN nodeEvents
  /\ events' = FoldSet(EventsWithout, events, OwnIds(n))
  /\ nodeEvents' = Restrict(nodeEvents, DOMAIN nodeEvents \ {n})
  /\ UNCHANGED <<maya, infos>>

(***************************************************************************)
(* Everyone else registers events without an owner and unregisters those   *)
(* only (StageCache.cpp:59-76, EventCommand.cpp:151-158); callbacks are    *)
(* registered on any event.                                                *)
(***************************************************************************)
OtherClients ==
  \/ \E name \in Names, type \in ClientTypes, parent \in Parents :
       RegisterEvent(name, type, NoOwner, parent)
  \/ \E i \in 1..Len(events) :
       events[i].owner = NoOwner /\ UnregisterEvent(events[i].id)
  \/ \E name \in Names : UnregisterNamedEvent(name)
  \/ NextDirect
  \/ NextHeld

NodeInit == Init /\ nodeEvents = [n \in Nodes |-> << >>]

NodeNext ==
  \/ \E n \in Nodes, name \in Names, type \in ClientTypes, parent \in Parents :
       NodeRegisterEvent(n, name, type, parent)
  \/ \E n \in Nodes, name \in Names : NodeUnregisterEvent(n, name)
  \/ \E n \in Nodes : NodeDestroyed(n)
  \/ OtherClients /\ UNCHANGED nodeEvents

NodeSpec == NodeInit /\ [][NodeNext]_nodeVars

-----------------------------------------------------------------------------
\* What a node remembers and what the scheduler stores for it agree: each
\* entry is the id of a registered event of that name and owner, and each
\* event whose owner is a node is an entry of that node, which is alive.
\* Promotion, id reuse and removal by other clients all get in the way
\* (EventHandler.h:1092-1150, EventHandler.cpp:226-291).
NodeEventsAgree ==
  /\ \A n \in DOMAIN nodeEvents : \A name \in DOMAIN nodeEvents[n] :
       \E i \in 1..Len(events) :
         /\ events[i].id = nodeEvents[n][name]
         /\ events[i].name = name /\ events[i].owner = n
  /\ \A i \in 1..Len(events) : events[i].owner # NoOwner =>
       /\ events[i].owner \in DOMAIN nodeEvents
       /\ IdOnNode(events[i].owner, events[i].name) = events[i].id

=============================================================================
