--------------------------- MODULE EventTrigger ---------------------------
(***************************************************************************)
(* Triggering: EventDispatcher::triggerEvent, and the ways to reach it by  *)
(* id, by name, through a node and from a message of Maya's.               *)
(*                                                                         *)
(*   source  plugin/al/utils/AL/event/EventHandler.h                       *)
(*           plugin/al/mayautils/AL/maya/event/MayaEventManager.cpp        *)
(*                                                                         *)
(* A trigger loops over the vector of callbacks with two iterators.  What  *)
(* it calls may use the event system in any way: register and remove       *)
(* events and callbacks, trigger other events or the same one again.       *)
(* Triggers that are running form a stack.  The iterators of a loop are    *)
(* good while the buffer of its vector of callbacks is, which moves along  *)
(* when the scheduler moves its dispatchers: a loop is known here by the   *)
(* id of its event.  Its `this` is a place in the scheduler's own vector,  *)
(* good while that has such a place, and is needed to run a script.        *)
(***************************************************************************)
EXTENDS EventScheduler

CONSTANT MaxDepth   \* bound: triggers that run inside one another

ASSUME DepthAssumption == MaxDepth \in Nat

VARIABLES
  loops,     \* the triggers that are running, the innermost last
  crashed    \* memory was read that held nothing any more

triggerVars == <<vars, loops, crashed>>

(***************************************************************************)
(* A loop is at index next of a range that ends at end; kept says that the *)
(* buffer it looks at is still the one it began with, home that the buffer *)
(* with the dispatchers is, where `this` was at place.  The rest is        *)
(* history: what it has called, the callbacks stored since it began that   *)
(* it has not called (due), and whether clients left its event alone.      *)
(***************************************************************************)
Loops ==
  [event : Nat, next : Nat, end : Nat, kept : BOOLEAN, home : BOOLEAN, place : Nat,
   alone : BOOLEAN, ran : Seq(Callbacks), due : SUBSET Callbacks]

CallbacksOf(evs, id) == evs[LowerBound(evs, id)].cbs

StoredUnder(evs, id) ==
  IF HasEvent(evs, id)
  THEN {CallbacksOf(evs, id)[i] : i \in 1..Len(CallbacksOf(evs, id))} ELSE {}

NewLoop(evs, id) ==
  [event |-> id, next |-> 1, end |-> Len(CallbacksOf(evs, id)),
   kept |-> TRUE, home |-> TRUE, place |-> LowerBound(evs, id),
   alone |-> TRUE, ran |-> << >>, due |-> StoredUnder(evs, id)]

Top == loops[Len(loops)]

\* Clients run when nothing does, or inside a callback.
ClientsRun == ~crashed /\ (loops # << >> => Top.next > 1)

-----------------------------------------------------------------------------
(***************************************************************************)
(* triggerEvent by id, which is also how a node triggers the events in its *)
(* map; by name, the first event of that name; and for a message Maya      *)
(* sends while a MMessage callback is installed for the event.             *)
(***************************************************************************)
Trigger(id) ==
  /\ ClientsRun
  /\ HasEvent(events, id)
  /\ Len(loops) < MaxDepth
  /\ loops' = Append(loops, NewLoop(events, id))
  /\ UNCHANGED <<vars, crashed>>

TriggerNamed(name) ==
  HasName(events, name) /\ Trigger(events[FirstNamed(events, name)].id)

MayaMessage(id) ==
  id \in DOMAIN maya /\ maya[id].installed > 0 /\ Trigger(id)

(***************************************************************************)
(* One turn of the innermost loop calls the callback it is at.             *)
(***************************************************************************)
\* The iterator, at index i, is at a callback.
InBuffer(f, i) ==
  f.kept /\ HasEvent(events, f.event) /\ i <= Len(CallbacksOf(events, f.event))

\* There is a dispatcher where `this` points, its own or one that moved there.
AtHome(f, evs) == f.home /\ f.place <= Len(evs)

\* A function with user data is run without `this`; a script is not, and one
\* with no data may be either.
Sees(f, i) ==
  InBuffer(f, i) /\ (AtHome(f, events) \/ CallbacksOf(events, f.event)[i].data # NoData)

\* Mutant: the iterator moves on before the call.
CalledNext(f) ==
  [f EXCEPT !.next = @ + 1, !.due = @ \ {CallbacksOf(events, f.event)[f.next]},
            !.ran = IF f.next < f.end
                    THEN Append(@, CallbacksOf(events, f.event)[f.next + 1]) ELSE @]

Called(f) ==
  LET cb == CallbacksOf(events, f.event)[f.next]
  IN  [f EXCEPT !.next = @ + 1, !.due = @ \ {cb},
                !.ran = IF f.alone THEN Append(@, cb) ELSE @]

RunCallback ==
  /\ ~crashed /\ loops # << >>
  /\ Top.next <= Top.end
  /\ InBuffer(Top, Top.next)
  /\ loops' = [loops EXCEPT ![Len(loops)] = Called(@)]
  /\ UNCHANGED <<vars, crashed>>

Crash == crashed' = TRUE /\ loops' = << >>

\* Past the end of the vector is a callback that was moved from, with null for
\* its function or text; in memory that was freed is one that is not stored any
\* more, or anything.  The program crashes, or the loop goes on.
RunStale ==
  /\ ~crashed /\ loops # << >>
  /\ Top.next <= Top.end
  /\ ~Sees(Top, Top.next)
  /\ \/ Crash
     \/ loops' = [loops EXCEPT ![Len(loops)].next = @ + 1] /\ UNCHANGED crashed
  /\ UNCHANGED vars

\* The report of a script that failed reads its tag and the name of its event.
ReportStale ==
  /\ ~crashed /\ loops # << >>
  /\ Top.next > 1
  /\ ~Sees(Top, Top.next - 1)
  /\ Crash
  /\ UNCHANGED vars

Return ==
  /\ ~crashed /\ loops # << >>
  /\ Top.next > Top.end
  /\ loops' = SubSeq(loops, 1, Len(loops) - 1)
  /\ UNCHANGED <<vars, crashed>>

(***************************************************************************)
(* What a client does to the memory a loop looks at.  Removing the event   *)
(* frees the buffer; a callback more moves it unless there is capacity; an *)
(* event more moves the dispatchers unless there is capacity.              *)
(***************************************************************************)
NumCallbacks(evs, id) ==
  IF HasEvent(evs, id) THEN Len(CallbacksOf(evs, id)) ELSE 0

\* Mutant: dispatchers are copied, buffers and all, when an event is removed.
BufferKeptCopied(f, moved) == f.kept /\ Len(events') >= Len(events)

OneMore(f) == NumCallbacks(events', f.event) > NumCallbacks(events, f.event)

BufferKept(f, moved) ==
  /\ f.kept
  /\ HasEvent(events', f.event)
  /\ OneMore(f) => ~moved

\* An event is left alone if its callbacks stay as they are and, unless all of
\* them are functions with user data, no event is added and not so many are
\* removed that its place goes.
LeftAlone(f) ==
  /\ HasEvent(events', f.event)
  /\ CallbacksOf(events', f.event) = CallbacksOf(events, f.event)
  /\ \/ Len(events') <= Len(events) /\ f.place <= Len(events')
     \/ \A i \in 1..Len(CallbacksOf(events, f.event)) :
          CallbacksOf(events, f.event)[i].data # NoData

AfterClient(f, moved) ==
  LET alone == f.alone /\ LeftAlone(f)
  IN  [f EXCEPT !.kept  = BufferKept(f, moved),
                !.home  = @ /\ (Len(events') > Len(events) => ~moved),
                !.alone = alone,
                !.ran   = IF alone THEN @ ELSE << >>,
                !.due   = @ \cap StoredUnder(events', f.event)]

\* Only a vector that grows moves.
MayMove ==
  Len(events') > Len(events) \/ \E k \in 1..Len(loops) : OneMore(loops[k])

Client ==
  /\ ClientsRun
  /\ Next
  /\ \E moved \in BOOLEAN :
       /\ moved => MayMove
       /\ loops' = [k \in 1..Len(loops) |-> AfterClient(loops[k], moved)]
  /\ UNCHANGED crashed

-----------------------------------------------------------------------------
TriggerInit == Init /\ loops = << >> /\ crashed = FALSE

TriggerNext ==
  \/ \E i \in 1..Len(events) : Trigger(events[i].id)
  \/ \E name \in Names : TriggerNamed(name)
  \/ \E id \in DOMAIN maya : MayaMessage(id)
  \/ RunCallback
  \/ RunStale
  \/ ReportStale
  \/ Return
  \/ Client

TriggerSpec == TriggerInit /\ [][TriggerNext]_triggerVars

-----------------------------------------------------------------------------
TriggerTypeOK ==
  /\ TypeOK
  /\ loops \in Seq(Loops) /\ Len(loops) <= MaxDepth
  /\ crashed \in BOOLEAN

\* A trigger whose event is left alone never reads memory that holds nothing
\* any more, whatever happens to the scheduler's own vector, to other events
\* and to the triggers around and inside it (EventHandler.h:578-607).
NothingStale ==
  \A k \in 1..Len(loops) : loops[k].alone =>
    /\ loops[k].next <= loops[k].end => Sees(loops[k], loops[k].next)
    /\ loops[k].next > 1 => Sees(loops[k], loops[k].next - 1)

\* When it returns it has called what is stored, each callback once and in
\* order: "dispatches the event to all callbacks" (EventHandler.h:543).
WholeBroadcast ==
  [][Len(loops') < Len(loops) /\ Top.alone =>
       Top.ran = CallbacksOf(events, Top.event)]_triggerVars

\* "Lower weighted callbacks are triggered before weighted ones"
\* (EventHandler.h:453), also when the callbacks trigger the event again.
CalledByWeight == \A k \in 1..Len(loops) : loops[k].alone => Ordered(loops[k].ran)

\* The weakest reading of that line for events that are not left alone: a
\* callback that is stored from the start of a trigger to its end is called.
DispatchesToAll ==
  [][Len(loops') < Len(loops) /\ ~crashed' => Top.due = {}]_triggerVars

=============================================================================
