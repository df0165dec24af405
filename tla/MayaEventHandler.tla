------------------------- MODULE MayaEventHandler -------------------------
(***************************************************************************)
(* AL::maya::event::MayaEventHandler: the custom handler the scheduler     *)
(* tells of every callback created or destroyed on an event of Maya's      *)
(* type.  It counts the callbacks of each Maya event and keeps one MMessage *)
(* callback installed with Maya while the count is not zero.               *)
(*                                                                         *)
(*   source  plugin/al/mayautils/AL/maya/event/MayaEventManager.{h,cpp}    *)
(*                                                                         *)
(* The bookkeeping is a function from the event ids the handler registered *)
(* (m_eventMapping) to [refCount, installed]; installed counts the MMessage *)
(* callbacks Maya holds for the event, so that one installed twice, or one *)
(* never removed, can be told apart.  All the init<X>Message functions are *)
(* alike here: they install one MMessage callback.                         *)
(***************************************************************************)
EXTENDS EventDispatcher

CONSTANT MaxRef   \* largest value of the uint32_t refCount

ASSUME RefAssumption == MaxRef \in Nat \ {0}

MayaInfos == [refCount : 0..MaxRef, installed : Nat]

\* CustomEventHandler lookup by the type in the id, then by the event id.
Handles(m, id) == id.type = MayaType /\ id.event \in DOMAIN m

\* Bound: no creation is considered that would take a count past MaxRef.
CanCreate(m, id) == Handles(m, id) => m[id.event].refCount < MaxRef

\* Mutant: the count is set, not incremented.
OnCallbackCreatedOnce(m, id) ==
  IF ~Handles(m, id) THEN m
  ELSE [m EXCEPT ![id.event] = [refCount |-> 1, installed |-> 1]]

OnCallbackCreated(m, id) ==
  IF ~Handles(m, id) THEN m
  ELSE [m EXCEPT ![id.event] =
         [refCount  |-> @.refCount + 1,
          installed |-> IF @.refCount = 0 THEN @.installed + 1 ELSE @.installed]]

\* Mutant: the count is decremented in the test and again after it.
OnCallbackDestroyedTwice(m, id) ==
  IF ~Handles(m, id) THEN m ELSE [m EXCEPT ![id.event].refCount = @ - 2]

\* The count is unsigned: taking one from zero wraps to MaxRef.  Removing an
\* MMessage callback that is not installed leaves Maya as it is.
OnCallbackDestroyed(m, id) ==
  IF ~Handles(m, id) THEN m
  ELSE [m EXCEPT ![id.event] =
         [refCount  |-> IF @.refCount = 0 THEN MaxRef ELSE @.refCount - 1,
          installed |-> IF @.refCount = 1 /\ @.installed > 0
                        THEN @.installed - 1 ELSE @.installed]]

=============================================================================
