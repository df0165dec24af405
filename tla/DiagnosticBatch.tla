-------------------------- MODULE DiagnosticBatch --------------------------
(***************************************************************************)
(* UsdMayaDiagnosticDelegate: USD's messages of all threads on their way   *)
(* to Maya, saved while a batch context is alive and shown by the main     *)
(* thread when the last one is destroyed.                                  *)
(*                                                                         *)
(*   source  plugin/pxr/maya/lib/usdMaya/diagnosticDelegate.{h,cpp}        *)
(*                                                                         *)
(* The shared delegate only counts contexts; while the count is positive   *)
(* it ignores statuses and warnings and two collectors, delegates of their *)
(* own, keep them.  TfDiagnosticMgr (external) calls every delegate in the *)
(* order they were added, under a lock that shares with other posts and    *)
(* excludes the adding and removing of delegates; with none it writes to   *)
(* stderr.  Any thread posts at any time, so a post may overlap each step  *)
(* of the main thread that holds no such lock.                             *)
(*                                                                         *)
(* An object - a delegate, a context - is made and destroyed once and a    *)
(* message is posted once: the sizes of the sets are the bounds.           *)
(***************************************************************************)
EXTENDS Integers, Sequences, FiniteSets, SequencesExt

CONSTANTS
  Main,       \* Maya's main thread
  Workers,    \* the other threads
  Messages,   \* diagnostics that may be posted
  Kind,       \* of each message: "status", "warning" or "error"
  Delegates,  \* UsdMayaDiagnosticDelegate objects
  Contexts,   \* UsdMayaDiagnosticBatchContext objects
  None,       \* a null pointer; no message
  Unmade,     \* a context before its constructor ...
  Ended       \* ... and after its destructor

Threads    == {Main} \cup Workers
Collectors == {"status", "warning"}

ASSUME KindAssumption    == Kind \in [Messages -> Collectors \cup {"error"}]
ASSUME ContextAssumption == IsFiniteSet(Contexts)
ASSUME NullAssumption    ==
  /\ Main \notin Workers
  /\ None \notin Delegates \cup Messages
  /\ {Unmade, Ended} \cap (Delegates \cup {None}) = {}
  /\ Unmade # Ended

\* What the manager calls: <<d, "self">> is d, the others its two collectors.
Entries == Delegates \X (Collectors \cup {"self"})

VARIABLES
  mgr,       \* TfDiagnosticMgr's delegates, in order
  shared,    \* _sharedDelegate
  made,      \* the delegates constructed so far
  count,     \* _batchCount
  held,      \* what each collector has not given away
  contexts,  \* _delegate of each context, whether or not it has expired
  todo,      \* the steps the main thread has before it, in order
  message,   \* what each thread is posting, None when it is not
  calls,     \* the delegates the manager has still to call for it
  posted,    \* the messages posted so far
  shown,     \* how often each was displayed or written to stderr
  calm       \* those whose post overlapped none of todo

mainVars == <<shared, made, count, contexts>>
postVars == <<message, calls, posted>>
vars     == <<mgr, mainVars, held, todo, postVars, shown, calm>>

Steps == {"add", "take", "drop"} \X Entries

TypeOK ==
  /\ mgr \in Seq(Entries)
  /\ shared \in made \cup {None} /\ made \subseteq Delegates
  /\ count \in [Delegates -> Nat]
  /\ held \in [Entries -> SUBSET Messages]
  /\ contexts \in [Contexts -> Delegates \cup {None, Unmade, Ended}]
  /\ todo \in Seq(Steps)
  /\ message \in [Threads -> Messages \cup {None}]
  /\ calls \in [Threads -> Seq(Entries)]
  /\ posted \subseteq Messages
  /\ shown \in [Messages -> Nat]
  /\ calm \subseteq posted

-----------------------------------------------------------------------------
\* The manager has a delegate at most once.
Registered(e) == \E i \in 1..Len(mgr) : mgr[i] = e
PlaceOf(e)    == CHOOSE i \in 1..Len(mgr) : mgr[i] = e

Free == todo = << >> /\ message[Main] = None

\* The main thread turns to these steps, with whatever is being posted.
Begin(steps) ==
  /\ todo' = steps
  /\ calm' = IF steps = << >> THEN calm ELSE calm \ {message[t] : t \in Workers}

\* _FlushBatch; the destruction of the two collectors.
Flush(d)    == <<<<"take", <<d, "status">>>>, <<"take", <<d, "warning">>>>>>
Collect(d)  == <<<<"add",  <<d, "status">>>>, <<"add",  <<d, "warning">>>>>>
Release(d)  == <<<<"drop", <<d, "status">>>>, <<"drop", <<d, "warning">>>>>>

\* Mutant: every context makes collectors.
StartBatchAlways(d) == Collect(d)

\* _StartBatch and _EndBatch, after the count went up or down.
StartBatch(d) == IF count[d] = 0 THEN Collect(d) ELSE << >>
EndBatch(d)   == IF count[d] = 1 THEN Flush(d) \o Release(d) ELSE << >>

\* Mutant: removed without a flush.
DestroyUnflushed(d) == <<<<"drop", <<d, "self">>>>>> \o Release(d)

\* ~UsdMayaDiagnosticDelegate; a collector that is null has no effect.
Destroy(d) == Flush(d) \o <<<<"drop", <<d, "self">>>>>>
                       \o <<<<"drop", <<d, "warning">>>>, <<"drop", <<d, "status">>>>>>

\* The constructor of a context binds it to the delegate there is, if any.
EnterContext(c) ==
  /\ Free /\ contexts[c] = Unmade
  /\ contexts' = [contexts EXCEPT ![c] = shared]
  /\ IF shared = None
     THEN UNCHANGED <<count, todo, calm>>
     ELSE /\ count' = [count EXCEPT ![shared] = @ + 1]
          /\ Begin(StartBatch(shared))
  /\ UNCHANGED <<mgr, shared, made, held, postVars, shown>>

\* Mutants: a context ends the batch of the delegate that is installed now.
BoundToAny(c)   == shared # None
BoundToBatch(c) == shared # None /\ count[shared] > 0

\* The weak pointer locks: its delegate is alive.
Bound(c) == shared # None /\ contexts[c] = shared

\* The destructor, in any order of the contexts.
LeaveContext(c) ==
  /\ Free /\ contexts[c] \notin {Unmade, Ended}
  /\ contexts' = [contexts EXCEPT ![c] = Ended]
  /\ IF Bound(c)
     THEN /\ count' = [count EXCEPT ![shared] = @ - 1]
          /\ Begin(EndBatch(shared))
     ELSE UNCHANGED <<count, todo, calm>>
  /\ UNCHANGED <<mgr, shared, made, held, postVars, shown>>

\* InstallDelegate: the new delegate is constructed before the old one goes.
InstallDelegate(d) ==
  /\ Free /\ d \notin made
  /\ made' = made \cup {d}
  /\ shared' = d
  /\ Begin(<<<<"add", <<d, "self">>>>>> \o
           (IF shared = None THEN << >> ELSE Destroy(shared)))
  /\ UNCHANGED <<mgr, count, held, contexts, postVars, shown>>

RemoveDelegate ==
  /\ Free /\ shared # None
  /\ shared' = None
  /\ Begin(Destroy(shared))
  /\ UNCHANGED <<mgr, made, count, held, contexts, postVars, shown>>

(***************************************************************************)
(* The steps of the main thread.  Adding and removing wait for the posts.  *)
(***************************************************************************)
NextStep(op, e) == todo # << >> /\ Head(todo) = <<op, e>> /\ todo' = Tail(todo)
Unlocked     == \A t \in Threads : message[t] = None

AddDelegate(e) ==
  /\ NextStep("add", e) /\ Unlocked
  /\ mgr' = Append(mgr, e)
  /\ UNCHANGED <<mainVars, held, postVars, shown, calm>>

DropDelegate(e) ==
  /\ NextStep("drop", e) /\ Unlocked
  /\ mgr' = IF Registered(e) THEN RemoveAt(mgr, PlaceOf(e)) ELSE mgr
  /\ held' = [held EXCEPT ![e] = {}]
  /\ UNCHANGED <<mainVars, postVars, shown, calm>>

TakeDiagnostics(e) ==
  /\ NextStep("take", e)
  /\ shown' = [m \in Messages |-> IF m \in held[e] THEN shown[m] + 1 ELSE shown[m]]
  /\ held' = [held EXCEPT ![e] = {}]
  /\ UNCHANGED <<mgr, mainVars, postVars, calm>>

MainStep == \E e \in Entries : AddDelegate(e) \/ DropDelegate(e) \/ TakeDiagnostics(e)

(***************************************************************************)
(* A thread posts a message: TfDiagnosticMgr calls the delegates in turn.  *)
(***************************************************************************)
Show(m) == shown' = [shown EXCEPT ![m] = @ + 1]

Post(t, m) ==
  /\ message[t] = None /\ m \notin posted
  /\ t = Main => todo = << >>
  /\ posted' = posted \cup {m}
  /\ calm' = IF todo = << >> THEN calm \cup {m} ELSE calm
  /\ IF mgr = << >>
     THEN Show(m) /\ UNCHANGED <<message, calls>>
     ELSE /\ message' = [message EXCEPT ![t] = m]
          /\ calls' = [calls EXCEPT ![t] = mgr]
          /\ UNCHANGED shown
  /\ UNCHANGED <<mgr, mainVars, held, todo>>

\* Mutant: a batched message is displayed too.
ShowsBatched(d, m) == TRUE

\* IssueStatus, IssueWarning and IssueError of the shared delegate.
ShowsNow(d, m) == Kind[m] = "error" \/ ~(count[d] > 0)

Returns(t) ==
  /\ calls' = [calls EXCEPT ![t] = Tail(@)]
  /\ message' = IF Len(calls[t]) = 1 THEN [message EXCEPT ![t] = None] ELSE message
  /\ UNCHANGED <<mgr, mainVars, todo, posted, calm>>

IssueShared(t) ==
  /\ calls[t] # << >> /\ Head(calls[t])[2] = "self"
  /\ IF ShowsNow(Head(calls[t])[1], message[t]) THEN Show(message[t]) ELSE UNCHANGED shown
  /\ Returns(t)
  /\ UNCHANGED held

IssueCollector(t) ==
  /\ calls[t] # << >> /\ Head(calls[t])[2] \in Collectors
  /\ held' = IF Head(calls[t])[2] = Kind[message[t]]
             THEN [held EXCEPT ![Head(calls[t])] = @ \cup {message[t]}] ELSE held
  /\ Returns(t)
  /\ UNCHANGED shown

Init ==
  /\ mgr = << >> /\ shared = None /\ made = {}
  /\ count = [d \in Delegates |-> 0]
  /\ held = [e \in Entries |-> {}]
  /\ contexts = [c \in Contexts |-> Unmade]
  /\ todo = << >>
  /\ message = [t \in Threads |-> None]
  /\ calls = [t \in Threads |-> << >>]
  /\ posted = {} /\ calm = {}
  /\ shown = [m \in Messages |-> 0]

Next ==
  \/ \E c \in Contexts : EnterContext(c) \/ LeaveContext(c)
  \/ \E d \in Delegates : InstallDelegate(d)
  \/ RemoveDelegate
  \/ MainStep
  \/ \E t \in Threads : IssueShared(t) \/ IssueCollector(t) \/ \E m \in Messages : Post(t, m)

\* Threads go on with what they have begun and batch contexts, which live on
\* the stack or for a frame (batchRenderer.cpp:1390), are destroyed.
Fairness ==
  /\ WF_vars(MainStep)
  /\ \A c \in Contexts : WF_vars(LeaveContext(c))
  /\ \A t \in Threads : WF_vars(IssueShared(t) \/ IssueCollector(t))

Spec == Init /\ [][Next]_vars /\ Fairness

-----------------------------------------------------------------------------
\* The count of the installed delegate is the number of live contexts bound to
\* it, however delegates come and go between their constructors and destructors:
\* "_EndBatch invoked before _StartBatch" (diagnosticDelegate.cpp:210) is never
\* reached, and a batch ends exactly with its last context.
CountMatches ==
  shared # None => count[shared] = Cardinality({c \in Contexts : contexts[c] = shared})

\* When the main thread is at rest the manager has the shared delegate and,
\* during a batch, its two collectors, each once and in this order; none is left
\* behind by a removal in the middle of a batch (diagnosticDelegate.cpp:90-98).
ManagerMatches ==
  todo = << >> =>
    mgr = IF shared = None THEN << >>
          ELSE IF count[shared] = 0 THEN <<<<shared, "self">>>>
          ELSE <<<<shared, "self">>, <<shared, "status">>, <<shared, "warning">>>>

\* A message whose post overlapped no change of the delegates is displayed at
\* most once (diagnosticDelegate.cpp:115-143, 221-243) ...
ShownOnce == \A m \in calm : shown[m] <= 1

\* ... and is displayed in the end, at the latest when the batch ends or the
\* delegate is removed: "in order to avoid losing any" (diagnosticDelegate.cpp:93).
CalmIsShown == \A m \in Messages : (m \in calm) ~> (m \notin calm \/ shown[m] > 0)

=============================================================================
