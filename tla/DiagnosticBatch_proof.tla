----------------------- MODULE DiagnosticBatch_proof -----------------------
(***************************************************************************)
(* The batch count of the installed delegate is the number of its live     *)
(* contexts, the manager has the right delegates in the right order and no *)
(* message is shown twice, for any number of threads, messages, contexts   *)
(* and delegates.  Three invariants, each resting on those before it:      *)
(*                                                                         *)
(*   BatchInv  adds to the count that a delegate that is not made has no   *)
(*             context and a count of zero, so that installing it starts   *)
(*             from there, and that a thread has delegates to call exactly *)
(*             while it posts a message;                                   *)
(*   Phase     says what the manager has after each step of each change of *)
(*             the delegates, and so when the last step is done;           *)
(*   ShowInv   says which delegates a thread has still to call for a       *)
(*             message that no change overlaps, and what can have been     *)
(*             done with the message by then.                              *)
(***************************************************************************)
EXTENDS DiagnosticBatch, SequenceLemmas, SequenceTheorems, FiniteSetTheorems, TLAPS

\* The contexts bound to a delegate.
Holders(cs, d) == {c \in Contexts : cs[c] = d}

Unborn == \A d \in Delegates \ made :
            count[d] = 0 /\ \A c \in Contexts : contexts[c] # d

Posting == \A t \in Threads : message[t] = None <=> calls[t] = << >>

BatchInv == TypeOK /\ CountMatches /\ Unborn /\ Posting

\* Entering adds one holder, leaving removes one and leaves the others alone.
LEMMA HoldersFacts ==
  ASSUME NEW cs, NEW c \in Contexts, NEW d, NEW v,
         cs \in [Contexts -> Delegates \cup {None, Unmade, Ended}]
  PROVE  /\ IsFiniteSet(Holders(cs, d))
         /\ Cardinality(Holders(cs, d)) \in Nat
         /\ cs[c] # d /\ v = d => Cardinality(Holders([cs EXCEPT ![c] = v], d))
                                    = Cardinality(Holders(cs, d)) + 1
         /\ cs[c] = d /\ v # d =>
              /\ Cardinality(Holders(cs, d)) > 0
              /\ Cardinality(Holders([cs EXCEPT ![c] = v], d))
                   = Cardinality(Holders(cs, d)) - 1
         /\ cs[c] # d /\ v # d => Holders([cs EXCEPT ![c] = v], d) = Holders(cs, d)
<1> DEFINE H == Holders(cs, d)
           K == Holders([cs EXCEPT ![c] = v], d)
<1>1. IsFiniteSet(H)
  <2>1. H \subseteq Contexts
    BY DEF Holders
  <2> HIDE DEF H
  <2> QED BY <2>1, ContextAssumption, FS_Subset
<1>2. Cardinality(H) \in Nat
  <2> HIDE DEF H
  <2> QED BY <1>1, FS_CardinalityType
<1>3. ASSUME cs[c] # d, v = d PROVE Cardinality(K) = Cardinality(H) + 1
  <2>1. K = H \cup {c} /\ c \notin H
    BY <1>3 DEF Holders
  <2> HIDE DEF H, K
  <2> QED BY <2>1, <1>1, FS_AddElement
<1>4. ASSUME cs[c] = d, v # d
      PROVE  Cardinality(H) > 0 /\ Cardinality(K) = Cardinality(H) - 1
  <2>1. K = H \ {c} /\ c \in H
    BY <1>4 DEF Holders
  <2>2. H # {}
    BY <2>1
  <2> HIDE DEF H, K
  <2>3. Cardinality(H) # 0
    BY <2>2, <1>1, FS_EmptySet
  <2>4. Cardinality(K) = Cardinality(H) - 1
    BY <2>1, <1>1, FS_RemoveElement
  <2> QED BY <2>3, <2>4, <1>2
<1>5. ASSUME cs[c] # d, v # d PROVE K = H
  BY <1>5 DEF Holders
<1> QED BY <1>1, <1>2, <1>3, <1>4, <1>5

\* The lists of steps are sequences of steps.
LEMMA StepsFacts ==
  ASSUME NEW d \in Delegates
  PROVE  /\ Collect(d) \in Seq(Steps) /\ Destroy(d) \in Seq(Steps)
         /\ StartBatch(d) \in Seq(Steps) /\ EndBatch(d) \in Seq(Steps)
         /\ <<<<"add", <<d, "self">>>>>> \in Seq(Steps)
<1>1. \A part \in Collectors \cup {"self"}, op \in {"add", "take", "drop"} :
        <<op, <<d, part>>>> \in Steps
  BY DEF Steps, Entries
<1>2. Flush(d) \in Seq(Steps) /\ Collect(d) \in Seq(Steps) /\ Release(d) \in Seq(Steps)
  BY <1>1 DEF Flush, Collect, Release, Collectors
<1>3. /\ <<<<"add", <<d, "self">>>>>> \in Seq(Steps)
      /\ <<<<"drop", <<d, "self">>>>>> \in Seq(Steps)
      /\ <<<<"drop", <<d, "warning">>>>, <<"drop", <<d, "status">>>>>> \in Seq(Steps)
  BY <1>1 DEF Collectors
<1>4. Destroy(d) \in Seq(Steps)
  BY <1>2, <1>3, ConcatProperties DEF Destroy
<1>5. EndBatch(d) \in Seq(Steps)
  BY <1>2, ConcatProperties DEF EndBatch
<1>6. StartBatch(d) \in Seq(Steps)
  BY <1>2 DEF StartBatch
<1> QED BY <1>2, <1>3, <1>4, <1>5, <1>6

LEMMA BatchInit == Init => BatchInv
<1> SUFFICES ASSUME Init PROVE BatchInv
  OBVIOUS
<1>1. TypeOK
  BY DEF Init, TypeOK
<1>2. CountMatches /\ Unborn /\ Posting
  BY NullAssumption DEF Init, CountMatches, Unborn, Posting
<1> QED BY <1>1, <1>2 DEF BatchInv

\* A context is bound to the delegate there is and counted.
LEMMA BatchEnter ==
  ASSUME BatchInv, NEW c \in Contexts, EnterContext(c)
  PROVE  BatchInv'
<1>1. Unmade \notin Delegates \cup {None}
  BY NullAssumption
<1>2. CASE shared = None
  <2>1. TypeOK'
    BY <1>2 DEF BatchInv, TypeOK, EnterContext, postVars
  <2>2. CountMatches'
    BY <1>2 DEF EnterContext, CountMatches
  <2>3. Unborn'
    BY <1>2, NullAssumption DEF BatchInv, TypeOK, Unborn, EnterContext
  <2>4. Posting'
    BY DEF BatchInv, Posting, EnterContext, postVars
  <2> QED BY <2>1, <2>2, <2>3, <2>4 DEF BatchInv
<1>3. CASE shared # None
  <2>0. shared \in made /\ shared \in Delegates
    BY <1>3 DEF BatchInv, TypeOK
  <2>1. /\ count' = [count EXCEPT ![shared] = @ + 1]
        /\ contexts' = [contexts EXCEPT ![c] = shared]
        /\ contexts[c] = Unmade /\ Begin(StartBatch(shared))
        /\ UNCHANGED <<mgr, shared, made, held, postVars, shown>>
    BY <1>3 DEF EnterContext
  <2>2. TypeOK'
    <3>1. StartBatch(shared) \in Seq(Steps)
      BY <2>0, StepsFacts
    <3>2. todo' \in Seq(Steps) /\ calm' \subseteq calm
      BY <3>1, <2>1 DEF Begin
    <3> QED BY <2>0, <2>1, <3>2 DEF BatchInv, TypeOK, postVars
  <2>3. CountMatches'
    <3>1. contexts[c] # shared
      BY <1>1, <2>0, <2>1
    <3>2. Cardinality(Holders(contexts', shared)) = Cardinality(Holders(contexts, shared)) + 1
      BY <2>1, <3>1, HoldersFacts DEF BatchInv, TypeOK
    <3>3. count[shared] = Cardinality(Holders(contexts, shared))
      BY <1>3 DEF BatchInv, CountMatches, Holders
    <3>4. count'[shared'] = Cardinality(Holders(contexts', shared'))
      BY <2>0, <2>1, <3>2, <3>3 DEF BatchInv, TypeOK
    <3> QED BY <3>4 DEF CountMatches, Holders
  <2>4. Unborn'
    BY <2>0, <2>1 DEF BatchInv, TypeOK, Unborn
  <2>5. Posting'
    BY <2>1 DEF BatchInv, Posting, postVars
  <2> QED BY <2>2, <2>3, <2>4, <2>5 DEF BatchInv
<1> QED BY <1>2, <1>3

\* Only a context of the installed delegate ends its batch.
LEMMA BatchLeave ==
  ASSUME BatchInv, NEW c \in Contexts, LeaveContext(c)
  PROVE  BatchInv'
<1>1. Ended \notin Delegates \cup {None}
  BY NullAssumption
<1>2. Posting'
  BY DEF BatchInv, Posting, LeaveContext, postVars
<1>3. Unborn'
  <2>1. \A d \in Delegates \ made : d # shared
    BY NullAssumption DEF BatchInv, TypeOK
  <2>2. \A d \in Delegates \ made : count'[d] = count[d]
    BY <2>1 DEF BatchInv, TypeOK, LeaveContext, Bound
  <2>3. \A d \in Delegates, b \in Contexts : contexts[b] # d => contexts'[b] # d
    BY <1>1 DEF BatchInv, TypeOK, LeaveContext
  <2>4. made' = made
    BY DEF LeaveContext
  <2> QED BY <2>2, <2>3, <2>4 DEF BatchInv, Unborn
<1>4. CASE Bound(c)
  <2>1. shared # None /\ shared \in Delegates /\ contexts[c] = shared
    BY <1>4 DEF BatchInv, TypeOK, Bound
  <2>2. /\ count' = [count EXCEPT ![shared] = @ - 1]
        /\ contexts' = [contexts EXCEPT ![c] = Ended]
        /\ Begin(EndBatch(shared))
        /\ UNCHANGED <<mgr, shared, made, held, postVars, shown>>
    BY <1>4 DEF LeaveContext
  <2>3. Ended # shared
    BY <1>1, <2>1
  <2>4. count[shared] = Cardinality(Holders(contexts, shared))
    BY <2>1 DEF BatchInv, CountMatches, Holders
  <2>5. /\ Cardinality(Holders(contexts, shared)) > 0
        /\ Cardinality(Holders(contexts, shared)) \in Nat
        /\ Cardinality(Holders(contexts', shared)) = Cardinality(Holders(contexts, shared)) - 1
    <3>1. contexts \in [Contexts -> Delegates \cup {None, Unmade, Ended}]
      BY DEF BatchInv, TypeOK
    <3> QED BY <2>1, <2>2, <2>3, <3>1, HoldersFacts
  <2>6. count'[shared] = count[shared] - 1 /\ count[shared] - 1 \in Nat
    BY <2>1, <2>2, <2>4, <2>5 DEF BatchInv, TypeOK
  <2>7. CountMatches'
    BY <2>2, <2>4, <2>5, <2>6 DEF CountMatches, Holders
  <2>8. TypeOK'
    <3>1. EndBatch(shared) \in Seq(Steps)
      BY <2>1, StepsFacts
    <3>2. todo' \in Seq(Steps) /\ calm' \subseteq calm
      BY <3>1, <2>2 DEF Begin
    <3>3. count' \in [Delegates -> Nat]
      BY <2>2, <2>6 DEF BatchInv, TypeOK
    <3> QED BY <2>2, <3>2, <3>3 DEF BatchInv, TypeOK, postVars
  <2> QED BY <1>2, <1>3, <2>7, <2>8 DEF BatchInv
<1>5. CASE ~Bound(c)
  <2>1. TypeOK'
    BY <1>5 DEF BatchInv, TypeOK, LeaveContext, postVars
  <2>2. CountMatches'
    <3>1. SUFFICES ASSUME shared # None
                   PROVE  Holders(contexts', shared) = Holders(contexts, shared)
      BY <1>5 DEF BatchInv, CountMatches, LeaveContext, Holders
    <3>2. contexts[c] # shared /\ Ended # shared
      BY <1>1, <1>5, <3>1 DEF Bound, BatchInv, TypeOK
    <3> QED BY <3>2 DEF LeaveContext, Holders, BatchInv, TypeOK
  <2> QED BY <1>2, <1>3, <2>1, <2>2 DEF BatchInv
<1> QED BY <1>4, <1>5

\* A new delegate has no context, so its count of zero is right.
LEMMA BatchInstall ==
  ASSUME BatchInv, NEW d \in Delegates, InstallDelegate(d)
  PROVE  BatchInv'
<1> DEFINE steps == <<<<"add", <<d, "self">>>>>> \o
                      (IF shared = None THEN << >> ELSE Destroy(shared))
<1>1. steps \in Seq(Steps)
  <2>1. <<<<"add", <<d, "self">>>>>> \in Seq(Steps)
    BY StepsFacts
  <2>2. shared # None => Destroy(shared) \in Seq(Steps)
    BY StepsFacts DEF BatchInv, TypeOK
  <2>3. (IF shared = None THEN << >> ELSE Destroy(shared)) \in Seq(Steps)
    BY <2>2
  <2> QED BY <2>1, <2>3, ConcatProperties
<1>2. /\ d \notin made /\ made' = made \cup {d} /\ shared' = d /\ Begin(steps)
      /\ UNCHANGED <<mgr, count, held, contexts, postVars, shown>>
  BY DEF InstallDelegate
<1> HIDE DEF steps
<1>3. TypeOK'
  <2>1. todo' \in Seq(Steps) /\ calm' \subseteq calm
    BY <1>1, <1>2 DEF Begin
  <2> QED BY <1>2, <2>1 DEF BatchInv, TypeOK, postVars
<1>4. CountMatches'
  <2>1. count[d] = 0 /\ Holders(contexts, d) = {}
    BY <1>2 DEF BatchInv, Unborn, Holders
  <2>2. Cardinality(Holders(contexts, d)) = 0
    BY <2>1, FS_EmptySet
  <2> QED BY <1>2, <2>1, <2>2 DEF CountMatches, Holders
<1>5. Unborn' /\ Posting'
  BY <1>2 DEF BatchInv, Unborn, Posting, postVars
<1> QED BY <1>3, <1>4, <1>5 DEF BatchInv

LEMMA BatchRemove ==
  ASSUME BatchInv, RemoveDelegate
  PROVE  BatchInv'
<1>1. Destroy(shared) \in Seq(Steps)
  BY StepsFacts DEF BatchInv, TypeOK, RemoveDelegate
<1>2. todo' \in Seq(Steps) /\ calm' \subseteq calm
  BY <1>1 DEF Begin, RemoveDelegate
<1>3. TypeOK'
  BY <1>2 DEF BatchInv, TypeOK, RemoveDelegate, postVars
<1>4. CountMatches' /\ Unborn' /\ Posting'
  BY DEF BatchInv, CountMatches, Unborn, Posting, RemoveDelegate, postVars
<1> QED BY <1>3, <1>4 DEF BatchInv

LEMMA BatchMainStep ==
  ASSUME BatchInv, NEW e \in Entries,
         AddDelegate(e) \/ DropDelegate(e) \/ TakeDiagnostics(e)
  PROVE  BatchInv'
<1>1. todo' \in Seq(Steps)
  <2>1. todo # << >> /\ todo' = Tail(todo)
    BY DEF AddDelegate, DropDelegate, TakeDiagnostics, NextStep
  <2>2. todo \in Seq(Steps)
    BY DEF BatchInv, TypeOK
  <2> QED BY <2>1, <2>2
<1>2. /\ UNCHANGED <<shared, made, count, contexts, message, calls, posted, calm>>
  BY DEF AddDelegate, DropDelegate, TakeDiagnostics, mainVars, postVars
<1>3. mgr' \in Seq(Entries)
  <2>1. CASE AddDelegate(e)
    BY <2>1, AppendProperties DEF BatchInv, TypeOK, AddDelegate
  <2>2. CASE DropDelegate(e)
    <3>1. mgr \in Seq(Entries)
      BY DEF BatchInv, TypeOK
    <3>2. CASE Registered(e)
      <4>1. PlaceOf(e) \in 1..Len(mgr)
        BY <3>2 DEF Registered, PlaceOf
      <4>2. RemoveAt(mgr, PlaceOf(e)) \in Seq(Entries)
        BY <3>1, <4>1, RemoveAtFacts
      <4> QED BY <2>2, <3>2, <4>2 DEF DropDelegate
    <3>3. CASE ~Registered(e)
      BY <2>2, <3>1, <3>3 DEF DropDelegate
    <3> QED BY <3>2, <3>3
  <2>3. CASE TakeDiagnostics(e)
    BY <2>3 DEF BatchInv, TypeOK, TakeDiagnostics
  <2> QED BY <2>1, <2>2, <2>3
<1>4. held' \in [Entries -> SUBSET Messages] /\ shown' \in [Messages -> Nat]
  <2>1. held \in [Entries -> SUBSET Messages] /\ shown \in [Messages -> Nat]
    BY DEF BatchInv, TypeOK
  <2>2. held' = held \/ held' = [held EXCEPT ![e] = {}]
    BY DEF AddDelegate, DropDelegate, TakeDiagnostics
  <2>3. \/ shown' = shown
        \/ shown' = [m \in Messages |-> IF m \in held[e] THEN shown[m] + 1 ELSE shown[m]]
    BY DEF AddDelegate, DropDelegate, TakeDiagnostics
  <2>4. held' \in [Entries -> SUBSET Messages]
    BY <2>1, <2>2
  <2>5. shown' \in [Messages -> Nat]
    BY <2>1, <2>3
  <2> QED BY <2>4, <2>5
<1>5. TypeOK'
  BY <1>1, <1>2, <1>3, <1>4 DEF BatchInv, TypeOK
<1>6. CountMatches' /\ Unborn' /\ Posting'
  BY <1>2 DEF BatchInv, CountMatches, Unborn, Posting
<1> QED BY <1>5, <1>6 DEF BatchInv

\* A post changes neither counts nor contexts.
LEMMA BatchPost ==
  ASSUME BatchInv, NEW t \in Threads, NEW m \in Messages, Post(t, m)
  PROVE  BatchInv'
<1>1. UNCHANGED <<mgr, shared, made, count, contexts, held, todo>>
  BY DEF Post, mainVars
<1>2. posted' \subseteq Messages /\ calm' \subseteq posted'
  BY DEF BatchInv, TypeOK, Post
<1>3. /\ message' \in [Threads -> Messages \cup {None}]
      /\ calls' \in [Threads -> Seq(Entries)]
      /\ shown' \in [Messages -> Nat]
  <2>1. /\ message \in [Threads -> Messages \cup {None}]
        /\ calls \in [Threads -> Seq(Entries)] /\ mgr \in Seq(Entries)
        /\ shown \in [Messages -> Nat]
    BY DEF BatchInv, TypeOK
  <2>2. CASE mgr = << >>
    BY <2>1, <2>2 DEF Post, Show
  <2>3. CASE mgr # << >>
    BY <2>1, <2>3 DEF Post
  <2> QED BY <2>2, <2>3
<1>4. Posting'
  BY NullAssumption DEF BatchInv, TypeOK, Posting, Post
<1>5. TypeOK'
  BY <1>1, <1>2, <1>3 DEF BatchInv, TypeOK
<1>6. CountMatches' /\ Unborn'
  BY <1>1 DEF BatchInv, CountMatches, Unborn
<1> QED BY <1>4, <1>5, <1>6 DEF BatchInv

LEMMA BatchIssue ==
  ASSUME BatchInv, NEW t \in Threads, IssueShared(t) \/ IssueCollector(t)
  PROVE  BatchInv'
<1>1. calls[t] # << >> /\ Returns(t)
  BY DEF IssueShared, IssueCollector
<1>2. UNCHANGED <<mgr, shared, made, count, contexts, todo, posted, calm>>
  BY <1>1 DEF Returns, mainVars
<1>3. message[t] \in Messages /\ calls[t] \in Seq(Entries) /\ Head(calls[t]) \in Entries
  BY <1>1 DEF BatchInv, TypeOK, Posting
<1>4. /\ message' \in [Threads -> Messages \cup {None}]
      /\ calls' \in [Threads -> Seq(Entries)]
  <2>1. Tail(calls[t]) \in Seq(Entries)
    BY <1>1, <1>3
  <2> QED BY <1>1, <2>1 DEF BatchInv, TypeOK, Returns
<1>5. held' \in [Entries -> SUBSET Messages] /\ shown' \in [Messages -> Nat]
  <2>1. held \in [Entries -> SUBSET Messages] /\ shown \in [Messages -> Nat]
    BY DEF BatchInv, TypeOK
  <2>2. CASE IssueShared(t)
    <3>1. held' = held /\ (shown' = shown \/ shown' = [shown EXCEPT ![message[t]] = @ + 1])
      BY <2>2 DEF IssueShared, Show
    <3> QED BY <1>3, <2>1, <3>1
  <2>3. CASE IssueCollector(t)
    <3>1. /\ shown' = shown
          /\ \/ held' = held
             \/ held' = [held EXCEPT ![Head(calls[t])] = @ \cup {message[t]}]
      BY <2>3 DEF IssueCollector
    <3> QED BY <1>3, <2>1, <3>1
  <2> QED BY <2>2, <2>3
<1>6. Posting'
  <2>1. Len(calls[t]) = 1 <=> Tail(calls[t]) = << >>
    <3> DEFINE s == calls[t]
    <3>1. s \in Seq(Entries) /\ s # << >>
      BY <1>1, <1>3
    <3> HIDE DEF s
    <3>2. Tail(s) \in Seq(Entries) /\ Len(Tail(s)) = Len(s) - 1 /\ Len(s) \in Nat
      BY <3>1
    <3>3. Len(Tail(s)) = 0 <=> Tail(s) = << >>
      BY <3>2, EmptySeq
    <3>4. Len(s) = 1 <=> Tail(s) = << >>
      BY <3>2, <3>3
    <3> QED BY <3>4 DEF s
  <2>2. \A u \in Threads : u # t => calls'[u] = calls[u] /\ message'[u] = message[u]
    BY <1>1 DEF Returns, BatchInv, TypeOK
  <2>3. calls'[t] = Tail(calls[t]) /\ (message'[t] = None <=> Len(calls[t]) = 1)
    BY <1>1, <1>3, NullAssumption DEF Returns, BatchInv, TypeOK
  <2> QED BY <2>1, <2>2, <2>3 DEF BatchInv, Posting
<1>7. TypeOK'
  BY <1>2, <1>4, <1>5 DEF BatchInv, TypeOK
<1>8. CountMatches' /\ Unborn'
  BY <1>2 DEF BatchInv, CountMatches, Unborn
<1> QED BY <1>6, <1>7, <1>8 DEF BatchInv

LEMMA BatchInvStep == BatchInv /\ [Next]_vars => BatchInv'
<1> SUFFICES ASSUME BatchInv, [Next]_vars PROVE BatchInv'
  OBVIOUS
<1>1. ASSUME NEW c \in Contexts, EnterContext(c) \/ LeaveContext(c) PROVE BatchInv'
  BY <1>1, BatchEnter, BatchLeave
<1>2. ASSUME NEW d \in Delegates, InstallDelegate(d) PROVE BatchInv'
  BY <1>2, BatchInstall
<1>3. CASE RemoveDelegate
  BY <1>3, BatchRemove
<1>4. CASE MainStep
  BY <1>4, BatchMainStep DEF MainStep
<1>5. ASSUME NEW t \in Threads, IssueShared(t) \/ IssueCollector(t) PROVE BatchInv'
  BY <1>5, BatchIssue
<1>6. ASSUME NEW t \in Threads, NEW m \in Messages, Post(t, m) PROVE BatchInv'
  BY <1>6, BatchPost
<1>7. CASE UNCHANGED vars
  BY <1>7 DEF BatchInv, TypeOK, CountMatches, Unborn, Posting, vars, mainVars, postVars
<1> QED BY <1>1, <1>2, <1>3, <1>4, <1>5, <1>6, <1>7 DEF Next

LEMMA BatchInvariant == Spec => []BatchInv
<1> QED BY BatchInit, BatchInvStep, PTL DEF Spec

\* Types are kept; the count, in particular, never goes below zero, which is
\* what makes "_EndBatch invoked before _StartBatch" unreachable.
THEOREM DiagnosticTypes == Spec => []TypeOK
<1>1. BatchInv => TypeOK
  BY DEF BatchInv
<1> QED BY <1>1, BatchInvariant, PTL

\* The count of the installed delegate is the number of contexts bound to it.
THEOREM DiagnosticCount == Spec => []CountMatches
<1>1. BatchInv => CountMatches
  BY DEF BatchInv
<1> QED BY <1>1, BatchInvariant, PTL

-----------------------------------------------------------------------------
\* Short lists: what Tail, RemoveAt and the steps of the delegate are.
LEMMA Tail4 ==
  ASSUME NEW S, NEW a \in S, NEW b \in S, NEW c \in S, NEW d \in S
  PROVE  Tail(<<a, b, c, d>>) = <<b, c, d>>
<1>1. <<b, c, d>> \in Seq(S) /\ Tail(<<a, b, c, d>>) \in Seq(S)
  OBVIOUS
<1>2. Len(Tail(<<a, b, c, d>>)) = 3
  OBVIOUS
<1>3. \A i \in 1..3 : Tail(<<a, b, c, d>>)[i] = <<b, c, d>>[i]
  OBVIOUS
<1> QED BY <1>1, <1>2, <1>3, SeqEqual

LEMMA Tail5 ==
  ASSUME NEW S, NEW a \in S, NEW b \in S, NEW c \in S, NEW d \in S, NEW e \in S
  PROVE  Tail(<<a, b, c, d, e>>) = <<b, c, d, e>>
<1>1. <<b, c, d, e>> \in Seq(S) /\ Tail(<<a, b, c, d, e>>) \in Seq(S)
  OBVIOUS
<1>2. Len(Tail(<<a, b, c, d, e>>)) = 4
  OBVIOUS
<1>3. \A i \in 1..4 : Tail(<<a, b, c, d, e>>)[i] = <<b, c, d, e>>[i]
  OBVIOUS
<1> QED BY <1>1, <1>2, <1>3, SeqEqual

LEMMA Tail6 ==
  ASSUME NEW S, NEW a \in S, NEW b \in S, NEW c \in S, NEW d \in S, NEW e \in S, NEW f \in S
  PROVE  Tail(<<a, b, c, d, e, f>>) = <<b, c, d, e, f>>
<1>1. <<b, c, d, e, f>> \in Seq(S) /\ Tail(<<a, b, c, d, e, f>>) \in Seq(S)
  OBVIOUS
<1>2. Len(Tail(<<a, b, c, d, e, f>>)) = 5
  OBVIOUS
<1>3. \A i \in 1..5 : Tail(<<a, b, c, d, e, f>>)[i] = <<b, c, d, e, f>>[i]
  OBVIOUS
<1> QED BY <1>1, <1>2, <1>3, SeqEqual

\* What is left of a list without one of its elements.
Without(s, e) ==
  IF \E i \in 1..Len(s) : s[i] = e
  THEN RemoveAt(s, CHOOSE i \in 1..Len(s) : s[i] = e) ELSE s

LEMMA WithoutFirst ==
  ASSUME NEW S, NEW s \in Seq(S), s # << >>, \A i \in 1..Len(s) : s[i] = s[1] => i = 1
  PROVE  Without(s, s[1]) = Tail(s)
<1>1. Len(s) \in Nat /\ 1 \in 1..Len(s)
  BY EmptySeq
<1>2. (CHOOSE i \in 1..Len(s) : s[i] = s[1]) = 1
  BY <1>1
<1>3. Without(s, s[1]) = RemoveAt(s, 1)
  BY <1>1, <1>2 DEF Without
<1> DEFINE t == RemoveAt(s, 1)
<1>4. t \in Seq(S) /\ Len(t) = Len(s) - 1 /\ \A j \in 1..Len(s)-1 : t[j] = s[j+1]
  BY <1>1, RemoveAtFacts
<1>5. Tail(s) \in Seq(S) /\ Len(Tail(s)) = Len(s) - 1
      /\ \A i \in 1..Len(s)-1 : Tail(s)[i] = s[i+1]
  BY HeadTailProperties
<1> HIDE DEF t
<1>6. t = Tail(s)
  BY <1>4, <1>5, SeqEqual
<1> QED BY <1>3, <1>6 DEF t

LEMMA WithoutFirst1 ==
  ASSUME NEW S, NEW a \in S
  PROVE  Without(<<a>>, a) = << >>
<1> DEFINE s == <<a>>
<1>1. s \in Seq(S) /\ s # << >> /\ s[1] = a /\ \A i \in 1..Len(s) : s[i] = s[1] => i = 1
  OBVIOUS
<1> HIDE DEF s
<1>2. Without(s, a) = Tail(s)
  BY <1>1, WithoutFirst
<1> QED BY <1>2 DEF s

LEMMA WithoutFirst2 ==
  ASSUME NEW S, NEW a \in S, NEW b \in S, a # b
  PROVE  Without(<<a, b>>, a) = <<b>>
<1> DEFINE s == <<a, b>>
<1>1. s \in Seq(S) /\ s # << >> /\ s[1] = a /\ \A i \in 1..Len(s) : s[i] = s[1] => i = 1
  OBVIOUS
<1> HIDE DEF s
<1>2. Without(s, a) = Tail(s)
  BY <1>1, WithoutFirst
<1> QED BY <1>2 DEF s

LEMMA WithoutFirst3 ==
  ASSUME NEW S, NEW a \in S, NEW b \in S, NEW c \in S, a # b, a # c
  PROVE  Without(<<a, b, c>>, a) = <<b, c>>
<1> DEFINE s == <<a, b, c>>
<1>1. s \in Seq(S) /\ s # << >> /\ s[1] = a /\ \A i \in 1..Len(s) : s[i] = s[1] => i = 1
  OBVIOUS
<1> HIDE DEF s
<1>2. Without(s, a) = Tail(s)
  BY <1>1, WithoutFirst
<1> QED BY <1>2 DEF s

LEMMA WithoutFirst4 ==
  ASSUME NEW S, NEW a \in S, NEW b \in S, NEW c \in S, NEW d \in S, a # b, a # c, a # d
  PROVE  Without(<<a, b, c, d>>, a) = <<b, c, d>>
<1> DEFINE s == <<a, b, c, d>>
<1>1. s \in Seq(S) /\ s # << >> /\ s[1] = a /\ \A i \in 1..Len(s) : s[i] = s[1] => i = 1
  OBVIOUS
<1> HIDE DEF s
<1>2. Without(s, a) = Tail(s)
  BY <1>1, WithoutFirst
<1> QED BY <1>2, Tail4 DEF s

LEMMA WithoutSecond2 ==
  ASSUME NEW S, NEW a \in S, NEW b \in S, a # b
  PROVE  Without(<<a, b>>, b) = <<a>>
<1> DEFINE s == <<a, b>>
           t == <<a>>
           k == 2
<1>1. s \in Seq(S) /\ Len(s) = 2 /\ s[1] = a /\ s[2] = b
      /\ \A i \in 1..Len(s) : s[i] = b => i = 2
  OBVIOUS
<1>2. t \in Seq(S) /\ Len(t) = 1 /\ t[1] = a
  OBVIOUS
<1> HIDE DEF s, t
<1>3. k \in 1..Len(s) /\ (CHOOSE i \in 1..Len(s) : s[i] = b) = k
  BY <1>1
<1>4. Without(s, b) = RemoveAt(s, k)
  BY <1>1, <1>3 DEF Without
<1>5. /\ RemoveAt(s, k) \in Seq(S) /\ Len(RemoveAt(s, k)) = Len(s) - 1
      /\ \A j \in 1..k-1 : RemoveAt(s, k)[j] = s[j]
      /\ \A j \in k..Len(s)-1 : RemoveAt(s, k)[j] = s[j+1]
  <2> HIDE DEF k
  <2> QED BY <1>1, <1>3, RemoveAtFacts
<1>6. RemoveAt(s, k)[1] = s[1]
  BY <1>1, <1>5
<1>7. RemoveAt(s, k) = t
  BY <1>1, <1>2, <1>5, <1>6, SeqEqual
<1> QED BY <1>4, <1>7 DEF s, t

LEMMA WithoutSecond3 ==
  ASSUME NEW S, NEW a \in S, NEW b \in S, NEW c \in S, a # b, b # c
  PROVE  Without(<<a, b, c>>, b) = <<a, c>>
<1> DEFINE s == <<a, b, c>>
           t == <<a, c>>
           k == 2
<1>1. s \in Seq(S) /\ Len(s) = 3 /\ s[1] = a /\ s[2] = b /\ s[3] = c
      /\ \A i \in 1..Len(s) : s[i] = b => i = 2
  OBVIOUS
<1>2. t \in Seq(S) /\ Len(t) = 2 /\ t[1] = a /\ t[2] = c
  OBVIOUS
<1> HIDE DEF s, t
<1>3. k \in 1..Len(s) /\ (CHOOSE i \in 1..Len(s) : s[i] = b) = k
  BY <1>1
<1>4. Without(s, b) = RemoveAt(s, k)
  BY <1>1, <1>3 DEF Without
<1>5. /\ RemoveAt(s, k) \in Seq(S) /\ Len(RemoveAt(s, k)) = Len(s) - 1
      /\ \A j \in 1..k-1 : RemoveAt(s, k)[j] = s[j]
      /\ \A j \in k..Len(s)-1 : RemoveAt(s, k)[j] = s[j+1]
  <2> HIDE DEF k
  <2> QED BY <1>1, <1>3, RemoveAtFacts
<1>6. RemoveAt(s, k)[1] = s[1] /\ RemoveAt(s, k)[2] = s[3] /\ Len(RemoveAt(s, k)) = 2
  BY <1>1, <1>5
<1> HIDE DEF k
<1>7. RemoveAt(s, k) = t
  <2> DEFINE u == RemoveAt(s, k)
  <2>1. u \in Seq(S) /\ Len(u) = Len(t) /\ \A i \in 1..Len(u) : u[i] = t[i]
    BY <1>1, <1>2, <1>5, <1>6
  <2> HIDE DEF u
  <2>2. u = t
    BY <1>2, <2>1, SeqEqual
  <2> QED BY <2>2 DEF u
<1> QED BY <1>4, <1>7 DEF s, t

\* A delegate and its two collectors.
Self(d) == <<d, "self">>
Sta(d) == <<d, "status">>
War(d) == <<d, "warning">>

\* A concatenation is what has its elements.
LEMMA JoinEqual ==
  ASSUME NEW S, NEW p \in Seq(S), NEW q \in Seq(S), NEW r \in Seq(S),
         Len(r) = Len(p) + Len(q),
         \A i \in 1..Len(p) : r[i] = p[i],
         \A i \in 1..Len(q) : r[Len(p) + i] = q[i]
  PROVE  p \o q = r
<1>1. Len(p) \in Nat /\ Len(q) \in Nat /\ Len(r) \in Nat
  OBVIOUS
<1>2. /\ p \o q \in Seq(S) /\ Len(p \o q) = Len(p) + Len(q)
      /\ \A j \in 1..Len(p) : (p \o q)[j] = p[j]
      /\ \A j \in Len(p)+1..Len(p)+Len(q) : (p \o q)[j] = q[j - Len(p)]
  BY JoinFacts
<1>3. ASSUME NEW j \in 1..Len(r) PROVE (p \o q)[j] = r[j]
  <2>1. CASE j <= Len(p)
    <3>1. j \in 1..Len(p)
      BY <1>1, <2>1
    <3> QED BY <3>1, <1>2
  <2>2. CASE j > Len(p)
    <3>1. j \in Len(p)+1..Len(p)+Len(q) /\ j - Len(p) \in 1..Len(q)
          /\ Len(p) + (j - Len(p)) = j
      BY <1>1, <2>2
    <3>2. r[j] = q[j - Len(p)]
      BY <3>1
    <3> QED BY <3>1, <3>2, <1>2
  <2> QED BY <2>1, <2>2, <1>1
<1> QED BY <1>2, <1>3, SeqEqual

LEMMA JoinFour ==
  ASSUME NEW S, NEW a \in S, NEW b \in S, NEW c \in S, NEW d \in S
  PROVE  <<a, b>> \o <<c, d>> = <<a, b, c, d>>
<1>1. <<a, b>> \o <<c, d>> = <<a, b, c, d>>
  <2> DEFINE p == <<a, b>>
             q == <<c, d>>
             r == <<a, b, c, d>>
  <2>1. p \in Seq(S) /\ q \in Seq(S) /\ r \in Seq(S)
        /\ Len(p) = 2 /\ Len(q) = 2 /\ Len(r) = 4
        /\ r[1] = p[1] /\ r[2] = p[2] /\ r[3] = q[1] /\ r[4] = q[2]
    OBVIOUS
  <2> HIDE DEF p, q, r
  <2>2. Len(r) = Len(p) + Len(q) /\ (\A i \in 1..Len(p) : r[i] = p[i])
        /\ \A i \in 1..Len(q) : r[Len(p) + i] = q[i]
    BY <2>1
  <2>3. p \o q = r
    BY <2>1, <2>2, JoinEqual
  <2> QED BY <2>3 DEF p, q, r
<1> QED BY <1>1

LEMMA JoinFive ==
  ASSUME NEW S, NEW a \in S, NEW b \in S, NEW c \in S, NEW d \in S, NEW e \in S
  PROVE  <<a, b>> \o <<c>> \o <<d, e>> = <<a, b, c, d, e>>
<1>1. <<a, b>> \o <<c>> = <<a, b, c>>
  <2> DEFINE p == <<a, b>>
             q == <<c>>
             r == <<a, b, c>>
  <2>1. p \in Seq(S) /\ q \in Seq(S) /\ r \in Seq(S)
        /\ Len(p) = 2 /\ Len(q) = 1 /\ Len(r) = 3
        /\ r[1] = p[1] /\ r[2] = p[2] /\ r[3] = q[1]
    OBVIOUS
  <2> HIDE DEF p, q, r
  <2>2. Len(r) = Len(p) + Len(q) /\ (\A i \in 1..Len(p) : r[i] = p[i])
        /\ \A i \in 1..Len(q) : r[Len(p) + i] = q[i]
    BY <2>1
  <2>3. p \o q = r
    BY <2>1, <2>2, JoinEqual
  <2> QED BY <2>3 DEF p, q, r
<1>2. <<a, b, c>> \o <<d, e>> = <<a, b, c, d, e>>
  <2> DEFINE p == <<a, b, c>>
             q == <<d, e>>
             r == <<a, b, c, d, e>>
  <2>1. p \in Seq(S) /\ q \in Seq(S) /\ r \in Seq(S)
        /\ Len(p) = 3 /\ Len(q) = 2 /\ Len(r) = 5
        /\ r[1] = p[1] /\ r[2] = p[2] /\ r[3] = p[3] /\ r[4] = q[1] /\ r[5] = q[2]
    OBVIOUS
  <2> HIDE DEF p, q, r
  <2>2. Len(r) = Len(p) + Len(q) /\ (\A i \in 1..Len(p) : r[i] = p[i])
        /\ \A i \in 1..Len(q) : r[Len(p) + i] = q[i]
    BY <2>1
  <2>3. p \o q = r
    BY <2>1, <2>2, JoinEqual
  <2> QED BY <2>3 DEF p, q, r
<1> QED BY <1>1, <1>2

LEMMA JoinSix ==
  ASSUME NEW S, NEW a \in S, NEW b \in S, NEW c \in S, NEW d \in S, NEW e \in S, NEW f \in S
  PROVE  <<a>> \o <<b, c, d, e, f>> = <<a, b, c, d, e, f>>
<1>1. <<a>> \o <<b, c, d, e, f>> = <<a, b, c, d, e, f>>
  <2> DEFINE p == <<a>>
             q == <<b, c, d, e, f>>
             r == <<a, b, c, d, e, f>>
  <2>1. p \in Seq(S) /\ q \in Seq(S) /\ r \in Seq(S)
        /\ Len(p) = 1 /\ Len(q) = 5 /\ Len(r) = 6
        /\ r[1] = p[1] /\ r[2] = q[1] /\ r[3] = q[2] /\ r[4] = q[3] /\ r[5] = q[4] /\ r[6] = q[5]
    OBVIOUS
  <2> HIDE DEF p, q, r
  <2>2. Len(r) = Len(p) + Len(q) /\ (\A i \in 1..Len(p) : r[i] = p[i])
        /\ \A i \in 1..Len(q) : r[Len(p) + i] = q[i]
    BY <2>1
  <2>3. p \o q = r
    BY <2>1, <2>2, JoinEqual
  <2> QED BY <2>3 DEF p, q, r
<1> QED BY <1>1

\* The lists of the end of a batch and of a destructor, step by step.
LEMMA Lists ==
  ASSUME NEW d \in Delegates
  PROVE  /\ Flush(d) \o Release(d) =
              <<<<"take", Sta(d)>>, <<"take", War(d)>>, <<"drop", Sta(d)>>, <<"drop", War(d)>>>>
         /\ Destroy(d) =
              <<<<"take", Sta(d)>>, <<"take", War(d)>>, <<"drop", Self(d)>>,
                <<"drop", War(d)>>, <<"drop", Sta(d)>>>>
<1> DEFINE ts == <<"take", Sta(d)>>
           tw == <<"take", War(d)>>
           ds == <<"drop", Sta(d)>>
           dw == <<"drop", War(d)>>
           dd == <<"drop", Self(d)>>
<1>1. ts \in Steps /\ tw \in Steps /\ ds \in Steps /\ dw \in Steps /\ dd \in Steps
  BY DEF Steps, Entries, Sta, War, Self, Collectors
<1>2. /\ Flush(d) \o Release(d) = <<ts, tw>> \o <<ds, dw>>
      /\ Destroy(d) = <<ts, tw>> \o <<dd>> \o <<dw, ds>>
  BY DEF Flush, Release, Destroy, Sta, War, Self
<1> HIDE DEF ts, tw, ds, dw, dd
<1>3. <<ts, tw>> \o <<ds, dw>> = <<ts, tw, ds, dw>>
  BY <1>1, JoinFour
<1>4. <<ts, tw>> \o <<dd>> \o <<dw, ds>> = <<ts, tw, dd, dw, ds>>
  BY <1>1, JoinFive
<1>5. /\ Flush(d) \o Release(d) = <<ts, tw, ds, dw>>
      /\ Destroy(d) = <<ts, tw, dd, dw, ds>>
  BY <1>2, <1>3, <1>4
<1> QED BY <1>5 DEF ts, tw, ds, dw, dd

\* What the manager keeps when one of its delegates is removed.
LEMMA OneRemoved ==
  ASSUME NEW o \in Delegates
  PROVE  /\ Without(<< >>, War(o)) = << >>
         /\ Without(<< >>, Sta(o)) = << >>
         /\ Without(<<Self(o)>>, Self(o)) = << >>
         /\ Without(<<Sta(o)>>, Sta(o)) = << >>
         /\ Without(<<Sta(o), War(o)>>, War(o)) = <<Sta(o)>>
         /\ Without(<<Self(o), War(o)>>, War(o)) = <<Self(o)>>
         /\ Without(<<Self(o), Sta(o), War(o)>>, Self(o)) = <<Sta(o), War(o)>>
         /\ Without(<<Self(o), Sta(o), War(o)>>, Sta(o)) = <<Self(o), War(o)>>
<1> DEFINE a == Self(o)
           b == Sta(o)
           c == War(o)
           T == {a, b, c}
<1>1. /\ a # b /\ a # c /\ b # c
  BY DEF Self, Sta, War
<1>2. a \in T /\ b \in T /\ c \in T
  OBVIOUS
<1> HIDE DEF a, b, c, T
<1>3. Without(<< >>, c) = << >> /\ Without(<< >>, b) = << >>
  BY DEF Without
<1>4. Without(<<a>>, a) = << >>
  BY <1>2, WithoutFirst1
<1>5. Without(<<b>>, b) = << >>
  BY <1>2, WithoutFirst1
<1>6. Without(<<b, c>>, c) = <<b>>
  BY <1>1, <1>2, WithoutSecond2
<1>7. Without(<<a, c>>, c) = <<a>>
  BY <1>1, <1>2, WithoutSecond2
<1>8. Without(<<a, b, c>>, a) = <<b, c>>
  BY <1>1, <1>2, WithoutFirst3
<1>9. Without(<<a, b, c>>, b) = <<a, c>>
  BY <1>1, <1>2, WithoutSecond3
<1> QED BY <1>3, <1>4, <1>5, <1>6, <1>7, <1>8, <1>9 DEF a, b, c

LEMMA OneRemovedOfTwo ==
  ASSUME NEW o \in Delegates, NEW d \in Delegates, o # d
  PROVE  /\ Without(<<Self(d)>>, War(o)) = <<Self(d)>>
         /\ Without(<<Self(d)>>, Sta(o)) = <<Self(d)>>
         /\ Without(<<Self(o), Self(d)>>, Self(o)) = <<Self(d)>>
         /\ Without(<<Sta(o), Self(d)>>, Sta(o)) = <<Self(d)>>
         /\ Without(<<Sta(o), War(o), Self(d)>>, War(o)) = <<Sta(o), Self(d)>>
         /\ Without(<<Self(o), Sta(o), War(o), Self(d)>>, Self(o))
              = <<Sta(o), War(o), Self(d)>>
<1> DEFINE a == Self(o)
           b == Sta(o)
           c == War(o)
           x == Self(d)
           T == {a, b, c, x}
<1>1. /\ a # b /\ a # c /\ b # c /\ a # x /\ b # x /\ c # x
  BY DEF Self, Sta, War
<1>2. a \in T /\ b \in T /\ c \in T /\ x \in T
  OBVIOUS
<1> HIDE DEF a, b, c, x, T
<1>3. Without(<<x>>, c) = <<x>> /\ Without(<<x>>, b) = <<x>>
  BY <1>1 DEF Without
<1>4. Without(<<a, x>>, a) = <<x>>
  BY <1>1, <1>2, WithoutFirst2
<1>5. Without(<<b, x>>, b) = <<x>>
  BY <1>1, <1>2, WithoutFirst2
<1>6. Without(<<b, c, x>>, c) = <<b, x>>
  BY <1>1, <1>2, WithoutSecond3
<1>7. Without(<<a, b, c, x>>, a) = <<b, c, x>>
  BY <1>1, <1>2, WithoutFirst4
<1> QED BY <1>3, <1>4, <1>5, <1>6, <1>7 DEF a, b, c, x

\* The manager's delegates, and what is left of the lists of steps.
Alone(d) == <<Self(d)>>
Whole(d) == <<Self(d), Sta(d), War(d)>>

Going1(o) == <<<<"drop", Sta(o)>>>>
Going2(o) == <<<<"drop", War(o)>>, <<"drop", Sta(o)>>>>
Going3(o) == <<<<"drop", Self(o)>>, <<"drop", War(o)>>, <<"drop", Sta(o)>>>>
Going4(o) == <<<<"take", War(o)>>, <<"drop", Self(o)>>, <<"drop", War(o)>>,
               <<"drop", Sta(o)>>>>
Going5(o) == <<<<"take", Sta(o)>>, <<"take", War(o)>>, <<"drop", Self(o)>>,
               <<"drop", War(o)>>, <<"drop", Sta(o)>>>>

Coming(d)       == <<<<"add", Self(d)>>>>
ComingFor(d, o) == <<<<"add", Self(d)>>, <<"take", Sta(o)>>, <<"take", War(o)>>,
                     <<"drop", Self(o)>>, <<"drop", War(o)>>, <<"drop", Sta(o)>>>>

Closing1(d) == <<<<"drop", War(d)>>>>
Closing2(d) == <<<<"drop", Sta(d)>>, <<"drop", War(d)>>>>
Closing3(d) == <<<<"take", War(d)>>, <<"drop", Sta(d)>>, <<"drop", War(d)>>>>
Closing4(d) == <<<<"take", Sta(d)>>, <<"take", War(d)>>, <<"drop", Sta(d)>>,
                 <<"drop", War(d)>>>>

Opening1(d) == <<<<"add", War(d)>>>>
Opening2(d) == <<<<"add", Sta(d)>>, <<"add", War(d)>>>>

(***************************************************************************)
(* The phases of the main thread: at rest, or in the middle of one of the  *)
(* changes it makes to the manager's delegates.                            *)
(***************************************************************************)
AtRest ==
  /\ todo = << >>
  /\ mgr = IF shared = None THEN << >>
           ELSE IF count[shared] = 0 THEN Alone(shared) ELSE Whole(shared)

Starting ==
  /\ shared # None /\ count[shared] > 0
  /\ \/ todo = Opening2(shared) /\ mgr = Alone(shared)
     \/ todo = Opening1(shared) /\ mgr = <<Self(shared), Sta(shared)>>

Ending ==
  /\ shared # None /\ count[shared] = 0
  /\ \/ todo = Closing4(shared) /\ mgr = Whole(shared)
     \/ todo = Closing3(shared) /\ mgr = Whole(shared)
     \/ todo = Closing2(shared) /\ mgr = Whole(shared)
     \/ todo = Closing1(shared) /\ mgr = <<Self(shared), War(shared)>>

Installing ==
  /\ shared # None /\ count[shared] = 0
  /\ \/ todo = Coming(shared) /\ mgr = << >>
     \/ \E o \in Delegates \ {shared} :
          todo = ComingFor(shared, o) /\ (mgr = Alone(o) \/ mgr = Whole(o))

\* The old delegate goes, with nothing behind it ...
Removing(o) ==
  /\ shared = None
  /\ \/ /\ todo = Going5(o) \/ todo = Going4(o) \/ todo = Going3(o)
        /\ mgr = Alone(o) \/ mgr = Whole(o)
     \/ /\ todo = Going2(o)
        /\ mgr = << >> \/ mgr = <<Sta(o), War(o)>>
     \/ /\ todo = Going1(o)
        /\ mgr = << >> \/ mgr = <<Sta(o)>>

\* ... or the new one.
Replacing(o) ==
  /\ shared # None /\ o # shared /\ count[shared] = 0
  /\ \/ /\ todo = Going5(o) \/ todo = Going4(o) \/ todo = Going3(o)
        /\ \/ mgr = <<Self(o), Self(shared)>>
           \/ mgr = <<Self(o), Sta(o), War(o), Self(shared)>>
     \/ /\ todo = Going2(o)
        /\ mgr = Alone(shared) \/ mgr = <<Sta(o), War(o), Self(shared)>>
     \/ /\ todo = Going1(o)
        /\ mgr = Alone(shared) \/ mgr = <<Sta(o), Self(shared)>>

Phase ==
  \/ AtRest
  \/ Starting
  \/ Ending
  \/ Installing
  \/ \E o \in Delegates : Removing(o) \/ Replacing(o)

\* Steps are left in every phase but the first.
LEMMA RestPhase == Phase /\ todo = << >> => AtRest
BY DEF Phase, Starting, Ending, Installing, Removing, Replacing,
       Going1, Going2, Going3, Going4, Going5, Coming, ComingFor,
       Closing1, Closing2, Closing3, Closing4, Opening1, Opening2

\* What the next step does to the manager is what its name says.
LEMMA HeadStep ==
  ASSUME MainStep, NEW op, NEW f, Head(todo) = <<op, f>>
  PROVE  /\ todo' = Tail(todo) /\ shared' = shared /\ count' = count
         /\ op = "add" => mgr' = Append(mgr, f)
         /\ op = "drop" => mgr' = Without(mgr, f)
         /\ op = "take" => mgr' = mgr
<1>1. PICK e \in Entries : AddDelegate(e) \/ DropDelegate(e) \/ TakeDiagnostics(e)
  BY DEF MainStep
<1>2. CASE AddDelegate(e)
  <2>1. op = "add" /\ f = e
    BY <1>2 DEF AddDelegate, NextStep
  <2> QED BY <1>2, <2>1 DEF AddDelegate, NextStep, mainVars
<1>3. CASE DropDelegate(e)
  <2>1. op = "drop" /\ f = e
    BY <1>3 DEF DropDelegate, NextStep
  <2> QED BY <1>3, <2>1 DEF DropDelegate, NextStep, mainVars, Without, Registered, PlaceOf
<1>4. CASE TakeDiagnostics(e)
  <2>1. op = "take" /\ f = e
    BY <1>4 DEF TakeDiagnostics, NextStep
  <2> QED BY <1>4, <2>1 DEF TakeDiagnostics, NextStep, mainVars
<1> QED BY <1>1, <1>2, <1>3, <1>4

\* The next step of each list and those after it.
LEMMA HeadsAndTails ==
  ASSUME NEW o \in Delegates, NEW d \in Delegates
  PROVE  /\ Head(Going1(o)) = <<"drop", Sta(o)>> /\ Tail(Going1(o)) = << >>
         /\ Head(Going2(o)) = <<"drop", War(o)>> /\ Tail(Going2(o)) = Going1(o)
         /\ Head(Going3(o)) = <<"drop", Self(o)>> /\ Tail(Going3(o)) = Going2(o)
         /\ Head(Going4(o)) = <<"take", War(o)>> /\ Tail(Going4(o)) = Going3(o)
         /\ Head(Going5(o)) = <<"take", Sta(o)>> /\ Tail(Going5(o)) = Going4(o)
         /\ Head(Coming(d)) = <<"add", Self(d)>> /\ Tail(Coming(d)) = << >>
         /\ Head(ComingFor(d, o)) = <<"add", Self(d)>> /\ Tail(ComingFor(d, o)) = Going5(o)
         /\ Head(Closing1(d)) = <<"drop", War(d)>> /\ Tail(Closing1(d)) = << >>
         /\ Head(Closing2(d)) = <<"drop", Sta(d)>> /\ Tail(Closing2(d)) = Closing1(d)
         /\ Head(Closing3(d)) = <<"take", War(d)>> /\ Tail(Closing3(d)) = Closing2(d)
         /\ Head(Closing4(d)) = <<"take", Sta(d)>> /\ Tail(Closing4(d)) = Closing3(d)
         /\ Head(Opening1(d)) = <<"add", War(d)>> /\ Tail(Opening1(d)) = << >>
         /\ Head(Opening2(d)) = <<"add", Sta(d)>> /\ Tail(Opening2(d)) = Opening1(d)
<1> DEFINE ts == <<"take", Sta(o)>>
           tw == <<"take", War(o)>>
           dd == <<"drop", Self(o)>>
           dw == <<"drop", War(o)>>
           ds == <<"drop", Sta(o)>>
           ad == <<"add", Self(d)>>
           ts2 == <<"take", Sta(d)>>
           tw2 == <<"take", War(d)>>
           dw2 == <<"drop", War(d)>>
           ds2 == <<"drop", Sta(d)>>
           T == {ts, tw, dd, dw, ds, ad, ts2, tw2, dw2, ds2}
<1>1. /\ ts \in T /\ tw \in T /\ dd \in T /\ dw \in T /\ ds \in T /\ ad \in T
      /\ ts2 \in T /\ tw2 \in T /\ dw2 \in T /\ ds2 \in T
  OBVIOUS
<1>2. /\ Going4(o) = <<tw, dd, dw, ds>> /\ Going5(o) = <<ts, tw, dd, dw, ds>>
      /\ Going3(o) = <<dd, dw, ds>>
      /\ ComingFor(d, o) = <<ad, ts, tw, dd, dw, ds>>
      /\ Closing4(d) = <<ts2, tw2, ds2, dw2>> /\ Closing3(d) = <<tw2, ds2, dw2>>
  BY DEF Going3, Going4, Going5, ComingFor, Closing3, Closing4
<1>3. /\ Head(Going1(o)) = ds /\ Tail(Going1(o)) = << >>
      /\ Head(Going2(o)) = dw /\ Tail(Going2(o)) = Going1(o)
      /\ Head(Going3(o)) = dd /\ Tail(Going3(o)) = Going2(o)
  BY DEF Going1, Going2, Going3
<1>4. /\ Head(Closing1(d)) = dw2 /\ Tail(Closing1(d)) = << >>
      /\ Head(Closing2(d)) = ds2 /\ Tail(Closing2(d)) = Closing1(d)
      /\ Head(Closing3(d)) = tw2 /\ Tail(Closing3(d)) = Closing2(d)
  BY DEF Closing1, Closing2, Closing3
<1>5. /\ Head(Opening1(d)) = <<"add", War(d)>> /\ Tail(Opening1(d)) = << >>
      /\ Head(Opening2(d)) = <<"add", Sta(d)>> /\ Tail(Opening2(d)) = Opening1(d)
      /\ Head(Coming(d)) = ad /\ Tail(Coming(d)) = << >>
  BY DEF Opening1, Opening2, Coming
<1> HIDE DEF ts, tw, dd, dw, ds, ad, ts2, tw2, dw2, ds2, T
<1>6. Head(Going4(o)) = tw /\ Tail(Going4(o)) = Going3(o)
  <2>1. Tail(<<tw, dd, dw, ds>>) = <<dd, dw, ds>>
    BY <1>1, Tail4
  <2> QED BY <1>2, <2>1
<1>7. Head(Going5(o)) = ts /\ Tail(Going5(o)) = Going4(o)
  <2>1. Tail(<<ts, tw, dd, dw, ds>>) = <<tw, dd, dw, ds>>
    BY <1>1, Tail5
  <2> QED BY <1>2, <2>1
<1>8. Head(ComingFor(d, o)) = ad /\ Tail(ComingFor(d, o)) = Going5(o)
  <2>1. Tail(<<ad, ts, tw, dd, dw, ds>>) = <<ts, tw, dd, dw, ds>>
    BY <1>1, Tail6
  <2> QED BY <1>2, <2>1
<1>9. Head(Closing4(d)) = ts2 /\ Tail(Closing4(d)) = Closing3(d)
  <2>1. Tail(<<ts2, tw2, ds2, dw2>>) = <<tw2, ds2, dw2>>
    BY <1>1, Tail4
  <2> QED BY <1>2, <2>1
<1> QED BY <1>3, <1>4, <1>5, <1>6, <1>7, <1>8, <1>9
        DEF ts, tw, dd, dw, ds, ad, ts2, tw2, dw2, ds2

LEMMA GoingFacts ==
  ASSUME NEW o \in Delegates
  PROVE  /\ Head(Going1(o)) = <<"drop", Sta(o)>> /\ Tail(Going1(o)) = << >>
         /\ Head(Going2(o)) = <<"drop", War(o)>> /\ Tail(Going2(o)) = Going1(o)
         /\ Head(Going3(o)) = <<"drop", Self(o)>> /\ Tail(Going3(o)) = Going2(o)
         /\ Head(Going4(o)) = <<"take", War(o)>> /\ Tail(Going4(o)) = Going3(o)
         /\ Head(Going5(o)) = <<"take", Sta(o)>> /\ Tail(Going5(o)) = Going4(o)
BY HeadsAndTails

\* What it has when one is added.
LEMMA AppendTwo ==
  ASSUME NEW S, NEW a \in S, NEW b \in S
  PROVE  Append(<<a>>, b) = <<a, b>>
<1>1. Append(<<a>>, b) \in Seq(S) /\ <<a, b>> \in Seq(S)
  OBVIOUS
<1>2. Len(Append(<<a>>, b)) = 2
  OBVIOUS
<1>3. \A i \in 1..2 : Append(<<a>>, b)[i] = <<a, b>>[i]
  OBVIOUS
<1> QED BY <1>1, <1>2, <1>3, SeqEqual

LEMMA AppendThree ==
  ASSUME NEW S, NEW a \in S, NEW b \in S, NEW c \in S
  PROVE  Append(<<a, b>>, c) = <<a, b, c>>
<1>1. Append(<<a, b>>, c) \in Seq(S) /\ <<a, b, c>> \in Seq(S)
  OBVIOUS
<1>2. Len(Append(<<a, b>>, c)) = 3
  OBVIOUS
<1>3. \A i \in 1..3 : Append(<<a, b>>, c)[i] = <<a, b, c>>[i]
  OBVIOUS
<1> QED BY <1>1, <1>2, <1>3, SeqEqual

LEMMA AppendFour ==
  ASSUME NEW S, NEW a \in S, NEW b \in S, NEW c \in S, NEW d \in S
  PROVE  Append(<<a, b, c>>, d) = <<a, b, c, d>>
<1>1. Append(<<a, b, c>>, d) \in Seq(S) /\ <<a, b, c, d>> \in Seq(S)
  OBVIOUS
<1>2. Len(Append(<<a, b, c>>, d)) = 4
  OBVIOUS
<1>3. \A i \in 1..4 : Append(<<a, b, c>>, d)[i] = <<a, b, c, d>>[i]
  OBVIOUS
<1> QED BY <1>1, <1>2, <1>3, SeqEqual

LEMMA Appends ==
  ASSUME NEW o \in Delegates, NEW d \in Delegates
  PROVE  /\ Append(<< >>, Self(d)) = Alone(d)
         /\ Append(Alone(d), Sta(d)) = <<Self(d), Sta(d)>>
         /\ Append(<<Self(d), Sta(d)>>, War(d)) = Whole(d)
         /\ Append(Alone(o), Self(d)) = <<Self(o), Self(d)>>
         /\ Append(Whole(o), Self(d)) = <<Self(o), Sta(o), War(o), Self(d)>>
<1>1. Append(Whole(o), Self(d)) = <<Self(o), Sta(o), War(o), Self(d)>>
  <2> DEFINE a == Self(o)
             b == Sta(o)
             c == War(o)
             x == Self(d)
             T == {a, b, c, x}
  <2>1. a \in T /\ b \in T /\ c \in T /\ x \in T
    OBVIOUS
  <2>2. Whole(o) = <<a, b, c>>
    BY DEF Whole
  <2> HIDE DEF a, b, c, x, T
  <2>3. Append(<<a, b, c>>, x) = <<a, b, c, x>>
    BY <2>1, AppendFour
  <2> QED BY <2>2, <2>3 DEF a, b, c, x
<1>2. Append(<< >>, Self(d)) = <<Self(d)>>
  OBVIOUS
<1>3. ASSUME NEW x, NEW y PROVE Append(<<x>>, y) = <<x, y>>
  <2> DEFINE T == {x, y}
  <2>1. x \in T /\ y \in T
    OBVIOUS
  <2> HIDE DEF T
  <2> QED BY <2>1, AppendTwo
<1>4. ASSUME NEW x, NEW y, NEW z PROVE Append(<<x, y>>, z) = <<x, y, z>>
  <2> DEFINE T == {x, y, z}
  <2>1. x \in T /\ y \in T /\ z \in T
    OBVIOUS
  <2> HIDE DEF T
  <2> QED BY <2>1, AppendThree
<1>5. /\ Append(<< >>, Self(d)) = Alone(d)
      /\ Append(Alone(d), Sta(d)) = <<Self(d), Sta(d)>>
      /\ Append(<<Self(d), Sta(d)>>, War(d)) = Whole(d)
      /\ Append(Alone(o), Self(d)) = <<Self(o), Self(d)>>
  BY <1>2, <1>3, <1>4 DEF Alone, Whole
<1> QED BY <1>1, <1>5

\* The three kinds of step.
LEMMA AddHead ==
  ASSUME MainStep, NEW f, Head(todo) = <<"add", f>>
  PROVE  todo' = Tail(todo) /\ shared' = shared /\ count' = count /\ mgr' = Append(mgr, f)
BY HeadStep

LEMMA DropHead ==
  ASSUME MainStep, NEW f, Head(todo) = <<"drop", f>>
  PROVE  todo' = Tail(todo) /\ shared' = shared /\ count' = count /\ mgr' = Without(mgr, f)
BY HeadStep

LEMMA TakeHead ==
  ASSUME MainStep, NEW f, Head(todo) = <<"take", f>>
  PROVE  todo' = Tail(todo) /\ shared' = shared /\ count' = count /\ mgr' = mgr
BY HeadStep

\* Every step of the main thread leads to the next phase.
LEMMA PhaseMain ==
  ASSUME TypeOK, Phase, MainStep
  PROVE  Phase'
<1>0. shared # None => shared \in Delegates /\ count[shared] \in Nat
  BY DEF TypeOK
<1>1. ~AtRest
  BY DEF AtRest, MainStep, AddDelegate, DropDelegate, TakeDiagnostics, NextStep
<1>2. CASE Starting
  <2>0. shared \in Delegates /\ shared # None /\ count[shared] # 0
    BY <1>0, <1>2 DEF Starting
  <2>1. CASE todo = Opening2(shared) /\ mgr = Alone(shared)
    <3>1. todo' = Opening1(shared) /\ shared' = shared /\ count' = count
          /\ mgr' = <<Self(shared), Sta(shared)>>
      BY <2>0, <2>1, AddHead, HeadsAndTails, Appends
    <3> QED BY <1>2, <3>1 DEF Starting, Phase, Opening1
  <2>2. CASE todo = Opening1(shared) /\ mgr = <<Self(shared), Sta(shared)>>
    <3>1. todo' = << >> /\ shared' = shared /\ count' = count /\ mgr' = Whole(shared)
      BY <2>0, <2>2, AddHead, HeadsAndTails, Appends
    <3>2. AtRest'
      BY <2>0, <3>1 DEF AtRest, Whole
    <3> QED BY <3>2 DEF Phase
  <2> QED BY <1>2, <2>1, <2>2 DEF Starting
<1>3. CASE Ending
  <2>0. shared \in Delegates /\ shared # None /\ count[shared] = 0
    BY <1>0, <1>3 DEF Ending
  <2>1. CASE todo = Closing4(shared) /\ mgr = Whole(shared)
    <3>1. todo' = Closing3(shared) /\ shared' = shared /\ count' = count /\ mgr' = Whole(shared)
      BY <2>0, <2>1, TakeHead, HeadsAndTails
    <3> QED BY <2>0, <3>1 DEF Ending, Phase, Closing3, Whole
  <2>2. CASE todo = Closing3(shared) /\ mgr = Whole(shared)
    <3>1. todo' = Closing2(shared) /\ shared' = shared /\ count' = count /\ mgr' = Whole(shared)
      BY <2>0, <2>2, TakeHead, HeadsAndTails
    <3> QED BY <2>0, <3>1 DEF Ending, Phase, Closing2, Whole
  <2>3. CASE todo = Closing2(shared) /\ mgr = Whole(shared)
    <3>1. todo' = Closing1(shared) /\ shared' = shared /\ count' = count
          /\ mgr' = <<Self(shared), War(shared)>>
      BY <2>0, <2>3, DropHead, HeadsAndTails, OneRemoved DEF Whole
    <3> QED BY <2>0, <3>1 DEF Ending, Phase, Closing1
  <2>4. CASE todo = Closing1(shared) /\ mgr = <<Self(shared), War(shared)>>
    <3>1. todo' = << >> /\ shared' = shared /\ count' = count /\ mgr' = Alone(shared)
      BY <2>0, <2>4, DropHead, HeadsAndTails, OneRemoved DEF Alone
    <3>2. AtRest'
      BY <2>0, <3>1 DEF AtRest, Alone
    <3> QED BY <3>2 DEF Phase
  <2> QED BY <1>3, <2>1, <2>2, <2>3, <2>4 DEF Ending
<1>4. CASE Installing
  <2>0. shared \in Delegates /\ shared # None /\ count[shared] = 0
    BY <1>0, <1>4 DEF Installing
  <2>1. CASE todo = Coming(shared) /\ mgr = << >>
    <3>1. todo' = << >> /\ shared' = shared /\ count' = count /\ mgr' = Alone(shared)
      BY <2>0, <2>1, AddHead, HeadsAndTails, Appends
    <3>2. AtRest'
      BY <2>0, <3>1 DEF AtRest, Alone
    <3> QED BY <3>2 DEF Phase
  <2>2. ASSUME NEW o \in Delegates \ {shared}, todo = ComingFor(shared, o),
               mgr = Alone(o) \/ mgr = Whole(o)
        PROVE  Phase'
    <3>1. todo' = Going5(o) /\ shared' = shared /\ count' = count
          /\ \/ mgr' = <<Self(o), Self(shared)>>
             \/ mgr' = <<Self(o), Sta(o), War(o), Self(shared)>>
      <4>1. Head(todo) = <<"add", Self(shared)>> /\ Tail(todo) = Going5(o)
        BY <2>0, <2>2, HeadsAndTails
      <4>2. todo' = Going5(o) /\ shared' = shared /\ count' = count
            /\ mgr' = Append(mgr, Self(shared))
        BY <4>1, AddHead
      <4> QED BY <2>0, <2>2, <4>2, Appends
    <3>2. Replacing(o)'
      BY <2>0, <2>2, <3>1 DEF Replacing, Going5, Self, Sta, War
    <3> QED BY <3>2 DEF Phase
  <2> QED BY <1>4, <2>1, <2>2 DEF Installing
<1>5. ASSUME NEW o \in Delegates, Removing(o) PROVE Phase'
  <2>0. shared = None
    BY <1>5 DEF Removing
  <2>1. CASE (todo = Going5(o) \/ todo = Going4(o)) /\ (mgr = Alone(o) \/ mgr = Whole(o))
    <3>1. /\ todo' = Going4(o) \/ todo' = Going3(o)
          /\ shared' = shared /\ count' = count /\ mgr' = mgr
      <4>1. CASE todo = Going5(o)
        <5>1. Head(todo) = <<"take", Sta(o)>> /\ Tail(todo) = Going4(o)
          BY <4>1, GoingFacts
        <5> QED BY <5>1, TakeHead
      <4>2. CASE todo = Going4(o)
        <5>1. Head(todo) = <<"take", War(o)>> /\ Tail(todo) = Going3(o)
          BY <4>2, GoingFacts
        <5> QED BY <5>1, TakeHead
      <4> QED BY <2>1, <4>1, <4>2
    <3>2. Removing(o)'
      BY <2>0, <2>1, <3>1 DEF Removing, Going4, Going3, Alone, Whole, Self, Sta, War
    <3> QED BY <3>2 DEF Phase
  <2>2. CASE todo = Going3(o) /\ (mgr = Alone(o) \/ mgr = Whole(o))
    <3>1. /\ todo' = Going2(o) /\ shared' = shared /\ count' = count
          /\ mgr' = << >> \/ mgr' = <<Sta(o), War(o)>>
      <4>1. Head(todo) = <<"drop", Self(o)>> /\ Tail(todo) = Going2(o)
        BY <2>2, GoingFacts
      <4>2. todo' = Going2(o) /\ shared' = shared /\ count' = count /\ mgr' = Without(mgr, Self(o))
        BY <4>1, DropHead
      <4> QED BY <2>2, <4>2, OneRemoved DEF Alone, Whole
    <3>2. Removing(o)'
      BY <2>0, <3>1 DEF Removing, Going2, Sta, War
    <3> QED BY <3>2 DEF Phase
  <2>3. CASE todo = Going2(o) /\ (mgr = << >> \/ mgr = <<Sta(o), War(o)>>)
    <3>1. /\ todo' = Going1(o) /\ shared' = shared /\ count' = count
          /\ mgr' = << >> \/ mgr' = <<Sta(o)>>
      <4>1. Head(todo) = <<"drop", War(o)>> /\ Tail(todo) = Going1(o)
        BY <2>3, GoingFacts
      <4>2. todo' = Going1(o) /\ shared' = shared /\ count' = count /\ mgr' = Without(mgr, War(o))
        BY <4>1, DropHead
      <4> QED BY <2>3, <4>2, OneRemoved
    <3>2. Removing(o)'
      BY <2>0, <3>1 DEF Removing, Going1, Sta, War
    <3> QED BY <3>2 DEF Phase
  <2>4. CASE todo = Going1(o) /\ (mgr = << >> \/ mgr = <<Sta(o)>>)
    <3>1. todo' = << >> /\ shared' = shared /\ count' = count /\ mgr' = << >>
      <4>1. Head(todo) = <<"drop", Sta(o)>> /\ Tail(todo) = << >>
        BY <2>4, GoingFacts
      <4>2. todo' = << >> /\ shared' = shared /\ count' = count /\ mgr' = Without(mgr, Sta(o))
        BY <4>1, DropHead
      <4> QED BY <2>4, <4>2, OneRemoved
    <3>2. AtRest'
      BY <2>0, <3>1 DEF AtRest
    <3> QED BY <3>2 DEF Phase
  <2> QED BY <1>5, <2>1, <2>2, <2>3, <2>4 DEF Removing
<1>6. ASSUME NEW o \in Delegates, Replacing(o) PROVE Phase'
  <2>0. shared \in Delegates /\ shared # None /\ o # shared /\ count[shared] = 0
    BY <1>0, <1>6 DEF Replacing
  <2>1. CASE /\ todo = Going5(o) \/ todo = Going4(o)
             /\ \/ mgr = <<Self(o), Self(shared)>>
                \/ mgr = <<Self(o), Sta(o), War(o), Self(shared)>>
    <3>1. /\ todo' = Going4(o) \/ todo' = Going3(o)
          /\ shared' = shared /\ count' = count /\ mgr' = mgr
      <4>1. CASE todo = Going5(o)
        <5>1. Head(todo) = <<"take", Sta(o)>> /\ Tail(todo) = Going4(o)
          BY <4>1, GoingFacts
        <5> QED BY <5>1, TakeHead
      <4>2. CASE todo = Going4(o)
        <5>1. Head(todo) = <<"take", War(o)>> /\ Tail(todo) = Going3(o)
          BY <4>2, GoingFacts
        <5> QED BY <5>1, TakeHead
      <4> QED BY <2>1, <4>1, <4>2
    <3>2. Replacing(o)'
      BY <2>0, <2>1, <3>1 DEF Replacing, Going4, Going3, Self, Sta, War
    <3> QED BY <3>2 DEF Phase
  <2>2. CASE /\ todo = Going3(o)
             /\ \/ mgr = <<Self(o), Self(shared)>>
                \/ mgr = <<Self(o), Sta(o), War(o), Self(shared)>>
    <3>1. /\ todo' = Going2(o) /\ shared' = shared /\ count' = count
          /\ mgr' = Alone(shared) \/ mgr' = <<Sta(o), War(o), Self(shared)>>
      <4>1. Head(todo) = <<"drop", Self(o)>> /\ Tail(todo) = Going2(o)
        BY <2>2, GoingFacts
      <4>2. todo' = Going2(o) /\ shared' = shared /\ count' = count /\ mgr' = Without(mgr, Self(o))
        BY <4>1, DropHead
      <4> QED BY <2>0, <2>2, <4>2, OneRemovedOfTwo DEF Alone
    <3>2. Replacing(o)'
      BY <2>0, <3>1 DEF Replacing, Going2, Alone, Self, Sta, War
    <3> QED BY <3>2 DEF Phase
  <2>3. CASE /\ todo = Going2(o)
             /\ mgr = Alone(shared) \/ mgr = <<Sta(o), War(o), Self(shared)>>
    <3>1. /\ todo' = Going1(o) /\ shared' = shared /\ count' = count
          /\ mgr' = Alone(shared) \/ mgr' = <<Sta(o), Self(shared)>>
      <4>1. Head(todo) = <<"drop", War(o)>> /\ Tail(todo) = Going1(o)
        BY <2>3, GoingFacts
      <4>2. todo' = Going1(o) /\ shared' = shared /\ count' = count /\ mgr' = Without(mgr, War(o))
        BY <4>1, DropHead
      <4> QED BY <2>0, <2>3, <4>2, OneRemovedOfTwo DEF Alone
    <3>2. Replacing(o)'
      BY <2>0, <3>1 DEF Replacing, Going1, Alone, Self, Sta, War
    <3> QED BY <3>2 DEF Phase
  <2>4. CASE /\ todo = Going1(o)
             /\ mgr = Alone(shared) \/ mgr = <<Sta(o), Self(shared)>>
    <3>1. todo' = << >> /\ shared' = shared /\ count' = count /\ mgr' = Alone(shared)
      <4>1. Head(todo) = <<"drop", Sta(o)>> /\ Tail(todo) = << >>
        BY <2>4, GoingFacts
      <4>2. todo' = << >> /\ shared' = shared /\ count' = count /\ mgr' = Without(mgr, Sta(o))
        BY <4>1, DropHead
      <4> QED BY <2>0, <2>4, <4>2, OneRemovedOfTwo DEF Alone
    <3>2. AtRest'
      BY <2>0, <3>1 DEF AtRest, Alone
    <3> QED BY <3>2 DEF Phase
  <2> QED BY <1>6, <2>1, <2>2, <2>3, <2>4 DEF Replacing
<1> QED BY <1>1, <1>2, <1>3, <1>4, <1>5, <1>6 DEF Phase

\* A context that is not the first of its batch leaves the manager alone.
LEMMA PhaseEnter ==
  ASSUME BatchInv, Phase, NEW c \in Contexts, EnterContext(c)
  PROVE  Phase'
<1>1. AtRest /\ todo = << >> /\ UNCHANGED <<mgr, shared>>
  BY RestPhase DEF EnterContext, Free
<1>2. CASE shared = None
  <2>1. UNCHANGED <<mgr, shared, count, todo>>
    BY <1>1, <1>2 DEF EnterContext
  <2> QED BY <1>1, <2>1 DEF AtRest, Phase
<1>3. CASE shared # None
  <2>1. shared \in Delegates /\ count[shared] \in Nat /\ count \in [Delegates -> Nat]
    BY <1>3 DEF BatchInv, TypeOK
  <2>2. count'[shared] = count[shared] + 1 /\ todo' = StartBatch(shared)
    BY <1>3, <2>1 DEF EnterContext, Begin
  <2>3. count'[shared] > 0 /\ count'[shared] # 0
    BY <2>1, <2>2
  <2>4. CASE count[shared] = 0
    <3>1. todo' = Opening2(shared)
      BY <2>2, <2>4 DEF StartBatch, Collect, Opening2, Sta, War
    <3>2. mgr' = Alone(shared)
      BY <1>1, <1>3, <2>4 DEF AtRest
    <3>3. Starting'
      BY <1>1, <1>3, <2>3, <3>1, <3>2 DEF Starting, Opening2, Alone
    <3> QED BY <3>3 DEF Phase
  <2>5. CASE count[shared] # 0
    <3>1. todo' = << >>
      BY <2>2, <2>5 DEF StartBatch
    <3>2. mgr' = Whole(shared)
      BY <1>1, <1>3, <2>5 DEF AtRest
    <3>3. AtRest'
      BY <1>1, <1>3, <2>3, <3>1, <3>2 DEF AtRest, Whole
    <3> QED BY <3>3 DEF Phase
  <2> QED BY <2>4, <2>5
<1> QED BY <1>2, <1>3

\* A context that ends the batch of a delegate has been counted.
LEMMA LeavesCounted ==
  ASSUME BatchInv, NEW c \in Contexts, Bound(c)
  PROVE  count[shared] > 0
<1>1. shared # None /\ contexts[c] = shared
  BY DEF Bound
<1>2. shared \in Delegates /\ contexts \in [Contexts -> Delegates \cup {None, Unmade, Ended}]
  BY <1>1 DEF BatchInv, TypeOK
<1>3. count[shared] = Cardinality(Holders(contexts, shared))
  BY <1>1 DEF BatchInv, CountMatches, Holders
<1>4. Ended # shared
  BY <1>2, NullAssumption
<1>5. Cardinality(Holders(contexts, shared)) > 0
  BY <1>1, <1>2, <1>4, HoldersFacts
<1> QED BY <1>3, <1>5

LEMMA PhaseLeave ==
  ASSUME BatchInv, Phase, NEW c \in Contexts, LeaveContext(c)
  PROVE  Phase'
<1>1. AtRest /\ todo = << >> /\ UNCHANGED <<mgr, shared>>
  BY RestPhase DEF LeaveContext, Free
<1>2. CASE ~Bound(c)
  <2>1. UNCHANGED <<mgr, shared, count, todo>>
    BY <1>1, <1>2 DEF LeaveContext
  <2> QED BY <1>1, <2>1 DEF AtRest, Phase
<1>3. CASE Bound(c)
  <2>0. shared # None /\ contexts[c] = shared
    BY <1>3 DEF Bound
  <2>1. shared \in Delegates /\ count[shared] \in Nat /\ count \in [Delegates -> Nat]
    BY <2>0 DEF BatchInv, TypeOK
  <2>2. count'[shared] = count[shared] - 1 /\ todo' = EndBatch(shared)
    BY <1>3, <2>1 DEF LeaveContext, Begin
  <2>3. count[shared] > 0
    BY <1>3, LeavesCounted
  <2>4. CASE count[shared] = 1
    <3>1. todo' = Closing4(shared)
      BY <2>1, <2>2, <2>4, Lists DEF EndBatch, Closing4
    <3>2. mgr' = Whole(shared) /\ count'[shared] = 0
      BY <1>1, <2>0, <2>2, <2>4 DEF AtRest
    <3>3. Ending'
      BY <1>1, <2>0, <3>1, <3>2 DEF Ending, Closing4, Whole
    <3> QED BY <3>3 DEF Phase
  <2>5. CASE count[shared] # 1
    <3>1. todo' = << >> /\ count'[shared] # 0
      BY <2>1, <2>2, <2>3, <2>5 DEF EndBatch
    <3>2. mgr' = Whole(shared)
      BY <1>1, <2>0, <2>3 DEF AtRest
    <3>3. AtRest'
      BY <1>1, <2>0, <3>1, <3>2 DEF AtRest, Whole
    <3> QED BY <3>3 DEF Phase
  <2> QED BY <2>4, <2>5
<1> QED BY <1>2, <1>3

\* The old delegate goes after the new one has been added.
LEMMA PhaseInstall ==
  ASSUME BatchInv, Phase, NEW d \in Delegates, InstallDelegate(d)
  PROVE  Phase'
<1>1. AtRest /\ todo = << >> /\ mgr' = mgr /\ count' = count /\ shared' = d /\ d \notin made
  BY RestPhase DEF InstallDelegate, Free
<1>2. d # None /\ count'[shared'] = 0
  BY <1>1, NullAssumption DEF BatchInv, Unborn
<1>3. todo' = <<<<"add", Self(d)>>>> \o (IF shared = None THEN << >> ELSE Destroy(shared))
  BY DEF InstallDelegate, Begin, Self
<1>4. CASE shared = None
  <2>1. todo' = Coming(d)
    <3>1. <<<<"add", Self(d)>>>> \o << >> = <<<<"add", Self(d)>>>>
      OBVIOUS
    <3> QED BY <1>3, <1>4, <3>1 DEF Coming
  <2>2. mgr' = << >>
    BY <1>1, <1>4 DEF AtRest
  <2>3. Installing'
    BY <1>1, <1>2, <2>1, <2>2 DEF Installing, Coming
  <2> QED BY <2>3 DEF Phase
<1>5. CASE shared # None
  <2>1. shared \in Delegates \ {d}
    BY <1>1, <1>5 DEF BatchInv, TypeOK
  <2>2. todo' = ComingFor(d, shared)
    <3> DEFINE o  == shared
               ad == <<"add", Self(d)>>
               ts == <<"take", Sta(o)>>
               tw == <<"take", War(o)>>
               dd == <<"drop", Self(o)>>
               dw == <<"drop", War(o)>>
               ds == <<"drop", Sta(o)>>
               T  == {ad, ts, tw, dd, dw, ds}
    <3>1. ad \in T /\ ts \in T /\ tw \in T /\ dd \in T /\ dw \in T /\ ds \in T
      OBVIOUS
    <3>2. Destroy(o) = <<ts, tw, dd, dw, ds>>
      BY <2>1, Lists
    <3>3. ComingFor(d, o) = <<ad, ts, tw, dd, dw, ds>>
      BY DEF ComingFor
    <3>4. todo' = <<ad>> \o Destroy(o)
      BY <1>3, <1>5
    <3> HIDE DEF ad, ts, tw, dd, dw, ds, T, o
    <3>5. <<ad>> \o <<ts, tw, dd, dw, ds>> = <<ad, ts, tw, dd, dw, ds>>
      BY <3>1, JoinSix
    <3>6. todo' = ComingFor(d, o)
      BY <3>2, <3>3, <3>4, <3>5
    <3> QED BY <3>6 DEF o
  <2>3. mgr' = Alone(shared) \/ mgr' = Whole(shared)
    BY <1>1, <1>5 DEF AtRest
  <2>4. Installing'
    BY <1>1, <1>2, <2>1, <2>2, <2>3 DEF Installing, ComingFor, Alone, Whole
  <2> QED BY <2>4 DEF Phase
<1> QED BY <1>4, <1>5

LEMMA PhaseRemove ==
  ASSUME BatchInv, Phase, RemoveDelegate
  PROVE  Phase'
<1>1. AtRest /\ mgr' = mgr /\ shared' = None /\ shared # None /\ todo' = Destroy(shared)
  BY RestPhase DEF RemoveDelegate, Free, Begin
<1>2. shared \in Delegates
  BY <1>1 DEF BatchInv, TypeOK
<1>3. todo' = Going5(shared)
  BY <1>1, <1>2, Lists DEF Going5
<1>4. mgr' = Alone(shared) \/ mgr' = Whole(shared)
  BY <1>1 DEF AtRest
<1>5. \E o \in Delegates : Removing(o)'
  <2> DEFINE o == shared
  <2>1. o \in Delegates /\ todo' = Going5(o) /\ (mgr' = Alone(o) \/ mgr' = Whole(o))
    BY <1>2, <1>3, <1>4
  <2> HIDE DEF o
  <2>2. \E u \in Delegates : todo' = Going5(u) /\ (mgr' = Alone(u) \/ mgr' = Whole(u))
    BY <2>1
  <2> QED BY <1>1, <2>2 DEF Removing, Going5, Alone, Whole, Self, Sta, War
<1> QED BY <1>5 DEF Phase

LEMMA PhaseStep == BatchInv /\ Phase /\ [Next]_vars => Phase'
<1> SUFFICES ASSUME BatchInv, Phase, [Next]_vars PROVE Phase'
  OBVIOUS
<1>1. ASSUME NEW c \in Contexts, EnterContext(c) \/ LeaveContext(c) PROVE Phase'
  BY <1>1, PhaseEnter, PhaseLeave
<1>2. ASSUME NEW d \in Delegates, InstallDelegate(d) PROVE Phase'
  BY <1>2, PhaseInstall
<1>3. CASE RemoveDelegate
  BY <1>3, PhaseRemove
<1>4. CASE MainStep
  BY <1>4, PhaseMain DEF BatchInv
<1>5. ASSUME UNCHANGED <<mgr, shared, count, todo>> PROVE Phase'
  BY <1>5 DEF Phase, AtRest, Starting, Ending, Installing, Removing, Replacing,
       Going1, Going2, Going3, Going4, Going5, Coming, ComingFor,
       Closing1, Closing2, Closing3, Closing4, Opening1, Opening2,
       Alone, Whole, Self, Sta, War
<1>6. ASSUME NEW t \in Threads, IssueShared(t) \/ IssueCollector(t) PROVE Phase'
  BY <1>5, <1>6 DEF IssueShared, IssueCollector, Returns, mainVars
<1>7. ASSUME NEW t \in Threads, NEW m \in Messages, Post(t, m) PROVE Phase'
  BY <1>5, <1>7 DEF Post, mainVars
<1>8. CASE UNCHANGED vars
  BY <1>5, <1>8 DEF vars, mainVars
<1> QED BY <1>1, <1>2, <1>3, <1>4, <1>6, <1>7, <1>8 DEF Next

LEMMA PhaseInvariant == Spec => []Phase
<1>1. Init => Phase
  BY DEF Init, Phase, AtRest
<1> QED BY <1>1, BatchInvariant, PhaseStep, PTL DEF Spec

\* Whatever contexts and delegates come and go, the manager has, when the main
\* thread is at rest, the shared delegate and, in a batch, its two collectors.
THEOREM ManagerInOrder == Spec => []ManagerMatches
<1>1. Phase => ManagerMatches
  BY RestPhase DEF ManagerMatches, AtRest, Alone, Whole, Self, Sta, War
<1> QED BY <1>1, PhaseInvariant, PTL

-----------------------------------------------------------------------------
\* Nothing has been done with a message; it is shown or kept, once.
Fresh(m) == shown[m] = 0 /\ \A e \in Entries : m \notin held[e]

Once(m) ==
  /\ shown[m] = 0 \/ (shown[m] = 1 /\ \A e \in Entries : m \notin held[e])
  /\ \A e, f \in Entries : m \in held[e] /\ m \in held[f] => e = f

\* The calls that a thread has still to make for a message that no change of
\* the delegates overlaps, and what has not been done with it yet.
InTurn(t, m) ==
  /\ todo = << >> /\ shared # None
  /\ \/ calls[t] = Alone(shared) /\ count[shared] = 0 /\ Fresh(m)
     \/ calls[t] = Whole(shared) /\ count[shared] > 0 /\ Fresh(m)
     \/ /\ calls[t] = <<Sta(shared), War(shared)>> /\ count[shared] > 0
        /\ Kind[m] \in Collectors => Fresh(m)
     \/ /\ calls[t] = <<War(shared)>> /\ count[shared] > 0
        /\ Kind[m] = "warning" => Fresh(m)

NewFresh   == \A m \in Messages \ posted : Fresh(m)
CalmOnce   == \A m \in calm : Once(m)
PostedOnes == \A t \in Threads : message[t] \in posted \cup {None}
OneEach    == \A t, u \in Threads : message[t] = message[u] /\ message[t] # None => t = u
CalmInTurn == \A t \in Threads, m \in calm : message[t] = m => InTurn(t, m)

ShowInv == NewFresh /\ CalmOnce /\ PostedOnes /\ OneEach /\ CalmInTurn

\* What a step does not touch keeps what is known of it.
LEMMA SameFate ==
  ASSUME TypeOK, NEW x \in Messages, shown'[x] = shown[x],
         \A e \in Entries : x \in held'[e] <=> x \in held[e]
  PROVE  /\ Fresh(x) => Fresh(x)'
         /\ Once(x) => Once(x)'
<1>1. Fresh(x) => Fresh(x)'
  BY DEF Fresh
<1>2. Once(x) => Once(x)'
  BY DEF Once
<1> QED BY <1>1, <1>2

\* An operation of the main thread between the posts of its own.
LEMMA ShownMainChange ==
  ASSUME BatchInv, ShowInv, UNCHANGED <<held, message, calls, posted, shown>>,
         calm' \subseteq calm,
         \/ calm' \cap {message[t] : t \in Threads} = {}
         \/ /\ todo' = todo /\ shared' = shared
            /\ shared # None => (count'[shared] = 0 <=> count[shared] = 0)
                                /\ (count'[shared] > 0 <=> count[shared] > 0)
  PROVE  ShowInv'
<1>0. calm \subseteq Messages
  BY DEF BatchInv, TypeOK
<1>1. \A x : (Fresh(x) <=> Fresh(x)') /\ (Once(x) <=> Once(x)')
  BY DEF Fresh, Once
<1>2. NewFresh' /\ CalmOnce' /\ PostedOnes' /\ OneEach'
  BY <1>1 DEF ShowInv, NewFresh, CalmOnce, PostedOnes, OneEach
<1>3. CalmInTurn'
  <2> SUFFICES ASSUME NEW t \in Threads, NEW m \in calm', message'[t] = m
               PROVE  InTurn(t, m)'
    BY DEF CalmInTurn
  <2>1. m \in calm /\ message[t] = m /\ InTurn(t, m)
    BY DEF ShowInv, CalmInTurn
  <2>2. todo' = todo /\ shared' = shared
        /\ (shared # None => (count'[shared] = 0 <=> count[shared] = 0)
                             /\ (count'[shared] > 0 <=> count[shared] > 0))
    BY <2>1
  <2> QED BY <2>1, <2>2, <1>1 DEF InTurn, Alone, Whole, Self, Sta, War
<1> QED BY <1>2, <1>3 DEF ShowInv

\* What Begin does with the messages that are being posted.
LEMMA BeginFacts ==
  ASSUME BatchInv, Free, NEW s, Begin(s)
  PROVE  /\ calm' \subseteq calm /\ todo' = s
         /\ s # << >> => calm' \cap {message[t] : t \in Threads} = {}
<1>1. None \notin calm /\ message[Main] = None
  BY NullAssumption DEF BatchInv, TypeOK, Free
<1>2. calm' \subseteq calm /\ todo' = s
  BY DEF Begin
<1>3. ASSUME s # << >> PROVE calm' \cap {message[t] : t \in Threads} = {}
  BY <1>1, <1>3 DEF Begin, Threads
<1> QED BY <1>2, <1>3

\* Making collectors and destroying them overlaps what is being posted.
LEMMA ShownEnter ==
  ASSUME BatchInv, ShowInv, NEW c \in Contexts, EnterContext(c)
  PROVE  ShowInv'
<1>1. UNCHANGED <<shared, held, message, calls, posted, shown>> /\ Free /\ todo = << >>
  BY DEF EnterContext, postVars, Free
<1>2. CASE shared = None
  BY <1>1, <1>2, ShownMainChange DEF EnterContext
<1>3. CASE shared # None
  <2>1. shared \in Delegates /\ count[shared] \in Nat /\ count \in [Delegates -> Nat]
    BY <1>3 DEF BatchInv, TypeOK
  <2>2. count'[shared] = count[shared] + 1 /\ Begin(StartBatch(shared))
    BY <1>3, <2>1 DEF EnterContext
  <2>3. CASE count[shared] = 0
    <3>1. StartBatch(shared) # << >>
      BY <2>3 DEF StartBatch, Collect
    <3> QED BY <1>1, <2>2, <3>1, BeginFacts, ShownMainChange
  <2>4. CASE count[shared] # 0
    <3>1. StartBatch(shared) = << >>
      BY <2>4 DEF StartBatch
    <3>2. (count'[shared] = 0 <=> count[shared] = 0)
          /\ (count'[shared] > 0 <=> count[shared] > 0)
      BY <2>1, <2>2, <2>4
    <3> QED BY <1>1, <2>2, <3>1, <3>2, BeginFacts, ShownMainChange
  <2> QED BY <2>3, <2>4
<1> QED BY <1>2, <1>3

LEMMA ShownLeave ==
  ASSUME BatchInv, ShowInv, NEW c \in Contexts, LeaveContext(c)
  PROVE  ShowInv'
<1>1. UNCHANGED <<shared, held, message, calls, posted, shown>> /\ Free /\ todo = << >>
  BY DEF LeaveContext, postVars, Free
<1>2. CASE ~Bound(c)
  BY <1>1, <1>2, ShownMainChange DEF LeaveContext
<1>3. CASE Bound(c)
  <2>0. shared # None
    BY <1>3 DEF Bound
  <2>1. shared \in Delegates /\ count[shared] \in Nat /\ count \in [Delegates -> Nat]
    BY <2>0 DEF BatchInv, TypeOK
  <2>2. count'[shared] = count[shared] - 1 /\ Begin(EndBatch(shared))
    BY <1>3, <2>1 DEF LeaveContext
  <2>3. CASE count[shared] = 1
    <3>1. EndBatch(shared) # << >>
      BY <2>1, <2>3, Lists DEF EndBatch
    <3> QED BY <1>1, <2>2, <3>1, BeginFacts, ShownMainChange
  <2>4. CASE count[shared] # 1
    <3>1. EndBatch(shared) = << >>
      BY <2>4 DEF EndBatch
    <3>2. count[shared] > 0
      BY <1>3, LeavesCounted
    <3>3. (count'[shared] = 0 <=> count[shared] = 0)
          /\ (count'[shared] > 0 <=> count[shared] > 0)
      BY <2>1, <2>2, <2>4, <3>2
    <3> QED BY <1>1, <2>2, <3>1, <3>3, BeginFacts, ShownMainChange
  <2> QED BY <2>3, <2>4
<1> QED BY <1>2, <1>3

LEMMA ShownInstall ==
  ASSUME BatchInv, ShowInv, NEW d \in Delegates, InstallDelegate(d)
  PROVE  ShowInv'
<1> DEFINE rest  == IF shared = None THEN << >> ELSE Destroy(shared)
           steps == <<<<"add", <<d, "self">>>>>> \o rest
<1>1. UNCHANGED <<held, message, calls, posted, shown>> /\ Free /\ Begin(steps)
  BY DEF InstallDelegate, postVars
<1>2. steps # << >>
  <2>1. <<<<"add", <<d, "self">>>>>> \in Seq(Steps)
    BY StepsFacts
  <2>2. rest \in Seq(Steps)
    <3>1. shared # None => Destroy(shared) \in Seq(Steps)
      BY StepsFacts DEF BatchInv, TypeOK
    <3> QED BY <3>1
  <2>3. Len(steps) = Len(<<<<"add", <<d, "self">>>>>>) + Len(rest)
    <3> HIDE DEF rest
    <3> QED BY <2>1, <2>2, ConcatProperties
  <2>4. Len(rest) \in Nat /\ Len(<<<<"add", <<d, "self">>>>>>) = 1
    <3> HIDE DEF rest
    <3> QED BY <2>2
  <2>5. Len(steps) # 0
    <3> HIDE DEF steps, rest
    <3> QED BY <2>3, <2>4
  <2>6. Len(<< >>) = 0
    OBVIOUS
  <2> HIDE DEF steps
  <2> QED BY <2>5, <2>6
<1> HIDE DEF steps
<1> QED BY <1>1, <1>2, BeginFacts, ShownMainChange

LEMMA ShownRemove ==
  ASSUME BatchInv, ShowInv, RemoveDelegate
  PROVE  ShowInv'
<1>1. UNCHANGED <<held, message, calls, posted, shown>> /\ Free /\ Begin(Destroy(shared))
  BY DEF RemoveDelegate, postVars
<1>2. Destroy(shared) # << >>
  <2>1. shared \in Delegates
    BY DEF BatchInv, TypeOK, RemoveDelegate
  <2> QED BY <2>1, Lists
<1> QED BY <1>1, <1>2, BeginFacts, ShownMainChange

\* Showing what a collector kept, and forgetting it.
LEMMA ShownMainStep ==
  ASSUME BatchInv, ShowInv, MainStep
  PROVE  ShowInv'
<1>1. PICK e \in Entries : AddDelegate(e) \/ DropDelegate(e) \/ TakeDiagnostics(e)
  BY DEF MainStep
<1>2. todo # << >> /\ UNCHANGED <<message, posted, calm>>
  BY <1>1 DEF AddDelegate, DropDelegate, TakeDiagnostics, NextStep, postVars
<1>3. calm \subseteq Messages /\ posted \subseteq Messages
      /\ shown \in [Messages -> Nat] /\ held \in [Entries -> SUBSET Messages]
  BY DEF BatchInv, TypeOK
<1>4. \A x \in Messages : (Fresh(x) => Fresh(x)') /\ (Once(x) => Once(x)')
  <2> SUFFICES ASSUME NEW x \in Messages
               PROVE  (Fresh(x) => Fresh(x)') /\ (Once(x) => Once(x)')
    OBVIOUS
  <2>1. CASE AddDelegate(e)
    <3>1. UNCHANGED <<held, shown>>
      BY <2>1 DEF AddDelegate
    <3> QED BY <3>1, SameFate DEF BatchInv
  <2>2. CASE DropDelegate(e)
    <3>1. shown' = shown /\ held' = [held EXCEPT ![e] = {}]
      BY <2>2 DEF DropDelegate
    <3> QED BY <1>3, <3>1 DEF Fresh, Once
  <2>3. CASE TakeDiagnostics(e)
    <3>1. held' = [held EXCEPT ![e] = {}]
          /\ shown'[x] = IF x \in held[e] THEN shown[x] + 1 ELSE shown[x]
      BY <2>3 DEF TakeDiagnostics
    <3>2. CASE x \in held[e]
      <4>1. ~Fresh(x)
        BY <3>2 DEF Fresh
      <4>2. ASSUME Once(x) PROVE Once(x)'
        <5>1. shown[x] = 0 /\ \A f \in Entries : x \in held[f] => f = e
          BY <3>2, <4>2 DEF Once
        <5>2. shown'[x] = 1 /\ \A f \in Entries : x \notin held'[f]
          BY <1>3, <3>1, <3>2, <5>1
        <5> QED BY <5>2 DEF Once
      <4> QED BY <4>1, <4>2
    <3>3. CASE x \notin held[e]
      BY <1>3, <3>1, <3>3 DEF Fresh, Once
    <3> QED BY <3>2, <3>3
  <2> QED BY <1>1, <2>1, <2>2, <2>3
<1>5. NewFresh' /\ CalmOnce' /\ PostedOnes' /\ OneEach'
  BY <1>2, <1>3, <1>4 DEF ShowInv, NewFresh, CalmOnce, PostedOnes, OneEach
<1>6. CalmInTurn'
  BY <1>2 DEF ShowInv, CalmInTurn, InTurn
<1> QED BY <1>5, <1>6 DEF ShowInv

\* A new message: shown at once, or its thread has every delegate to call.
LEMMA ShownPost ==
  ASSUME BatchInv, Phase, ShowInv, NEW t \in Threads, NEW m \in Messages, Post(t, m)
  PROVE  ShowInv'
<1>1. /\ message[t] = None /\ m \notin posted /\ posted' = posted \cup {m}
      /\ calm' = (IF todo = << >> THEN calm \cup {m} ELSE calm)
      /\ UNCHANGED <<mgr, shared, count, held, todo>>
  BY DEF Post, mainVars
<1>2. /\ calm \subseteq posted /\ posted \subseteq Messages /\ None \notin Messages
      /\ shown \in [Messages -> Nat] /\ held \in [Entries -> SUBSET Messages]
      /\ message \in [Threads -> Messages \cup {None}]
      /\ calls \in [Threads -> Seq(Entries)]
  BY NullAssumption DEF BatchInv, TypeOK
<1>3. Fresh(m) /\ \A u \in Threads : message[u] # m
  BY <1>1, <1>2 DEF ShowInv, NewFresh, PostedOnes
<1>4. \A x \in Messages : x # m => (Fresh(x) => Fresh(x)') /\ (Once(x) => Once(x)')
  <2> SUFFICES ASSUME NEW x \in Messages, x # m
               PROVE  (Fresh(x) => Fresh(x)') /\ (Once(x) => Once(x)')
    OBVIOUS
  <2>1. shown'[x] = shown[x]
    BY <1>2 DEF Post, Show
  <2> QED BY <1>1, <2>1, SameFate DEF BatchInv
<1>5. Once(m)'
  <2>1. \A e \in Entries : m \notin held'[e]
    BY <1>1, <1>3 DEF Fresh
  <2>2. shown'[m] = 0 \/ shown'[m] = 1
    BY <1>2, <1>3 DEF Post, Show, Fresh
  <2> QED BY <2>1, <2>2 DEF Once
<1>6. NewFresh'
  BY <1>1, <1>2, <1>4 DEF ShowInv, NewFresh
<1>7. CalmOnce'
  BY <1>1, <1>2, <1>4, <1>5 DEF ShowInv, CalmOnce
<1>8. CASE mgr = << >>
  <2>1. message' = message /\ calls' = calls
    BY <1>8 DEF Post
  <2>2. PostedOnes' /\ OneEach'
    BY <1>1, <2>1 DEF ShowInv, PostedOnes, OneEach
  <2>3. CalmInTurn'
    <3> SUFFICES ASSUME NEW u \in Threads, NEW x \in calm', message'[u] = x
                 PROVE  InTurn(u, x)'
      BY DEF CalmInTurn
    <3>1. x # m /\ x \in calm /\ message[u] = x /\ x \in Messages
      BY <1>1, <1>2, <1>3, <2>1
    <3>2. InTurn(u, x)
      BY <3>1 DEF ShowInv, CalmInTurn
    <3>3. Fresh(x) => Fresh(x)'
      BY <1>4, <3>1
    <3> QED BY <1>1, <2>1, <3>2, <3>3 DEF InTurn, Alone, Whole, Self, Sta, War
  <2> QED BY <1>6, <1>7, <2>2, <2>3 DEF ShowInv
<1>9. CASE mgr # << >>
  <2>1. /\ message' = [message EXCEPT ![t] = m] /\ calls' = [calls EXCEPT ![t] = mgr]
        /\ shown' = shown
    BY <1>9 DEF Post
  <2>2. PostedOnes'
    BY <1>1, <1>2, <2>1 DEF ShowInv, PostedOnes
  <2>3. OneEach'
    BY <1>2, <1>3, <2>1 DEF ShowInv, OneEach
  <2>4. CalmInTurn'
    <3> SUFFICES ASSUME NEW u \in Threads, NEW x \in calm', message'[u] = x
                 PROVE  InTurn(u, x)'
      BY DEF CalmInTurn
    <3>1. CASE u = t
      <4>1. x = m /\ todo = << >> /\ calls'[t] = mgr
        BY <1>1, <1>2, <2>1, <3>1
      <4>2. AtRest
        BY <4>1, RestPhase
      <4>3. shared # None /\ count[shared] \in Nat
        BY <1>9, <4>2 DEF AtRest, BatchInv, TypeOK
      <4>4. Fresh(m)'
        BY <1>1, <1>3, <2>1 DEF Fresh
      <4>5. \/ calls'[t] = Alone(shared) /\ count[shared] = 0
            \/ calls'[t] = Whole(shared) /\ count[shared] > 0
        BY <4>1, <4>2, <4>3 DEF AtRest
      <4> QED BY <1>1, <3>1, <4>1, <4>3, <4>4, <4>5 DEF InTurn, Alone, Whole, Self, Sta, War
    <3>2. CASE u # t
      <4>1. calls'[u] = calls[u] /\ message[u] = x
        BY <1>2, <2>1, <3>2
      <4>2. x # m /\ x \in calm /\ x \in Messages
        BY <1>1, <1>2, <1>3, <4>1
      <4>3. InTurn(u, x)
        BY <4>1, <4>2 DEF ShowInv, CalmInTurn
      <4>4. Fresh(x) => Fresh(x)'
        BY <1>4, <4>2
      <4> QED BY <1>1, <4>1, <4>3, <4>4 DEF InTurn, Alone, Whole, Self, Sta, War
    <3> QED BY <3>1, <3>2
  <2> QED BY <1>6, <1>7, <2>2, <2>3, <2>4 DEF ShowInv
<1> QED BY <1>8, <1>9

\* What a call does with the message, whatever it is.
LEMMA IssueFacts ==
  ASSUME BatchInv, ShowInv, NEW t \in Threads, IssueShared(t) \/ IssueCollector(t)
  PROVE  /\ message[t] \in Messages /\ message[t] \in posted
         /\ calls[t] # << >> /\ calls'[t] = Tail(calls[t])
         /\ message'[t] \in {message[t], None}
         /\ calls'[t] = << >> => message'[t] = None
         /\ \A u \in Threads \ {t} : message'[u] = message[u] /\ calls'[u] = calls[u]
         /\ \A u \in Threads \ {t} : message[u] # message[t]
         /\ UNCHANGED <<mgr, shared, count, todo, posted, calm>>
         /\ \A x \in Messages \ {message[t]} :
              /\ shown'[x] = shown[x]
              /\ \A e \in Entries : x \in held'[e] <=> x \in held[e]
<1>1. calls[t] # << >> /\ Returns(t)
  BY DEF IssueShared, IssueCollector
<1>2. UNCHANGED <<mgr, shared, count, todo, posted, calm>>
  BY <1>1 DEF Returns, mainVars
<1>3. /\ message \in [Threads -> Messages \cup {None}] /\ calls \in [Threads -> Seq(Entries)]
      /\ shown \in [Messages -> Nat] /\ held \in [Entries -> SUBSET Messages]
  BY DEF BatchInv, TypeOK
<1>4. message[t] \in Messages /\ message[t] \in posted /\ message[t] # None
  BY <1>1, <1>3 DEF BatchInv, Posting, ShowInv, PostedOnes
<1>5. \A u \in Threads \ {t} : message[u] # message[t]
  BY <1>4 DEF ShowInv, OneEach
<1>6. /\ calls'[t] = Tail(calls[t]) /\ message'[t] \in {message[t], None}
      /\ \A u \in Threads \ {t} : message'[u] = message[u] /\ calls'[u] = calls[u]
  BY <1>1, <1>3 DEF Returns
<1>7. calls'[t] = << >> => message'[t] = None
  BY BatchIssue DEF BatchInv, Posting
<1>8. ASSUME NEW x \in Messages \ {message[t]}
      PROVE  shown'[x] = shown[x] /\ \A e \in Entries : x \in held'[e] <=> x \in held[e]
  <2>1. CASE IssueShared(t)
    <3>1. held' = held /\ (shown' = shown \/ shown' = [shown EXCEPT ![message[t]] = @ + 1])
      BY <2>1 DEF IssueShared, Show
    <3> QED BY <1>3, <1>4, <3>1
  <2>2. CASE IssueCollector(t)
    <3>1. /\ shown' = shown
          /\ \/ held' = held
             \/ held' = [held EXCEPT ![Head(calls[t])] = @ \cup {message[t]}]
      BY <2>2 DEF IssueCollector
    <3> QED BY <1>3, <3>1
  <2> QED BY <2>1, <2>2
<1> QED BY <1>1, <1>2, <1>4, <1>5, <1>6, <1>7, <1>8

\* Each list of calls, its first call and the rest.
LEMMA CallTails ==
  ASSUME NEW d \in Delegates
  PROVE  /\ Head(Alone(d)) = Self(d) /\ Tail(Alone(d)) = << >>
         /\ Head(Whole(d)) = Self(d) /\ Tail(Whole(d)) = <<Sta(d), War(d)>>
         /\ Head(<<Sta(d), War(d)>>) = Sta(d) /\ Tail(<<Sta(d), War(d)>>) = <<War(d)>>
         /\ Head(<<War(d)>>) = War(d) /\ Tail(<<War(d)>>) = << >>
BY DEF Alone, Whole

LEMMA EntryParts ==
  ASSUME NEW d \in Delegates
  PROVE  /\ Self(d)[1] = d /\ Self(d)[2] = "self"
         /\ Sta(d)[2] = "status" /\ War(d)[2] = "warning"
BY DEF Self, Sta, War

\* The next call and those after it.
LEMMA NextCall ==
  ASSUME NEW c, NEW d \in Delegates
  PROVE  /\ c = Alone(d) => /\ Head(c)[1] = d /\ Head(c)[2] = "self" /\ Tail(c) = << >>
         /\ c = Whole(d) => /\ Head(c)[1] = d /\ Head(c)[2] = "self"
                            /\ Tail(c) = <<Sta(d), War(d)>>
         /\ c = <<Sta(d), War(d)>> => /\ Head(c) = Sta(d) /\ Head(c)[2] = "status"
                                      /\ Tail(c) = <<War(d)>>
         /\ c = <<War(d)>> => /\ Head(c) = War(d) /\ Head(c)[2] = "warning"
                              /\ Tail(c) = << >>
<1>1. Self(d)[1] = d /\ Self(d)[2] = "self" /\ Sta(d)[2] = "status" /\ War(d)[2] = "warning"
  BY EntryParts
<1>2. ASSUME c = Alone(d)
      PROVE  Head(c)[1] = d /\ Head(c)[2] = "self" /\ Tail(c) = << >>
  <2>1. Head(c) = Self(d) /\ Tail(c) = << >>
    BY <1>2, CallTails
  <2> QED BY <1>1, <2>1
<1>3. ASSUME c = Whole(d)
      PROVE  Head(c)[1] = d /\ Head(c)[2] = "self" /\ Tail(c) = <<Sta(d), War(d)>>
  <2>1. Head(c) = Self(d) /\ Tail(c) = <<Sta(d), War(d)>>
    BY <1>3, CallTails
  <2> QED BY <1>1, <2>1
<1>4. ASSUME c = <<Sta(d), War(d)>>
      PROVE  Head(c) = Sta(d) /\ Head(c)[2] = "status" /\ Tail(c) = <<War(d)>>
  <2>1. Head(c) = Sta(d) /\ Tail(c) = <<War(d)>>
    BY <1>4, CallTails
  <2> QED BY <1>1, <2>1
<1>5. ASSUME c = <<War(d)>>
      PROVE  Head(c) = War(d) /\ Head(c)[2] = "warning" /\ Tail(c) = << >>
  <2>1. Head(c) = War(d) /\ Tail(c) = << >>
    BY <1>5, CallTails
  <2> QED BY <1>1, <2>1
<1> QED BY <1>2, <1>3, <1>4, <1>5

\* The four lists of calls are different.
LEMMA CallLengths ==
  ASSUME NEW d \in Delegates
  PROVE  /\ <<Sta(d), War(d)>> # Alone(d) /\ <<Sta(d), War(d)>> # Whole(d)
         /\ <<War(d)>> # Alone(d) /\ <<War(d)>> # Whole(d)
         /\ <<Sta(d), War(d)>> # <<War(d)>>
BY DEF Alone, Whole, Self, Sta, War

\* The shared delegate shows what no collector will keep.
LEMMA SelfCall ==
  ASSUME BatchInv, ShowInv, NEW t \in Threads, IssueShared(t),
         NEW m \in calm, message[t] = m
  PROVE  Once(m)' /\ (message'[t] = m => InTurn(t, m)')
<1>1. m \in Messages /\ calls'[t] = Tail(calls[t])
      /\ UNCHANGED <<shared, count, todo>>
      /\ (calls'[t] = << >> => message'[t] = None) /\ m # None
  BY IssueFacts, NullAssumption
<1>2. /\ InTurn(t, m) /\ shared # None /\ shared \in Delegates /\ todo = << >>
      /\ shown \in [Messages -> Nat] /\ count[shared] \in Nat
  BY DEF ShowInv, CalmInTurn, InTurn, BatchInv, TypeOK
<1>3. Head(calls[t])[2] = "self" /\ held' = held
      /\ (shown' = IF ShowsNow(Head(calls[t])[1], m)
                   THEN [shown EXCEPT ![m] = @ + 1] ELSE shown)
  BY DEF IssueShared, Show
<1>4. Kind[m] \in Collectors \cup {"error"} /\ "error" \notin Collectors
  BY <1>1, KindAssumption DEF Collectors
<1>0. shared \in Delegates
  BY <1>2
<1>5. CASE calls[t] = Alone(shared) /\ count[shared] = 0 /\ Fresh(m)
  <2>1. Head(calls[t])[1] = shared /\ calls'[t] = << >>
    BY <1>1, <1>2, <1>5, NextCall
  <2>2. shown' = [shown EXCEPT ![m] = @ + 1]
    BY <1>3, <1>5, <2>1 DEF ShowsNow
  <2>3. Once(m)'
    BY <1>1, <1>2, <1>3, <1>5, <2>2 DEF Fresh, Once
  <2> QED BY <1>1, <2>1, <2>3
<1>6. CASE calls[t] = Whole(shared) /\ count[shared] > 0 /\ Fresh(m)
  <2>1. Head(calls[t])[1] = shared /\ calls'[t] = <<Sta(shared), War(shared)>>
    <3>1. Head(calls[t])[1] = shared /\ Tail(calls[t]) = <<Sta(shared), War(shared)>>
      BY <1>0, <1>6, NextCall
    <3> QED BY <1>1, <3>1
  <2>2. CASE Kind[m] = "error"
    <3>1. shown' = [shown EXCEPT ![m] = @ + 1]
      BY <1>3, <2>1, <2>2 DEF ShowsNow
    <3>2. Once(m)'
      BY <1>1, <1>2, <1>3, <1>6, <3>1 DEF Fresh, Once
    <3>3. InTurn(t, m)'
      BY <1>1, <1>2, <1>4, <1>6, <2>1, <2>2 DEF InTurn, Sta, War
    <3> QED BY <3>2, <3>3
  <2>3. CASE Kind[m] # "error"
    <3>1. shown' = shown
      BY <1>3, <1>6, <2>1, <2>3 DEF ShowsNow
    <3>2. Once(m)' /\ Fresh(m)'
      BY <1>3, <1>6, <3>1 DEF Fresh, Once
    <3>3. InTurn(t, m)'
      BY <1>1, <1>2, <1>6, <2>1, <3>2 DEF InTurn, Sta, War
    <3> QED BY <3>2, <3>3
  <2> QED BY <2>2, <2>3
<1>7. CASE calls[t] = <<Sta(shared), War(shared)>> \/ calls[t] = <<War(shared)>>
  <2>1. Head(calls[t])[2] # "self"
    BY <1>2, <1>7, NextCall
  <2> QED BY <1>3, <2>1
<1> QED BY <1>2, <1>5, <1>6, <1>7 DEF InTurn

\* The collector of a message's kind keeps it, the other lets it pass.
LEMMA CollectorCall ==
  ASSUME BatchInv, ShowInv, NEW t \in Threads, IssueCollector(t),
         NEW m \in calm, message[t] = m
  PROVE  Once(m)' /\ (message'[t] = m => InTurn(t, m)')
<1>1. m \in Messages /\ calls'[t] = Tail(calls[t])
      /\ UNCHANGED <<shared, count, todo>>
      /\ (calls'[t] = << >> => message'[t] = None) /\ m # None
  BY IssueFacts, NullAssumption
<1>2. /\ InTurn(t, m) /\ shared # None /\ shared \in Delegates /\ todo = << >>
      /\ held \in [Entries -> SUBSET Messages] /\ count[shared] \in Nat
      /\ Once(m)
  BY DEF ShowInv, CalmInTurn, CalmOnce, InTurn, BatchInv, TypeOK
<1>3. /\ Head(calls[t])[2] \in Collectors /\ shown' = shown
      /\ held' = IF Head(calls[t])[2] = Kind[m]
                 THEN [held EXCEPT ![Head(calls[t])] = @ \cup {m}] ELSE held
  BY DEF IssueCollector
<1>4. Sta(shared) \in Entries /\ War(shared) \in Entries
  BY <1>2 DEF Entries, Collectors, Sta, War
<1>5. ASSUME NEW e \in Entries, held' = [held EXCEPT ![e] = @ \cup {m}], Fresh(m)
      PROVE  Once(m)'
  <2>1. \A f \in Entries : m \in held'[f] => f = e
    BY <1>2, <1>5 DEF Fresh
  <2> QED BY <1>3, <1>5, <2>1 DEF Fresh, Once
<1>6. ASSUME held' = held PROVE Once(m)' /\ (Fresh(m) => Fresh(m)')
  BY <1>2, <1>3, <1>6 DEF Fresh, Once
<1>0. shared \in Delegates
  BY <1>2
<1>7. CASE calls[t] = <<Sta(shared), War(shared)>>
  <2>1. Head(calls[t]) = Sta(shared) /\ Head(calls[t])[2] = "status" /\ calls'[t] = <<War(shared)>>
    <3>1. /\ Head(calls[t]) = Sta(shared) /\ Head(calls[t])[2] = "status"
          /\ Tail(calls[t]) = <<War(shared)>>
      BY <1>0, <1>7, NextCall
    <3> QED BY <1>1, <3>1
  <2>2. count[shared] > 0 /\ (Kind[m] \in Collectors => Fresh(m))
    BY <1>2, <1>7, CallLengths DEF InTurn
  <2>3. CASE Kind[m] = "status"
    <3>1. Fresh(m) /\ held' = [held EXCEPT ![Sta(shared)] = @ \cup {m}]
      BY <1>3, <2>1, <2>2, <2>3 DEF Collectors
    <3>2. Once(m)'
      BY <1>4, <1>5, <3>1
    <3>3. InTurn(t, m)'
      BY <1>1, <1>2, <2>1, <2>2, <2>3 DEF InTurn, War
    <3> QED BY <3>2, <3>3
  <2>4. CASE Kind[m] # "status"
    <3>1. held' = held
      BY <1>3, <2>1, <2>4
    <3>2. Once(m)' /\ (Kind[m] = "warning" => Fresh(m)')
      BY <1>6, <2>2, <3>1 DEF Collectors
    <3>3. InTurn(t, m)'
      BY <1>1, <1>2, <2>1, <2>2, <3>2 DEF InTurn, War
    <3> QED BY <3>2, <3>3
  <2> QED BY <2>3, <2>4
<1>8. CASE calls[t] = <<War(shared)>>
  <2>1. Head(calls[t]) = War(shared) /\ Head(calls[t])[2] = "warning" /\ calls'[t] = << >>
    <3>1. Head(calls[t]) = War(shared) /\ Head(calls[t])[2] = "warning" /\ Tail(calls[t]) = << >>
      BY <1>0, <1>8, NextCall
    <3> QED BY <1>1, <3>1
  <2>2. Kind[m] = "warning" => Fresh(m)
    BY <1>2, <1>8, CallLengths DEF InTurn
  <2>3. CASE Kind[m] = "warning"
    <3>1. Fresh(m) /\ held' = [held EXCEPT ![War(shared)] = @ \cup {m}]
      BY <1>3, <2>1, <2>2, <2>3
    <3> QED BY <1>1, <1>4, <1>5, <2>1, <3>1
  <2>4. CASE Kind[m] # "warning"
    <3>1. held' = held
      BY <1>3, <2>1, <2>4
    <3> QED BY <1>1, <1>6, <2>1, <3>1
  <2> QED BY <2>3, <2>4
<1>9. CASE calls[t] = Alone(shared) \/ calls[t] = Whole(shared)
  <2>1. Head(calls[t])[2] = "self"
    BY <1>2, <1>9, NextCall
  <2> QED BY <1>3, <2>1 DEF Collectors
<1> QED BY <1>2, <1>7, <1>8, <1>9 DEF InTurn

LEMMA ShownIssue ==
  ASSUME BatchInv, ShowInv, NEW t \in Threads, IssueShared(t) \/ IssueCollector(t)
  PROVE  ShowInv'
<1> SUFFICES ASSUME NEW m, m = message[t] PROVE ShowInv'
  OBVIOUS
<1>1. /\ m \in Messages /\ m \in posted /\ message'[t] \in {m, None}
      /\ \A u \in Threads \ {t} : message'[u] = message[u] /\ calls'[u] = calls[u]
      /\ \A u \in Threads \ {t} : message[u] # m
      /\ UNCHANGED <<mgr, shared, count, todo, posted, calm>>
  BY IssueFacts
<1>2. \A x \in Messages \ {m} : (Fresh(x) => Fresh(x)') /\ (Once(x) => Once(x)')
  BY IssueFacts, SameFate DEF BatchInv
<1>3. m \in calm => Once(m)' /\ (message'[t] = m => InTurn(t, m)')
  BY SelfCall, CollectorCall
<1>4. calm \subseteq Messages /\ None \notin Messages
  BY NullAssumption DEF BatchInv, TypeOK
<1>5. NewFresh'
  BY <1>1, <1>2 DEF ShowInv, NewFresh
<1>6. CalmOnce'
  BY <1>1, <1>2, <1>3, <1>4 DEF ShowInv, CalmOnce
<1>7. PostedOnes'
  BY <1>1 DEF ShowInv, PostedOnes
<1>8. OneEach'
  <2> SUFFICES ASSUME NEW u \in Threads, NEW v \in Threads,
                      message'[u] = message'[v], message'[u] # None
               PROVE  u = v
    BY DEF OneEach
  <2>1. CASE u = t \/ v = t
    BY <1>1, <2>1
  <2>2. CASE u # t /\ v # t
    BY <1>1, <2>2 DEF ShowInv, OneEach
  <2> QED BY <2>1, <2>2
<1>9. CalmInTurn'
  <2> SUFFICES ASSUME NEW u \in Threads, NEW x \in calm', message'[u] = x
               PROVE  InTurn(u, x)'
    BY DEF CalmInTurn
  <2>1. CASE u = t
    <3>1. x = m /\ m \in calm
      BY <1>1, <1>4, <2>1
    <3> QED BY <1>3, <2>1, <3>1
  <2>2. CASE u # t
    <3>1. x # m /\ x \in calm /\ x \in Messages /\ message[u] = x /\ calls'[u] = calls[u]
      BY <1>1, <1>4, <2>2
    <3>2. InTurn(u, x)
      BY <3>1 DEF ShowInv, CalmInTurn
    <3>3. Fresh(x) => Fresh(x)'
      BY <1>2, <3>1
    <3> QED BY <1>1, <3>1, <3>2, <3>3 DEF InTurn, Alone, Whole, Self, Sta, War
  <2> QED BY <2>1, <2>2
<1> QED BY <1>5, <1>6, <1>7, <1>8, <1>9 DEF ShowInv

LEMMA ShownInit == Init => ShowInv
<1> SUFFICES ASSUME Init PROVE ShowInv
  OBVIOUS
<1>1. NewFresh
  BY DEF Init, NewFresh, Fresh
<1>2. CalmOnce /\ PostedOnes /\ OneEach /\ CalmInTurn
  BY DEF Init, CalmOnce, PostedOnes, OneEach, CalmInTurn
<1> QED BY <1>1, <1>2 DEF ShowInv

LEMMA ShownStep == BatchInv /\ Phase /\ ShowInv /\ [Next]_vars => ShowInv'
<1> SUFFICES ASSUME BatchInv, Phase, ShowInv, [Next]_vars PROVE ShowInv'
  OBVIOUS
<1>1. ASSUME NEW c \in Contexts, EnterContext(c) \/ LeaveContext(c) PROVE ShowInv'
  BY <1>1, ShownEnter, ShownLeave
<1>2. ASSUME NEW d \in Delegates, InstallDelegate(d) PROVE ShowInv'
  BY <1>2, ShownInstall
<1>3. CASE RemoveDelegate
  BY <1>3, ShownRemove
<1>4. CASE MainStep
  BY <1>4, ShownMainStep
<1>5. ASSUME NEW t \in Threads, IssueShared(t) \/ IssueCollector(t) PROVE ShowInv'
  BY <1>5, ShownIssue
<1>6. ASSUME NEW t \in Threads, NEW m \in Messages, Post(t, m) PROVE ShowInv'
  BY <1>6, ShownPost
<1>7. CASE UNCHANGED vars
  BY <1>7, ShownMainChange DEF vars, mainVars, postVars
<1> QED BY <1>1, <1>2, <1>3, <1>4, <1>5, <1>6, <1>7 DEF Next

\* No message whose post overlaps no change of the delegates is displayed twice:
\* not by the delegate and a collector, nor by both collectors.
THEOREM ShownAtMostOnce == Spec => []ShownOnce
<1>1. BatchInv /\ ShowInv => ShownOnce
  <2> SUFFICES ASSUME BatchInv, ShowInv, NEW m \in calm PROVE shown[m] <= 1
    BY DEF ShownOnce
  <2>1. shown[m] = 0 \/ shown[m] = 1
    BY DEF ShowInv, CalmOnce, Once
  <2> QED BY <2>1
<1>2. Spec => []ShowInv
  BY BatchInvariant, PhaseInvariant, ShownInit, ShownStep, PTL DEF Spec
<1> QED BY <1>1, <1>2, BatchInvariant, PTL

=============================================================================
