------------------------- MODULE EventClients_proof -------------------------
(***************************************************************************)
(* What the clients of the event system can rely on: the triggers, whose   *)
(* callbacks call it back, and the commands, which do, undo and redo what  *)
(* they do to it.                                                          *)
(***************************************************************************)
EXTENDS EventTrigger, CallbackCommands, EventScheduler_proof

(***************************************************************************)
(* Triggers are whole: a loop whose event is left alone calls what is      *)
(* stored, in order, and reads nothing that is gone, however triggers nest *)
(* and whatever clients do to other events meanwhile.                      *)
(*                                                                         *)
(* The invariant adds to that of the scheduler, which gives every event a  *)
(* sequence of callbacks in ascending order of weight, what relates a loop *)
(* that is left alone to its event: the range is that of the sequence and  *)
(* what was called is the part of it before next.                          *)
(***************************************************************************)

\* Functions with user data are all there is, or `this` is good.
Runs(evs, f) ==
  AtHome(f, evs) \/ \A i \in 1..Len(CallbacksOf(evs, f.event)) :
                      CallbacksOf(evs, f.event)[i].data # NoData

\* What relates a loop that is left alone to its event.
Attached(evs, f) ==
  /\ f.kept /\ HasEvent(evs, f.event) /\ Runs(evs, f)
  /\ f.end = Len(CallbacksOf(evs, f.event))
  /\ Len(f.ran) = f.next - 1
  /\ \A i \in 1..f.next-1 : f.ran[i] = CallbacksOf(evs, f.event)[i]

\* What holds of a loop.
LoopSound(evs, f) ==
  /\ f \in Loops
  /\ f.next \in 1..f.end+1
  /\ f.alone => Attached(evs, f)

TriggerInv ==
  /\ Inv
  /\ loops \in Seq(Loops) /\ Len(loops) <= MaxDepth
  /\ crashed \in BOOLEAN
  /\ \A k \in 1..Len(loops) : LoopSound(events, loops[k])

\* The callbacks of a registered event are a sequence in order of weight.
LEMMA CallbacksFacts ==
  ASSUME NEW evs, Consistent(evs), NEW id, HasEvent(evs, id)
  PROVE  /\ id \in Nat
         /\ CallbacksOf(evs, id) \in Seq(Callbacks)
         /\ Len(CallbacksOf(evs, id)) \in Nat
         /\ Ordered(CallbacksOf(evs, id))
         /\ \A i \in 1..Len(CallbacksOf(evs, id)) : CallbacksOf(evs, id)[i] \in Callbacks
         /\ StoredUnder(evs, id) \subseteq Callbacks
<1> DEFINE l == LowerBound(evs, id)
<1>1. evs \in Seq(Dispatchers)
  BY DEF Consistent
<1>2. l \in 1..Len(evs) /\ evs[l].id = id
  BY <1>1, LookupFacts
<1> HIDE DEF l
<1>3. evs[l] \in Dispatchers /\ Sound(evs[l])
  BY <1>1, <1>2, ElementOfSeq DEF Consistent
<1>4. CallbacksOf(evs, id) = evs[l].cbs
  BY DEF CallbacksOf, l
<1>5. id \in Nat /\ CallbacksOf(evs, id) \in Seq(Callbacks)
  BY <1>2, <1>3, <1>4 DEF Dispatchers
<1>6. \A i \in 1..Len(CallbacksOf(evs, id)) : CallbacksOf(evs, id)[i] \in Callbacks
  BY <1>5, ElementOfSeq
<1>7. StoredUnder(evs, id) \subseteq Callbacks
  BY <1>6 DEF StoredUnder
<1> QED BY <1>3, <1>4, <1>5, <1>6, <1>7 DEF Sound

\* A stack of sound loops stays one when the innermost is replaced by another.
LEMMA ReplaceTop ==
  ASSUME NEW stack \in Seq(Loops), stack # << >>, NEW f \in Loops
  PROVE  LET s == [stack EXCEPT ![Len(stack)] = f]
         IN  /\ s \in Seq(Loops) /\ Len(s) = Len(stack)
             /\ \A k \in 1..Len(stack) : s[k] = IF k = Len(stack) THEN f ELSE stack[k]
<1>1. Len(stack) \in 1..Len(stack)
  BY EmptySeq
<1> QED BY <1>1, ExceptSeq

\* No trigger runs at the start.
LEMMA TriggerInvInit == TriggerInit => TriggerInv
<1> SUFFICES ASSUME TriggerInit PROVE TriggerInv
  OBVIOUS
<1>1. Inv
  BY InvInit DEF TriggerInit
<1>2. loops \in Seq(Loops) /\ Len(loops) = 0
  BY EmptySeq DEF TriggerInit
<1>3. Len(loops) <= MaxDepth /\ \A k \in 1..Len(loops) : LoopSound(events, loops[k])
  BY <1>2, DepthAssumption
<1>4. crashed \in BOOLEAN
  BY DEF TriggerInit
<1> QED BY <1>1, <1>2, <1>3, <1>4 DEF TriggerInv

\* A step that leaves the scheduler as it is keeps its invariant.
LEMMA InvUnchanged == Inv /\ UNCHANGED vars => Inv'
BY DEF Inv, vars, Consistent, Sound, Ascending, Distinct, Ordered, OnePerSite, Reachable

\* A loop that begins is attached to its event.
LEMMA NewLoopSound ==
  ASSUME NEW evs, Consistent(evs), NEW id, HasEvent(evs, id)
  PROVE  LoopSound(evs, NewLoop(evs, id))
<1> DEFINE cbs == CallbacksOf(evs, id)
           f == NewLoop(evs, id)
<1>1. /\ id \in Nat /\ Len(cbs) \in Nat
      /\ StoredUnder(evs, id) \subseteq Callbacks
      /\ LowerBound(evs, id) \in 1..Len(evs) /\ Len(evs) \in Nat
  BY CallbacksFacts, LookupFacts DEF Consistent
<1>2. << >> \in Seq(Callbacks) /\ Len(<< >>) = 0
  BY EmptySeq
<1>3. /\ f.event = id /\ f.next = 1 /\ f.end = Len(cbs) /\ f.kept /\ f.home /\ f.alone
      /\ f.ran = << >> /\ f.place = LowerBound(evs, id)
      /\ f \in Loops
  BY <1>1, <1>2 DEF NewLoop, Loops
<1> HIDE DEF f, cbs
<1>4. cbs = CallbacksOf(evs, f.event)
  BY <1>3 DEF cbs
<1>5. Attached(evs, f)
  BY <1>1, <1>2, <1>3, <1>4 DEF Attached, Runs, AtHome
<1>6. f.next \in 1..f.end+1
  BY <1>1, <1>3
<1> QED BY <1>3, <1>5, <1>6 DEF LoopSound, f

\* A trigger that begins keeps the invariant.
LEMMA TriggerStep == ASSUME TriggerInv, NEW id, Trigger(id) PROVE TriggerInv'
<1> USE DEF TriggerInv, Trigger
<1>1. Inv' /\ events' = events /\ crashed' = crashed
  BY InvUnchanged DEF vars
<1>2. LoopSound(events, NewLoop(events, id))
  BY NewLoopSound DEF Inv
<1>3. NewLoop(events, id) \in Loops
  BY <1>2 DEF LoopSound
<1>4. /\ loops' \in Seq(Loops) /\ Len(loops') = Len(loops) + 1
      /\ \A k \in 1..Len(loops) : loops'[k] = loops[k]
      /\ loops'[Len(loops)+1] = NewLoop(events, id)
  BY <1>3, AppendProperties
<1>5. ASSUME NEW k \in 1..Len(loops') PROVE LoopSound(events, loops'[k])
  <2>1. k \in 1..Len(loops) \/ k = Len(loops)+1
    BY <1>4
  <2> QED BY <2>1, <1>2, <1>4
<1>6. Len(loops') <= MaxDepth
  BY <1>4, DepthAssumption
<1> QED BY <1>1, <1>4, <1>5, <1>6

\* The innermost loop of a stack that is not empty is one of its loops.
LEMMA TopFacts ==
  ASSUME TriggerInv, loops # << >>
  PROVE  /\ Len(loops) \in Nat \ {0} /\ Len(loops) \in 1..Len(loops)
         /\ Top \in Loops /\ LoopSound(events, Top)
<1>1. Len(loops) \in Nat \ {0}
  BY EmptySeq DEF TriggerInv
<1>2. Len(loops) \in 1..Len(loops)
  BY <1>1
<1> QED BY <1>1, <1>2, ElementOfSeq DEF TriggerInv, Top

\* A step of the innermost loop alone.
LEMMA TopStep ==
  ASSUME TriggerInv, loops # << >>, NEW f, LoopSound(events, f),
         loops' = [loops EXCEPT ![Len(loops)] = f], UNCHANGED <<vars, crashed>>
  PROVE  TriggerInv'
<1>1. Inv' /\ events' = events /\ crashed' = crashed
  BY InvUnchanged DEF vars, TriggerInv
<1>2. f \in Loops
  BY DEF LoopSound
<1>3. /\ loops' \in Seq(Loops) /\ Len(loops') = Len(loops)
      /\ \A k \in 1..Len(loops) : loops'[k] = IF k = Len(loops) THEN f ELSE loops[k]
  BY <1>2, ReplaceTop DEF TriggerInv
<1>4. \A k \in 1..Len(loops') : LoopSound(events, loops'[k])
  BY <1>3 DEF TriggerInv
<1> QED BY <1>1, <1>3, <1>4 DEF TriggerInv

\* A loop that calls a callback is a loop.
LEMMA CalledFacts ==
  ASSUME NEW f \in Loops, NEW cb \in Callbacks,
         cb = CallbacksOf(events, f.event)[f.next]
  PROVE  /\ Called(f) \in Loops
         /\ Called(f).next = f.next + 1
         /\ Called(f).ran = IF f.alone THEN Append(f.ran, cb) ELSE f.ran
         /\ Called(f).event = f.event /\ Called(f).end = f.end
         /\ Called(f).kept = f.kept /\ Called(f).home = f.home
         /\ Called(f).alone = f.alone /\ Called(f).place = f.place
<1> DEFINE ran == IF f.alone THEN Append(f.ran, cb) ELSE f.ran
           due == f.due \ {cb}
<1>1. Called(f) = [f EXCEPT !.next = f.next + 1, !.due = due, !.ran = ran]
  BY DEF Called
<1>2. f.next + 1 \in Nat /\ due \in SUBSET Callbacks
  BY DEF Loops
<1>3. ran \in Seq(Callbacks)
  <2>1. f.ran \in Seq(Callbacks)
    BY DEF Loops
  <2> QED BY <2>1, AppendProperties
<1> HIDE DEF due, ran
<1>4. /\ Called(f) \in Loops
      /\ Called(f).next = f.next + 1 /\ Called(f).ran = ran
      /\ Called(f).event = f.event /\ Called(f).end = f.end
      /\ Called(f).kept = f.kept /\ Called(f).home = f.home
      /\ Called(f).alone = f.alone /\ Called(f).place = f.place
  BY <1>1, <1>2, <1>3 DEF Loops
<1> QED BY <1>4 DEF ran

\* A callback that is called keeps the invariant: it is the next one stored.
LEMMA RunCallbackStep == TriggerInv /\ RunCallback => TriggerInv'
<1> SUFFICES ASSUME TriggerInv, RunCallback PROVE TriggerInv'
  OBVIOUS
<1> DEFINE f == Called(Top)
           cbs == CallbacksOf(events, Top.event)
<1>1. /\ loops # << >> /\ Top.next <= Top.end /\ InBuffer(Top, Top.next)
      /\ UNCHANGED <<vars, crashed>>
      /\ loops' = [loops EXCEPT ![Len(loops)] = f]
  BY DEF RunCallback, Top
<1>2. Top \in Loops /\ LoopSound(events, Top)
  BY <1>1, TopFacts
<1>3. /\ Top.next \in Nat /\ Top.end \in Nat /\ Top.event \in Nat
      /\ Top.ran \in Seq(Callbacks) /\ Top.due \subseteq Callbacks
      /\ Top.alone \in BOOLEAN /\ Top.next \in 1..Top.end
  BY <1>1, <1>2 DEF Loops, LoopSound
<1>4. cbs[Top.next] \in Callbacks
  <2>1. Consistent(events) /\ HasEvent(events, Top.event)
    BY <1>1 DEF TriggerInv, Inv, InBuffer
  <2>2. Top.next \in 1..Len(cbs)
    <3>1. Len(cbs) \in Nat
      BY <2>1, CallbacksFacts
    <3> QED BY <3>1, <1>1, <1>3 DEF InBuffer
  <2> QED BY <2>1, <2>2, CallbacksFacts
<1>5. /\ f.event = Top.event /\ f.next = Top.next + 1 /\ f.end = Top.end
      /\ f.kept = Top.kept /\ f.home = Top.home /\ f.alone = Top.alone
      /\ f.ran = IF Top.alone THEN Append(Top.ran, cbs[Top.next]) ELSE Top.ran
      /\ f.place = Top.place /\ f \in Loops
  BY <1>2, <1>4, CalledFacts
<1> HIDE DEF f, cbs
<1>7. ASSUME Top.alone PROVE Attached(events, f)
  <2>1. Attached(events, Top)
    BY <1>2, <1>7 DEF LoopSound
  <2>2. /\ Len(f.ran) = Len(Top.ran) + 1
        /\ \A i \in 1..Len(Top.ran) : f.ran[i] = Top.ran[i]
        /\ f.ran[Len(Top.ran)+1] = cbs[Top.next]
    BY <1>3, <1>4, <1>5, <1>7, AppendProperties
  <2>3. Len(Top.ran) = Top.next - 1 /\ \A i \in 1..Top.next-1 : Top.ran[i] = cbs[i]
    BY <2>1 DEF Attached, cbs
  <2>4. Len(f.ran) = f.next - 1
    BY <2>2, <2>3, <1>3, <1>5
  <2>5. ASSUME NEW i \in 1..f.next-1 PROVE f.ran[i] = cbs[i]
    <3>1. i \in 1..Top.next-1 \/ i = Top.next
      BY <1>3, <1>5
    <3>2. 1..Len(Top.ran) = 1..Top.next-1 /\ Len(Top.ran)+1 = Top.next
      BY <2>3, <1>3
    <3> QED BY <3>1, <3>2, <2>2, <2>3
  <2>6. cbs = CallbacksOf(events, f.event)
    BY <1>5 DEF cbs
  <2> QED BY <2>1, <2>4, <2>5, <2>6, <1>5 DEF Attached, Runs, AtHome, cbs
<1>8. f.next \in 1..f.end+1
  BY <1>3, <1>5
<1>9. LoopSound(events, f)
  BY <1>5, <1>7, <1>8 DEF LoopSound
<1> QED BY <1>1, <1>9, TopStep

\* A step that changes neither events nor loops keeps the invariant.
LEMMA SameLoops ==
  ASSUME TriggerInv, UNCHANGED <<vars, loops>>, crashed' \in BOOLEAN
  PROVE  TriggerInv'
<1>1. Inv' /\ events' = events /\ loops' = loops
  BY InvUnchanged DEF vars, TriggerInv
<1> QED BY <1>1 DEF TriggerInv

\* Nothing runs after a crash.
LEMMA CrashStep ==
  ASSUME TriggerInv, UNCHANGED vars, Crash
  PROVE  TriggerInv'
<1>1. Inv' /\ crashed' \in BOOLEAN
  BY InvUnchanged DEF TriggerInv, Crash
<1>2. loops' \in Seq(Loops) /\ Len(loops') = 0
  BY EmptySeq DEF Crash
<1>3. Len(loops') <= MaxDepth /\ \A k \in 1..Len(loops') : LoopSound(events', loops'[k])
  BY <1>2, DepthAssumption
<1> QED BY <1>1, <1>2, <1>3 DEF TriggerInv

\* A loop that is left alone sees the callback it is at, and the one before.
LEMMA AttachedSees ==
  ASSUME TriggerInv, NEW f, LoopSound(events, f), f.alone
  PROVE  /\ f.next <= f.end => Sees(f, f.next)
         /\ f.next > 1 => Sees(f, f.next - 1)
<1>1. Attached(events, f)
  BY DEF LoopSound
<1>2. f.kept /\ HasEvent(events, f.event) /\ f.end = Len(CallbacksOf(events, f.event))
      /\ Runs(events, f)
  BY <1>1 DEF Attached
<1>3. Len(CallbacksOf(events, f.event)) \in Nat
  BY <1>2, CallbacksFacts DEF TriggerInv, Inv
<1>4. f.next \in 1..Len(CallbacksOf(events, f.event))+1
  BY <1>2 DEF LoopSound
<1>5. \A i \in 1..Len(CallbacksOf(events, f.event)) : Sees(f, i)
  BY <1>2, <1>3 DEF Sees, InBuffer, Runs
<1> QED BY <1>2, <1>3, <1>4, <1>5

\* A loop that goes on past what it cannot see was not left alone.
LEMMA RunStaleStep == TriggerInv /\ RunStale => TriggerInv'
<1> SUFFICES ASSUME TriggerInv, RunStale PROVE TriggerInv'
  OBVIOUS
<1>1. loops # << >> /\ Top.next <= Top.end /\ ~Sees(Top, Top.next) /\ UNCHANGED vars
  BY DEF RunStale
<1>2. Top \in Loops /\ LoopSound(events, Top)
  BY <1>1, TopFacts
<1>3. ~Top.alone
  BY <1>1, <1>2, AttachedSees
<1>4. CASE Crash
  BY <1>1, <1>4, CrashStep
<1>5. CASE loops' = [loops EXCEPT ![Len(loops)].next = @ + 1] /\ UNCHANGED crashed
  <2> DEFINE f == [Top EXCEPT !.next = Top.next + 1]
  <2>1. loops' = [loops EXCEPT ![Len(loops)] = f]
    BY <1>5 DEF Top
  <2>2. Top.next \in 1..Top.end /\ Top.end \in Nat
    BY <1>1, <1>2 DEF LoopSound, Loops
  <2>3. f \in Loops /\ f.next = Top.next + 1 /\ f.end = Top.end /\ f.alone = Top.alone
    BY <1>2, <2>2 DEF Loops
  <2> HIDE DEF f
  <2>4. LoopSound(events, f)
    BY <1>3, <2>2, <2>3 DEF LoopSound
  <2> QED BY <1>1, <1>5, <2>1, <2>4, TopStep
<1> QED BY <1>4, <1>5 DEF RunStale

\* A report on freed memory ends the program.
LEMMA ReportStaleStep == TriggerInv /\ ReportStale => TriggerInv'
BY CrashStep DEF ReportStale

\* A trigger that returns leaves the loops around it as they are.
LEMMA ReturnStep == TriggerInv /\ Return => TriggerInv'
<1> SUFFICES ASSUME TriggerInv, Return PROVE TriggerInv'
  OBVIOUS
<1>1. loops # << >> /\ loops' = SubSeq(loops, 1, Len(loops)-1) /\ UNCHANGED <<vars, crashed>>
  BY DEF Return
<1>2. Len(loops) \in Nat \ {0} /\ loops \in Seq(Loops) /\ Len(loops) <= MaxDepth
  BY <1>1, TopFacts DEF TriggerInv
<1>3. /\ loops' \in Seq(Loops) /\ Len(loops') = Len(loops) - 1
      /\ \A k \in 1..Len(loops)-1 : loops'[k] = loops[k]
  <2>1. 1 \in 1..Len(loops)+1 /\ Len(loops)-1 \in 0..Len(loops) /\ 1 <= (Len(loops)-1)+1
    BY <1>2
  <2>2. /\ SubSeq(loops, 1, Len(loops)-1) \in Seq(Loops)
        /\ Len(SubSeq(loops, 1, Len(loops)-1)) = (Len(loops)-1) - 1 + 1
        /\ \A j \in 1..(Len(loops)-1)-1+1 : SubSeq(loops, 1, Len(loops)-1)[j] = loops[1+j-1]
    BY <2>1, <1>2, PieceFacts
  <2> QED BY <2>2, <1>1, <1>2
<1>4. Inv' /\ events' = events /\ crashed' = crashed
  BY <1>1, InvUnchanged DEF vars, TriggerInv
<1>5. \A k \in 1..Len(loops') : LoopSound(events, loops'[k])
  BY <1>2, <1>3 DEF TriggerInv
<1>6. Len(loops') <= MaxDepth
  BY <1>2, <1>3, DepthAssumption
<1> QED BY <1>3, <1>4, <1>5, <1>6 DEF TriggerInv

\* A loop is a loop after what a client does.
LEMMA AfterClientFacts ==
  ASSUME NEW f \in Loops, NEW moved \in BOOLEAN
  PROVE  LET g == AfterClient(f, moved)
         IN  /\ g \in Loops
             /\ g.event = f.event /\ g.next = f.next /\ g.end = f.end /\ g.place = f.place
             /\ g.kept = BufferKept(f, moved)
             /\ g.home = (f.home /\ (Len(events') > Len(events) => ~moved))
             /\ g.alone = (f.alone /\ LeftAlone(f))
             /\ g.alone => g.ran = f.ran
<1> DEFINE kept  == BufferKept(f, moved)
           home  == f.home /\ (Len(events') > Len(events) => ~moved)
           alone == f.alone /\ LeftAlone(f)
           ran   == IF alone THEN f.ran ELSE << >>
           due   == f.due \cap StoredUnder(events', f.event)
           g     == [f EXCEPT !.kept = kept, !.home = home, !.alone = alone,
                              !.ran = ran, !.due = due]
<1>1. AfterClient(f, moved) = g
  BY DEF AfterClient
<1>2. kept \in BOOLEAN /\ home \in BOOLEAN /\ alone \in BOOLEAN
  BY DEF BufferKept, LeftAlone, Loops
<1>3. ran \in Seq(Callbacks) /\ due \in SUBSET Callbacks /\ (alone => ran = f.ran)
  BY EmptySeq DEF Loops
<1> HIDE DEF kept, home, alone, ran, due
<1>4. /\ g \in Loops
      /\ g.event = f.event /\ g.next = f.next /\ g.end = f.end /\ g.place = f.place
      /\ g.kept = kept /\ g.home = home /\ g.alone = alone /\ g.ran = ran
  BY <1>2, <1>3 DEF Loops
<1> QED BY <1>1, <1>3, <1>4 DEF kept, home, alone

\* A loop whose event is left alone stays attached to it.
LEMMA AfterClientSound ==
  ASSUME Consistent(events), Consistent(events'),
         NEW f, LoopSound(events, f), NEW moved \in BOOLEAN
  PROVE  LoopSound(events', AfterClient(f, moved))
<1> DEFINE g == AfterClient(f, moved)
           cbs == CallbacksOf(events, f.event)
<1>1. f \in Loops /\ f.next \in 1..f.end+1
  BY DEF LoopSound
<1>2. /\ g \in Loops
      /\ g.event = f.event /\ g.next = f.next /\ g.end = f.end /\ g.place = f.place
      /\ g.kept = BufferKept(f, moved)
      /\ g.home = (f.home /\ (Len(events') > Len(events) => ~moved))
      /\ g.alone = (f.alone /\ LeftAlone(f))
      /\ g.alone => g.ran = f.ran
  BY <1>1, AfterClientFacts
<1> HIDE DEF g
<1>3. ASSUME g.alone PROVE Attached(events', g)
  <2>1. f.alone /\ LeftAlone(f) /\ g.ran = f.ran
    BY <1>2, <1>3
  <2>2. Attached(events, f)
    BY <2>1 DEF LoopSound
  <2>3. /\ f.kept /\ HasEvent(events, f.event) /\ f.end = Len(cbs)
        /\ Len(f.ran) = f.next - 1
        /\ \A i \in 1..f.next-1 : f.ran[i] = cbs[i]
        /\ AtHome(f, events) \/ \A i \in 1..Len(cbs) : cbs[i].data # NoData
    BY <2>2 DEF Attached, Runs
  <2>4. /\ HasEvent(events', f.event)
        /\ CallbacksOf(events', f.event) = cbs
        /\ \/ Len(events') <= Len(events) /\ f.place <= Len(events')
           \/ \A i \in 1..Len(cbs) : cbs[i].data # NoData
    BY <2>1 DEF LeftAlone
  <2>5. Len(cbs) \in Nat /\ Len(events) \in Nat /\ Len(events') \in Nat
    BY <2>3, CallbacksFacts DEF Consistent
  <2> HIDE DEF cbs
  <2>6. g.kept
    <3>1. NumCallbacks(events', f.event) = Len(cbs) /\ NumCallbacks(events, f.event) = Len(cbs)
      BY <2>3, <2>4 DEF NumCallbacks, cbs
    <3> QED BY <3>1, <2>3, <2>4, <2>5, <1>2 DEF BufferKept, OneMore
  <2>7. AtHome(g, events') \/ \A i \in 1..Len(cbs) : cbs[i].data # NoData
    <3>1. CASE f.home /\ Len(events') <= Len(events) /\ f.place <= Len(events')
      <4>1. ~(Len(events') > Len(events))
        BY <3>1, <2>5
      <4>2. g.home
        BY <4>1, <3>1, <1>2
      <4> QED BY <4>2, <3>1, <1>2 DEF AtHome
    <3> QED BY <3>1, <2>3, <2>4 DEF AtHome
  <2>8. CallbacksOf(events', g.event) = cbs /\ HasEvent(events', g.event)
    BY <1>2, <2>4
  <2> QED BY <1>2, <2>1, <2>3, <2>6, <2>7, <2>8 DEF Attached, Runs
<1>4. g.next \in 1..g.end+1
  BY <1>1, <1>2
<1> QED BY <1>2, <1>3, <1>4 DEF LoopSound, g

\* What a client does keeps the invariant.
LEMMA ClientStep == TriggerInv /\ Client => TriggerInv'
<1> SUFFICES ASSUME TriggerInv, Client PROVE TriggerInv'
  OBVIOUS
<1>1. Inv /\ Inv' /\ crashed' = crashed
  BY InvNext DEF TriggerInv, Client
<1>2. PICK moved \in BOOLEAN :
        loops' = [k \in 1..Len(loops) |-> AfterClient(loops[k], moved)]
  BY DEF Client
<1>3. loops \in Seq(Loops) /\ Len(loops) \in Nat /\ Len(loops) <= MaxDepth
  BY DEF TriggerInv
<1>4. \A k \in 1..Len(loops) : LoopSound(events', AfterClient(loops[k], moved))
  BY <1>1, AfterClientSound DEF TriggerInv, Inv
<1>5. \A k \in 1..Len(loops) : AfterClient(loops[k], moved) \in Loops
  BY <1>4 DEF LoopSound
<1>6. /\ loops' \in Seq(Loops) /\ Len(loops') = Len(loops)
      /\ \A k \in 1..Len(loops) : loops'[k] = AfterClient(loops[k], moved)
  BY <1>2, <1>3, <1>5
<1> QED BY <1>1, <1>3, <1>4, <1>6 DEF TriggerInv

\* The invariant is kept by every step.
LEMMA TriggerInvNext == TriggerInv /\ [TriggerNext]_triggerVars => TriggerInv'
<1> SUFFICES ASSUME TriggerInv, [TriggerNext]_triggerVars PROVE TriggerInv'
  OBVIOUS
<1>1. ASSUME NEW i \in 1..Len(events), Trigger(events[i].id) PROVE TriggerInv'
  BY <1>1, TriggerStep
<1>2. ASSUME NEW name \in Names, TriggerNamed(name) PROVE TriggerInv'
  BY <1>2, TriggerStep DEF TriggerNamed
<1>3. ASSUME NEW id \in DOMAIN maya, MayaMessage(id) PROVE TriggerInv'
  BY <1>3, TriggerStep DEF MayaMessage
<1>4. CASE UNCHANGED triggerVars
  <2>1. UNCHANGED <<vars, loops>> /\ crashed' \in BOOLEAN
    BY <1>4 DEF triggerVars, TriggerInv
  <2> QED BY <2>1, SameLoops
<1> QED BY <1>1, <1>2, <1>3, <1>4, RunCallbackStep, RunStaleStep, ReportStaleStep,
           ReturnStep, ClientStep DEF TriggerNext

-----------------------------------------------------------------------------
\* The invariant holds of every behaviour.
THEOREM TriggerInvariance == TriggerSpec => []TriggerInv
<1> QED BY TriggerInvInit, TriggerInvNext, PTL DEF TriggerSpec

\* Loops stay loops over callbacks, one per trigger that is running.
THEOREM TriggerTypeCorrect == TriggerSpec => []TriggerTypeOK
<1>1. TriggerInv => TriggerTypeOK
  BY DEF TriggerInv, Inv, Consistent, TypeOK, TriggerTypeOK
<1> QED BY <1>1, TriggerInvariance, PTL

\* A trigger whose event is left alone reads no memory that holds nothing.
THEOREM NothingStaleIsRead == TriggerSpec => []NothingStale
<1>1. TriggerInv => NothingStale
  <2> SUFFICES ASSUME TriggerInv, NEW k \in 1..Len(loops), loops[k].alone
               PROVE  /\ loops[k].next <= loops[k].end => Sees(loops[k], loops[k].next)
                      /\ loops[k].next > 1 => Sees(loops[k], loops[k].next - 1)
    BY DEF NothingStale
  <2>1. LoopSound(events, loops[k])
    BY DEF TriggerInv
  <2> QED BY <2>1, AttachedSees
<1> QED BY <1>1, TriggerInvariance, PTL

\* It calls what is stored in order of weight, when triggers nest too.
THEOREM CallsAreByWeight == TriggerSpec => []CalledByWeight
<1>1. TriggerInv => CalledByWeight
  <2> SUFFICES ASSUME TriggerInv, NEW k \in 1..Len(loops), loops[k].alone
               PROVE  Ordered(loops[k].ran)
    BY DEF CalledByWeight
  <2> DEFINE f == loops[k]
             cbs == CallbacksOf(events, f.event)
  <2>1. LoopSound(events, f) /\ Attached(events, f)
    BY DEF TriggerInv, LoopSound
  <2>2. /\ HasEvent(events, f.event) /\ Len(f.ran) = f.next - 1 /\ f.end = Len(cbs)
        /\ f.next \in 1..f.end+1 /\ \A i \in 1..f.next-1 : f.ran[i] = cbs[i]
    BY <2>1 DEF Attached, LoopSound
  <2>3. Len(cbs) \in Nat /\ Ordered(cbs)
    BY <2>2, CallbacksFacts DEF TriggerInv, Inv
  <2> HIDE DEF f, cbs
  <2>4. Ordered(f.ran)
    <3>1. 1..f.next-1 \subseteq 1..Len(cbs) /\ 1..Len(f.ran) = 1..f.next-1
      BY <2>2, <2>3
    <3> QED BY <3>1, <2>2, <2>3 DEF Ordered
  <2> QED BY <2>4 DEF f
<1> QED BY <1>1, TriggerInvariance, PTL

\* A trigger whose event is left alone has called every stored callback, once
\* and in order, when it returns.
THEOREM BroadcastsAreWhole == TriggerSpec => WholeBroadcast
<1>1. ASSUME TriggerInv, TriggerInv', [TriggerNext]_triggerVars,
             Len(loops') < Len(loops), Top.alone
      PROVE  Top.ran = CallbacksOf(events, Top.event)
  <2>1. Len(loops) \in Nat /\ loops \in Seq(Loops)
    BY <1>1 DEF TriggerInv
  <2>2. CASE Return
    <3> DEFINE cbs == CallbacksOf(events, Top.event)
    <3>1. loops # << >> /\ Top.next > Top.end
      BY <2>2 DEF Return
    <3>2. Top \in Loops /\ LoopSound(events, Top)
      BY <1>1, <3>1, TopFacts
    <3>3. /\ HasEvent(events, Top.event) /\ Len(Top.ran) = Top.next - 1
          /\ Top.end = Len(cbs) /\ \A i \in 1..Top.next-1 : Top.ran[i] = cbs[i]
      BY <1>1, <3>2 DEF LoopSound, Attached
    <3>4. Len(cbs) \in Nat /\ cbs \in Seq(Callbacks) /\ Top.ran \in Seq(Callbacks)
      BY <1>1, <3>2, <3>3, CallbacksFacts DEF TriggerInv, Inv, Loops
    <3> HIDE DEF cbs
    <3>5. Top.next - 1 = Len(cbs)
      BY <3>1, <3>2, <3>3, <3>4 DEF LoopSound
    <3>6. Top.ran = cbs
      BY <3>3, <3>4, <3>5
    <3> QED BY <3>6 DEF cbs
  <2>3. CASE UNCHANGED loops
    BY <1>1, <2>1, <2>3
  <2>4. ASSUME NEW id, Trigger(id) PROVE FALSE
    BY <1>1, <2>1, <2>4 DEF Trigger
  <2>5. CASE RunCallback
    BY <1>1, <2>1, <2>5 DEF RunCallback
  <2>6. CASE RunStale
    <3>1. loops # << >> /\ Top.next <= Top.end /\ ~Sees(Top, Top.next)
      BY <2>6 DEF RunStale
    <3>2. LoopSound(events, Top)
      BY <1>1, <3>1, TopFacts
    <3> QED BY <1>1, <3>1, <3>2, AttachedSees
  <2>7. CASE ReportStale
    <3>1. loops # << >> /\ Top.next > 1 /\ ~Sees(Top, Top.next - 1)
      BY <2>7 DEF ReportStale
    <3>2. LoopSound(events, Top)
      BY <1>1, <3>1, TopFacts
    <3> QED BY <1>1, <3>1, <3>2, AttachedSees
  <2>8. CASE Client
    BY <1>1, <2>1, <2>8 DEF Client
  <2> QED BY <1>1, <2>2, <2>3, <2>4, <2>5, <2>6, <2>7, <2>8
          DEF TriggerNext, TriggerNamed, MayaMessage, triggerVars
<1> QED BY <1>1, TriggerInvariance, PTL DEF TriggerSpec, WholeBroadcast

-----------------------------------------------------------------------------
(***************************************************************************)
(* The commands.  They run redoItImplementation over two lists, so what a  *)
(* step of it keeps is shown first, then what the fold over a list keeps.  *)
(***************************************************************************)
\* While a command runs the counts of the handler have no bound.
HandlerStates == [1..Len(MayaNames) -> [refCount : Nat, installed : Nat]]

\* The events are the same, their callbacks need not be.
SameHeads(evs, new) ==
  Len(new) = Len(evs) /\ \A k \in 1..Len(evs) : Same(new[k], evs[k])

\* The states of redoItImplementation over the events there were.
RunStates(evs) ==
  {st \in [events : Seq(Dispatchers), maya : HandlerStates,
           insert : Seq(Callbacks), delete : Seq(CallbackIds)] :
     Consistent(st.events) /\ SameHeads(evs, st.events)}

\* The handler counts by one, and wraps at its bound.
LEMMA HandlerSteps ==
  ASSUME NEW m \in HandlerStates, NEW id \in CallbackIds
  PROVE  OnCallbackCreated(m, id) \in HandlerStates /\ OnCallbackDestroyed(m, id) \in HandlerStates
<1>1. CASE ~Handles(m, id)
  BY <1>1 DEF OnCallbackCreated, OnCallbackDestroyed
<1>2. CASE Handles(m, id)
  <2> DEFINE r == m[id.event]
  <2>1. id.event \in 1..Len(MayaNames)
    BY <1>2 DEF Handles, HandlerStates
  <2>2. r \in [refCount : Nat, installed : Nat]
    BY <2>1 DEF HandlerStates
  <2>3. /\ OnCallbackCreated(m, id) =
            [m EXCEPT ![id.event] =
              [refCount  |-> r.refCount + 1,
               installed |-> IF r.refCount = 0 THEN r.installed + 1 ELSE r.installed]]
        /\ OnCallbackDestroyed(m, id) =
            [m EXCEPT ![id.event] =
              [refCount  |-> IF r.refCount = 0 THEN MaxRef ELSE r.refCount - 1,
               installed |-> IF r.refCount = 1 /\ r.installed > 0
                             THEN r.installed - 1 ELSE r.installed]]
    BY <1>2, <2>1 DEF OnCallbackCreated, OnCallbackDestroyed, HandlerStates
  <2> HIDE DEF r
  <2>4. /\ [refCount  |-> r.refCount + 1,
            installed |-> IF r.refCount = 0 THEN r.installed + 1 ELSE r.installed]
             \in [refCount : Nat, installed : Nat]
        /\ [refCount  |-> IF r.refCount = 0 THEN MaxRef ELSE r.refCount - 1,
            installed |-> IF r.refCount = 1 /\ r.installed > 0
                          THEN r.installed - 1 ELSE r.installed]
             \in [refCount : Nat, installed : Nat]
    BY <2>2, RefAssumption
  <2> QED BY <2>1, <2>3, <2>4 DEF HandlerStates
<1> QED BY <1>1, <1>2

\* Storing a callback and taking one out leave the events as they are.
LEMMA StoreHeads ==
  ASSUME NEW evs \in Seq(Dispatchers), NEW i \in 1..Len(evs), NEW cb
  PROVE  SameHeads(evs, WithCallback(evs, i, cb))
<1>1. \A k \in 1..Len(evs) : evs[k] \in Dispatchers
  BY ElementOfSeq
<1> QED BY <1>1 DEF WithCallback, SameHeads, Same, Dispatchers

LEMMA TakeHeads ==
  ASSUME NEW evs \in Seq(Dispatchers), NEW id, HasCallback(evs, id)
  PROVE  SameHeads(evs, WithoutCallback(evs, id))
<1>1. \A k \in 1..Len(evs) : evs[k] \in Dispatchers
  BY ElementOfSeq
<1>2. LowerBound(evs, id.event) \in 1..Len(evs)
  BY LookupFacts DEF HasCallback
<1> QED BY <1>1, <1>2 DEF WithoutCallback, SameHeads, Same, Dispatchers

\* Leaving the events as they are composes.
LEMMA HeadsCompose ==
  ASSUME NEW a, NEW b, NEW c, SameHeads(a, b), SameHeads(b, c)
  PROVE  SameHeads(a, c)
BY DEF SameHeads, Same

\* What stands for a callback or an id that is not there.
LEMMA NoCallbackFacts == EmptyCallback \in Callbacks /\ InvalidId \in CallbackIds
BY DataAssumption, WeightAssumption DEF EmptyCallback, Callbacks, InvalidId, CallbackIds, EventTypes,
   UnknownType

\* Each step takes a state of redoItImplementation to another.
LEMMA TakeOutKeeps ==
  ASSUME NEW evs, NEW st \in RunStates(evs), NEW id \in CallbackIds
  PROVE  TakeOut(st, id) \in RunStates(evs)
<1>1. /\ st \in [events : Seq(Dispatchers), maya : HandlerStates,
                 insert : Seq(Callbacks), delete : Seq(CallbackIds)]
      /\ Consistent(st.events) /\ SameHeads(evs, st.events)
  BY DEF RunStates
<1>2. CASE HasCallback(st.events, id)
  <2> DEFINE e == WithoutCallback(st.events, id)
             m == OnCallbackDestroyed(st.maya, id)
             ins == Append(st.insert, FoundCallback(st.events, id))
  <2>1. Consistent(e) /\ FoundCallback(st.events, id) \in Callbacks
    BY <1>1, <1>2, TakeConsistent
  <2>2. SameHeads(st.events, e)
    BY <1>1, <1>2, TakeHeads
  <2>3. SameHeads(evs, e)
    BY <1>1, <2>2, HeadsCompose
  <2>4. m \in HandlerStates
    BY <1>1, HandlerSteps
  <2>5. ins \in Seq(Callbacks)
    BY <1>1, <2>1
  <2>6. e \in Seq(Dispatchers)
    BY <2>1 DEF Consistent
  <2>7. TakeOut(st, id) = [events |-> e, maya |-> m, insert |-> ins, delete |-> st.delete]
    BY <1>2 DEF TakeOut
  <2> HIDE DEF e, m, ins
  <2> QED BY <1>1, <2>1, <2>3, <2>4, <2>5, <2>6, <2>7 DEF RunStates
<1>3. CASE ~HasCallback(st.events, id)
  <2> DEFINE ins == Append(st.insert, EmptyCallback)
  <2>1. ins \in Seq(Callbacks)
    BY <1>1, NoCallbackFacts
  <2>2. TakeOut(st, id) = [st EXCEPT !.insert = ins]
    BY <1>3 DEF TakeOut
  <2> HIDE DEF ins
  <2> QED BY <1>1, <2>1, <2>2 DEF RunStates
<1> QED BY <1>2, <1>3

LEMMA PutInKeeps ==
  ASSUME NEW evs, NEW st \in RunStates(evs), NEW cb \in Callbacks
  PROVE  PutIn(st, cb) \in RunStates(evs)
<1>1. /\ st \in [events : Seq(Dispatchers), maya : HandlerStates,
                 insert : Seq(Callbacks), delete : Seq(CallbackIds)]
      /\ Consistent(st.events) /\ SameHeads(evs, st.events)
  BY DEF RunStates
<1>2. CASE HasEvent(st.events, cb.id.event)
  <2> DEFINE i == LowerBound(st.events, cb.id.event)
             e == AfterRegisterInfo(st.events, cb)
             m == OnCallbackCreated(st.maya, cb.id)
             del == Append(st.delete, cb.id)
  <2>0. i \in 1..Len(st.events) /\ st.events[i].id = cb.id.event /\ cb.id \in CallbackIds
    BY <1>1, <1>2, LookupFacts DEF Callbacks
  <2>1. e = IF SiteTaken(st.events[i].cbs, cb.tag, cb.data) THEN st.events
            ELSE WithCallback(st.events, i, cb)
    BY DEF AfterRegisterInfo
  <2> HIDE DEF i, e
  <2>2. Consistent(e) /\ SameHeads(evs, e)
    <3>1. CASE SiteTaken(st.events[i].cbs, cb.tag, cb.data)
      BY <1>1, <2>1, <3>1
    <3>2. CASE ~SiteTaken(st.events[i].cbs, cb.tag, cb.data)
      <4>1. Consistent(WithCallback(st.events, i, cb))
        BY <1>1, <2>0, <3>2, StoreConsistent
      <4>2. SameHeads(st.events, WithCallback(st.events, i, cb))
        BY <1>1, <2>0, StoreHeads
      <4> QED BY <1>1, <2>1, <3>2, <4>1, <4>2, HeadsCompose
    <3> QED BY <3>1, <3>2
  <2>4. m \in HandlerStates
    BY <1>1, <2>0, HandlerSteps
  <2>5. del \in Seq(CallbackIds)
    BY <1>1, <2>0
  <2>6. e \in Seq(Dispatchers)
    BY <2>2 DEF Consistent
  <2>7. PutIn(st, cb) = [events |-> e, maya |-> m, insert |-> st.insert, delete |-> del]
    BY <1>2 DEF PutIn, e
  <2> HIDE DEF m, del
  <2> QED BY <1>1, <2>2, <2>4, <2>5, <2>6, <2>7 DEF RunStates
<1>3. CASE ~HasEvent(st.events, cb.id.event)
  <2> DEFINE del == Append(st.delete, InvalidId)
  <2>1. del \in Seq(CallbackIds)
    BY <1>1, NoCallbackFacts
  <2>2. PutIn(st, cb) = [st EXCEPT !.delete = del]
    BY <1>3 DEF PutIn
  <2> HIDE DEF del
  <2> QED BY <1>1, <2>1, <2>2 DEF RunStates
<1> QED BY <1>2, <1>3

\* Folding a list takes the last of its places first.
LastOf(n) == [d \in SUBSET (1..n) |-> Max(d)]

LEMMA LastChosen ==
  ASSUME NEW n \in Nat
  PROVE  /\ IsFiniteSet(1..n) /\ Chooses(LastOf(n), 1..n)
         /\ \A d \in SUBSET (1..n) : LastOf(n)[d] = Max(d)
<1>1. \A d \in SUBSET (1..n) : d # {} => Max(d) \in d
  BY MaxNat
<1>2. \A d \in SUBSET (1..n) : LastOf(n)[d] = Max(d)
  BY DEF LastOf
<1>3. IsFiniteSet(1..n)
  BY FS_Interval
<1> QED BY <1>1, <1>2, <1>3 DEF Chooses

\* What each step of a list keeps holds of the last result.
LEMMA ChainKeeps ==
  ASSUME NEW n \in Nat, NEW it, NEW Good, it[{}] \in Good[{}],
         \A d \in SUBSET (1..n) :
           d # {} /\ it[d \ {Max(d)}] \in Good[d \ {Max(d)}] => it[d] \in Good[d]
  PROVE  it[1..n] \in Good[1..n]
<1> DEFINE D == 1..n
           last == LastOf(n)
<1>1. IsFiniteSet(D) /\ Chooses(last, D) /\ \A d \in SUBSET D : last[d] = Max(d)
  BY LastChosen
<1>2. \A d \in SUBSET D :
        d # {} /\ it[d \ {last[d]}] \in Good[d \ {last[d]}] => it[d] \in Good[d]
  BY <1>1
<1> HIDE DEF D, last
<1>3. it[D] \in Good[D]
  BY <1>1, <1>2, FoldKeeps
<1> QED BY <1>3 DEF D

\* The last place of what is left of a list.
LEMMA LastOne ==
  ASSUME NEW n \in Nat, NEW d \in SUBSET (1..n), d # {}
  PROVE  Max(d) \in 1..n /\ Max(d) \in d /\ d \ {Max(d)} \in SUBSET (1..n)
BY MaxNat

\* The results of taking out a list of ids.
OutSteps(it, st, ids) ==
  /\ it[{}] = st /\ it[1..Len(ids)] = FoldLeft(TakeOut, st, ids)
  /\ \A d \in SUBSET (1..Len(ids)) : d # {} => it[d] = TakeOut(it[d \ {Max(d)}], ids[Max(d)])

LEMMA TakeOutChain ==
  ASSUME NEW evs, NEW st \in RunStates(evs), NEW ids \in Seq(CallbackIds)
  PROVE  \E it : OutSteps(it, st, ids)
<1> DEFINE D == 1..Len(ids)
           ST == RunStates(evs)
           last == LastOf(Len(ids))
           G == [a \in ST |-> [i \in D |-> TakeOut(a, ids[i])]]
           Body(it, d) == IF d = {} THEN st ELSE TakeOut(it[d \ {Max(d)}], ids[Max(d)])
           iter == CHOOSE it : it = [d \in SUBSET D |-> Body(it, d)]
<1>1. Len(ids) \in Nat /\ D = DOMAIN ids /\ (\A i \in D : ids[i] \in CallbackIds)
  BY ElementOfSeq
<1>2. FoldLeft(TakeOut, st, ids) = iter[DOMAIN ids]
  BY <1>1, Zenon DEF FoldLeft, MapThenFoldSet
<1>3. /\ IsFiniteSet(D) /\ Chooses(last, D) /\ (\A d \in SUBSET D : last[d] = Max(d))
      /\ st \in ST
  BY <1>1, LastChosen
<1>4. G \in [ST -> [D -> ST]] /\ \A a \in ST, i \in D : G[a][i] = TakeOut(a, ids[i])
  BY <1>1, TakeOutKeeps
<1> HIDE DEF D, ST, last, G
<1>5. PICK h \in [SUBSET D -> ST] : IsFold(h, D, last, st, G)
  BY <1>3, <1>4, FoldExists
<1>6. ASSUME NEW d \in SUBSET D PROVE h[d] = Body(h, d)
  <2>1. h[d] = IF d = {} THEN st ELSE G[h[d \ {last[d]}]][last[d]]
    BY <1>5 DEF IsFold
  <2>2. CASE d # {}
    <3>1. last[d] = Max(d) /\ Max(d) \in D /\ d \ {Max(d)} \in SUBSET D
      BY <1>3, <2>2 DEF Chooses
    <3> QED BY <1>4, <2>1, <2>2, <3>1
  <2> QED BY <2>1, <2>2
<1>7. h = [d \in SUBSET D |-> Body(h, d)]
  BY <1>6
<1>8. iter = [d \in SUBSET D |-> Body(iter, d)]
  BY <1>7
<1> HIDE DEF iter
<1>9. \A d \in SUBSET D : iter[d] = Body(iter, d)
  BY <1>8
<1>10. iter[D] = FoldLeft(TakeOut, st, ids) /\ iter[{}] = st
  BY <1>1, <1>2, <1>9
<1>11. \A d \in SUBSET D : d # {} => iter[d] = TakeOut(iter[d \ {Max(d)}], ids[Max(d)])
  BY <1>9
<1> QED BY <1>10, <1>11 DEF D, OutSteps

\* The ids of a list change callbacks only.
LEMMA TakeOutFold ==
  ASSUME NEW evs, NEW st \in RunStates(evs), NEW ids \in Seq(CallbackIds)
  PROVE  FoldLeft(TakeOut, st, ids) \in RunStates(evs)
<1> DEFINE n == Len(ids)
           ST == RunStates(evs)
           Good == [d \in SUBSET (1..n) |-> ST]
<1>1. n \in Nat /\ \A i \in 1..n : ids[i] \in CallbackIds
  BY ElementOfSeq
<1>2. PICK it : OutSteps(it, st, ids)
  BY TakeOutChain
<1>3. /\ it[{}] = st /\ it[1..n] = FoldLeft(TakeOut, st, ids)
      /\ \A d \in SUBSET (1..n) : d # {} => it[d] = TakeOut(it[d \ {Max(d)}], ids[Max(d)])
  BY <1>2 DEF OutSteps
<1> HIDE DEF n, ST
<1>4. ASSUME NEW d \in SUBSET (1..n), d # {}, it[d \ {Max(d)}] \in ST
      PROVE  it[d] \in ST
  <2>1. ids[Max(d)] \in CallbackIds
    BY <1>1, <1>4, LastOne
  <2> QED BY <1>3, <1>4, <2>1, TakeOutKeeps DEF ST
<1>5. \A d \in SUBSET (1..n) : Good[d] = ST
  OBVIOUS
<1> HIDE DEF Good
<1>6. it[{}] \in Good[{}]
  BY <1>3, <1>5 DEF ST
<1>7. ASSUME NEW d \in SUBSET (1..n), d # {}, it[d \ {Max(d)}] \in Good[d \ {Max(d)}]
      PROVE  it[d] \in Good[d]
  BY <1>4, <1>5, <1>7
<1>8. it[1..n] \in Good[1..n]
  BY <1>1, <1>6, <1>7, ChainKeeps
<1> QED BY <1>1, <1>3, <1>5, <1>8 DEF ST

\* The results of putting in a list of callbacks.
InSteps(it, st, cbs) ==
  /\ it[{}] = st /\ it[1..Len(cbs)] = FoldLeft(PutIn, st, cbs)
  /\ \A d \in SUBSET (1..Len(cbs)) : d # {} => it[d] = PutIn(it[d \ {Max(d)}], cbs[Max(d)])

LEMMA PutInChain ==
  ASSUME NEW evs, NEW st \in RunStates(evs), NEW cbs \in Seq(Callbacks)
  PROVE  \E it : InSteps(it, st, cbs)
<1> DEFINE D == 1..Len(cbs)
           ST == RunStates(evs)
           last == LastOf(Len(cbs))
           G == [a \in ST |-> [i \in D |-> PutIn(a, cbs[i])]]
           Body(it, d) == IF d = {} THEN st ELSE PutIn(it[d \ {Max(d)}], cbs[Max(d)])
           iter == CHOOSE it : it = [d \in SUBSET D |-> Body(it, d)]
<1>1. Len(cbs) \in Nat /\ D = DOMAIN cbs /\ (\A i \in D : cbs[i] \in Callbacks)
  BY ElementOfSeq
<1>2. FoldLeft(PutIn, st, cbs) = iter[DOMAIN cbs]
  BY <1>1, Zenon DEF FoldLeft, MapThenFoldSet
<1>3. /\ IsFiniteSet(D) /\ Chooses(last, D) /\ (\A d \in SUBSET D : last[d] = Max(d))
      /\ st \in ST
  BY <1>1, LastChosen
<1>4. G \in [ST -> [D -> ST]] /\ \A a \in ST, i \in D : G[a][i] = PutIn(a, cbs[i])
  BY <1>1, PutInKeeps
<1> HIDE DEF D, ST, last, G
<1>5. PICK h \in [SUBSET D -> ST] : IsFold(h, D, last, st, G)
  BY <1>3, <1>4, FoldExists
<1>6. ASSUME NEW d \in SUBSET D PROVE h[d] = Body(h, d)
  <2>1. h[d] = IF d = {} THEN st ELSE G[h[d \ {last[d]}]][last[d]]
    BY <1>5 DEF IsFold
  <2>2. CASE d # {}
    <3>1. last[d] = Max(d) /\ Max(d) \in D /\ d \ {Max(d)} \in SUBSET D
      BY <1>3, <2>2 DEF Chooses
    <3> QED BY <1>4, <2>1, <2>2, <3>1
  <2> QED BY <2>1, <2>2
<1>7. h = [d \in SUBSET D |-> Body(h, d)]
  BY <1>6
<1>8. iter = [d \in SUBSET D |-> Body(iter, d)]
  BY <1>7
<1> HIDE DEF iter
<1>9. \A d \in SUBSET D : iter[d] = Body(iter, d)
  BY <1>8
<1>10. iter[D] = FoldLeft(PutIn, st, cbs) /\ iter[{}] = st
  BY <1>1, <1>2, <1>9
<1>11. \A d \in SUBSET D : d # {} => iter[d] = PutIn(iter[d \ {Max(d)}], cbs[Max(d)])
  BY <1>9
<1> QED BY <1>10, <1>11 DEF D, InSteps

\* The same for the callbacks to insert.
LEMMA PutInFold ==
  ASSUME NEW evs, NEW st \in RunStates(evs), NEW cbs \in Seq(Callbacks)
  PROVE  FoldLeft(PutIn, st, cbs) \in RunStates(evs)
<1> DEFINE n == Len(cbs)
           ST == RunStates(evs)
           Good == [d \in SUBSET (1..n) |-> ST]
<1>1. n \in Nat /\ \A i \in 1..n : cbs[i] \in Callbacks
  BY ElementOfSeq
<1>2. PICK it : InSteps(it, st, cbs)
  BY PutInChain
<1>3. /\ it[{}] = st /\ it[1..n] = FoldLeft(PutIn, st, cbs)
      /\ \A d \in SUBSET (1..n) : d # {} => it[d] = PutIn(it[d \ {Max(d)}], cbs[Max(d)])
  BY <1>2 DEF InSteps
<1> HIDE DEF n, ST
<1>4. ASSUME NEW d \in SUBSET (1..n), d # {}, it[d \ {Max(d)}] \in ST
      PROVE  it[d] \in ST
  <2>1. cbs[Max(d)] \in Callbacks
    BY <1>1, <1>4, LastOne
  <2> QED BY <1>3, <1>4, <2>1, PutInKeeps DEF ST
<1>5. \A d \in SUBSET (1..n) : Good[d] = ST
  OBVIOUS
<1> HIDE DEF Good
<1>6. it[{}] \in Good[{}]
  BY <1>3, <1>5 DEF ST
<1>7. ASSUME NEW d \in SUBSET (1..n), d # {}, it[d \ {Max(d)}] \in Good[d \ {Max(d)}]
      PROVE  it[d] \in Good[d]
  BY <1>4, <1>5, <1>7
<1>8. it[1..n] \in Good[1..n]
  BY <1>1, <1>6, <1>7, ChainKeeps
<1> QED BY <1>1, <1>3, <1>5, <1>8 DEF ST

\* redoItImplementation changes callbacks only.
LEMMA RedoRuns ==
  ASSUME NEW evs, Consistent(evs), NEW m \in HandlerStates,
         NEW cbs \in Seq(Callbacks), NEW ids \in Seq(CallbackIds)
  PROVE  RedoItImplementation(evs, m, cbs, ids) \in RunStates(evs)
<1> DEFINE start == [events |-> evs, maya |-> m, insert |-> << >>, delete |-> << >>]
           taken == FoldLeft(TakeOut, start, ids)
<1>1. start \in RunStates(evs)
  BY DEF RunStates, Consistent, SameHeads, Same
<1> HIDE DEF start
<1>2. taken \in RunStates(evs)
  BY <1>1, TakeOutFold
<1> HIDE DEF taken
<1>3. FoldLeft(PutIn, taken, cbs) \in RunStates(evs)
  BY <1>2, PutInFold
<1> QED BY <1>3, Zenon DEF RedoItImplementation, taken, start

-----------------------------------------------------------------------------
(***************************************************************************)
(* The events that nodes own.                                              *)
(***************************************************************************)
HeadOf(d) == [id |-> d.id, name |-> d.name, owner |-> d.owner]

OwnedAt(evs) == {k \in 1..Len(evs) : evs[k].owner # NoOwner}

Owned(evs) == {HeadOf(evs[k]) : k \in OwnedAt(evs)}

\* An event that was registered to build a callback for it belongs to nobody.
UnknownFree(evs) ==
  \A k \in 1..Len(evs) : evs[k].type = UnknownType => evs[k].owner = NoOwner

\* The owned events are the same.
Kin(evs, new) ==
  /\ Owned(new) = Owned(evs)
  /\ UnknownFree(evs) => UnknownFree(new)

\* Changing callbacks leaves the owned events the same.
LEMMA HeadsKin ==
  ASSUME NEW evs, NEW new, SameHeads(evs, new)
  PROVE  Kin(evs, new)
<1>1. OwnedAt(new) = OwnedAt(evs)
  BY DEF OwnedAt, SameHeads, Same
<1>2. \A k \in OwnedAt(evs) : HeadOf(new[k]) = HeadOf(evs[k])
  BY DEF OwnedAt, HeadOf, SameHeads, Same
<1>3. UnknownFree(evs) => UnknownFree(new)
  BY DEF UnknownFree, SameHeads, Same
<1> QED BY <1>1, <1>2, <1>3 DEF Kin, Owned

LEMMA KinCompose ==
  ASSUME NEW a, NEW b, NEW c, Kin(a, b), Kin(b, c)
  PROVE  Kin(a, c)
BY DEF Kin

\* A new event adds itself to the owned ones if it is owned.
LEMMA NewOwned ==
  ASSUME NEW evs, Consistent(evs), NEW d \in Dispatchers, NEW i \in 1..Len(evs)+1,
         NEW new, new = InsertAt(evs, i, d)
  PROVE  /\ Owned(new) = Owned(evs) \cup (IF d.owner # NoOwner THEN {HeadOf(d)} ELSE {})
         /\ UnknownFree(evs) /\ (d.type = UnknownType => d.owner = NoOwner) => UnknownFree(new)
<1>1. evs \in Seq(Dispatchers) /\ Len(evs) \in Nat
  BY DEF Consistent
<1>2. /\ Len(new) = Len(evs) + 1
      /\ \A j \in 1..i-1 : new[j] = evs[j]
      /\ new[i] = d
      /\ \A j \in i+1..Len(evs)+1 : new[j] = evs[j-1]
  <2>1. Longer(new, evs, i, d)
    BY <1>1, OneLonger
  <2> QED BY <2>1 DEF Longer
<1>3. \A k \in 1..Len(new) : new[k] = d \/ \E j \in 1..Len(evs) : new[k] = evs[j]
  <2> TAKE k \in 1..Len(new)
  <2>1. CASE k \in 1..i-1
    BY <1>1, <1>2, <2>1
  <2>2. CASE k = i
    BY <1>2, <2>2
  <2>3. CASE k \in i+1..Len(evs)+1
    <3>1. k-1 \in 1..Len(evs)
      BY <1>1, <2>3
    <3> QED BY <1>2, <2>3, <3>1
  <2> QED BY <1>1, <1>2, <2>1, <2>2, <2>3
<1>4. \A j \in 1..Len(evs) : \E k \in 1..Len(new) : new[k] = evs[j]
  <2> TAKE j \in 1..Len(evs)
  <2>1. CASE j < i
    <3>1. j \in 1..i-1 /\ j \in 1..Len(new)
      BY <1>1, <1>2, <2>1
    <3> QED BY <1>2, <3>1
  <2>2. CASE ~(j < i)
    <3>1. j+1 \in i+1..Len(evs)+1 /\ j+1 \in 1..Len(new) /\ (j+1)-1 = j
      BY <1>1, <1>2, <2>2
    <3> QED BY <1>2, <3>1
  <2> QED BY <2>1, <2>2
<1>5. i \in 1..Len(new)
  BY <1>1, <1>2
<1>6. \A h : h \in Owned(new) => h \in Owned(evs) \/ (d.owner # NoOwner /\ h = HeadOf(d))
  BY <1>3 DEF Owned, OwnedAt
<1>7. \A h : h \in Owned(evs) => h \in Owned(new)
  BY <1>4 DEF Owned, OwnedAt
<1>8. d.owner # NoOwner => HeadOf(d) \in Owned(new)
  BY <1>2, <1>5 DEF Owned, OwnedAt
<1>9. UnknownFree(evs) /\ (d.type = UnknownType => d.owner = NoOwner) => UnknownFree(new)
  BY <1>3 DEF UnknownFree
<1> QED BY <1>6, <1>7, <1>8, <1>9

\* A promoted event had no owner.
LEMMA PromotedOwned ==
  ASSUME NEW evs, Consistent(evs), UnknownFree(evs), NEW i \in 1..Len(evs),
         evs[i].type = UnknownType,
         NEW type \in EventTypes \ {UnknownType}, NEW owner \in Owners, NEW parent \in CallbackIds,
         NEW new, new = Promoted(evs, i, type, owner, parent)
  PROVE  /\ Owned(new) = Owned(evs) \cup
              (IF owner # NoOwner THEN {[id |-> evs[i].id, name |-> evs[i].name, owner |-> owner]} ELSE {})
         /\ UnknownFree(new)
<1> DEFINE d == [evs[i] EXCEPT !.type = type, !.owner = owner, !.parent = parent]
<1>1. evs \in Seq(Dispatchers) /\ Len(evs) \in Nat /\ evs[i] \in Dispatchers
  BY ElementOfSeq DEF Consistent
<1>2. /\ d.type = type /\ d.owner = owner
      /\ HeadOf(d) = [id |-> evs[i].id, name |-> evs[i].name, owner |-> owner]
  BY <1>1 DEF HeadOf, Dispatchers
<1>3. new = [evs EXCEPT ![i] = d]
  BY DEF Promoted
<1> HIDE DEF d
<1>4. Len(new) = Len(evs) /\ new[i] = d /\ \A k \in 1..Len(evs) : k # i => new[k] = evs[k]
  BY <1>1, <1>3
<1>5. evs[i].owner = NoOwner
  BY DEF UnknownFree
<1>6. \A h : h \in Owned(new) => h \in Owned(evs) \/ (owner # NoOwner /\ h = HeadOf(d))
  BY <1>2, <1>4 DEF Owned, OwnedAt
<1>7. \A h : h \in Owned(evs) => h \in Owned(new)
  BY <1>4, <1>5 DEF Owned, OwnedAt
<1>8. owner # NoOwner => HeadOf(d) \in Owned(new)
  BY <1>2, <1>4 DEF Owned, OwnedAt
<1>9. UnknownFree(new)
  BY <1>2, <1>4 DEF UnknownFree
<1> QED BY <1>2, <1>6, <1>7, <1>8, <1>9

\* Removing an event takes it from the owned ones.
LEMMA RemovedOwned ==
  ASSUME NEW evs, Consistent(evs), NEW i \in 1..Len(evs), NEW new, new = RemoveAt(evs, i)
  PROVE  /\ Owned(new) = {h \in Owned(evs) : h.id # evs[i].id}
         /\ UnknownFree(evs) => UnknownFree(new)
<1>1. evs \in Seq(Dispatchers) /\ Len(evs) \in Nat /\ Ascending(evs)
  BY DEF Consistent
<1>2. /\ Len(new) = Len(evs) - 1
      /\ \A j \in 1..i-1 : new[j] = evs[j]
      /\ \A j \in i..Len(evs)-1 : new[j] = evs[j+1]
  BY <1>1, RemoveAtFacts
<1>3. \A k \in 1..Len(new) : \E j \in 1..Len(evs) : j # i /\ new[k] = evs[j]
  <2> TAKE k \in 1..Len(new)
  <2>1. CASE k < i
    <3>1. k \in 1..i-1 /\ k \in 1..Len(evs)
      BY <1>1, <1>2, <2>1
    <3> QED BY <1>2, <2>1, <3>1
  <2>2. CASE ~(k < i)
    <3>1. k \in i..Len(evs)-1 /\ k+1 \in 1..Len(evs) /\ k+1 # i
      BY <1>1, <1>2, <2>2
    <3> QED BY <1>2, <3>1
  <2> QED BY <2>1, <2>2
<1>4. \A j \in 1..Len(evs) : j # i => \E k \in 1..Len(new) : new[k] = evs[j]
  <2> TAKE j \in 1..Len(evs)
  <2> HAVE j # i
  <2>1. CASE j < i
    <3>1. j \in 1..i-1 /\ j \in 1..Len(new)
      BY <1>1, <1>2, <2>1
    <3> QED BY <1>2, <3>1
  <2>2. CASE j > i
    <3>1. j-1 \in i..Len(evs)-1 /\ j-1 \in 1..Len(new) /\ (j-1)+1 = j
      BY <1>1, <1>2, <2>2
    <3> QED BY <1>2, <3>1
  <2> QED BY <2>1, <2>2
<1>5. \A j \in 1..Len(evs) : evs[j].id \in Nat /\ (j # i => evs[j].id # evs[i].id)
  <2> TAKE j \in 1..Len(evs)
  <2>1. evs[j] \in Dispatchers /\ evs[i] \in Dispatchers
    BY <1>1, ElementOfSeq
  <2>2. evs[j].id \in Nat /\ evs[i].id \in Nat
    BY <2>1 DEF Dispatchers
  <2>3. (j < i => evs[j].id < evs[i].id) /\ (i < j => evs[i].id < evs[j].id)
    BY <1>1 DEF Ascending
  <2> QED BY <2>2, <2>3
<1>6. \A h : h \in Owned(new) => h \in Owned(evs) /\ h.id # evs[i].id
  BY <1>3, <1>5 DEF Owned, OwnedAt, HeadOf
<1>7. \A h : h \in Owned(evs) /\ h.id # evs[i].id => h \in Owned(new)
  BY <1>4 DEF Owned, OwnedAt, HeadOf
<1>8. UnknownFree(evs) => UnknownFree(new)
  BY <1>3 DEF UnknownFree
<1> QED BY <1>6, <1>7, <1>8

\* registerEvent: the owned events gain the one it returns the id of, when that
\* one is owned.
LEMMA RegisterOwned ==
  ASSUME NEW evs, Consistent(evs), UnknownFree(evs),
         NEW name \in Names, NEW type \in EventTypes \ {UnknownType}, NEW owner \in Owners,
         NEW parent \in CallbackIds, RegisteredId(evs, name, owner, parent) # 0,
         NEW new, new = AfterRegisterEvent(evs, name, type, owner, parent)
  PROVE  /\ Owned(new) = Owned(evs) \cup
              (IF owner # NoOwner
               THEN {[id |-> RegisteredId(evs, name, owner, parent), name |-> name, owner |-> owner]}
               ELSE {})
         /\ UnknownFree(new)
<1> DEFINE I == InTheWay(evs, name, owner, parent)
<1>1. evs \in Seq(Dispatchers) /\ Len(evs) \in Nat /\ Ascending(evs)
  BY DEF Consistent
<1>2. CASE I = {}
  <2> DEFINE u == UnusedId(evs)
             d == NewEvent(u, name, type, owner, parent)
  <2>1. u \in 1..Len(evs)+1
    BY <1>1, UnusedIdFacts
  <2>2. d \in Dispatchers
    BY <1>1, <2>1 DEF NewEvent, Dispatchers
  <2>3. new = InsertAt(evs, u, d) /\ RegisteredId(evs, name, owner, parent) = u
    BY <1>2 DEF AfterRegisterEvent, RegisteredId, WithNewEvent
  <2>4. d.owner = owner /\ d.type = type /\ HeadOf(d) = [id |-> u, name |-> name, owner |-> owner]
    BY DEF NewEvent, HeadOf
  <2> HIDE DEF u, d
  <2> QED BY <2>1, <2>2, <2>3, <2>4, NewOwned
<1>3. CASE I # {}
  <2> DEFINE i == Min(I)
  <2>1. i \in I
    <3>1. I \in SUBSET Nat
      BY DEF InTheWay
    <3> HIDE DEF I
    <3> QED BY <1>3, <3>1, MinNat
  <2>2. i \in 1..Len(evs) /\ evs[i].name = name
    BY <2>1 DEF InTheWay
  <2>3. evs[i].type = UnknownType
    BY <1>3 DEF RegisteredId
  <2>4. new = Promoted(evs, i, type, owner, parent) /\ RegisteredId(evs, name, owner, parent) = evs[i].id
    BY <1>3, <2>3 DEF AfterRegisterEvent, RegisteredId
  <2> HIDE DEF i
  <2> QED BY <2>2, <2>3, <2>4, PromotedOwned
<1> QED BY <1>2, <1>3

\* A name is registered for a build when no event has it, and then for nobody.
LEMMA ForBuildKeeps ==
  ASSUME NEW evs, Consistent(evs), NEW name \in Names,
         NEW new, new = EventsForBuild(evs, name)
  PROVE  Consistent(new) /\ HasName(new, name) /\ Kin(evs, new)
<1>1. CASE HasName(evs, name)
  BY <1>1 DEF EventsForBuild, Kin
<1>2. CASE ~HasName(evs, name)
  <2> DEFINE u == UnusedId(evs)
             d == NewEvent(u, name, UnknownType, NoOwner, InvalidId)
  <2>1. evs \in Seq(Dispatchers) /\ Len(evs) \in Nat /\ Ascending(evs)
    BY DEF Consistent
  <2>2. u \in 1..Len(evs)+1
    BY <2>1, UnusedIdFacts
  <2>3. InvalidId \in CallbackIds /\ UnknownType \in EventTypes /\ NoOwner \in Owners
    BY NoCallbackFacts, OwnerAssumption DEF EventTypes
  <2>4. d \in Dispatchers
    BY <2>1, <2>2, <2>3 DEF NewEvent, Dispatchers
  <2>5. new = AfterRegisterEvent(evs, name, UnknownType, NoOwner, InvalidId)
    BY <1>2 DEF EventsForBuild
  <2>6. Consistent(new) /\ HasName(new, name)
    BY <1>2, <2>3, <2>5, RegisterConsistent
  <2>7. InTheWay(evs, name, NoOwner, InvalidId) = {}
    BY <1>2 DEF InTheWay, HasName
  <2>8. new = InsertAt(evs, u, d)
    BY <2>5, <2>7 DEF AfterRegisterEvent, WithNewEvent
  <2>9. d.owner = NoOwner
    BY DEF NewEvent
  <2> HIDE DEF u, d
  <2>10. /\ Owned(new) = Owned(evs) \cup (IF d.owner # NoOwner THEN {HeadOf(d)} ELSE {})
         /\ UnknownFree(evs) /\ (d.type = UnknownType => d.owner = NoOwner) => UnknownFree(new)
    BY <2>2, <2>4, <2>8, NewOwned
  <2> QED BY <2>6, <2>9, <2>10 DEF Kin
<1> QED BY <1>1, <1>2

-----------------------------------------------------------------------------
(***************************************************************************)
(* Building the callbacks of a command.                                    *)
(***************************************************************************)
Flags == [node : Owners, event : Names, tag : Tags, weight : Weights]

BuildStates(evs) ==
  {st \in [events : Seq(Dispatchers), insert : Seq(Callbacks)] :
     Consistent(st.events) /\ Kin(evs, st.events)}

\* A flag registers an event for nobody at most, and builds a callback.
LEMMA BuildFlagKeeps ==
  ASSUME NEW evs, NEW st \in BuildStates(evs), NEW flag \in Flags
  PROVE  BuildFlag(st, flag) \in BuildStates(evs)
<1> DEFINE e == IF flag.node = NoOwner THEN EventsForBuild(st.events, flag.event) ELSE st.events
           id == IF flag.node = NoOwner THEN e[FirstNamed(e, flag.event)].id
                 ELSE IdOnNode(flag.node, flag.event)
           d == e[LowerBound(e, id)]
           cb == IF HasEvent(e, id) THEN BuiltScript(d, flag.tag, flag.weight) ELSE EmptyCallback
           ins == IF cb = EmptyCallback THEN st.insert ELSE Append(st.insert, cb)
<1>1. /\ st \in [events : Seq(Dispatchers), insert : Seq(Callbacks)]
      /\ Consistent(st.events) /\ Kin(evs, st.events)
  BY DEF BuildStates
<1>2. flag.event \in Names /\ flag.tag \in Tags /\ flag.weight \in Weights
  BY DEF Flags
<1>3. BuildFlag(st, flag) = [events |-> e, insert |-> ins]
  BY Zenon DEF BuildFlag
<1>4. Consistent(e) /\ Kin(st.events, e)
  BY <1>1, <1>2, ForBuildKeeps DEF Kin
<1> HIDE DEF e, id
<1>5. Kin(evs, e) /\ e \in Seq(Dispatchers)
  BY <1>1, <1>4, KinCompose DEF Consistent
<1>6. cb = EmptyCallback \/ cb \in Callbacks
  <2> SUFFICES ASSUME HasEvent(e, id), cb # EmptyCallback PROVE cb \in Callbacks
    OBVIOUS
  <2>1. LowerBound(e, id) \in 1..Len(e)
    BY <1>5, LookupFacts
  <2>2. d \in Dispatchers /\ Reachable(d)
    BY <1>4, <1>5, <2>1, ElementOfSeq DEF Consistent, Sound
  <2>3. cb = BuiltScript(d, flag.tag, flag.weight)
    OBVIOUS
  <2> HIDE DEF d, cb
  <2>4. cb \in {BuiltScript(d, flag.tag, flag.weight),
                BuiltFunction(d, flag.tag, flag.weight, NoData)}
    BY <2>3
  <2> QED BY <1>2, <2>2, <2>4, BuiltFacts, DataAssumption
<1> HIDE DEF cb
<1>7. ins \in Seq(Callbacks)
  BY <1>1, <1>6
<1> HIDE DEF ins
<1> QED BY <1>3, <1>4, <1>5, <1>7 DEF BuildStates

\* The results of building for a list of flags.
BuildSteps(it, st, flags) ==
  /\ it[{}] = st /\ it[1..Len(flags)] = FoldLeft(BuildFlag, st, flags)
  /\ \A d \in SUBSET (1..Len(flags)) : d # {} => it[d] = BuildFlag(it[d \ {Max(d)}], flags[Max(d)])

LEMMA BuildChain ==
  ASSUME NEW evs, NEW st \in BuildStates(evs), NEW flags \in Seq(Flags)
  PROVE  \E it : BuildSteps(it, st, flags)
<1> DEFINE D == 1..Len(flags)
           ST == BuildStates(evs)
           last == LastOf(Len(flags))
           G == [a \in ST |-> [i \in D |-> BuildFlag(a, flags[i])]]
           Body(it, d) == IF d = {} THEN st ELSE BuildFlag(it[d \ {Max(d)}], flags[Max(d)])
           iter == CHOOSE it : it = [d \in SUBSET D |-> Body(it, d)]
<1>1. Len(flags) \in Nat /\ D = DOMAIN flags /\ (\A i \in D : flags[i] \in Flags)
  BY ElementOfSeq
<1>2. FoldLeft(BuildFlag, st, flags) = iter[DOMAIN flags]
  BY <1>1, Zenon DEF FoldLeft, MapThenFoldSet
<1>3. /\ IsFiniteSet(D) /\ Chooses(last, D) /\ (\A d \in SUBSET D : last[d] = Max(d))
      /\ st \in ST
  BY <1>1, LastChosen
<1>4. G \in [ST -> [D -> ST]] /\ \A a \in ST, i \in D : G[a][i] = BuildFlag(a, flags[i])
  BY <1>1, BuildFlagKeeps
<1> HIDE DEF D, ST, last, G
<1>5. PICK h \in [SUBSET D -> ST] : IsFold(h, D, last, st, G)
  BY <1>3, <1>4, FoldExists
<1>6. ASSUME NEW d \in SUBSET D PROVE h[d] = Body(h, d)
  <2>1. h[d] = IF d = {} THEN st ELSE G[h[d \ {last[d]}]][last[d]]
    BY <1>5 DEF IsFold
  <2>2. CASE d # {}
    <3>1. last[d] = Max(d) /\ Max(d) \in D /\ d \ {Max(d)} \in SUBSET D
      BY <1>3, <2>2 DEF Chooses
    <3> QED BY <1>4, <2>1, <2>2, <3>1
  <2> QED BY <2>1, <2>2
<1>7. h = [d \in SUBSET D |-> Body(h, d)]
  BY <1>6
<1>8. iter = [d \in SUBSET D |-> Body(iter, d)]
  BY <1>7
<1> HIDE DEF iter
<1>9. \A d \in SUBSET D : iter[d] = Body(iter, d)
  BY <1>8
<1>10. iter[D] = FoldLeft(BuildFlag, st, flags) /\ iter[{}] = st
  BY <1>1, <1>2, <1>9
<1>11. \A d \in SUBSET D : d # {} => iter[d] = BuildFlag(iter[d \ {Max(d)}], flags[Max(d)])
  BY <1>9
<1> QED BY <1>10, <1>11 DEF D, BuildSteps

\* The flags of a command store nothing.
LEMMA BuildFold ==
  ASSUME NEW evs, NEW st \in BuildStates(evs), NEW flags \in Seq(Flags)
  PROVE  FoldLeft(BuildFlag, st, flags) \in BuildStates(evs)
<1> DEFINE n == Len(flags)
           ST == BuildStates(evs)
           Good == [d \in SUBSET (1..n) |-> ST]
<1>1. n \in Nat /\ \A i \in 1..n : flags[i] \in Flags
  BY ElementOfSeq
<1>2. PICK it : BuildSteps(it, st, flags)
  BY BuildChain
<1>3. /\ it[{}] = st /\ it[1..n] = FoldLeft(BuildFlag, st, flags)
      /\ \A d \in SUBSET (1..n) : d # {} => it[d] = BuildFlag(it[d \ {Max(d)}], flags[Max(d)])
  BY <1>2 DEF BuildSteps
<1> HIDE DEF n, ST
<1>4. ASSUME NEW d \in SUBSET (1..n), d # {}, it[d \ {Max(d)}] \in ST
      PROVE  it[d] \in ST
  <2>1. flags[Max(d)] \in Flags
    BY <1>1, <1>4, LastOne
  <2> QED BY <1>3, <1>4, <2>1, BuildFlagKeeps DEF ST
<1>5. \A d \in SUBSET (1..n) : Good[d] = ST
  OBVIOUS
<1> HIDE DEF Good
<1>6. it[{}] \in Good[{}]
  BY <1>3, <1>5 DEF ST
<1>7. ASSUME NEW d \in SUBSET (1..n), d # {}, it[d \ {Max(d)}] \in Good[d \ {Max(d)}]
      PROVE  it[d] \in Good[d]
  BY <1>4, <1>5, <1>7
<1>8. it[1..n] \in Good[1..n]
  BY <1>1, <1>6, <1>7, ChainKeeps
<1> QED BY <1>1, <1>3, <1>5, <1>8 DEF ST

\* What Build returns.
LEMMA BuildKeeps ==
  ASSUME Consistent(events), NEW flags \in Seq(Flags)
  PROVE  Build(flags) \in BuildStates(events)
<1> DEFINE start == [events |-> events, insert |-> << >>]
<1>1. start \in BuildStates(events)
  BY DEF BuildStates, Kin, Consistent
<1> HIDE DEF start
<1>2. FoldLeft(BuildFlag, start, flags) \in BuildStates(events)
  BY <1>1, BuildFold
<1> QED BY <1>2, Zenon DEF Build, start

\* An id that an event has is found.
LEMMA IdFound ==
  ASSUME NEW evs, Consistent(evs), NEW k \in 1..Len(evs)
  PROVE  HasEvent(evs, evs[k].id) /\ LowerBound(evs, evs[k].id) = k
<1> DEFINE id == evs[k].id
           S == {i \in 1..Len(evs)+1 : i <= Len(evs) => evs[i].id >= id}
           l == Min(S)
<1>1. evs \in Seq(Dispatchers) /\ Len(evs) \in Nat /\ Ascending(evs)
  BY DEF Consistent
<1>2. \A i \in 1..Len(evs) : evs[i].id \in Nat
  <2> TAKE i \in 1..Len(evs)
  <2>1. evs[i] \in Dispatchers
    BY <1>1, ElementOfSeq
  <2> QED BY <2>1 DEF Dispatchers
<1>3. S \in SUBSET Nat /\ k \in S
  BY <1>1, <1>2
<1>4. l \in S /\ l <= k
  <2> HIDE DEF S
  <2> QED BY <1>3, MinNat
<1>5. LowerBound(evs, id) = l
  BY DEF LowerBound
<1>6. l \in 1..Len(evs)+1 /\ l \in 1..Len(evs) /\ evs[l].id >= id
  BY <1>1, <1>4
<1>7. l = k
  <2> SUFFICES ASSUME l < k PROVE FALSE
    BY <1>4, <1>6
  <2> HIDE DEF l, S
  <2>1. evs[l].id < evs[k].id
    BY <1>1, <1>6 DEF Ascending
  <2> QED BY <1>2, <1>6, <2>1
<1> HIDE DEF l, S
<1> QED BY <1>5, <1>6, <1>7 DEF HasEvent

\* The events without those that have an id of a set.
Trimmed(evs, ids) ==
  {new \in Seq(Dispatchers) :
     /\ Consistent(new)
     /\ Owned(new) = {h \in Owned(evs) : h.id \notin ids}
     /\ UnknownFree(evs) => UnknownFree(new)
     /\ ids = {} => new = evs}

\* unregisterEvent, of an event that is there or not.
LEMMA WithoutKeeps ==
  ASSUME NEW evs, NEW ids, NEW old \in Trimmed(evs, ids), NEW id
  PROVE  EventsWithout(id, old) \in Trimmed(evs, ids \cup {id})
<1>1. /\ old \in Seq(Dispatchers) /\ Consistent(old)
      /\ Owned(old) = {h \in Owned(evs) : h.id \notin ids}
      /\ UnknownFree(evs) => UnknownFree(old)
  BY DEF Trimmed
<1>2. CASE HasEvent(old, id)
  <2> DEFINE i == LowerBound(old, id)
             new == RemoveAt(old, i)
  <2>1. i \in 1..Len(old) /\ old[i].id = id
    BY <1>1, <1>2, LookupFacts
  <2>2. EventsWithout(id, old) = new
    BY <1>2 DEF EventsWithout
  <2> HIDE DEF i
  <2>3. Consistent(new)
    BY <1>1, <2>1, RemoveConsistent
  <2>4. Owned(new) = {h \in Owned(old) : h.id # id} /\ (UnknownFree(old) => UnknownFree(new))
    BY <1>1, <2>1, RemovedOwned
  <2> HIDE DEF new
  <2> QED BY <1>1, <2>2, <2>3, <2>4 DEF Trimmed, Consistent
<1>3. CASE ~HasEvent(old, id)
  <2>1. \A k \in 1..Len(old) : old[k].id # id
    BY <1>1, <1>3, IdFound
  <2>2. \A h \in Owned(old) : h.id # id
    BY <2>1 DEF Owned, OwnedAt, HeadOf
  <2>3. Owned(old) = {h \in Owned(evs) : h.id \notin ids \cup {id}}
    BY <1>1, <2>2
  <2> QED BY <1>1, <1>3, <2>3 DEF Trimmed, EventsWithout
<1> QED BY <1>2, <1>3

\* The destructor of a node, in whatever order the hash map gives.
LEMMA WithoutFold ==
  ASSUME NEW evs, Consistent(evs), NEW ids, IsFiniteSet(ids)
  PROVE  FoldSet(EventsWithout, evs, ids) \in Trimmed(evs, ids)
<1> DEFINE D == ids
           ST == {new \in Seq(Dispatchers) : Consistent(new)}
           any == [d \in SUBSET D |-> CHOOSE x \in d : TRUE]
           G == [a \in ST |-> [x \in D |-> EventsWithout(x, a)]]
           Body(it, d) == IF d = {} THEN evs
                          ELSE EventsWithout(CHOOSE x \in d : TRUE, it[d \ {CHOOSE x \in d : TRUE}])
           iter == CHOOSE it : it = [d \in SUBSET D |-> Body(it, d)]
<1>1. FoldSet(EventsWithout, evs, ids) = iter[D]
  BY Zenon DEF FoldSet, MapThenFoldSet
<1>2. \A d \in SUBSET D : any[d] = CHOOSE x \in d : TRUE
  OBVIOUS
<1>3. \A d \in SUBSET D : d # {} => any[d] \in d
  OBVIOUS
<1>4. evs \in ST /\ \A a \in ST, x \in D : EventsWithout(x, a) \in ST
  <2>1. \A a \in ST : a \in Trimmed(a, {})
    BY DEF Trimmed
  <2>2. \A a \in ST, x \in D : EventsWithout(x, a) \in Trimmed(a, {x})
    <3> TAKE a \in ST, x \in D
    <3>1. EventsWithout(x, a) \in Trimmed(a, {} \cup {x})
      BY <2>1, WithoutKeeps
    <3>2. {} \cup {x} = {x}
      OBVIOUS
    <3> QED BY <3>1, <3>2
  <2> QED BY <2>2 DEF Trimmed, Consistent
<1>16. IsFiniteSet(D) /\ Chooses(any, D)
  BY <1>3 DEF Chooses
<1>18. ASSUME NEW d \in SUBSET D, NEW old \in Trimmed(evs, d \ {any[d]}), d # {}
       PROVE  EventsWithout(any[d], old) \in Trimmed(evs, d)
  <2>1. EventsWithout(any[d], old) \in Trimmed(evs, (d \ {any[d]}) \cup {any[d]})
    BY WithoutKeeps
  <2>2. (d \ {any[d]}) \cup {any[d]} = d
    BY <1>3, <1>18
  <2> QED BY <2>1, <2>2
<1>19. evs \in Trimmed(evs, {})
  BY DEF Trimmed, Consistent
<1> HIDE DEF D, ST, any
<1>5. G \in [ST -> [D -> ST]] /\ \A a \in ST, x \in D : G[a][x] = EventsWithout(x, a)
  BY <1>4
<1> HIDE DEF G
<1>17. PICK h \in [SUBSET D -> ST] : IsFold(h, D, any, evs, G)
  BY <1>4, <1>5, <1>16, FoldExists
<1>6. \A d \in SUBSET D : h[d] = IF d = {} THEN evs ELSE G[h[d \ {any[d]}]][any[d]]
  BY <1>17 DEF IsFold
<1>7. ASSUME NEW d \in SUBSET D PROVE h[d] = Body(h, d)
  <2>1. CASE d = {}
    BY <1>6, <2>1
  <2>2. CASE d # {}
    <3>1. any[d] = (CHOOSE x \in d : TRUE) /\ any[d] \in D /\ d \ {any[d]} \in SUBSET D
      BY <1>2, <1>3, <2>2
    <3>2. h[d \ {any[d]}] \in ST
      BY <1>6, <3>1
    <3>3. h[d] = EventsWithout(any[d], h[d \ {any[d]}])
      BY <1>5, <1>6, <2>2, <3>1, <3>2
    <3> QED BY <2>2, <3>1, <3>3
  <2> QED BY <2>1, <2>2
<1>8. h = [d \in SUBSET D |-> Body(h, d)]
  BY <1>6, <1>7
<1>9. iter = [d \in SUBSET D |-> Body(iter, d)]
  BY <1>8
<1> HIDE DEF iter
<1>10. \A d \in SUBSET D : iter[d] = Body(iter, d)
  BY <1>9
<1>11. \A d \in SUBSET D : d # {} => iter[d] = EventsWithout(any[d], iter[d \ {any[d]}])
  BY <1>2, <1>10
<1>12. iter[{}] = evs
  BY <1>10
<1> DEFINE Good == [d \in SUBSET D |-> Trimmed(evs, d)]
<1>13. \A d \in SUBSET D : Good[d] = Trimmed(evs, d)
  OBVIOUS
<1> HIDE DEF Good, Body
<1>14. /\ iter[{}] \in Good[{}]
       /\ \A d \in SUBSET D :
           d # {} /\ iter[d \ {any[d]}] \in Good[d \ {any[d]}] => iter[d] \in Good[d]
  <2>1. iter[{}] \in Good[{}]
    BY <1>12, <1>13, <1>19
  <2>2. ASSUME NEW d \in SUBSET D, d # {}, iter[d \ {any[d]}] \in Good[d \ {any[d]}]
        PROVE  iter[d] \in Good[d]
    BY <1>11, <1>13, <1>18, <2>2
  <2> QED BY <2>1, <2>2
<1>15. iter[D] \in Good[D]
  BY <1>14, <1>16, FoldKeeps
<1> QED BY <1>1, <1>13, <1>15 DEF D

-----------------------------------------------------------------------------
(***************************************************************************)
(* The invariant of the commands: that of the scheduler, tables that are   *)
(* finite functions from names to ids, and commands that are well formed.  *)
(***************************************************************************)
Stores == SUBSET (Nat \X Callbacks)

ListCommands ==
  [kind : {"callback"}, insert : Seq(Callbacks), delete : Seq(CallbackIds),
   before : Stores, after : Stores]

EventCommands ==
  [kind : {"event"}, node : Owners, name : Names, parent : Parents, deleting : BOOLEAN,
   before : Stores, after : Stores]

Commands == ListCommands \cup EventCommands

\* What a node remembers: finitely many names.
Tables == {t \in UNION {[N -> Nat] : N \in SUBSET Names} : IsFiniteSet(DOMAIN t)}

TablesOK(ne) ==
  DOMAIN ne \subseteq Nodes /\ \A n \in DOMAIN ne : ne[n] \in Tables

QueueOK(q, k) == q \in Seq(Commands) /\ k \in 0..Len(q)

ClientsInv ==
  /\ Inv
  /\ TablesOK(nodeEvents)
  /\ QueueOK(queue, done)
  /\ plain \in BOOLEAN

\* The type of what is stored.
LEMMA StoredType ==
  ASSUME NEW evs \in Seq(Dispatchers)
  PROVE  Stored(evs) \in Stores
<1> SUFFICES ASSUME NEW k \in 1..Len(evs), NEW i \in 1..Len(evs[k].cbs)
             PROVE  <<evs[k].id, evs[k].cbs[i]>> \in Nat \X Callbacks
  BY DEF Stored, Stores
<1>1. evs[k] \in Dispatchers
  BY ElementOfSeq
<1>2. evs[k].id \in Nat /\ evs[k].cbs \in Seq(Callbacks)
  BY <1>1 DEF Dispatchers
<1>3. evs[k].cbs[i] \in Callbacks
  BY <1>2, ElementOfSeq
<1> QED BY <1>2, <1>3

\* What the queue is after a command has been pushed.
LEMMA PushOK ==
  ASSUME QueueOK(queue, done), NEW cmd \in Commands, Push(cmd)
  PROVE  /\ QueueOK(queue', done')
         /\ done' = done + 1 /\ Len(queue') = done + 1 /\ queue'[done + 1] = cmd
         /\ \A k \in 1..done : queue'[k] = queue[k]
<1> DEFINE s == SubSeq(queue, 1, done)
<1>1. queue \in Seq(Commands) /\ done \in 0..Len(queue) /\ Len(queue) \in Nat
  BY DEF QueueOK
<1>2. s \in Seq(Commands) /\ Len(s) = done /\ \A k \in 1..done : s[k] = queue[k]
  <2>1. /\ SubSeq(queue, 1, done) \in Seq(Commands)
        /\ Len(SubSeq(queue, 1, done)) = done - 1 + 1
        /\ \A j \in 1..done-1+1 : SubSeq(queue, 1, done)[j] = queue[1+j-1]
    BY <1>1, PieceFacts
  <2>2. \A j \in 1..done : j \in 1..done-1+1 /\ 1+j-1 = j
    BY <1>1
  <2> HIDE DEF s
  <2> QED BY <1>1, <2>1, <2>2 DEF s
<1>3. queue' = Append(s, cmd) /\ done' = done + 1
  BY DEF Push
<1> HIDE DEF s
<1>4. /\ queue' \in Seq(Commands) /\ Len(queue') = done + 1 /\ queue'[done + 1] = cmd
      /\ \A k \in 1..done : queue'[k] = s[k]
  BY <1>1, <1>2, <1>3
<1> QED BY <1>1, <1>2, <1>3, <1>4 DEF QueueOK

\* The bound on the counts makes them counts again.
LEMMA BoundedCounts ==
  ASSUME NEW m \in HandlerStates, \A e \in DOMAIN m : m[e].refCount <= MaxRef
  PROVE  m \in [1..Len(MayaNames) -> MayaInfos]
<1>1. ASSUME NEW e \in 1..Len(MayaNames) PROVE m[e] \in MayaInfos
  <2>1. m[e] \in [refCount : Nat, installed : Nat] /\ m[e].refCount <= MaxRef
    BY DEF HandlerStates
  <2> QED BY <2>1, RefAssumption DEF MayaInfos
<1> QED BY <1>1 DEF HandlerStates

LEMMA CountsBounded ==
  ASSUME NEW m \in [1..Len(MayaNames) -> MayaInfos]
  PROVE  m \in HandlerStates
<1>1. ASSUME NEW e \in 1..Len(MayaNames) PROVE m[e] \in [refCount : Nat, installed : Nat]
  BY RefAssumption DEF MayaInfos
<1> QED BY <1>1 DEF HandlerStates

\* A command with two lists, when it is done first.
LEMMA RunListsInv ==
  ASSUME ClientsInv, NEW evs, Consistent(evs), NEW cbs \in Seq(Callbacks),
         NEW ids \in Seq(CallbackIds), RunLists(evs, cbs, ids)
  PROVE  /\ Inv' /\ TablesOK(nodeEvents') /\ QueueOK(queue', done')
         /\ SameHeads(evs, events') /\ UNCHANGED nodeEvents
         /\ \E cmd \in ListCommands : Push(cmd)
<1> DEFINE st == RedoItImplementation(evs, maya, cbs, ids)
           cmd == [kind |-> "callback", insert |-> st.insert, delete |-> st.delete,
                   before |-> Stored(events), after |-> Stored(st.events)]
<1>1. maya \in [1..Len(MayaNames) -> MayaInfos] /\ events \in Seq(Dispatchers) /\ infos \subseteq Callbacks
  BY DEF ClientsInv, Inv, Consistent
<1>2. st \in RunStates(evs)
  BY <1>1, CountsBounded, RedoRuns
<1>3. /\ events' = st.events /\ maya' = st.maya
      /\ \A e \in DOMAIN maya' : maya'[e].refCount <= MaxRef
      /\ infos' = infos /\ nodeEvents' = nodeEvents
      /\ Push(cmd)
  BY Zenon DEF RunLists
<1> HIDE DEF st
<1>4. /\ st.events \in Seq(Dispatchers) /\ st.maya \in HandlerStates
      /\ st.insert \in Seq(Callbacks) /\ st.delete \in Seq(CallbackIds)
      /\ Consistent(st.events) /\ SameHeads(evs, st.events)
  BY <1>2 DEF RunStates
<1>5. Stored(events) \in Stores /\ Stored(st.events) \in Stores
  BY <1>1, <1>4, StoredType
<1>6. cmd \in ListCommands
  BY <1>4, <1>5 DEF ListCommands
<1> HIDE DEF cmd
<1>7. maya' \in [1..Len(MayaNames) -> MayaInfos]
  BY <1>3, <1>4, BoundedCounts
<1>8. Inv'
  BY <1>1, <1>3, <1>4, <1>7 DEF Inv
<1>9. QueueOK(queue', done')
  BY <1>3, <1>6, PushOK DEF ClientsInv, Commands
<1>10. TablesOK(nodeEvents')
  BY <1>3 DEF ClientsInv
<1> QED BY <1>3, <1>4, <1>6, <1>8, <1>9, <1>10

-----------------------------------------------------------------------------
(***************************************************************************)
(* Registering and unregistering on a node.                                *)
(***************************************************************************)
\* The id that is returned is a number.
LEMMA RegisteredIdNat ==
  ASSUME NEW evs, Consistent(evs), NEW name, NEW owner, NEW parent
  PROVE  RegisteredId(evs, name, owner, parent) \in Nat
<1> DEFINE I == InTheWay(evs, name, owner, parent)
<1>1. evs \in Seq(Dispatchers) /\ Len(evs) \in Nat /\ Ascending(evs)
  BY DEF Consistent
<1>2. UnusedId(evs) \in Nat
  BY <1>1, UnusedIdFacts
<1>3. I # {} => Min(I) \in 1..Len(evs)
  <2>1. I \in SUBSET Nat /\ I \subseteq 1..Len(evs)
    BY DEF InTheWay
  <2> HIDE DEF I
  <2> QED BY <2>1, MinNat
<1>4. I # {} => evs[Min(I)].id \in Nat
  <2> HAVE I # {}
  <2> HIDE DEF I
  <2>1. evs[Min(I)] \in Dispatchers
    BY <1>1, <1>3, ElementOfSeq
  <2> QED BY <2>1 DEF Dispatchers
<1> QED BY <1>2, <1>4 DEF RegisteredId

\* The tables stay tables.
LEMMA EmplaceTable ==
  ASSUME NEW t \in Tables, NEW name \in Names, NEW id \in Nat
  PROVE  /\ Emplace(t, name, id) \in Tables
         /\ DOMAIN Emplace(t, name, id) = DOMAIN t \cup {name}
<1>1. PICK N \in SUBSET Names : t \in [N -> Nat] /\ IsFiniteSet(N)
  BY DEF Tables
<1>2. IsFiniteSet(N \cup {name})
  BY <1>1, FS_AddElement
<1>3. Emplace(t, name, id) \in [N \cup {name} -> Nat]
  BY <1>1 DEF Emplace
<1> QED BY <1>1, <1>2, <1>3 DEF Tables

LEMMA RestrictTable ==
  ASSUME NEW t \in Tables, NEW name
  PROVE  /\ Restrict(t, DOMAIN t \ {name}) \in Tables
         /\ DOMAIN Restrict(t, DOMAIN t \ {name}) = DOMAIN t \ {name}
<1>1. PICK N \in SUBSET Names : t \in [N -> Nat] /\ IsFiniteSet(N)
  BY DEF Tables
<1>2. IsFiniteSet(N \ {name})
  BY <1>1, FS_Subset
<1>3. Restrict(t, DOMAIN t \ {name}) \in [N \ {name} -> Nat]
  BY <1>1 DEF Restrict
<1> QED BY <1>1, <1>2, <1>3 DEF Tables

\* One event removed.
LEMMA WithoutConsistent ==
  ASSUME NEW evs, Consistent(evs), NEW id
  PROVE  /\ Consistent(EventsWithout(id, evs))
         /\ Owned(EventsWithout(id, evs)) = {h \in Owned(evs) : h.id # id}
         /\ UnknownFree(evs) => UnknownFree(EventsWithout(id, evs))
<1>1. evs \in Trimmed(evs, {})
  BY DEF Trimmed, Consistent
<1>2. EventsWithout(id, evs) \in Trimmed(evs, {} \cup {id})
  BY <1>1, WithoutKeeps
<1> QED BY <1>2 DEF Trimmed

\* The command registers events of the user's type.
LEMMA RegisterUserInv ==
  ASSUME Inv, NEW name \in Names, NEW owner \in Owners, NEW parent \in Parents,
         RegisterEvent(name, UserType, owner, parent)
  PROVE  Inv'
<1>1. UserType \in EventTypes /\ UserType # UnknownType /\ parent \in CallbackIds
  BY ParentAssumption DEF EventTypes, UserType, UnknownType
<1>2. Consistent(events')
  BY <1>1, RegisterConsistent DEF Inv, RegisterEvent
<1> QED BY <1>2 DEF Inv, RegisterEvent

\* Registering on a node preserves the invariant of the scheduler.
LEMMA NodeRegisterInv ==
  ASSUME Inv, TablesOK(nodeEvents), NEW n, NEW name \in Names,
         NEW parent \in Parents, NodeRegisterEvent(n, name, UserType, parent)
  PROVE  Inv' /\ TablesOK(nodeEvents')
<1>1. n \in DOMAIN nodeEvents /\ n \in Owners /\ nodeEvents[n] \in Tables
  BY DEF NodeRegisterEvent, TablesOK, Nodes
<1>2. Inv'
  BY <1>1, RegisterUserInv DEF NodeRegisterEvent
<1> DEFINE id == RegisteredId(events, name, n, parent)
<1>3. id \in Nat
  BY RegisteredIdNat DEF Inv
<1>4. nodeEvents' = [nodeEvents EXCEPT ![n] = Emplace(nodeEvents[n], name, id)]
  BY DEF NodeRegisterEvent
<1> HIDE DEF id
<1>5. Emplace(nodeEvents[n], name, id) \in Tables
  BY <1>1, <1>3, EmplaceTable
<1> QED BY <1>1, <1>2, <1>4, <1>5 DEF TablesOK

\* So does unregistering, whatever the freed entry reads as.
LEMMA NodeUnregisterInv ==
  ASSUME Inv, TablesOK(nodeEvents), NEW n, NEW name, NodeUnregisterEvent(n, name)
  PROVE  Inv' /\ TablesOK(nodeEvents')
<1>1. n \in DOMAIN nodeEvents /\ nodeEvents[n] \in Tables
  BY DEF NodeUnregisterEvent, TablesOK
<1>2. PICK id : events' = EventsWithout(id, events)
  BY DEF NodeUnregisterEvent
<1>3. Inv'
  BY <1>2, WithoutConsistent DEF NodeUnregisterEvent, Inv
<1>4. nodeEvents' = [nodeEvents EXCEPT ![n] = Restrict(nodeEvents[n], DOMAIN nodeEvents[n] \ {name})]
  BY DEF NodeUnregisterEvent
<1>5. Restrict(nodeEvents[n], DOMAIN nodeEvents[n] \ {name}) \in Tables
  BY <1>1, RestrictTable
<1> QED BY <1>1, <1>3, <1>4, <1>5 DEF TablesOK

\* So does an event command, done, undone or done again.
LEMMA EventRedoInv ==
  ASSUME Inv, TablesOK(nodeEvents), NEW node \in Owners, NEW name \in Names,
         NEW parent \in Parents, NEW deleting, EventRedoIt(node, name, parent, deleting)
  PROVE  Inv' /\ TablesOK(nodeEvents')
<1>1. CASE NodeUnregisterEvent(node, name)
  BY <1>1, NodeUnregisterInv
<1>2. CASE NodeRegisterEvent(node, name, UserType, parent)
  BY <1>2, NodeRegisterInv
<1>3. CASE UNCHANGED nodeVars
  BY <1>3 DEF nodeVars, vars, Inv
<1>4. CASE UNCHANGED nodeEvents /\ UnregisterNamedEvent(name)
  BY <1>4, UnregisterNamedEventInv
<1>5. CASE UNCHANGED nodeEvents /\ RegisterEvent(name, UserType, NoOwner, parent)
  BY <1>5, RegisterUserInv, OwnerAssumption
<1>6. CASE UNCHANGED nodeEvents /\ UNCHANGED vars
  BY <1>6 DEF vars, Inv
<1> QED BY <1>1, <1>2, <1>3, <1>4, <1>5, <1>6 DEF EventRedoIt

-----------------------------------------------------------------------------
(***************************************************************************)
(* The actions.                                                            *)
(***************************************************************************)
\* What it takes to undo or redo the command at k.
LEMMA RerunInv ==
  ASSUME ClientsInv, NEW k \in 1..Len(queue), Rerun(k)
  PROVE  /\ Inv' /\ TablesOK(nodeEvents')
         /\ queue' \in Seq(Commands) /\ Len(queue') = Len(queue)
         /\ \A j \in 1..Len(queue) : j # k => queue'[j] = queue[j]
         /\ \/ /\ queue[k] \in ListCommands /\ queue'[k] \in ListCommands
               /\ SameHeads(events, events') /\ UNCHANGED nodeEvents
            \/ /\ queue[k] \in EventCommands
               /\ queue'[k] = [queue[k] EXCEPT !.deleting = ~@]
               /\ EventRedoIt(queue[k].node, queue[k].name, queue[k].parent, queue[k].deleting)
<1> DEFINE q == queue[k]
<1>1. queue \in Seq(Commands) /\ Len(queue) \in Nat /\ q \in Commands
  BY ElementOfSeq DEF ClientsInv, QueueOK
<1>2. CASE q.kind = "callback"
  <2> DEFINE st == RedoItImplementation(events, maya, q.insert, q.delete)
  <2>1. q \in ListCommands
    BY <1>1, <1>2 DEF Commands, EventCommands
  <2>2. q.insert \in Seq(Callbacks) /\ q.delete \in Seq(CallbackIds)
    BY <2>1 DEF ListCommands
  <2>3. Consistent(events) /\ maya \in HandlerStates
    BY CountsBounded DEF ClientsInv, Inv
  <2>4. st \in RunStates(events)
    BY <2>2, <2>3, RedoRuns
  <2>5. /\ events' = st.events /\ maya' = st.maya
        /\ \A e \in DOMAIN maya' : maya'[e].refCount <= MaxRef
        /\ queue' = [queue EXCEPT ![k].insert = st.insert, ![k].delete = st.delete]
        /\ infos' = infos /\ nodeEvents' = nodeEvents
    BY <1>2, Zenon DEF Rerun
  <2> HIDE DEF st
  <2>6. /\ st.maya \in HandlerStates /\ Consistent(st.events) /\ SameHeads(events, st.events)
        /\ st.insert \in Seq(Callbacks) /\ st.delete \in Seq(CallbackIds)
    BY <2>4 DEF RunStates
  <2>7. maya' \in [1..Len(MayaNames) -> MayaInfos]
    BY <2>5, <2>6, BoundedCounts
  <2>8. Inv' /\ TablesOK(nodeEvents')
    BY <2>5, <2>6, <2>7 DEF ClientsInv, Inv
  <2> DEFINE new == [q EXCEPT !.insert = st.insert, !.delete = st.delete]
  <2>9. new \in ListCommands
    BY <2>1, <2>6 DEF ListCommands
  <2>10. queue' = [queue EXCEPT ![k] = new]
    BY <1>1, <2>5
  <2> HIDE DEF new, q
  <2>11. /\ queue' \in Seq(Commands) /\ Len(queue') = Len(queue) /\ queue'[k] = new
         /\ \A j \in 1..Len(queue) : j # k => queue'[j] = queue[j]
    BY <1>1, <2>9, <2>10 DEF Commands
  <2> QED BY <2>1, <2>5, <2>6, <2>8, <2>9, <2>11 DEF q
<1>3. CASE q.kind # "callback"
  <2>1. q \in EventCommands
    BY <1>1, <1>3 DEF Commands, ListCommands
  <2>2. q.node \in Owners /\ q.name \in Names /\ q.parent \in Parents /\ q.deleting \in BOOLEAN
    BY <2>1 DEF EventCommands
  <2>3. /\ EventRedoIt(q.node, q.name, q.parent, q.deleting)
        /\ queue' = [queue EXCEPT ![k].deleting = ~@]
    BY <1>3 DEF Rerun
  <2>4. Inv' /\ TablesOK(nodeEvents')
    BY <2>2, <2>3, EventRedoInv DEF ClientsInv
  <2> DEFINE new == [q EXCEPT !.deleting = ~@]
  <2>5. new \in EventCommands
    BY <2>1, <2>2 DEF EventCommands
  <2>6. queue' = [queue EXCEPT ![k] = new]
    BY <2>3
  <2> HIDE DEF q
  <2>7. /\ queue' \in Seq(Commands) /\ Len(queue') = Len(queue) /\ queue'[k] = new
        /\ \A j \in 1..Len(queue) : j # k => queue'[j] = queue[j]
    <3> HIDE DEF new
    <3> QED BY <1>1, <2>5, <2>6 DEF Commands
  <2> QED BY <2>1, <2>3, <2>4, <2>7 DEF q
<1> QED BY <1>2, <1>3

\* A node has finitely many events.
LEMMA OwnIdsFinite ==
  ASSUME TablesOK(nodeEvents), NEW n \in DOMAIN nodeEvents
  PROVE  IsFiniteSet(OwnIds(n)) /\ OwnIds(n) \subseteq Nat
<1> DEFINE t == nodeEvents[n]
           N == DOMAIN t
           f == [x \in N |-> t[x]]
<1>1. IsFiniteSet(N) /\ t \in [N -> Nat]
  BY DEF TablesOK, Tables
<1>2. f \in Surjection(N, OwnIds(n)) /\ OwnIds(n) \subseteq Nat
  BY <1>1 DEF OwnIds, Surjection
<1> HIDE DEF f, N
<1> QED BY <1>1, <1>2, FS_Surjection

\* The destructor of a node removes the events that have an id of it.
LEMMA DestroyInv ==
  ASSUME Inv, TablesOK(nodeEvents), NEW n, NodeDestroyed(n)
  PROVE  /\ Inv' /\ TablesOK(nodeEvents')
         /\ events' \in Trimmed(events, OwnIds(n))
<1>1. n \in DOMAIN nodeEvents /\ Consistent(events)
  BY DEF NodeDestroyed, Inv
<1>2. events' \in Trimmed(events, OwnIds(n))
  BY <1>1, OwnIdsFinite, WithoutFold DEF NodeDestroyed
<1>3. Consistent(events')
  BY <1>2 DEF Trimmed
<1>4. Inv'
  BY <1>3 DEF Inv, NodeDestroyed
<1>5. TablesOK(nodeEvents')
  BY DEF TablesOK, NodeDestroyed, Restrict
<1> QED BY <1>2, <1>4, <1>5

\* The lists of a new callback command.
LEMMA BuiltLists ==
  ASSUME ClientsInv, NEW args \in CommandArgs
  PROVE  /\ Build(args.flags) \in BuildStates(events)
         /\ args.delete \in Seq(CallbackIds)
<1>1. args.flags \in Seq(Flags) /\ args.delete \in Seq(CallbackIds)
  BY ArgsAssumption DEF Flags
<1>2. Consistent(events)
  BY DEF ClientsInv, Inv
<1> QED BY <1>1, <1>2, BuildKeeps

\* The first run of a callback command.
LEMMA CallbackDoItInv ==
  ASSUME ClientsInv, NEW args \in CommandArgs, CallbackDoIt(args)
  PROVE  /\ ClientsInv' /\ Kin(events, events') /\ UNCHANGED nodeEvents
         /\ \E cmd \in ListCommands : Push(cmd)
<1> DEFINE built == Build(args.flags)
<1>1. built \in BuildStates(events) /\ args.delete \in Seq(CallbackIds)
  BY BuiltLists
<1>2. RunLists(built.events, built.insert, args.delete) /\ plain' = (plain /\ Plain(built.insert))
  BY Zenon DEF CallbackDoIt
<1> HIDE DEF built
<1>3. /\ Consistent(built.events) /\ Kin(events, built.events)
      /\ built.insert \in Seq(Callbacks)
  BY <1>1 DEF BuildStates
<1>4. /\ Inv' /\ TablesOK(nodeEvents') /\ QueueOK(queue', done')
      /\ SameHeads(built.events, events') /\ UNCHANGED nodeEvents
      /\ \E cmd \in ListCommands : Push(cmd)
  BY <1>1, <1>2, <1>3, RunListsInv
<1>5. Kin(events, events')
  BY <1>3, <1>4, HeadsKin, KinCompose
<1>6. plain' \in BOOLEAN
  BY <1>2
<1> QED BY <1>4, <1>5, <1>6 DEF ClientsInv

\* AL_usdmaya_DeleteCallbacks.
LEMMA DeleteInv ==
  ASSUME ClientsInv, NEW id \in StoredIds, DeleteCallbacksDoIt(<<id>>)
  PROVE  /\ ClientsInv' /\ Kin(events, events') /\ UNCHANGED nodeEvents
         /\ \E cmd \in ListCommands : Push(cmd)
<1>1. id \in CallbackIds
  BY StoredIdsType DEF ClientsInv
<1>2. <<id>> \in Seq(CallbackIds) /\ << >> \in Seq(Callbacks) /\ Consistent(events)
  BY <1>1 DEF ClientsInv, Inv
<1>3. RunLists(events, << >>, <<id>>) /\ plain' = plain
  BY DEF DeleteCallbacksDoIt
<1>4. /\ Inv' /\ TablesOK(nodeEvents') /\ QueueOK(queue', done')
      /\ SameHeads(events, events') /\ UNCHANGED nodeEvents
      /\ \E cmd \in ListCommands : Push(cmd)
  BY <1>2, <1>3, RunListsInv
<1> QED BY <1>3, <1>4, HeadsKin DEF ClientsInv

\* AL_usdmaya_Event.
LEMMA EventDoItInv ==
  ASSUME ClientsInv, NEW args \in EventArgs,
         EventDoIt(args.node, args.name, args.parent, args.deleting)
  PROVE  /\ ClientsInv'
         /\ args.node \in Owners /\ args.name \in Names /\ args.parent \in Parents
         /\ args.deleting \in BOOLEAN
         /\ \E b, a \in Stores :
              Push([kind |-> "event", node |-> args.node, name |-> args.name,
                    parent |-> args.parent, deleting |-> ~args.deleting,
                    before |-> b, after |-> a])
<1>1. /\ args.node \in Owners /\ args.name \in Names /\ args.parent \in Parents
      /\ args.deleting \in BOOLEAN
  BY ArgsAssumption
<1>2. /\ EventRedoIt(args.node, args.name, args.parent, args.deleting)
      /\ Push([kind |-> "event", node |-> args.node, name |-> args.name,
               parent |-> args.parent, deleting |-> ~args.deleting,
               before |-> Stored(events), after |-> Stored(events')])
      /\ plain' = FALSE
  BY DEF EventDoIt
<1>3. Inv' /\ TablesOK(nodeEvents')
  BY <1>1, <1>2, EventRedoInv DEF ClientsInv
<1>4. Stored(events) \in Stores /\ Stored(events') \in Stores
  BY <1>3, StoredType DEF ClientsInv, Inv, Consistent
<1>5. [kind |-> "event", node |-> args.node, name |-> args.name,
       parent |-> args.parent, deleting |-> ~args.deleting,
       before |-> Stored(events), after |-> Stored(events')] \in EventCommands
  BY <1>1, <1>4 DEF EventCommands
<1>6. QueueOK(queue', done')
  BY <1>2, <1>5, PushOK DEF ClientsInv, Commands
<1> QED BY <1>1, <1>2, <1>3, <1>4, <1>6 DEF ClientsInv

\* Every step preserves the invariant.
LEMMA ClientsNext == ClientsInv /\ [CommandNext]_commandVars => ClientsInv'
<1> SUFFICES ASSUME ClientsInv, [CommandNext]_commandVars PROVE ClientsInv'
  OBVIOUS
<1>0. queue \in Seq(Commands) /\ done \in 0..Len(queue) /\ Len(queue) \in Nat
  BY DEF ClientsInv, QueueOK
<1>1. ASSUME NEW args \in CommandArgs, CallbackDoIt(args) PROVE ClientsInv'
  BY <1>1, CallbackDoItInv
<1>2. ASSUME NEW id \in StoredIds, DeleteCallbacksDoIt(<<id>>) PROVE ClientsInv'
  BY <1>2, DeleteInv
<1>3. ASSUME NEW args \in EventArgs,
             EventDoIt(args.node, args.name, args.parent, args.deleting)
      PROVE  ClientsInv'
  BY <1>3, EventDoItInv
<1>4. CASE UndoIt
  <2>1. done \in 1..Len(queue) /\ Rerun(done) /\ done' = done - 1 /\ plain' = plain
    BY <1>0, <1>4 DEF UndoIt
  <2>2. Inv' /\ TablesOK(nodeEvents') /\ queue' \in Seq(Commands) /\ Len(queue') = Len(queue)
    BY <2>1, RerunInv
  <2> QED BY <1>0, <2>1, <2>2 DEF ClientsInv, QueueOK
<1>5. CASE RedoIt
  <2>1. done+1 \in 1..Len(queue) /\ Rerun(done+1) /\ done' = done + 1 /\ plain' = plain
    BY <1>0, <1>5 DEF RedoIt
  <2>2. Inv' /\ TablesOK(nodeEvents') /\ queue' \in Seq(Commands) /\ Len(queue') = Len(queue)
    BY <2>1, RerunInv
  <2> QED BY <1>0, <2>1, <2>2 DEF ClientsInv, QueueOK
<1>6. ASSUME NEW n \in Nodes, DestroyNode(n) PROVE ClientsInv'
  <2>1. Inv' /\ TablesOK(nodeEvents')
    BY <1>6, DestroyInv DEF DestroyNode, ClientsInv
  <2> QED BY <1>6, <2>1 DEF DestroyNode, ClientsInv, QueueOK
<1>7. CASE UNCHANGED commandVars
  BY <1>7 DEF commandVars, nodeVars, vars, ClientsInv, Inv
<1> QED BY <1>1, <1>2, <1>3, <1>4, <1>5, <1>6, <1>7 DEF CommandNext

\* It holds at first.
LEMMA ClientsInit == CommandInit => ClientsInv
<1> SUFFICES ASSUME CommandInit PROVE ClientsInv
  OBVIOUS
<1>1. Inv
  BY InvInit DEF CommandInit, NodeInit
<1>2. nodeEvents = [n \in Nodes |-> << >>]
  BY DEF CommandInit, NodeInit
<1>3. << >> \in Tables
  <2>1. << >> \in [{} -> Nat] /\ DOMAIN << >> = {}
    OBVIOUS
  <2>2. {} \in SUBSET Names /\ IsFiniteSet({})
    BY FS_EmptySet
  <2> QED BY <2>1, <2>2 DEF Tables
<1>4. TablesOK(nodeEvents)
  BY <1>2, <1>3 DEF TablesOK
<1> QED BY <1>1, <1>4 DEF CommandInit, ClientsInv, QueueOK

\* Whatever the commands do, undo and redo, every command on the queue holds
\* callbacks and callback ids, and the event system keeps its invariant.
THEOREM CommandsInvariant == CommandSpec => []ClientsInv
BY ClientsInit, ClientsNext, PTL DEF CommandSpec

\* The types follow.
LEMMA ClientsType == ClientsInv => CommandTypeOK
<1> SUFFICES ASSUME ClientsInv PROVE CommandTypeOK
  OBVIOUS
<1>1. TypeOK
  BY DEF ClientsInv, Inv, Consistent, TypeOK
<1>2. NodeTypeOK
  <2>1. DOMAIN nodeEvents \subseteq Nodes
    BY DEF ClientsInv, TablesOK
  <2>2. \A n \in DOMAIN nodeEvents : \E N \in SUBSET Names : nodeEvents[n] \in [N -> Nat]
    BY DEF ClientsInv, TablesOK, Tables
  <2> QED BY <1>1, <2>1, <2>2 DEF NodeTypeOK
<1>3. ASSUME NEW k \in 1..Len(queue), queue[k].kind = "callback"
      PROVE  queue[k].insert \in Seq(Callbacks) /\ queue[k].delete \in Seq(CallbackIds)
  <2>1. queue[k] \in Commands
    BY ElementOfSeq DEF ClientsInv, QueueOK
  <2>2. queue[k] \in ListCommands
    BY <1>3, <2>1 DEF Commands, EventCommands
  <2> QED BY <2>2 DEF ListCommands
<1> QED BY <1>2, <1>3 DEF CommandTypeOK, ClientsInv, QueueOK

\* The commands on the queue are well formed, and so are the tables of the nodes.
THEOREM CommandsTypeCorrect == CommandSpec => []CommandTypeOK
BY CommandsInvariant, ClientsType, PTL

\* Undo and redo put callbacks back in ascending order of weight.
THEOREM CommandsKeepWeights == CommandSpec => []WeightsAscending
<1>1. ClientsInv => WeightsAscending
  BY DEF ClientsInv, Inv, Consistent, Sound, WeightsAscending
<1> QED BY <1>1, CommandsInvariant, PTL

\* No undo and no redo stores a second callback under one tag and user data.
THEOREM CommandsKeepSites == CommandSpec => []SitesUnique
<1>1. ClientsInv => SitesUnique
  BY DEF ClientsInv, Inv, Consistent, Sound, SitesUnique
<1> QED BY <1>1, CommandsInvariant, PTL

-----------------------------------------------------------------------------
(***************************************************************************)
(* What a node remembers and what the scheduler stores for it agree.       *)
(*                                                                         *)
(* That the owned events are those on the tables is not inductive: were an *)
(* undone command to register a name that is on the table with another     *)
(* parent, the table would keep the first id only.  The invariant adds why *)
(* no command does: there is a history of the tables, one for each number  *)
(* of commands done, from which each command on the queue takes a name it  *)
(* finds there or adds one it does not find.                               *)
(***************************************************************************)
\* The heads of the events that are on the nodes' tables.
Kept(ne) ==
  UNION {{[id |-> ne[n][name], name |-> name, owner |-> n] : name \in DOMAIN ne[n]} :
           n \in DOMAIN ne}

Entry(n, name) == [node |-> n, name |-> name]

\* What is on the nodes' tables, without the ids.
Entries(ne) ==
  UNION {{Entry(n, name) : name \in DOMAIN ne[n]} : n \in DOMAIN ne}

Agrees(evs, ne) == UnknownFree(evs) /\ Owned(evs) = Kept(ne)

\* From what was on the tables before a command to what is there after it: a
\* command on a node's event that is done was done with the flag turned, one
\* that is undone has it as it will be done.
Turn(c, before, after, isDone) ==
  IF c.kind = "event" /\ c.node # NoOwner
  THEN IF c.deleting = isDone
       THEN Entry(c.node, c.name) \notin before /\ after = before \cup {Entry(c.node, c.name)}
       ELSE Entry(c.node, c.name) \in before /\ after = before \ {Entry(c.node, c.name)}
  ELSE after = before

\* H[k] is what is on the tables when the first k commands are done.
History(H, q, k) ==
  /\ H \in [0..Len(q) -> SUBSET [node : Nodes, name : Names]]
  /\ \A j \in 1..Len(q) : Turn(q[j], H[j-1], H[j], j <= k)

AgreeInv ==
  /\ ClientsInv
  /\ Agrees(events, nodeEvents)
  /\ \E H : History(H, queue, done) /\ H[done] = Entries(nodeEvents)

\* The names on the tables are names of nodes' events.
LEMMA EntriesType ==
  ASSUME NEW ne, TablesOK(ne)
  PROVE  Entries(ne) \in SUBSET [node : Nodes, name : Names]
BY DEF Entries, Entry, TablesOK, Tables

LEMMA EntryFacts ==
  ASSUME NEW ne, NEW n, NEW name
  PROVE  Entry(n, name) \in Entries(ne) <=> n \in DOMAIN ne /\ name \in DOMAIN ne[n]
<1>1. ASSUME NEW m, NEW x, Entry(m, x) = Entry(n, name) PROVE m = n /\ x = name
  <2>1. Entry(m, x).node = Entry(n, name).node /\ Entry(m, x).name = Entry(n, name).name
    BY <1>1
  <2> QED BY <2>1 DEF Entry
<1> QED BY <1>1 DEF Entries

\* An id is that of one owned event, and not 0.
LEMMA OwnedUnique ==
  ASSUME NEW evs, Consistent(evs)
  PROVE  /\ \A h, g \in Owned(evs) : h.id = g.id => h = g
         /\ \A h \in Owned(evs) : h.id \in Nat /\ h.id # 0
         /\ \A h \in Owned(evs), k \in 1..Len(evs) :
              evs[k].owner = NoOwner => h.id # evs[k].id
<1>1. evs \in Seq(Dispatchers) /\ Len(evs) \in Nat /\ Ascending(evs)
  BY DEF Consistent
<1>2. \A k \in 1..Len(evs) : evs[k].id \in Nat /\ evs[k].id # 0
  <2> TAKE k \in 1..Len(evs)
  <2>1. evs[k] \in Dispatchers /\ evs[k].id >= 1
    BY <1>1, ElementOfSeq DEF Ascending
  <2> QED BY <2>1 DEF Dispatchers
<1>3. \A j, k \in 1..Len(evs) : evs[j].id = evs[k].id => j = k
  <2> TAKE j, k \in 1..Len(evs)
  <2>1. (j < k => evs[j].id < evs[k].id) /\ (k < j => evs[k].id < evs[j].id)
    BY <1>1 DEF Ascending
  <2> QED BY <1>2, <2>1
<1>4. ASSUME NEW h \in Owned(evs)
      PROVE  \E k \in 1..Len(evs) : h = HeadOf(evs[k]) /\ h.id = evs[k].id /\ evs[k].owner # NoOwner
  BY DEF Owned, OwnedAt, HeadOf
<1> QED BY <1>2, <1>3, <1>4

\* Agreement is about owned events only.
LEMMA KinAgrees ==
  ASSUME NEW evs, NEW new, NEW ne, Agrees(evs, ne), Kin(evs, new)
  PROVE  Agrees(new, ne)
BY DEF Agrees, Kin

WithTable(ne, n, t) == [ne EXCEPT ![n] = t]

\* The tables after a name has been added and after one has been taken off.
LEMMA EmplaceKept ==
  ASSUME NEW ne, NEW n \in DOMAIN ne, NEW name, name \notin DOMAIN ne[n], NEW id,
         NEW new, new = WithTable(ne, n, Emplace(ne[n], name, id))
  PROVE  /\ Kept(new) = Kept(ne) \cup {[id |-> id, name |-> name, owner |-> n]}
         /\ Entries(new) = Entries(ne) \cup {Entry(n, name)}
<1> DEFINE t == Emplace(ne[n], name, id)
<1>1. /\ DOMAIN t = DOMAIN ne[n] \cup {name} /\ t[name] = id
      /\ \A x \in DOMAIN ne[n] : t[x] = ne[n][x]
  BY DEF Emplace
<1> HIDE DEF t
<1>2. DOMAIN new = DOMAIN ne /\ new[n] = t /\ \A m \in DOMAIN ne : m # n => new[m] = ne[m]
  BY DEF t, WithTable
<1>3. \A h : h \in Kept(new) <=> h \in Kept(ne) \/ h = [id |-> id, name |-> name, owner |-> n]
  <2>1. \A h : h \in Kept(ne) \/ h = [id |-> id, name |-> name, owner |-> n] => h \in Kept(new)
    <3> TAKE h
    <3>1. ASSUME NEW m \in DOMAIN ne, NEW x \in DOMAIN ne[m],
                 h = [id |-> ne[m][x], name |-> x, owner |-> m]
          PROVE  h \in Kept(new)
      <4>1. x \in DOMAIN new[m] /\ new[m][x] = ne[m][x] /\ m \in DOMAIN new
        BY <1>1, <1>2
      <4> QED BY <3>1, <4>1 DEF Kept
    <3>2. ASSUME h = [id |-> id, name |-> name, owner |-> n] PROVE h \in Kept(new)
      <4>1. n \in DOMAIN new /\ name \in DOMAIN new[n] /\ new[n][name] = id
        BY <1>1, <1>2
      <4> QED BY <3>2, <4>1 DEF Kept
    <3> QED BY <3>1, <3>2 DEF Kept
  <2>2. \A h : h \in Kept(new) => h \in Kept(ne) \/ h = [id |-> id, name |-> name, owner |-> n]
    <3> TAKE h
    <3> HAVE h \in Kept(new)
    <3>1. PICK m \in DOMAIN new : \E x \in DOMAIN new[m] :
             h = [id |-> new[m][x], name |-> x, owner |-> m]
      BY DEF Kept
    <3>2. PICK x \in DOMAIN new[m] : h = [id |-> new[m][x], name |-> x, owner |-> m]
      BY <3>1
    <3>3. CASE m = n /\ x = name
      BY <1>1, <1>2, <3>2, <3>3
    <3>4. CASE ~(m = n /\ x = name)
      <4>1. m \in DOMAIN ne /\ x \in DOMAIN ne[m] /\ new[m][x] = ne[m][x]
        BY <1>1, <1>2, <3>4
      <4> QED BY <3>2, <4>1 DEF Kept
    <3> QED BY <3>3, <3>4
  <2> QED BY <2>1, <2>2
<1>4. \A m, x : m \in DOMAIN new /\ x \in DOMAIN new[m] <=>
                 (m \in DOMAIN ne /\ x \in DOMAIN ne[m]) \/ (m = n /\ x = name)
  BY <1>1, <1>2
<1>5. \A e : e \in Entries(new) <=> e \in Entries(ne) \/ e = Entry(n, name)
  BY <1>4 DEF Entries
<1> QED BY <1>3, <1>5

LEMMA RestrictKept ==
  ASSUME NEW ne, NEW n \in DOMAIN ne, NEW name \in DOMAIN ne[n],
         NEW new, new = WithTable(ne, n, Restrict(ne[n], DOMAIN ne[n] \ {name}))
  PROVE  /\ Kept(new) = {h \in Kept(ne) : ~(h.owner = n /\ h.name = name)}
         /\ Entries(new) = Entries(ne) \ {Entry(n, name)}
<1> DEFINE t == Restrict(ne[n], DOMAIN ne[n] \ {name})
<1>1. DOMAIN t = DOMAIN ne[n] \ {name} /\ \A x \in DOMAIN t : t[x] = ne[n][x]
  BY DEF Restrict
<1> HIDE DEF t
<1>2. DOMAIN new = DOMAIN ne /\ new[n] = t /\ \A m \in DOMAIN ne : m # n => new[m] = ne[m]
  BY DEF t, WithTable
<1> HIDE DEF t
<1>3. \A m, x : m \in DOMAIN new /\ x \in DOMAIN new[m] <=>
                 (m \in DOMAIN ne /\ x \in DOMAIN ne[m]) /\ ~(m = n /\ x = name)
  BY <1>1, <1>2
<1>4. \A m, x : m \in DOMAIN new /\ x \in DOMAIN new[m] => new[m][x] = ne[m][x]
  BY <1>1, <1>2
<1>5. \A h : h \in Kept(new) => h \in Kept(ne) /\ ~(h.owner = n /\ h.name = name)
  <2> TAKE h
  <2> HAVE h \in Kept(new)
  <2>1. PICK m \in DOMAIN new : \E x \in DOMAIN new[m] :
           h = [id |-> new[m][x], name |-> x, owner |-> m]
    BY DEF Kept
  <2>2. PICK x \in DOMAIN new[m] : h = [id |-> new[m][x], name |-> x, owner |-> m]
    BY <2>1
  <2>3. h.owner = m /\ h.name = x
    BY <2>2
  <2>4. m \in DOMAIN ne /\ x \in DOMAIN ne[m] /\ new[m][x] = ne[m][x] /\ ~(m = n /\ x = name)
    BY <1>3, <1>4
  <2>5. [id |-> ne[m][x], name |-> x, owner |-> m] \in Kept(ne)
    BY <2>4 DEF Kept
  <2> QED BY <2>2, <2>3, <2>4, <2>5
<1>6. \A h : h \in Kept(ne) /\ ~(h.owner = n /\ h.name = name) => h \in Kept(new)
  <2> TAKE h
  <2> HAVE h \in Kept(ne) /\ ~(h.owner = n /\ h.name = name)
  <2>1. PICK m \in DOMAIN ne : \E x \in DOMAIN ne[m] :
           h = [id |-> ne[m][x], name |-> x, owner |-> m]
    BY DEF Kept
  <2>2. PICK x \in DOMAIN ne[m] : h = [id |-> ne[m][x], name |-> x, owner |-> m]
    BY <2>1
  <2>3. h.owner = m /\ h.name = x
    BY <2>2
  <2>4. m \in DOMAIN ne /\ x \in DOMAIN ne[m] /\ ~(m = n /\ x = name)
    BY <2>3
  <2>5. m \in DOMAIN new /\ x \in DOMAIN new[m]
    BY <1>3, <2>4
  <2>6. new[m][x] = ne[m][x]
    BY <1>4, <2>5
  <2>7. [id |-> new[m][x], name |-> x, owner |-> m] \in Kept(new)
    BY <2>5 DEF Kept
  <2> QED BY <2>2, <2>6, <2>7
<1>7. \A e : e \in Entries(new) <=> e \in Entries(ne) /\ e # Entry(n, name)
  <2> TAKE e
  <2>1. ASSUME NEW m, NEW x, e = Entry(m, x)
        PROVE  e \in Entries(new) <=> e \in Entries(ne) /\ e # Entry(n, name)
    <3>1. e = Entry(n, name) <=> m = n /\ x = name
      <4>1. Entry(m, x) = Entry(n, name) => m = n /\ x = name
        <5> HAVE Entry(m, x) = Entry(n, name)
        <5>1. Entry(m, x).node = Entry(n, name).node /\ Entry(m, x).name = Entry(n, name).name
          OBVIOUS
        <5> QED BY <5>1 DEF Entry
      <4> QED BY <2>1, <4>1
    <3>2. /\ Entry(m, x) \in Entries(new) <=> m \in DOMAIN new /\ x \in DOMAIN new[m]
          /\ Entry(m, x) \in Entries(ne) <=> m \in DOMAIN ne /\ x \in DOMAIN ne[m]
      BY EntryFacts
    <3> QED BY <1>3, <2>1, <3>1, <3>2
  <2>2. e \in Entries(new) \/ e \in Entries(ne) => \E m, x : e = Entry(m, x)
    BY DEF Entries
  <2> QED BY <2>1, <2>2
<1> QED BY <1>5, <1>6, <1>7

\* The scheduler and the tables, before a command and with it.
Sane == Inv /\ TablesOK(nodeEvents) /\ Agrees(events, nodeEvents)

\* The registration that a command does is not refused.
LEMMA RegisterTurn ==
  ASSUME Sane, NEW node \in Owners \ {NoOwner}, NEW name \in Names, NEW parent \in Parents,
         Entry(node, name) \notin Entries(nodeEvents),
         EventRedoIt(node, name, parent, FALSE)
  PROVE  /\ Agrees(events', nodeEvents')
         /\ Entries(nodeEvents') = Entries(nodeEvents) \cup {Entry(node, name)}
<1> DEFINE I == InTheWay(events, name, node, parent)
           id == RegisteredId(events, name, node, parent)
<1>1. /\ Consistent(events) /\ events \in Seq(Dispatchers) /\ Ascending(events)
      /\ Len(events) \in Nat
      /\ UnknownFree(events) /\ Owned(events) = Kept(nodeEvents)
  BY DEF Sane, Inv, Consistent, Agrees
<1>2. id # 0
  <2>1. CASE I = {}
    <3>1. UnusedId(events) \in 1..Len(events)+1
      BY <1>1, UnusedIdFacts
    <3> QED BY <1>1, <2>1, <3>1 DEF RegisteredId
  <2>2. CASE I # {}
    <3> DEFINE i == Min(I)
    <3>1. i \in I
      <4>1. I \in SUBSET Nat
        BY DEF InTheWay
      <4> HIDE DEF I
      <4> QED BY <2>2, <4>1, MinNat
    <3> HIDE DEF i
    <3>2. i \in 1..Len(events) /\ events[i].name = name
      BY <3>1 DEF InTheWay
    <3>3. events[i].type = UnknownType
      <4> SUFFICES ASSUME events[i].type # UnknownType PROVE FALSE
        OBVIOUS
      <4>1. events[i].owner = node
        BY <3>1 DEF InTheWay
      <4>2. HeadOf(events[i]) \in Kept(nodeEvents)
        BY <1>1, <3>2, <4>1 DEF Owned, OwnedAt
      <4>3. PICK n \in DOMAIN nodeEvents : \E x \in DOMAIN nodeEvents[n] :
               HeadOf(events[i]) = [id |-> nodeEvents[n][x], name |-> x, owner |-> n]
        BY <4>2 DEF Kept
      <4>4. PICK x \in DOMAIN nodeEvents[n] :
               HeadOf(events[i]) = [id |-> nodeEvents[n][x], name |-> x, owner |-> n]
        BY <4>3
      <4>5. n = node /\ x = name
        BY <3>2, <4>1, <4>4 DEF HeadOf
      <4> QED BY <4>5, EntryFacts
    <3>4. events[i].id >= 1 /\ events[i].id \in Nat
      <4>1. events[i] \in Dispatchers
        BY <1>1, <3>2, ElementOfSeq
      <4> QED BY <1>1, <3>2, <4>1 DEF Ascending, Dispatchers
    <3> QED BY <2>2, <3>3, <3>4 DEF RegisteredId, i
  <2> QED BY <2>1, <2>2
<1>3. NodeRegisterEvent(node, name, UserType, parent)
  BY <1>2 DEF EventRedoIt
<1>4. /\ events' = AfterRegisterEvent(events, name, UserType, node, parent)
      /\ node \in DOMAIN nodeEvents
      /\ nodeEvents' = [nodeEvents EXCEPT ![node] = Emplace(nodeEvents[node], name, id)]
  BY <1>3 DEF NodeRegisterEvent, RegisterEvent
<1>5. UserType \in EventTypes \ {UnknownType} /\ node \in Owners /\ parent \in CallbackIds
  BY ParentAssumption DEF EventTypes, UserType, UnknownType
<1>6. /\ Owned(events') = Owned(events) \cup
           (IF node # NoOwner THEN {[id |-> id, name |-> name, owner |-> node]} ELSE {})
      /\ UnknownFree(events')
  BY <1>1, <1>2, <1>4, <1>5, RegisterOwned
<1>7. name \notin DOMAIN nodeEvents[node]
  BY <1>4, EntryFacts
<1> HIDE DEF id
<1>8. /\ Kept(nodeEvents') = Kept(nodeEvents) \cup {[id |-> id, name |-> name, owner |-> node]}
      /\ Entries(nodeEvents') = Entries(nodeEvents) \cup {Entry(node, name)}
  <2>1. nodeEvents' = WithTable(nodeEvents, node, Emplace(nodeEvents[node], name, id))
    BY <1>4 DEF WithTable
  <2>2. node \in DOMAIN nodeEvents
    BY <1>4
  <2>3. Kept(nodeEvents') = Kept(nodeEvents) \cup {[id |-> id, name |-> name, owner |-> node]}
    BY <1>7, <2>1, <2>2, EmplaceKept
  <2>4. Entries(nodeEvents') = Entries(nodeEvents) \cup {Entry(node, name)}
    BY <1>7, <2>1, <2>2, EmplaceKept
  <2> QED BY <2>3, <2>4
<1> QED BY <1>1, <1>6, <1>8 DEF Agrees

\* While freed memory reads as it was, the event of the entry goes with it.
LEMMA UnregisterTurn ==
  ASSUME Sane, FreedReads = {}, NEW node \in Owners \ {NoOwner}, NEW name, NEW parent,
         Entry(node, name) \in Entries(nodeEvents),
         EventRedoIt(node, name, parent, TRUE)
  PROVE  /\ Agrees(events', nodeEvents')
         /\ Entries(nodeEvents') = Entries(nodeEvents) \ {Entry(node, name)}
<1> DEFINE id == nodeEvents[node][name]
           h0 == [id |-> id, name |-> name, owner |-> node]
<1>1. Consistent(events) /\ UnknownFree(events) /\ Owned(events) = Kept(nodeEvents)
  BY DEF Sane, Inv, Agrees
<1>2. node \in DOMAIN nodeEvents /\ name \in DOMAIN nodeEvents[node]
  BY EntryFacts
<1>3. NodeUnregisterEvent(node, name)
  BY <1>2 DEF EventRedoIt
<1>4. /\ events' = EventsWithout(id, events)
      /\ nodeEvents' = [nodeEvents EXCEPT ![node] =
                          Restrict(nodeEvents[node], DOMAIN nodeEvents[node] \ {name})]
  BY <1>3 DEF NodeUnregisterEvent
<1>5. /\ Owned(events') = {h \in Owned(events) : h.id # id}
      /\ UnknownFree(events')
  BY <1>1, <1>4, WithoutConsistent
<1>6. h0 \in Owned(events)
  BY <1>1, <1>2 DEF Kept
<1>7. /\ Kept(nodeEvents') = {h \in Kept(nodeEvents) : ~(h.owner = node /\ h.name = name)}
      /\ Entries(nodeEvents') = Entries(nodeEvents) \ {Entry(node, name)}
  <2>1. nodeEvents' = WithTable(nodeEvents, node,
                                Restrict(nodeEvents[node], DOMAIN nodeEvents[node] \ {name}))
    BY <1>4 DEF WithTable
  <2> QED BY <1>2, <2>1, RestrictKept
<1>8. ASSUME NEW h \in Owned(events) PROVE h.id = id <=> h.owner = node /\ h.name = name
  <2>1. ASSUME h.id = id PROVE h.owner = node /\ h.name = name
    <3>1. h = h0
      BY <1>1, <1>6, <2>1, OwnedUnique
    <3> QED BY <3>1
  <2>2. ASSUME h.owner = node, h.name = name PROVE h.id = id
    <3>1. PICK n \in DOMAIN nodeEvents : \E x \in DOMAIN nodeEvents[n] :
             h = [id |-> nodeEvents[n][x], name |-> x, owner |-> n]
      BY <1>1 DEF Kept
    <3>2. PICK x \in DOMAIN nodeEvents[n] :
             h = [id |-> nodeEvents[n][x], name |-> x, owner |-> n]
      BY <3>1
    <3> QED BY <2>2, <3>2
  <2> QED BY <2>1, <2>2
<1> QED BY <1>1, <1>5, <1>7, <1>8 DEF Agrees

\* An event that belongs to nobody is registered and unregistered beside them.
LEMMA FreeTurn ==
  ASSUME Sane, NEW name \in Names, NEW parent \in Parents, NEW deleting,
         EventRedoIt(NoOwner, name, parent, deleting)
  PROVE  Agrees(events', nodeEvents') /\ nodeEvents' = nodeEvents
<1>1. /\ Consistent(events) /\ UnknownFree(events) /\ Owned(events) = Kept(nodeEvents)
      /\ nodeEvents' = nodeEvents
  BY DEF Sane, Inv, Agrees, EventRedoIt
<1>2. CASE UnregisterNamedEvent(name)
  <2> DEFINE P == Unowned(events, name)
             i == Min(P)
  <2>1. P \in SUBSET Nat /\ P # {}
    BY <1>2 DEF Unowned, UnregisterNamedEvent
  <2>2. i \in P
    <3> HIDE DEF P
    <3> QED BY <2>1, MinNat
  <2>3. i \in 1..Len(events) /\ events[i].owner = NoOwner
    BY <2>2 DEF Unowned
  <2>4. events' = RemoveAt(events, i)
    BY <1>2 DEF UnregisterNamedEvent
  <2> HIDE DEF i
  <2>5. Owned(events') = {h \in Owned(events) : h.id # events[i].id} /\ UnknownFree(events')
    BY <1>1, <2>3, <2>4, RemovedOwned
  <2>6. \A h \in Owned(events) : h.id # events[i].id
    BY <1>1, <2>3, OwnedUnique
  <2> QED BY <1>1, <2>5, <2>6 DEF Agrees
<1>3. CASE RegisterEvent(name, UserType, NoOwner, parent)
  <2>1. /\ events' = AfterRegisterEvent(events, name, UserType, NoOwner, parent)
        /\ RegisteredId(events, name, NoOwner, parent) # 0
    BY <1>3 DEF RegisterEvent
  <2>2. UserType \in EventTypes \ {UnknownType} /\ NoOwner \in Owners /\ parent \in CallbackIds
    BY ParentAssumption, OwnerAssumption DEF EventTypes, UserType, UnknownType
  <2>3. /\ Owned(events') = Owned(events) \cup
             (IF NoOwner # NoOwner
              THEN {[id |-> RegisteredId(events, name, NoOwner, parent), name |-> name,
                     owner |-> NoOwner]}
              ELSE {})
        /\ UnknownFree(events')
    BY <1>1, <2>1, <2>2, RegisterOwned
  <2> QED BY <1>1, <2>3 DEF Agrees
<1>4. CASE UNCHANGED vars
  BY <1>1, <1>4 DEF vars, Agrees
<1> QED BY <1>2, <1>3, <1>4 DEF EventRedoIt

\* What the tables hold after an event command has run.
Turned(node, name, deleting, before) ==
  IF node = NoOwner THEN before
  ELSE IF deleting THEN before \ {Entry(node, name)} ELSE before \cup {Entry(node, name)}

\* An event command that turns what is on the tables keeps the agreement.
LEMMA EventTurn ==
  ASSUME Sane, FreedReads = {}, NEW node \in Owners, NEW name \in Names, NEW parent \in Parents,
         NEW deleting \in BOOLEAN,
         node # NoOwner => (deleting <=> Entry(node, name) \in Entries(nodeEvents)),
         EventRedoIt(node, name, parent, deleting)
  PROVE  /\ Agrees(events', nodeEvents')
         /\ Entries(nodeEvents') = Turned(node, name, deleting, Entries(nodeEvents))
<1>1. CASE node = NoOwner
  BY <1>1, FreeTurn DEF Turned
<1>2. CASE node # NoOwner /\ deleting
  <2>1. deleting = TRUE
    BY <1>2
  <2>2. EventRedoIt(node, name, parent, TRUE)
    BY <2>1
  <2> QED BY <1>2, <2>2, UnregisterTurn DEF Turned
<1>3. CASE node # NoOwner /\ ~deleting
  <2>1. deleting = FALSE
    BY <1>3
  <2>2. EventRedoIt(node, name, parent, FALSE)
    BY <2>1
  <2> QED BY <1>3, <2>2, RegisterTurn DEF Turned
<1> QED BY <1>1, <1>2, <1>3

-----------------------------------------------------------------------------
(***************************************************************************)
(* The history.                                                            *)
(***************************************************************************)
\* A history goes on with the command that is pushed.
LEMMA PushHistory ==
  ASSUME QueueOK(queue, done), NEW H, History(H, queue, done), NEW cmd \in Commands, Push(cmd),
         NEW E \in SUBSET [node : Nodes, name : Names], Turn(cmd, H[done], E, TRUE)
  PROVE  \E G : History(G, queue', done') /\ G[done'] = E
<1> DEFINE G == [j \in 0..done+1 |-> IF j <= done THEN H[j] ELSE E]
<1>1. done \in 0..Len(queue) /\ Len(queue) \in Nat
  BY DEF QueueOK
<1>2. /\ done' = done + 1 /\ Len(queue') = done + 1 /\ queue'[done + 1] = cmd
      /\ \A k \in 1..done : queue'[k] = queue[k]
  BY PushOK
<1>3. H \in [0..Len(queue) -> SUBSET [node : Nodes, name : Names]]
  BY DEF History
<1>4. G \in [0..Len(queue') -> SUBSET [node : Nodes, name : Names]]
  BY <1>1, <1>2, <1>3
<1>5. G[done+1] = E /\ \A j \in 0..done : G[j] = H[j]
  BY <1>1
<1> HIDE DEF G
<1>6. ASSUME NEW j \in 1..Len(queue') PROVE Turn(queue'[j], G[j-1], G[j], j <= done')
  <2>1. CASE j = done + 1
    <3>1. G[j-1] = H[done] /\ G[j] = E /\ queue'[j] = cmd /\ (j <= done') = TRUE
      BY <1>1, <1>2, <1>5, <2>1
    <3> QED BY <3>1
  <2>2. CASE j # done + 1
    <3>1. j \in 1..done
      BY <1>1, <1>2, <2>2
    <3>2. G[j-1] = H[j-1] /\ G[j] = H[j] /\ queue'[j] = queue[j]
      BY <1>1, <1>2, <1>5, <3>1
    <3>3. (j <= done') = (j <= done)
      BY <1>1, <1>2, <3>1
    <3>4. Turn(queue[j], H[j-1], H[j], j <= done)
      BY <1>1, <3>1 DEF History
    <3> QED BY <3>2, <3>3, <3>4
  <2> QED BY <2>1, <2>2
<1>7. History(G, queue', done')
  BY <1>4, <1>6 DEF History
<1> QED BY <1>2, <1>5, <1>7

\* Undoing or redoing the command at k, which is next, keeps the history: what is
\* on the tables is what was there on the other side of it.
LEMMA RerunHistory ==
  ASSUME AgreeInv, FreedReads = {}, NEW k \in 1..Len(queue), Rerun(k),
         NEW H, History(H, queue, done), H[done] = Entries(nodeEvents),
         (k = done /\ done' = done - 1) \/ (k = done + 1 /\ done' = done + 1)
  PROVE  /\ Agrees(events', nodeEvents')
         /\ History(H, queue', done') /\ H[done'] = Entries(nodeEvents')
<1> DEFINE isDone == k <= done
           prior == H[k-1]
           next == H[k]
           c == queue[k]
<1>1. /\ queue \in Seq(Commands) /\ done \in 0..Len(queue) /\ Len(queue) \in Nat
      /\ Sane /\ Agrees(events, nodeEvents)
  BY DEF AgreeInv, ClientsInv, QueueOK, Sane
<1>2. /\ queue' \in Seq(Commands) /\ Len(queue') = Len(queue)
      /\ \A j \in 1..Len(queue) : j # k => queue'[j] = queue[j]
      /\ \/ /\ c \in ListCommands /\ queue'[k] \in ListCommands
            /\ SameHeads(events, events') /\ UNCHANGED nodeEvents
         \/ /\ c \in EventCommands
            /\ queue'[k] = [c EXCEPT !.deleting = ~@]
            /\ EventRedoIt(c.node, c.name, c.parent, c.deleting)
  BY RerunInv DEF AgreeInv
<1>3. /\ isDone \in BOOLEAN
      /\ Entries(nodeEvents) = IF isDone THEN next ELSE prior
      /\ H[done'] = IF isDone THEN prior ELSE next
      /\ (k <= done') = ~isDone
  <2>1. CASE k = done /\ done' = done - 1
    BY <1>1, <2>1
  <2>2. CASE k = done + 1 /\ done' = done + 1
    <3>1. k - 1 = done
      BY <1>1, <2>2
    <3> QED BY <1>1, <2>2, <3>1
  <2> QED BY <2>1, <2>2
<1>4. \A j \in 1..Len(queue) : j # k => ((j <= done') = (j <= done))
  BY <1>1
<1>5. Turn(c, prior, next, isDone)
  BY DEF History
<1>6. /\ Agrees(events', nodeEvents')
      /\ H[done'] = Entries(nodeEvents')
      /\ Turn(queue'[k], prior, next, ~isDone)
  <2>1. CASE /\ c \in ListCommands /\ queue'[k] \in ListCommands
             /\ SameHeads(events, events') /\ UNCHANGED nodeEvents
    <3>1. c.kind = "callback" /\ queue'[k].kind = "callback"
      BY <2>1 DEF ListCommands
    <3>2. next = prior
      BY <1>5, <3>1 DEF Turn
    <3>3. Turn(queue'[k], prior, next, ~isDone)
      BY <3>1, <3>2 DEF Turn
    <3>4. Agrees(events', nodeEvents')
      BY <1>1, <2>1, HeadsKin, KinAgrees
    <3> QED BY <1>3, <2>1, <3>2, <3>3, <3>4
  <2>2. CASE /\ c \in EventCommands
             /\ queue'[k] = [c EXCEPT !.deleting = ~@]
             /\ EventRedoIt(c.node, c.name, c.parent, c.deleting)
    <3> DEFINE new == queue'[k]
               e == Entry(c.node, c.name)
    <3>1. /\ c.kind = "event" /\ c.node \in Owners /\ c.name \in Names /\ c.parent \in Parents
          /\ c.deleting \in BOOLEAN
      BY <2>2 DEF EventCommands
    <3>2. /\ new.kind = "event" /\ new.node = c.node /\ new.name = c.name
          /\ new.deleting = ~c.deleting
      BY <2>2 DEF EventCommands
    <3> HIDE DEF c, new, isDone, prior, next, e
    <3>3. c.node # NoOwner =>
             IF c.deleting = isDone
             THEN e \notin prior /\ next = prior \cup {e}
             ELSE e \in prior /\ next = prior \ {e}
      BY <1>5, <3>1 DEF Turn, e
    <3>4. c.node = NoOwner => next = prior
      BY <1>5 DEF Turn
    <3>5. c.node # NoOwner => (c.deleting <=> e \in Entries(nodeEvents))
      BY <1>3, <3>1, <3>3
    <3>6. /\ Agrees(events', nodeEvents')
          /\ Entries(nodeEvents') = Turned(c.node, c.name, c.deleting, Entries(nodeEvents))
      BY <1>1, <2>2, <3>1, <3>5, EventTurn DEF e
    <3>7. Entries(nodeEvents') = IF isDone THEN prior ELSE next
      <4>1. CASE c.node = NoOwner
        BY <1>3, <3>4, <3>6, <4>1 DEF Turned
      <4>2. CASE c.node # NoOwner
        <5>1. Entries(nodeEvents') = IF c.deleting THEN Entries(nodeEvents) \ {e}
                                     ELSE Entries(nodeEvents) \cup {e}
          BY <3>6, <4>2 DEF Turned, e
        <5> QED BY <1>3, <3>1, <3>3, <4>2, <5>1
      <4> QED BY <4>1, <4>2
    <3>8. Turn(new, prior, next, ~isDone)
      <4>1. new.deleting = ~isDone <=> c.deleting = isDone
        BY <1>3, <3>1, <3>2
      <4> QED BY <3>2, <3>3, <3>4, <4>1 DEF Turn, e
    <3> QED BY <1>3, <3>6, <3>7, <3>8 DEF new
  <2> QED BY <1>2, <2>1, <2>2
<1>7. ASSUME NEW j \in 1..Len(queue') PROVE Turn(queue'[j], H[j-1], H[j], j <= done')
  <2>1. CASE j = k
    <3>1. (j <= done') = ~isDone
      BY <1>3, <2>1
    <3> QED BY <1>6, <2>1, <3>1
  <2>2. CASE j # k
    <3>1. queue'[j] = queue[j] /\ ((j <= done') = (j <= done)) /\ j \in 1..Len(queue)
      BY <1>2, <1>4, <2>2
    <3>2. Turn(queue[j], H[j-1], H[j], j <= done)
      BY <3>1 DEF History
    <3> QED BY <3>1, <3>2
  <2> QED BY <2>1, <2>2
<1>8. History(H, queue', done')
  BY <1>2, <1>7 DEF History
<1> QED BY <1>6, <1>8

\* A node goes with its table and its events.
LEMMA DestroyAgrees ==
  ASSUME Sane, NEW n, NodeDestroyed(n)
  PROVE  Agrees(events', nodeEvents')
<1>1. /\ Consistent(events) /\ UnknownFree(events) /\ Owned(events) = Kept(nodeEvents)
      /\ n \in DOMAIN nodeEvents
      /\ nodeEvents' = Restrict(nodeEvents, DOMAIN nodeEvents \ {n})
  BY DEF Sane, Inv, Agrees, NodeDestroyed
<1>2. /\ Owned(events') = {h \in Owned(events) : h.id \notin OwnIds(n)}
      /\ UnknownFree(events')
  BY <1>1, DestroyInv DEF Sane, Trimmed
<1>3. /\ DOMAIN nodeEvents' = DOMAIN nodeEvents \ {n}
      /\ \A m \in DOMAIN nodeEvents' : nodeEvents'[m] = nodeEvents[m]
  BY <1>1 DEF Restrict
<1>4. \A h : h \in Kept(nodeEvents') <=> h \in Kept(nodeEvents) /\ h.owner # n
  <2> TAKE h
  <2>1. ASSUME h \in Kept(nodeEvents') PROVE h \in Kept(nodeEvents) /\ h.owner # n
    BY <1>3, <2>1 DEF Kept
  <2>2. ASSUME h \in Kept(nodeEvents), h.owner # n PROVE h \in Kept(nodeEvents')
    <3>1. PICK m \in DOMAIN nodeEvents : \E x \in DOMAIN nodeEvents[m] :
             h = [id |-> nodeEvents[m][x], name |-> x, owner |-> m]
      BY <2>2 DEF Kept
    <3>2. m # n
      BY <2>2, <3>1
    <3>3. m \in DOMAIN nodeEvents' /\ nodeEvents'[m] = nodeEvents[m]
      BY <1>3, <3>2
    <3> QED BY <3>1, <3>3 DEF Kept
  <2> QED BY <2>1, <2>2
<1>5. ASSUME NEW h \in Kept(nodeEvents) PROVE h.id \in OwnIds(n) <=> h.owner = n
  <2>1. PICK m \in DOMAIN nodeEvents : \E x \in DOMAIN nodeEvents[m] :
           h = [id |-> nodeEvents[m][x], name |-> x, owner |-> m]
    BY DEF Kept
  <2>2. PICK x \in DOMAIN nodeEvents[m] : h = [id |-> nodeEvents[m][x], name |-> x, owner |-> m]
    BY <2>1
  <2>3. ASSUME h.owner = n PROVE h.id \in OwnIds(n)
    BY <2>2, <2>3 DEF OwnIds
  <2>4. ASSUME h.id \in OwnIds(n) PROVE h.owner = n
    <3>1. PICK y \in DOMAIN nodeEvents[n] : h.id = nodeEvents[n][y]
      BY <2>4 DEF OwnIds
    <3> DEFINE g == [id |-> nodeEvents[n][y], name |-> y, owner |-> n]
    <3>2. g \in Kept(nodeEvents)
      BY <1>1 DEF Kept
    <3>3. h = g
      BY <1>1, <3>1, <3>2, OwnedUnique
    <3> QED BY <3>3
  <2> QED BY <2>3, <2>4
<1> QED BY <1>1, <1>2, <1>4, <1>5 DEF Agrees

\* A new command is pushed with what it did to the tables.
LEMMA PushAgrees ==
  ASSUME AgreeInv, NEW cmd \in Commands, Push(cmd), TablesOK(nodeEvents'),
         Turn(cmd, Entries(nodeEvents), Entries(nodeEvents'), TRUE)
  PROVE  \E G : History(G, queue', done') /\ G[done'] = Entries(nodeEvents')
<1>1. PICK H : History(H, queue, done) /\ H[done] = Entries(nodeEvents)
  BY DEF AgreeInv
<1>2. Entries(nodeEvents') \in SUBSET [node : Nodes, name : Names]
  BY EntriesType
<1>3. QueueOK(queue, done)
  BY DEF AgreeInv, ClientsInv
<1>4. Turn(cmd, H[done], Entries(nodeEvents'), TRUE)
  BY <1>1
<1> HIDE DEF Push
<1> QED BY <1>1, <1>2, <1>3, <1>4, PushHistory

\* Callback commands change nothing of it.
LEMMA ListAgrees ==
  ASSUME AgreeInv, NEW cmd \in ListCommands, Push(cmd), Kin(events, events'),
         UNCHANGED nodeEvents, ClientsInv'
  PROVE  AgreeInv'
<1>1. cmd.kind = "callback" /\ cmd \in Commands
  BY DEF ListCommands, Commands
<1>2. Turn(cmd, Entries(nodeEvents), Entries(nodeEvents'), TRUE)
  BY <1>1 DEF Turn
<1>3. TablesOK(nodeEvents')
  BY DEF ClientsInv
<1>4. \E G : History(G, queue', done') /\ G[done'] = Entries(nodeEvents')
  BY <1>1, <1>2, <1>3, PushAgrees
<1>5. Agrees(events', nodeEvents')
  BY KinAgrees DEF AgreeInv
<1> QED BY <1>4, <1>5 DEF AgreeInv

\* doIt registers what is not on the table and unregisters what is.
LEMMA EventDoItAgrees ==
  ASSUME AgreeInv, FreedReads = {}, NEW args \in EventArgs,
         EventDoIt(args.node, args.name, args.parent, args.deleting)
  PROVE  AgreeInv'
<1> DEFINE node == args.node
           e == Entry(args.node, args.name)
<1>1. ClientsInv /\ Sane
  BY DEF AgreeInv, ClientsInv, Sane
<1>2. /\ ClientsInv'
      /\ args.node \in Owners /\ args.name \in Names /\ args.parent \in Parents
      /\ args.deleting \in BOOLEAN
      /\ \E b, a \in Stores :
           Push([kind |-> "event", node |-> args.node, name |-> args.name,
                 parent |-> args.parent, deleting |-> ~args.deleting,
                 before |-> b, after |-> a])
  BY <1>1, EventDoItInv
<1>3. PICK b \in Stores, a \in Stores :
         Push([kind |-> "event", node |-> args.node, name |-> args.name,
               parent |-> args.parent, deleting |-> ~args.deleting,
               before |-> b, after |-> a])
  BY <1>2
<1> DEFINE cmd == [kind |-> "event", node |-> args.node, name |-> args.name,
                   parent |-> args.parent, deleting |-> ~args.deleting,
                   before |-> b, after |-> a]
<1>4. /\ cmd \in Commands /\ Push(cmd)
      /\ cmd.kind = "event" /\ cmd.node = args.node /\ cmd.name = args.name
      /\ cmd.deleting = ~args.deleting
  BY <1>2, <1>3 DEF Commands, EventCommands
<1> HIDE DEF cmd
<1>5. args.node # NoOwner => (args.deleting <=> e \in Entries(nodeEvents))
  <2> HAVE args.node # NoOwner
  <2>1. args.node \in DOMAIN nodeEvents
        /\ (args.deleting <=> IdOnNode(args.node, args.name) # 0)
    BY DEF EventDoIt
  <2>2. e \in Entries(nodeEvents) <=> args.name \in DOMAIN nodeEvents[args.node]
    BY <2>1, EntryFacts
  <2>3. args.name \in DOMAIN nodeEvents[args.node] => nodeEvents[args.node][args.name] # 0
    <3> HAVE args.name \in DOMAIN nodeEvents[args.node]
    <3> DEFINE h == [id |-> nodeEvents[args.node][args.name], name |-> args.name,
                     owner |-> args.node]
    <3>1. h \in Kept(nodeEvents)
      BY <2>1 DEF Kept
    <3>2. h \in Owned(events) /\ Consistent(events)
      BY <3>1, <1>1 DEF Sane, Inv, Agrees
    <3>3. h.id # 0
      BY <3>2, OwnedUnique
    <3> QED BY <3>3
  <2> QED BY <2>1, <2>2, <2>3 DEF IdOnNode
<1>6. EventRedoIt(args.node, args.name, args.parent, args.deleting)
  BY DEF EventDoIt
<1>7. /\ Agrees(events', nodeEvents')
      /\ Entries(nodeEvents') =
           Turned(args.node, args.name, args.deleting, Entries(nodeEvents))
  BY <1>1, <1>2, <1>5, <1>6, EventTurn
<1>8. Turn(cmd, Entries(nodeEvents), Entries(nodeEvents'), TRUE)
  <2>1. CASE args.node = NoOwner
    BY <1>4, <1>7, <2>1 DEF Turn, Turned
  <2>2. CASE args.node # NoOwner /\ args.deleting
    <3>1. ~(cmd.deleting = TRUE) /\ e \in Entries(nodeEvents)
      BY <1>4, <1>5, <2>2
    <3>2. Entries(nodeEvents') = Entries(nodeEvents) \ {e}
      BY <1>7, <2>2 DEF Turned
    <3> QED BY <1>4, <2>2, <3>1, <3>2 DEF Turn
  <2>3. CASE args.node # NoOwner /\ ~args.deleting
    <3>1. cmd.deleting = TRUE /\ e \notin Entries(nodeEvents)
      BY <1>4, <1>5, <2>3
    <3>2. Entries(nodeEvents') = Entries(nodeEvents) \cup {e}
      BY <1>7, <2>3 DEF Turned
    <3> QED BY <1>4, <2>3, <3>1, <3>2 DEF Turn
  <2> QED BY <2>1, <2>2, <2>3
<1>9. TablesOK(nodeEvents')
  BY <1>2 DEF ClientsInv
<1>10. \E G : History(G, queue', done') /\ G[done'] = Entries(nodeEvents')
  BY <1>4, <1>8, <1>9, PushAgrees
<1> QED BY <1>2, <1>7, <1>10 DEF AgreeInv

\* Every step preserves the agreement.
LEMMA AgreeNext ==
  ASSUME FreedReads = {}
  PROVE  AgreeInv /\ [CommandNext]_commandVars => AgreeInv'
<1> SUFFICES ASSUME AgreeInv, [CommandNext]_commandVars PROVE AgreeInv'
  OBVIOUS
<1>0. /\ ClientsInv /\ Sane /\ ClientsInv'
      /\ queue \in Seq(Commands) /\ done \in 0..Len(queue) /\ Len(queue) \in Nat
  BY ClientsNext DEF AgreeInv, ClientsInv, QueueOK, Sane
<1>1. ASSUME NEW args \in CommandArgs, CallbackDoIt(args) PROVE AgreeInv'
  <2>1. PICK cmd \in ListCommands : Push(cmd)
    BY <1>0, <1>1, CallbackDoItInv
  <2>2. Kin(events, events') /\ UNCHANGED nodeEvents
    BY <1>0, <1>1, CallbackDoItInv
  <2> QED BY <1>0, <2>1, <2>2, ListAgrees
<1>2. ASSUME NEW id \in StoredIds, DeleteCallbacksDoIt(<<id>>) PROVE AgreeInv'
  <2>1. PICK cmd \in ListCommands : Push(cmd)
    BY <1>0, <1>2, DeleteInv
  <2>2. Kin(events, events') /\ UNCHANGED nodeEvents
    BY <1>0, <1>2, DeleteInv
  <2> QED BY <1>0, <2>1, <2>2, ListAgrees
<1>3. ASSUME NEW args \in EventArgs,
             EventDoIt(args.node, args.name, args.parent, args.deleting)
      PROVE  AgreeInv'
  BY <1>3, EventDoItAgrees
<1>4. PICK H : History(H, queue, done) /\ H[done] = Entries(nodeEvents)
  BY DEF AgreeInv
<1>5. CASE UndoIt
  <2>1. done \in 1..Len(queue) /\ Rerun(done) /\ done' = done - 1
    BY <1>0, <1>5 DEF UndoIt
  <2>2. /\ Agrees(events', nodeEvents')
        /\ History(H, queue', done') /\ H[done'] = Entries(nodeEvents')
    <3>1. (done = done /\ done' = done - 1) \/ (done = done + 1 /\ done' = done + 1)
      BY <2>1
    <3> QED BY <1>4, <2>1, <3>1, RerunHistory
  <2> QED BY <1>0, <2>2 DEF AgreeInv
<1>6. CASE RedoIt
  <2>1. done+1 \in 1..Len(queue) /\ Rerun(done+1) /\ done' = done + 1
    BY <1>0, <1>6 DEF RedoIt
  <2>2. /\ Agrees(events', nodeEvents')
        /\ History(H, queue', done') /\ H[done'] = Entries(nodeEvents')
    BY <1>4, <2>1, RerunHistory
  <2> QED BY <1>0, <2>2 DEF AgreeInv
<1>7. ASSUME NEW n \in Nodes, DestroyNode(n) PROVE AgreeInv'
  <2>1. Agrees(events', nodeEvents') /\ queue' = << >> /\ done' = 0
    BY <1>0, <1>7, DestroyAgrees DEF DestroyNode
  <2> DEFINE G == [j \in 0..0 |-> Entries(nodeEvents')]
  <2>2. Entries(nodeEvents') \in SUBSET [node : Nodes, name : Names]
    BY <1>0, EntriesType DEF ClientsInv
  <2>3. G \in [0..Len(queue') -> SUBSET [node : Nodes, name : Names]]
    BY <2>1, <2>2
  <2>4. History(G, queue', done') /\ G[done'] = Entries(nodeEvents')
    BY <2>1, <2>3 DEF History
  <2> QED BY <1>0, <2>1, <2>4 DEF AgreeInv
<1>8. CASE UNCHANGED commandVars
  BY <1>0, <1>4, <1>8 DEF commandVars, nodeVars, vars, AgreeInv
<1> QED BY <1>1, <1>2, <1>3, <1>5, <1>6, <1>7, <1>8 DEF CommandNext

\* No node has an event at first.
LEMMA AgreeInit == CommandInit => AgreeInv
<1> SUFFICES ASSUME CommandInit PROVE AgreeInv
  OBVIOUS
<1>1. ClientsInv
  BY ClientsInit
<1>2. /\ events = [i \in 1..Len(MayaNames) |->
                     NewEvent(i, MayaNames[i], MayaType, NoOwner, InvalidId)]
      /\ nodeEvents = [n \in Nodes |-> << >>] /\ queue = << >> /\ done = 0
  BY DEF CommandInit, NodeInit, Init
<1>3. Len(MayaNames) \in Nat
  BY MayaNamesAssumption
<1>4. \A k \in 1..Len(events) : events[k].owner = NoOwner
  BY <1>2, <1>3 DEF NewEvent
<1>5. Owned(events) = {} /\ UnknownFree(events)
  BY <1>4 DEF Owned, OwnedAt, UnknownFree
<1>6. \A n \in DOMAIN nodeEvents : DOMAIN nodeEvents[n] = {}
  BY <1>2
<1>7. Kept(nodeEvents) = {} /\ Entries(nodeEvents) = {}
  BY <1>6 DEF Kept, Entries
<1> DEFINE G == [j \in 0..0 |-> {}]
<1>8. History(G, queue, done) /\ G[done] = Entries(nodeEvents)
  BY <1>2, <1>7 DEF History
<1> HIDE DEF G
<1> QED BY <1>1, <1>5, <1>7, <1>8 DEF AgreeInv, Agrees

\* The agreement in the words of NodeEventsAgree.
LEMMA AgreeImplies == AgreeInv => NodeEventsAgree
<1> SUFFICES ASSUME AgreeInv PROVE NodeEventsAgree
  OBVIOUS
<1>1. Owned(events) = Kept(nodeEvents)
  BY DEF AgreeInv, Agrees
<1>2. ASSUME NEW n \in DOMAIN nodeEvents, NEW name \in DOMAIN nodeEvents[n]
      PROVE  \E i \in 1..Len(events) :
               /\ events[i].id = nodeEvents[n][name]
               /\ events[i].name = name /\ events[i].owner = n
  <2> DEFINE h == [id |-> nodeEvents[n][name], name |-> name, owner |-> n]
  <2>1. h \in Owned(events)
    BY <1>1 DEF Kept
  <2>2. h.id = nodeEvents[n][name] /\ h.name = name /\ h.owner = n
    OBVIOUS
  <2> HIDE DEF h
  <2>3. PICK i \in OwnedAt(events) : h = HeadOf(events[i])
    BY <2>1 DEF Owned
  <2>4. i \in 1..Len(events) /\ events[i].id = h.id /\ events[i].name = h.name
        /\ events[i].owner = h.owner
    BY <2>3 DEF OwnedAt, HeadOf
  <2> QED BY <2>2, <2>4
<1>3. ASSUME NEW i \in 1..Len(events), events[i].owner # NoOwner
      PROVE  /\ events[i].owner \in DOMAIN nodeEvents
             /\ IdOnNode(events[i].owner, events[i].name) = events[i].id
  <2>1. HeadOf(events[i]) \in Kept(nodeEvents)
    BY <1>1, <1>3 DEF Owned, OwnedAt
  <2>2. PICK n \in DOMAIN nodeEvents : \E x \in DOMAIN nodeEvents[n] :
           HeadOf(events[i]) = [id |-> nodeEvents[n][x], name |-> x, owner |-> n]
    BY <2>1 DEF Kept
  <2>3. PICK x \in DOMAIN nodeEvents[n] :
           HeadOf(events[i]) = [id |-> nodeEvents[n][x], name |-> x, owner |-> n]
    BY <2>2
  <2>4. events[i].owner = n /\ events[i].name = x /\ events[i].id = nodeEvents[n][x]
    BY <2>3 DEF HeadOf
  <2> QED BY <2>4 DEF IdOnNode
<1> QED BY <1>2, <1>3 DEF NodeEventsAgree

\* Through all the doing and undoing there can be, what a node remembers and what
\* the scheduler stores for it agree, as long as freed memory reads as it was.
THEOREM TablesAgree == FreedReads = {} => (CommandSpec => []NodeEventsAgree)
<1> SUFFICES ASSUME FreedReads = {} PROVE CommandSpec => []NodeEventsAgree
  OBVIOUS
<1>1. CommandInit => AgreeInv
  BY AgreeInit
<1>2. AgreeInv /\ [CommandNext]_commandVars => AgreeInv'
  BY AgreeNext
<1>3. AgreeInv => NodeEventsAgree
  BY AgreeImplies
<1> QED BY <1>1, <1>2, <1>3, PTL DEF CommandSpec

-----------------------------------------------------------------------------
(***************************************************************************)
(* What undo restores.  The vectors are seen as the set of the callbacks   *)
(* in them.                                                                *)
(***************************************************************************)
\* The callbacks that are stored, by themselves and under their event.
CbsOf(d)  == {d.cbs[i] : i \in 1..Len(d.cbs)}
Cbs(evs)  == UNION {CbsOf(evs[k]) : k \in 1..Len(evs)}
Filed(C)  == {<<cb.id.event, cb>> : cb \in C}

\* The ids of the events.
Ids(evs) == {evs[k].id : k \in 1..Len(evs)}

\* One of them could be taken for the other.
Clash(a, b) ==
  a.id = b.id \/ (a.id.event = b.id.event /\ a.tag = b.tag /\ a.data = b.data)

Apart(C) == \A a, b \in C : Clash(a, b) => a = b

\* The callbacks of Maya's type for the event e.
MayaOf(C, e) == {cb \in C : cb.id.type = MayaType /\ cb.id.event = e}

Exact(m, C) ==
  \A e \in 1..Len(MayaNames) :
    IsFiniteSet(MayaOf(C, e)) /\ m[e].refCount = Cardinality(MayaOf(C, e))

\* A stored callback is in the event that its id names.
LEMMA CbsFacts ==
  ASSUME NEW evs, Consistent(evs)
  PROVE  /\ Cbs(evs) \subseteq Callbacks
         /\ \A k \in 1..Len(evs) : \A i \in 1..Len(evs[k].cbs) :
              /\ evs[k].cbs[i] \in Cbs(evs) /\ evs[k].cbs[i].id.event = evs[k].id
              /\ evs[k].id >= 1
         /\ \A cb \in Cbs(evs) : \E k \in 1..Len(evs) : \E i \in 1..Len(evs[k].cbs) :
              evs[k].cbs[i] = cb
<1>1. evs \in Seq(Dispatchers)
  BY DEF Consistent
<1>2. ASSUME NEW k \in 1..Len(evs), NEW i \in 1..Len(evs[k].cbs)
      PROVE  /\ evs[k].cbs[i] \in Callbacks /\ evs[k].cbs[i] \in Cbs(evs)
             /\ evs[k].cbs[i].id.event = evs[k].id /\ evs[k].id >= 1
  <2>1. evs[k] \in Dispatchers
    BY <1>1, ElementOfSeq
  <2>2. evs[k].cbs \in Seq(Callbacks)
    BY <2>1 DEF Dispatchers
  <2>3. evs[k].cbs[i] \in Callbacks
    BY <2>2, ElementOfSeq
  <2> QED BY <2>3 DEF Cbs, CbsOf, Consistent, Sound, Reachable, Ascending
<1>3. \A cb \in Cbs(evs) : \E k \in 1..Len(evs) : \E i \in 1..Len(evs[k].cbs) : evs[k].cbs[i] = cb
  BY DEF Cbs, CbsOf
<1> QED BY <1>2, <1>3

\* What is stored, by event.
LEMMA StoredFiled ==
  ASSUME NEW evs, Consistent(evs)
  PROVE  Stored(evs) = Filed(Cbs(evs))
<1>1. ASSUME NEW k \in 1..Len(evs), NEW i \in 1..Len(evs[k].cbs)
      PROVE  <<evs[k].id, evs[k].cbs[i]>> \in Filed(Cbs(evs))
  BY CbsFacts DEF Filed
<1>2. ASSUME NEW cb \in Cbs(evs) PROVE <<cb.id.event, cb>> \in Stored(evs)
  <2>1. PICK k \in 1..Len(evs) : \E i \in 1..Len(evs[k].cbs) : evs[k].cbs[i] = cb
    BY CbsFacts
  <2>2. PICK i \in 1..Len(evs[k].cbs) : evs[k].cbs[i] = cb
    BY <2>1
  <2>3. cb.id.event = evs[k].id
    BY <2>2, CbsFacts
  <2> QED BY <2>2, <2>3 DEF Stored
<1>3. \A x \in Stored(evs) : x \in Filed(Cbs(evs))
  BY <1>1 DEF Stored
<1>4. \A x \in Filed(Cbs(evs)) : x \in Stored(evs)
  BY <1>2 DEF Filed
<1> QED BY <1>3, <1>4

\* An id is found if it is that of a stored callback.
LEMMA HasStored ==
  ASSUME NEW evs, Consistent(evs), NEW id
  PROVE  HasCallback(evs, id) <=> \E cb \in Cbs(evs) : cb.id = id
<1>1. evs \in Seq(Dispatchers)
  BY DEF Consistent
<1>2. ASSUME HasCallback(evs, id) PROVE \E cb \in Cbs(evs) : cb.id = id
  <2> DEFINE k == LowerBound(evs, id.event)
  <2>1. k \in 1..Len(evs) /\ HasId(evs[k].cbs, id)
    BY <1>1, <1>2, LookupFacts DEF HasCallback
  <2> HIDE DEF k
  <2>2. PICK i \in 1..Len(evs[k].cbs) : evs[k].cbs[i].id = id
    BY <2>1 DEF HasId
  <2> QED BY <2>1, <2>2, CbsFacts
<1>3. ASSUME NEW cb \in Cbs(evs), cb.id = id PROVE HasCallback(evs, id)
  <2>1. PICK k \in 1..Len(evs) : \E i \in 1..Len(evs[k].cbs) : evs[k].cbs[i] = cb
    BY CbsFacts
  <2>2. PICK i \in 1..Len(evs[k].cbs) : evs[k].cbs[i] = cb
    BY <2>1
  <2>3. id.event = evs[k].id
    BY <1>3, <2>2, CbsFacts
  <2>4. HasEvent(evs, id.event) /\ LowerBound(evs, id.event) = k
    BY <2>3, IdFound
  <2> QED BY <1>3, <2>2, <2>4 DEF HasCallback, HasId
<1> QED BY <1>2, <1>3

\* Storing a callback.
LEMMA StoreCbs ==
  ASSUME NEW evs, Consistent(evs), NEW i \in 1..Len(evs), NEW cb \in Callbacks
  PROVE  Cbs(WithCallback(evs, i, cb)) = Cbs(evs) \cup {cb}
<1> DEFINE s == evs[i].cbs
           t == InsertCallback(s, cb)
           loc == InsertLocation(s, cb.weight)
           new == WithCallback(evs, i, cb)
<1>0. evs \in Seq(Dispatchers) /\ Len(evs) \in Nat
  BY DEF Consistent
<1>1. evs[i] \in Dispatchers /\ Sound(evs[i])
  BY <1>0, ElementOfSeq DEF Consistent
<1>2. Len(new) = Len(evs) /\ (\A k \in 1..Len(evs) : k # i => new[k] = evs[k])
  BY <1>0 DEF WithCallback
<1>3. new[i].cbs = t
  BY <1>0, <1>1 DEF WithCallback, Dispatchers
<1>4. s \in Seq(Callbacks) /\ cb.weight \in Nat /\ Ordered(s) /\ Len(s) \in Nat
  <2>1. s \in Seq(Callbacks) /\ Ordered(s)
    BY <1>1 DEF Dispatchers, Sound
  <2>2. cb.weight \in Nat
    BY WeightAssumption DEF Callbacks
  <2> HIDE DEF s
  <2> QED BY <2>1, <2>2
<1>5. loc \in 1..Len(s)+1
  BY <1>4, InsertLocationFacts
<1>6. t = InsertAt(s, loc, cb)
  BY DEF InsertCallback
<1>7. CbsOf(evs[i]) = {s[j] : j \in 1..Len(s)} /\ CbsOf(new[i]) = {t[j] : j \in 1..Len(t)}
  BY <1>3 DEF CbsOf
<1> HIDE DEF s, loc, t, new
<1>8. /\ Len(t) = Len(s) + 1
      /\ \A j \in 1..loc-1 : t[j] = s[j]
      /\ t[loc] = cb
      /\ \A j \in loc+1..Len(s)+1 : t[j] = s[j-1]
  <2>1. Longer(t, s, loc, cb)
    BY <1>4, <1>5, <1>6, OneLonger
  <2> QED BY <2>1 DEF Longer
<1>9. {t[j] : j \in 1..Len(t)} = {s[j] : j \in 1..Len(s)} \cup {cb}
  <2>1. ASSUME NEW j \in 1..Len(t), j # loc PROVE \E l \in 1..Len(s) : t[j] = s[l]
    <3>1. CASE j < loc
      BY <1>4, <1>5, <1>8, <3>1
    <3>2. CASE j > loc
      <4>1. j \in loc+1..Len(s)+1 /\ j-1 \in 1..Len(s)
        BY <1>4, <1>5, <1>8, <3>2
      <4> QED BY <1>8, <4>1
    <3> QED BY <1>4, <1>5, <1>8, <2>1, <3>1, <3>2
  <2>2. ASSUME NEW l \in 1..Len(s) PROVE \E j \in 1..Len(t) : t[j] = s[l]
    <3>1. CASE l < loc
      <4>1. l \in 1..loc-1 /\ l \in 1..Len(t)
        BY <1>4, <1>5, <1>8, <3>1
      <4> QED BY <1>8, <4>1
    <3>2. CASE l >= loc
      <4>1. l+1 \in loc+1..Len(s)+1 /\ l+1 \in 1..Len(t) /\ (l+1)-1 = l
        BY <1>4, <1>5, <1>8, <3>2
      <4> QED BY <1>8, <4>1
    <3> QED BY <1>4, <1>5, <3>1, <3>2
  <2>3. loc \in 1..Len(t) /\ t[loc] = cb
    BY <1>4, <1>5, <1>8
  <2>4. \A x \in {t[j] : j \in 1..Len(t)} : x \in {s[j] : j \in 1..Len(s)} \cup {cb}
    BY <2>1, <2>3
  <2>5. \A x \in {s[j] : j \in 1..Len(s)} \cup {cb} : x \in {t[j] : j \in 1..Len(t)}
    BY <2>2, <2>3
  <2> QED BY <2>4, <2>5
<1>10. CbsOf(new[i]) = CbsOf(evs[i]) \cup {cb}
  BY <1>7, <1>9
<1>11. \A k \in 1..Len(evs) : k # i => CbsOf(new[k]) = CbsOf(evs[k])
  BY <1>2
<1>12. Cbs(new) = Cbs(evs) \cup {cb}
  BY <1>2, <1>10, <1>11 DEF Cbs
<1> QED BY <1>12 DEF new

\* Taking a callback out.
LEMMA TakeCbs ==
  ASSUME NEW evs, Consistent(evs), NEW id, HasCallback(evs, id)
  PROVE  /\ FoundCallback(evs, id) \in Cbs(evs) /\ FoundCallback(evs, id).id = id
         /\ Cbs(WithoutCallback(evs, id)) = Cbs(evs) \ {FoundCallback(evs, id)}
<1> DEFINE i == LowerBound(evs, id.event)
           s == evs[i].cbs
           loc == FirstWithId(s, id)
           t == EraseCallback(s, id)
           cb == FoundCallback(evs, id)
           new == WithoutCallback(evs, id)
<1>0. evs \in Seq(Dispatchers) /\ Len(evs) \in Nat
  BY DEF Consistent
<1>1. i \in 1..Len(evs) /\ evs[i].id = id.event /\ HasId(s, id)
  BY <1>0, LookupFacts DEF HasCallback
<1>2. new = [evs EXCEPT ![i].cbs = EraseCallback(@, id)] /\ cb = s[loc]
  BY DEF WithoutCallback, FoundCallback
<1> HIDE DEF i, cb, new
<1>3. evs[i] \in Dispatchers /\ Sound(evs[i])
  BY <1>0, <1>1, ElementOfSeq DEF Consistent
<1>4. Len(new) = Len(evs) /\ (\A k \in 1..Len(evs) : k # i => new[k] = evs[k])
  BY <1>0, <1>2
<1>5. new[i].cbs = t
  BY <1>0, <1>1, <1>2, <1>3 DEF Dispatchers
<1>6. loc \in 1..Len(s) /\ s[loc].id = id
  <2> DEFINE d == evs[i]
  <2>1. d \in Dispatchers /\ Sound(d) /\ HasId(d.cbs, id)
    BY <1>1, <1>3
  <2>2. FirstWithId(d.cbs, id) \in 1..Len(d.cbs) /\ d.cbs[FirstWithId(d.cbs, id)].id = id
    <3> HIDE DEF d
    <3> DEFINE d1 == [d EXCEPT !.cbs = EraseCallback(@, id)]
    <3>1. d1 = [d EXCEPT !.cbs = EraseCallback(@, id)]
      OBVIOUS
    <3> HIDE DEF d1
    <3> QED BY <2>1, <3>1, EraseSound
  <2> QED BY <2>2
<1>7. s \in Seq(Callbacks) /\ OnePerSite(s)
  BY <1>3 DEF Dispatchers, Sound
<1>8. t = RemoveAt(s, loc)
  BY DEF EraseCallback
<1>9. cb \in Cbs(evs) /\ cb.id = id /\ cb.id.event = id.event
  BY <1>1, <1>2, <1>6, CbsFacts
<1>10. CbsOf(evs[i]) = {s[j] : j \in 1..Len(s)} /\ CbsOf(new[i]) = {t[j] : j \in 1..Len(t)}
  BY <1>5 DEF CbsOf
<1> HIDE DEF s, loc, t
<1>11. /\ Len(s) \in Nat /\ Len(t) = Len(s) - 1
       /\ \A j \in 1..loc-1 : t[j] = s[j]
       /\ \A j \in loc..Len(s)-1 : t[j] = s[j+1]
  <2>1. Shorter(t, s, loc)
    BY <1>6, <1>7, <1>8, OneShorter
  <2>2. Len(s) \in Nat
    BY <1>7
  <2> QED BY <2>1, <2>2 DEF Shorter
<1>12. {t[j] : j \in 1..Len(t)} = {s[j] : j \in 1..Len(s)} \ {cb}
  <2>0. \A j \in 1..Len(s) : s[j] = s[loc] => j = loc
    BY <1>6, <1>7 DEF OnePerSite
  <2>1. ASSUME NEW j \in 1..Len(t) PROVE \E l \in 1..Len(s) : t[j] = s[l] /\ l # loc
    <3>1. CASE j < loc
      <4>1. j \in 1..loc-1 /\ j \in 1..Len(s) /\ j # loc
        BY <1>6, <1>11, <3>1
      <4> QED BY <1>11, <4>1
    <3>2. CASE j >= loc
      <4>1. j \in loc..Len(s)-1 /\ j+1 \in 1..Len(s) /\ j+1 # loc
        BY <1>6, <1>11, <3>2
      <4> QED BY <1>11, <4>1
    <3> QED BY <1>6, <1>11, <3>1, <3>2
  <2>2. ASSUME NEW l \in 1..Len(s), l # loc PROVE \E j \in 1..Len(t) : t[j] = s[l]
    <3>1. CASE l < loc
      <4>1. l \in 1..loc-1 /\ l \in 1..Len(t)
        BY <1>6, <1>11, <3>1
      <4> QED BY <1>11, <4>1
    <3>2. CASE l > loc
      <4>1. l-1 \in loc..Len(s)-1 /\ l-1 \in 1..Len(t) /\ (l-1)+1 = l
        BY <1>6, <1>11, <3>2
      <4> QED BY <1>11, <4>1
    <3> QED BY <1>6, <1>11, <2>2, <3>1, <3>2
  <2>3. \A x \in {t[j] : j \in 1..Len(t)} : x \in {s[j] : j \in 1..Len(s)} \ {cb}
    BY <1>2, <2>0, <2>1
  <2>4. \A x \in {s[j] : j \in 1..Len(s)} \ {cb} : x \in {t[j] : j \in 1..Len(t)}
    BY <1>2, <2>2
  <2> QED BY <2>3, <2>4
<1>13. CbsOf(new[i]) = CbsOf(evs[i]) \ {cb}
  BY <1>10, <1>12
<1>14. \A k \in 1..Len(evs) : k # i => CbsOf(new[k]) = CbsOf(evs[k])
  BY <1>4
<1>15. \A k \in 1..Len(evs) : k # i => cb \notin CbsOf(evs[k])
  <2> TAKE k \in 1..Len(evs)
  <2> HAVE k # i
  <2>1. \A x \in CbsOf(evs[k]) : x.id.event = evs[k].id
    BY CbsFacts DEF CbsOf
  <2>2. evs[k].id # evs[i].id
    <3>1. evs[k].id \in Nat /\ evs[i].id \in Nat
      <4>1. evs[k] \in Dispatchers /\ evs[i] \in Dispatchers
        BY <1>0, <1>1, ElementOfSeq
      <4> QED BY <4>1 DEF Dispatchers
    <3>2. (k < i => evs[k].id < evs[i].id) /\ (i < k => evs[i].id < evs[k].id)
      BY <1>1 DEF Consistent, Ascending
    <3> QED BY <1>1, <3>1, <3>2
  <2> QED BY <1>1, <1>9, <2>1, <2>2
<1>16. Cbs(new) = Cbs(evs) \ {cb}
  <2>1. \A x \in Cbs(new) : x \in Cbs(evs) \ {cb}
    BY <1>4, <1>13, <1>14, <1>15 DEF Cbs
  <2>2. \A x \in Cbs(evs) \ {cb} : x \in Cbs(new)
    BY <1>4, <1>13, <1>14 DEF Cbs
  <2> QED BY <2>1, <2>2
<1> QED BY <1>9, <1>16 DEF cb, new

\* Registering an event for a build stores nothing.
LEMMA ForBuildCbs ==
  ASSUME NEW evs, Consistent(evs), NEW name \in Names,
         NEW new, new = EventsForBuild(evs, name)
  PROVE  Cbs(new) = Cbs(evs) /\ Ids(evs) \subseteq Ids(new)
<1>1. CASE HasName(evs, name)
  BY <1>1 DEF EventsForBuild
<1>2. CASE ~HasName(evs, name)
  <2> DEFINE u == UnusedId(evs)
             d == NewEvent(u, name, UnknownType, NoOwner, InvalidId)
  <2>1. evs \in Seq(Dispatchers) /\ Len(evs) \in Nat /\ Ascending(evs)
    BY DEF Consistent
  <2>2. u \in 1..Len(evs)+1
    BY <2>1, UnusedIdFacts
  <2>3. InvalidId \in CallbackIds /\ UnknownType \in EventTypes /\ NoOwner \in Owners
    BY NoCallbackFacts, OwnerAssumption DEF EventTypes
  <2>4. d \in Dispatchers /\ d.cbs = << >>
    BY <2>1, <2>2, <2>3 DEF NewEvent, Dispatchers
  <2>5. new = AfterRegisterEvent(evs, name, UnknownType, NoOwner, InvalidId)
    BY <1>2 DEF EventsForBuild
  <2>7. InTheWay(evs, name, NoOwner, InvalidId) = {}
    BY <1>2 DEF InTheWay, HasName
  <2>8. new = InsertAt(evs, u, d)
    BY <2>5, <2>7 DEF AfterRegisterEvent, WithNewEvent
  <2> HIDE DEF u, d
  <2>9. /\ Len(new) = Len(evs) + 1
        /\ \A j \in 1..u-1 : new[j] = evs[j]
        /\ new[u] = d
        /\ \A j \in u+1..Len(evs)+1 : new[j] = evs[j-1]
    <3>1. Longer(new, evs, u, d)
      BY <2>1, <2>2, <2>4, <2>8, OneLonger
    <3> QED BY <3>1 DEF Longer
  <2>10. ASSUME NEW j \in 1..Len(new), j # u PROVE \E l \in 1..Len(evs) : new[j] = evs[l]
    <3>1. CASE j < u
      BY <2>1, <2>2, <2>9, <3>1
    <3>2. CASE j > u
      <4>1. j \in u+1..Len(evs)+1 /\ j-1 \in 1..Len(evs)
        BY <2>1, <2>2, <2>9, <3>2
      <4> QED BY <2>9, <4>1
    <3> QED BY <2>1, <2>2, <2>9, <2>10, <3>1, <3>2
  <2>11. ASSUME NEW l \in 1..Len(evs) PROVE \E j \in 1..Len(new) : new[j] = evs[l]
    <3>1. CASE l < u
      <4>1. l \in 1..u-1 /\ l \in 1..Len(new)
        BY <2>1, <2>2, <2>9, <3>1
      <4> QED BY <2>9, <4>1
    <3>2. CASE l >= u
      <4>1. l+1 \in u+1..Len(evs)+1 /\ l+1 \in 1..Len(new) /\ (l+1)-1 = l
        BY <2>1, <2>2, <2>9, <3>2
      <4> QED BY <2>9, <4>1
    <3> QED BY <2>1, <2>2, <3>1, <3>2
  <2>12. CbsOf(new[u]) = {}
    BY <2>4, <2>9 DEF CbsOf
  <2>13. \A x \in Cbs(new) : x \in Cbs(evs)
    <3> TAKE x \in Cbs(new)
    <3>1. PICK j \in 1..Len(new) : x \in CbsOf(new[j])
      BY DEF Cbs
    <3>2. PICK l \in 1..Len(evs) : new[j] = evs[l]
      BY <2>10, <2>12, <3>1
    <3> QED BY <3>1, <3>2 DEF Cbs
  <2>14. \A x \in Cbs(evs) : x \in Cbs(new)
    <3> TAKE x \in Cbs(evs)
    <3>1. PICK l \in 1..Len(evs) : x \in CbsOf(evs[l])
      BY DEF Cbs
    <3>2. PICK j \in 1..Len(new) : new[j] = evs[l]
      BY <2>11
    <3> QED BY <3>1, <3>2 DEF Cbs
  <2>15. Ids(evs) \subseteq Ids(new)
    BY <2>11 DEF Ids
  <2> QED BY <2>13, <2>14, <2>15
<1> QED BY <1>1, <1>2

\* The handler counts positions, and each callback has one.
LEMMA MayaHeld ==
  ASSUME NEW evs, Consistent(evs), NEW e
  PROVE  IsFiniteSet(MayaOf(Cbs(evs), e)) /\ Cardinality(MayaOf(Cbs(evs), e)) = Held(evs, e)
<1>1. CASE \A k \in 1..Len(evs) : evs[k].id # e
  <2>1. MayaOf(Cbs(evs), e) = {}
    <3> SUFFICES ASSUME NEW cb \in Cbs(evs), cb.id.event = e PROVE FALSE
      BY DEF MayaOf
    <3>1. PICK k \in 1..Len(evs) : \E i \in 1..Len(evs[k].cbs) : evs[k].cbs[i] = cb
      BY CbsFacts
    <3> QED BY <1>1, <3>1, CbsFacts
  <2>2. Held(evs, e) = 0
    BY <1>1, HeldFacts
  <2> QED BY <2>1, <2>2, FS_EmptySet
<1>2. ASSUME NEW k \in 1..Len(evs), evs[k].id = e
      PROVE  IsFiniteSet(MayaOf(Cbs(evs), e)) /\ Cardinality(MayaOf(Cbs(evs), e)) = Held(evs, e)
  <2> DEFINE s == evs[k].cbs
             A == Where(s, OfMaya)
             B == MayaOf(Cbs(evs), e)
             f == [i \in A |-> s[i]]
  <2>1. evs \in Seq(Dispatchers) /\ evs[k] \in Dispatchers /\ Sound(evs[k])
    BY ElementOfSeq DEF Consistent
  <2>2. s \in Seq(Callbacks) /\ OnePerSite(s)
    BY <2>1 DEF Dispatchers, Sound
  <2>3. IsFiniteSet(A) /\ Held(evs, e) = Cardinality(A)
    <3>1. IsFiniteSet(Where(s, OfMaya))
      BY <2>2, CountFacts
    <3>2. Held(evs, e) = Count(evs[k].cbs, OfMaya)
      BY <1>2, HeldFacts
    <3> QED BY <3>1, <3>2 DEF Count
  <2>4. \A i \in A : i \in 1..Len(s) /\ s[i] \in Callbacks /\ s[i].id.type = MayaType
    BY DEF Where, OfMaya
  <2>5. \A i \in A : s[i] \in B
    <3> TAKE i \in A
    <3>1. s[i] \in Cbs(evs) /\ s[i].id.event = evs[k].id
      BY <2>4, CbsFacts
    <3> QED BY <1>2, <2>4, <3>1 DEF MayaOf
  <2>6. \A cb \in B : \E i \in A : s[i] = cb
    <3> TAKE cb \in B
    <3>1. cb \in Cbs(evs) /\ cb.id.type = MayaType /\ cb.id.event = e /\ cb \in Callbacks
      BY CbsFacts DEF MayaOf
    <3>2. PICK l \in 1..Len(evs) : \E i \in 1..Len(evs[l].cbs) : evs[l].cbs[i] = cb
      BY <3>1, CbsFacts
    <3>3. PICK i \in 1..Len(evs[l].cbs) : evs[l].cbs[i] = cb
      BY <3>2
    <3>4. evs[l].id = evs[k].id
      BY <1>2, <3>1, <3>3, CbsFacts
    <3>5. l = k
      BY <3>4, IdFound
    <3>6. i \in 1..Len(s) /\ s[i] = cb
      BY <3>3, <3>5
    <3> QED BY <3>1, <3>6 DEF Where, OfMaya
  <2>7. \A i, j \in A : s[i] = s[j] => i = j
    BY <2>2, <2>4 DEF OnePerSite
  <2> HIDE DEF s, A, B
  <2>8. f \in Bijection(A, B)
    BY <2>5, <2>6, <2>7 DEF Bijection, Injection, Surjection, IsInjective
  <2> HIDE DEF f
  <2>9. ExistsBijection(A, B)
    BY <2>8 DEF ExistsBijection
  <2>10. IsFiniteSet(B) /\ Cardinality(B) = Cardinality(A)
    BY <2>3, <2>9, FS_Bijection
  <2> QED BY <2>3, <2>10 DEF B
<1> QED BY <1>1, <1>2

\* The handler follows the set of what is stored.
LEMMA CreatedExact ==
  ASSUME NEW m \in HandlerStates, NEW C, NEW cb \in Callbacks, Exact(m, C), cb \notin C
  PROVE  Exact(OnCallbackCreated(m, cb.id), C \cup {cb})
<1> DEFINE id == cb.id
           new == OnCallbackCreated(m, id)
<1>1. id \in CallbackIds
  BY DEF Callbacks
<1>2. DOMAIN m = 1..Len(MayaNames)
  BY DEF HandlerStates
<1> SUFFICES ASSUME NEW e \in 1..Len(MayaNames)
             PROVE  /\ IsFiniteSet(MayaOf(C \cup {cb}, e))
                    /\ new[e].refCount = Cardinality(MayaOf(C \cup {cb}, e))
  BY DEF Exact
<1>3. /\ IsFiniteSet(MayaOf(C, e)) /\ m[e].refCount = Cardinality(MayaOf(C, e))
      /\ m[e] \in [refCount : Nat, installed : Nat]
  BY DEF Exact, HandlerStates
<1>4. CASE id.type = MayaType /\ id.event = e
  <2>1. MayaOf(C \cup {cb}, e) = MayaOf(C, e) \cup {cb} /\ cb \notin MayaOf(C, e)
    BY <1>4 DEF MayaOf
  <2>2. new = [m EXCEPT ![e] = [refCount |-> m[e].refCount + 1,
                                installed |-> IF m[e].refCount = 0 THEN m[e].installed + 1
                                              ELSE m[e].installed]]
    BY <1>2, <1>4 DEF OnCallbackCreated, Handles
  <2>3. new[e].refCount = m[e].refCount + 1
    BY <1>2, <2>2
  <2> DEFINE M == MayaOf(C, e)
  <2> HIDE DEF M
  <2>4. IsFiniteSet(M \cup {cb}) /\ Cardinality(M \cup {cb}) = Cardinality(M) + 1
    BY <1>3, <2>1, FS_AddElement DEF M
  <2> HIDE DEF new, id
  <2> QED BY <1>3, <2>1, <2>3, <2>4 DEF M
<1>5. CASE ~(id.type = MayaType /\ id.event = e)
  <2>1. MayaOf(C \cup {cb}, e) = MayaOf(C, e)
    BY <1>5 DEF MayaOf
  <2>2. new[e] = m[e]
    BY <1>2, <1>5 DEF OnCallbackCreated, Handles
  <2> QED BY <1>3, <2>1, <2>2
<1> QED BY <1>4, <1>5

LEMMA DestroyedExact ==
  ASSUME NEW m \in HandlerStates, NEW C, NEW cb \in C, Exact(m, C)
  PROVE  Exact(OnCallbackDestroyed(m, cb.id), C \ {cb})
<1> DEFINE id == cb.id
           new == OnCallbackDestroyed(m, id)
<1>2. DOMAIN m = 1..Len(MayaNames)
  BY DEF HandlerStates
<1> SUFFICES ASSUME NEW e \in 1..Len(MayaNames)
             PROVE  /\ IsFiniteSet(MayaOf(C \ {cb}, e))
                    /\ new[e].refCount = Cardinality(MayaOf(C \ {cb}, e))
  BY DEF Exact
<1>3. /\ IsFiniteSet(MayaOf(C, e)) /\ m[e].refCount = Cardinality(MayaOf(C, e))
      /\ m[e] \in [refCount : Nat, installed : Nat]
  BY DEF Exact, HandlerStates
<1>4. CASE id.type = MayaType /\ id.event = e
  <2>1. MayaOf(C \ {cb}, e) = MayaOf(C, e) \ {cb} /\ cb \in MayaOf(C, e)
    BY <1>4 DEF MayaOf
  <2>2. m[e].refCount # 0
    BY <1>3, <2>1, FS_EmptySet
  <2>3. new = [m EXCEPT ![e] = [refCount |-> m[e].refCount - 1,
                                installed |-> IF m[e].refCount = 1 /\ m[e].installed > 0
                                              THEN m[e].installed - 1 ELSE m[e].installed]]
    BY <1>2, <1>4, <2>2 DEF OnCallbackDestroyed, Handles
  <2>4. new[e].refCount = m[e].refCount - 1
    BY <1>2, <2>3
  <2> DEFINE M == MayaOf(C, e)
  <2> HIDE DEF M
  <2>5. IsFiniteSet(M \ {cb}) /\ Cardinality(M \ {cb}) = Cardinality(M) - 1
    BY <1>3, <2>1, FS_RemoveElement DEF M
  <2> HIDE DEF new, id
  <2> QED BY <1>3, <2>1, <2>4, <2>5 DEF M
<1>5. CASE ~(id.type = MayaType /\ id.event = e)
  <2>1. MayaOf(C \ {cb}, e) = MayaOf(C, e)
    BY <1>5 DEF MayaOf
  <2>2. new[e] = m[e]
    BY <1>2, <1>5 DEF OnCallbackDestroyed, Handles
  <2> QED BY <1>3, <2>1, <2>2
<1> QED BY <1>4, <1>5

\* A number is given to one callback at a time.
LEMMA NewIdFresh ==
  ASSUME NEW d \in Dispatchers, Reachable(d)
  PROVE  NewCallbackId(d) \notin LiveIds(d)
<1> DEFINE s == [i \in 1..Len(d.cbs) |-> d.cbs[i].id]
           ids == LiveIds(d) \cup {BaseId(d)}
           top == CHOOSE x \in ids : \A y \in ids : IdLeq(y, x)
<1>0. d.cbs \in Seq(Callbacks) /\ Len(d.cbs) \in Nat
  BY DEF Dispatchers
<1>1. \A i \in 1..Len(d.cbs) : d.cbs[i].id \in CallbackIds
  <2>1. \A i \in 1..Len(d.cbs) : d.cbs[i] \in Callbacks
    BY <1>0, ElementOfSeq
  <2> QED BY <2>1 DEF Callbacks
<1>2. s \in Seq(CallbackIds) /\ Len(s) = Len(d.cbs)
  BY <1>0, <1>1
<1>3. BaseId(d) \in CallbackIds
  BY DEF BaseId, CallbackIds, Dispatchers
<1>4. ids = {s[i] : i \in 1..Len(s)} \cup {BaseId(d)}
  BY <1>2 DEF LiveIds
<1>5. \E x \in ids : \A y \in ids : IdLeq(y, x)
  <2> DEFINE all == {s[i] : i \in 1..Len(s)} \cup {BaseId(d)}
  <2> HIDE DEF s, ids
  <2>1. \E x \in all : \A y \in all : IdLeq(y, x)
    BY <1>2, <1>3, LargestId
  <2>2. ids = all
    BY <1>4
  <2> HIDE DEF all
  <2> QED BY <2>1, <2>2
<1>6. top \in ids /\ \A y \in ids : IdLeq(y, top)
  <2> HIDE DEF ids
  <2> QED BY <1>5
<1>7. NewCallbackId(d) = [top EXCEPT !.num = @ + 1]
  BY DEF NewCallbackId
<1>8. \A x \in ids : x \in CallbackIds
  BY <1>1, <1>3 DEF LiveIds
<1>9. LiveIds(d) \subseteq ids
  OBVIOUS
<1> HIDE DEF ids, top
<1>10. SUFFICES ASSUME NewCallbackId(d) \in ids PROVE FALSE
  BY <1>9
<1>11. IdLeq([top EXCEPT !.num = @ + 1], top) /\ top \in CallbackIds
  BY <1>6, <1>7, <1>8, <1>10
<1> QED BY <1>11 DEF IdLeq, CallbackIds, EventTypes, UnknownType, UserType, SchemaType,
                     USDMayaType, MayaType

\* What a build returns clashes with nothing that is stored.
LEMMA BuiltApart ==
  ASSUME NEW evs, Consistent(evs), NEW k \in 1..Len(evs), NEW tag \in Tags,
         NEW weight \in Weights, NEW cb, cb = BuiltScript(evs[k], tag, weight),
         cb # EmptyCallback
  PROVE  /\ cb \in Callbacks /\ cb.id.event = evs[k].id
         /\ \A b \in Cbs(evs) : ~Clash(cb, b)
<1> DEFINE d == evs[k]
<1>1. d \in Dispatchers /\ Reachable(d)
  BY ElementOfSeq DEF Consistent, Sound
<1>2. cb \in {BuiltScript(d, tag, weight), BuiltFunction(d, tag, weight, NoData)}
  OBVIOUS
<1>3. cb.id = NewCallbackId(d)
  BY DEF BuiltScript
<1>4. cb \in Callbacks /\ cb.id.event = d.id /\ ~SiteTaken(d.cbs, cb.tag, cb.data)
  <2> HIDE DEF d
  <2> QED BY <1>1, <1>2, BuiltFacts, DataAssumption
<1>5. cb.id \notin LiveIds(d)
  <2> HIDE DEF d
  <2> QED BY <1>1, <1>3, NewIdFresh
<1>6. ASSUME NEW b \in Cbs(evs), Clash(cb, b) PROVE FALSE
  <2>1. PICK j \in 1..Len(evs) : \E i \in 1..Len(evs[j].cbs) : evs[j].cbs[i] = b
    BY CbsFacts
  <2>2. PICK i \in 1..Len(evs[j].cbs) : evs[j].cbs[i] = b
    BY <2>1
  <2>3. b.id.event = evs[j].id /\ cb.id.event = b.id.event
    BY <1>6, <2>2, CbsFacts DEF Clash
  <2>4. evs[j].id = evs[k].id
    BY <1>4, <2>3
  <2>5. j = k
    BY <2>4, IdFound
  <2>6. b.id \in LiveIds(d)
    BY <2>2, <2>5 DEF LiveIds
  <2>7. b.tag = cb.tag /\ b.data = cb.data
    BY <1>5, <1>6, <2>6 DEF Clash
  <2> QED BY <1>4, <2>2, <2>5, <2>7 DEF SiteTaken
<1> QED BY <1>4, <1>6

\* The places of a list that hold a callback, and what they hold.
Reg(I)   == {j \in 1..Len(I) : I[j] # EmptyCallback}
Given(I) == {I[j] : j \in Reg(I)}

\* The callbacks of X that a list of ids names.
Named(X, D) == {cb \in X : \E j \in 1..Len(D) : D[j] = cb.id}

\* The ids of a list that are ids of something.
Gone(D) == {D[j] : j \in 1..Len(D)} \ {InvalidId}

\* A command with these lists takes X to Y, and refuses nothing on the way.
Exchange(I, D, X, Y) ==
  /\ Y = (X \ Named(X, D)) \cup Given(I)
  /\ \A j, k \in Reg(I) : Clash(I[j], I[k]) => j = k
  /\ \A j \in Reg(I) : \A b \in X \ Named(X, D) : ~Clash(I[j], b)

\* The events of its callbacks are there.
Known(I, E) == \A j \in Reg(I) : I[j].id.event \in E

\* What is appended to a list.
LEMMA AppendGiven ==
  ASSUME NEW I \in Seq(Callbacks), NEW cb \in Callbacks
  PROVE  /\ Reg(Append(I, cb)) = Reg(I) \cup (IF cb = EmptyCallback THEN {} ELSE {Len(I) + 1})
         /\ Given(Append(I, cb)) = Given(I) \cup (IF cb = EmptyCallback THEN {} ELSE {cb})
         /\ \A j \in Reg(I) : Append(I, cb)[j] = I[j] /\ j # Len(I) + 1
         /\ Append(I, cb)[Len(I) + 1] = cb
<1> DEFINE J == Append(I, cb)
           n == Len(I) + 1
<1>1. /\ Len(I) \in Nat /\ Len(J) = n /\ J[n] = cb
      /\ \A j \in 1..Len(I) : J[j] = I[j]
  OBVIOUS
<1>2. \A j \in 1..Len(I) : j # n /\ j \in 1..n
  BY <1>1
<1>3. \A j \in 1..n : j = n \/ j \in 1..Len(I)
  BY <1>1
<1> HIDE DEF J, n
<1>4. Reg(J) = Reg(I) \cup (IF cb = EmptyCallback THEN {} ELSE {n})
  <2>1. n \in 1..n
    BY <1>1 DEF n
  <2>2. \A j \in Reg(J) : j \in Reg(I) \cup (IF cb = EmptyCallback THEN {} ELSE {n})
    BY <1>1, <1>3 DEF Reg
  <2>3. \A j \in Reg(I) \cup (IF cb = EmptyCallback THEN {} ELSE {n}) : j \in Reg(J)
    BY <1>1, <1>2, <2>1 DEF Reg
  <2> QED BY <2>2, <2>3
<1>5. \A j \in Reg(I) : J[j] = I[j] /\ j # n
  BY <1>1, <1>2 DEF Reg
<1>6. Given(J) = Given(I) \cup (IF cb = EmptyCallback THEN {} ELSE {cb})
  BY <1>1, <1>4, <1>5 DEF Given
<1> QED BY <1>1, <1>4, <1>5, <1>6 DEF J, n

LEMMA AppendGone ==
  ASSUME NEW D \in Seq(CallbackIds), NEW id \in CallbackIds
  PROVE  Gone(Append(D, id)) = Gone(D) \cup (IF id = InvalidId THEN {} ELSE {id})
<1> DEFINE E == Append(D, id)
           n == Len(D) + 1
<1>1. /\ Len(D) \in Nat /\ Len(E) = n /\ E[n] = id
      /\ \A j \in 1..Len(D) : E[j] = D[j]
  OBVIOUS
<1>2. n \in 1..n /\ (\A j \in 1..Len(D) : j \in 1..n) /\ (\A j \in 1..n : j = n \/ j \in 1..Len(D))
  BY <1>1
<1> HIDE DEF E, n
<1>3. {E[j] : j \in 1..Len(E)} = {D[j] : j \in 1..Len(D)} \cup {id}
  BY <1>1, <1>2
<1> QED BY <1>3 DEF Gone, E

\* The states of redoItImplementation when O has been taken out of X, and when P
\* has been put into it.
IsTaken(st, X, O) ==
  /\ Cbs(st.events) = X \ O /\ Exact(st.maya, X \ O)
  /\ st.delete = << >> /\ Given(st.insert) = O
  /\ \A j, k \in Reg(st.insert) : st.insert[j] = st.insert[k] => j = k

IsPut(st, X, taken, P) ==
  /\ Cbs(st.events) = X \cup P /\ Exact(st.maya, X \cup P)
  /\ st.insert = taken /\ Gone(st.delete) = {cb.id : cb \in P}

TakenStates(evs, X, O)      == {st \in RunStates(evs) : IsTaken(st, X, O)}
PutStates(evs, X, taken, P) == {st \in RunStates(evs) : IsPut(st, X, taken, P)}

\* A stored callback is a callback.
LEMMA StoredReal ==
  ASSUME NEW evs, Consistent(evs), NEW cb \in Cbs(evs)
  PROVE  cb \in Callbacks /\ cb # EmptyCallback /\ cb.id # InvalidId /\ cb.id.event \in Ids(evs)
<1>1. PICK k \in 1..Len(evs) : \E i \in 1..Len(evs[k].cbs) : evs[k].cbs[i] = cb
  BY CbsFacts
<1>2. cb \in Callbacks /\ cb.id.event = evs[k].id /\ evs[k].id >= 1
  BY <1>1, CbsFacts
<1>3. cb.id.event # 0
  BY <1>2
<1> QED BY <1>2, <1>3 DEF EmptyCallback, InvalidId, Ids

\* One id off the list.
LEMMA TakeOutExact ==
  ASSUME NEW evs, NEW X, Apart(X), NEW O \in SUBSET X, NEW st \in TakenStates(evs, X, O),
         NEW id \in CallbackIds, NEW P, P = O \cup {cb \in X : cb.id = id}
  PROVE  TakeOut(st, id) \in TakenStates(evs, X, P)
<1> DEFINE new == TakeOut(st, id)
           cb == FoundCallback(st.events, id)
<1>1. /\ st \in RunStates(evs)
      /\ Cbs(st.events) = X \ O /\ Exact(st.maya, X \ O)
      /\ st.delete = << >> /\ Given(st.insert) = O
      /\ \A j, k \in Reg(st.insert) : st.insert[j] = st.insert[k] => j = k
  BY DEF TakenStates, IsTaken
<1>2. /\ st \in [events : Seq(Dispatchers), maya : HandlerStates,
                 insert : Seq(Callbacks), delete : Seq(CallbackIds)]
      /\ Consistent(st.events)
  BY <1>1 DEF RunStates
<1>3. new \in RunStates(evs)
  BY <1>1, TakeOutKeeps
<1>4. CASE HasCallback(st.events, id)
  <2>1. cb \in X \ O /\ cb.id = id /\ Cbs(WithoutCallback(st.events, id)) = (X \ O) \ {cb}
    BY <1>1, <1>2, <1>4, TakeCbs
  <2>2. P = O \cup {cb} /\ (X \ O) \ {cb} = X \ P
    <3>1. \A b \in X : b.id = id => b = cb
      BY <2>1 DEF Apart, Clash
    <3> QED BY <2>1, <3>1
  <2>3. new = [events |-> WithoutCallback(st.events, id), maya |-> OnCallbackDestroyed(st.maya, id),
               insert |-> Append(st.insert, cb), delete |-> st.delete]
    BY <1>4 DEF TakeOut
  <2>4. Exact(OnCallbackDestroyed(st.maya, id), X \ P)
    BY <1>1, <1>2, <2>1, <2>2, DestroyedExact
  <2>5. cb \in Callbacks /\ cb # EmptyCallback
    BY <1>1, <1>2, <2>1, StoredReal
  <2> HIDE DEF cb, new
  <2>6. /\ Reg(Append(st.insert, cb)) = Reg(st.insert) \cup {Len(st.insert) + 1}
        /\ Given(Append(st.insert, cb)) = O \cup {cb}
        /\ \A j \in Reg(st.insert) : Append(st.insert, cb)[j] = st.insert[j] /\ j # Len(st.insert) + 1
        /\ Append(st.insert, cb)[Len(st.insert) + 1] = cb
    BY <1>1, <1>2, <2>5, AppendGiven
  <2>7. \A j \in Reg(st.insert) : st.insert[j] # cb
    BY <1>1, <2>1 DEF Given
  <2>8. \A j, k \in Reg(Append(st.insert, cb)) :
          Append(st.insert, cb)[j] = Append(st.insert, cb)[k] => j = k
    BY <1>1, <2>6, <2>7
  <2>9. /\ new.events = WithoutCallback(st.events, id) /\ new.delete = st.delete
        /\ new.maya = OnCallbackDestroyed(st.maya, id) /\ new.insert = Append(st.insert, cb)
    BY <2>3
  <2>10. Cbs(new.events) = X \ P /\ Exact(new.maya, X \ P)
    BY <2>1, <2>2, <2>4, <2>9
  <2>11. new.delete = << >> /\ Given(new.insert) = P
    BY <1>1, <2>2, <2>6, <2>9
  <2>12. \A j, k \in Reg(new.insert) : new.insert[j] = new.insert[k] => j = k
    BY <2>8, <2>9
  <2>13. IsTaken(new, X, P)
    BY <2>10, <2>11, <2>12, Zenon DEF IsTaken
  <2> QED BY <1>3, <2>13 DEF TakenStates, new
<1>5. CASE ~HasCallback(st.events, id)
  <2>1. P = O
    BY <1>1, <1>2, <1>5, HasStored
  <2>2. new = [st EXCEPT !.insert = Append(st.insert, EmptyCallback)]
    BY <1>5 DEF TakeOut
  <2>3. /\ Reg(Append(st.insert, EmptyCallback)) = Reg(st.insert)
        /\ Given(Append(st.insert, EmptyCallback)) = O
        /\ \A j \in Reg(st.insert) : Append(st.insert, EmptyCallback)[j] = st.insert[j]
    <3> DEFINE none == EmptyCallback
               ins == st.insert
    <3>1. none \in Callbacks /\ ins \in Seq(Callbacks) /\ none = EmptyCallback
      BY <1>2, NoCallbackFacts
    <3> HIDE DEF none, ins
    <3>2. /\ Reg(Append(ins, none)) = Reg(ins) \cup {}
          /\ Given(Append(ins, none)) = Given(ins) \cup {}
          /\ \A j \in Reg(ins) : Append(ins, none)[j] = ins[j]
      BY <3>1, AppendGiven
    <3> QED BY <1>1, <3>2 DEF none, ins
  <2> HIDE DEF new
  <2>4. /\ new.events = st.events /\ new.maya = st.maya /\ new.delete = st.delete
        /\ new.insert = Append(st.insert, EmptyCallback)
    BY <1>2, <2>2
  <2>5. \A j, k \in Reg(new.insert) : new.insert[j] = new.insert[k] => j = k
    BY <1>1, <2>3, <2>4
  <2>6. Cbs(new.events) = X \ P /\ Exact(new.maya, X \ P)
    BY <1>1, <2>1, <2>4
  <2>7. new.delete = << >> /\ Given(new.insert) = P
    BY <1>1, <2>1, <2>3, <2>4
  <2>8. IsTaken(new, X, P)
    BY <2>5, <2>6, <2>7, Zenon DEF IsTaken
  <2> QED BY <1>3, <2>8 DEF TakenStates, new
<1> QED BY <1>4, <1>5

\* One callback of the list.
LEMMA PutInExact ==
  ASSUME NEW evs, Consistent(evs), NEW X, NEW taken, NEW P, NEW st \in PutStates(evs, X, taken, P),
         NEW cb \in Callbacks, NEW Q,
         \/ cb = EmptyCallback /\ Q = P
         \/ /\ cb # EmptyCallback /\ Q = P \cup {cb} /\ cb.id.event \in Ids(evs)
            /\ \A b \in X \cup P : ~Clash(cb, b)
  PROVE  PutIn(st, cb) \in PutStates(evs, X, taken, Q)
<1> DEFINE new == PutIn(st, cb)
           i == LowerBound(st.events, cb.id.event)
<1>1. /\ st \in RunStates(evs)
      /\ Cbs(st.events) = X \cup P /\ Exact(st.maya, X \cup P)
      /\ st.insert = taken /\ Gone(st.delete) = {b.id : b \in P}
  BY DEF PutStates, IsPut
<1>2. /\ st \in [events : Seq(Dispatchers), maya : HandlerStates,
                 insert : Seq(Callbacks), delete : Seq(CallbackIds)]
      /\ Consistent(st.events) /\ SameHeads(evs, st.events)
  BY <1>1 DEF RunStates
<1>3. new \in RunStates(evs)
  BY <1>1, PutInKeeps
<1>4. CASE cb = EmptyCallback /\ Q = P
  <2>1. cb.id.event = 0
    BY <1>4 DEF EmptyCallback, InvalidId
  <2>2. ~HasEvent(st.events, cb.id.event)
    <3> SUFFICES ASSUME HasEvent(st.events, 0) PROVE FALSE
      BY <2>1
    <3>1. LowerBound(st.events, 0) \in 1..Len(st.events) /\ st.events[LowerBound(st.events, 0)].id = 0
      BY <1>2, LookupFacts
    <3>2. st.events[LowerBound(st.events, 0)].id >= 1
      BY <1>2, <3>1 DEF Consistent, Ascending
    <3> QED BY <3>1, <3>2
  <2>3. new = [st EXCEPT !.delete = Append(st.delete, InvalidId)]
    BY <2>2 DEF PutIn
  <2>4. Gone(Append(st.delete, InvalidId)) = Gone(st.delete)
    BY <1>2, NoCallbackFacts, AppendGone
  <2> HIDE DEF new
  <2>5. /\ new.events = st.events /\ new.maya = st.maya /\ new.insert = st.insert
        /\ new.delete = Append(st.delete, InvalidId)
    BY <1>2, <2>3
  <2>6. Cbs(new.events) = X \cup Q /\ Exact(new.maya, X \cup Q)
    BY <1>1, <1>4, <2>5
  <2>7. new.insert = taken /\ Gone(new.delete) = {b.id : b \in Q}
    BY <1>1, <1>4, <2>4, <2>5
  <2>8. IsPut(new, X, taken, Q)
    BY <2>6, <2>7, Zenon DEF IsPut
  <2> QED BY <1>3, <2>8 DEF PutStates, new
<1>5. CASE /\ cb # EmptyCallback /\ Q = P \cup {cb} /\ cb.id.event \in Ids(evs)
           /\ \A b \in X \cup P : ~Clash(cb, b)
  <2>1. PICK k \in 1..Len(evs) : evs[k].id = cb.id.event
    BY <1>5 DEF Ids
  <2>2. k \in 1..Len(st.events) /\ st.events[k].id = cb.id.event
    BY <1>2, <2>1 DEF SameHeads, Same
  <2>3. HasEvent(st.events, cb.id.event) /\ i = k
    BY <1>2, <2>2, IdFound
  <2>4. cb.id \in CallbackIds /\ cb.id # InvalidId
    <3>1. st.events[k].id >= 1
      BY <1>2, <2>2 DEF Consistent, Ascending
    <3>2. cb.id.event # 0
      BY <2>2, <3>1
    <3> QED BY <3>2 DEF Callbacks, InvalidId
  <2>5. ~SiteTaken(st.events[k].cbs, cb.tag, cb.data)
    <3> SUFFICES ASSUME NEW j \in 1..Len(st.events[k].cbs),
                        st.events[k].cbs[j].tag = cb.tag, st.events[k].cbs[j].data = cb.data
                 PROVE  FALSE
      BY DEF SiteTaken
    <3>1. /\ st.events[k].cbs[j] \in X \cup P
          /\ st.events[k].cbs[j].id.event = st.events[k].id
      BY <1>1, <1>2, <2>2, CbsFacts
    <3> QED BY <1>5, <2>2, <3>1 DEF Clash
  <2>6. AfterRegisterInfo(st.events, cb) = WithCallback(st.events, k, cb)
    BY <2>3, <2>5 DEF AfterRegisterInfo
  <2>7. Cbs(WithCallback(st.events, k, cb)) = X \cup Q
    <3>1. Cbs(WithCallback(st.events, k, cb)) = Cbs(st.events) \cup {cb}
      BY <1>2, <2>2, StoreCbs
    <3> QED BY <1>1, <1>5, <3>1
  <2>8. Exact(OnCallbackCreated(st.maya, cb.id), X \cup Q)
    <3>1. cb \notin X \cup P
      BY <1>5 DEF Clash
    <3>2. Exact(OnCallbackCreated(st.maya, cb.id), (X \cup P) \cup {cb})
      BY <1>1, <1>2, <3>1, CreatedExact
    <3>3. (X \cup P) \cup {cb} = X \cup Q
      BY <1>5
    <3> QED BY <3>2, <3>3
  <2>9. new = [events |-> WithCallback(st.events, k, cb), maya |-> OnCallbackCreated(st.maya, cb.id),
               insert |-> st.insert, delete |-> Append(st.delete, cb.id)]
    BY <2>3, <2>6 DEF PutIn
  <2>10. Gone(Append(st.delete, cb.id)) = {b.id : b \in Q}
    <3>1. Gone(Append(st.delete, cb.id)) = Gone(st.delete) \cup {cb.id}
      BY <1>2, <2>4, AppendGone
    <3> QED BY <1>1, <1>5, <3>1
  <2> HIDE DEF new, i
  <2>11. /\ new.events = WithCallback(st.events, k, cb) /\ new.insert = st.insert
         /\ new.maya = OnCallbackCreated(st.maya, cb.id) /\ new.delete = Append(st.delete, cb.id)
    BY <2>9
  <2>12. Cbs(new.events) = X \cup Q /\ Exact(new.maya, X \cup Q)
    BY <2>7, <2>8, <2>11
  <2>13. new.insert = taken /\ Gone(new.delete) = {b.id : b \in Q}
    BY <1>1, <2>10, <2>11
  <2>14. IsPut(new, X, taken, Q)
    BY <2>12, <2>13, Zenon DEF IsPut
  <2> QED BY <1>3, <2>14 DEF PutStates, new
<1> QED BY <1>4, <1>5

\* All the ids of a list.
LEMMA TakenAll ==
  ASSUME NEW evs, NEW X, Apart(X), NEW st \in TakenStates(evs, X, {}),
         NEW ids \in Seq(CallbackIds)
  PROVE  FoldLeft(TakeOut, st, ids) \in TakenStates(evs, X, Named(X, ids))
<1> DEFINE n == Len(ids)
           Out(d) == {cb \in X : \E j \in d : ids[j] = cb.id}
           Good == [d \in SUBSET (1..n) |-> TakenStates(evs, X, Out(d))]
<1>1. n \in Nat /\ (\A i \in 1..n : ids[i] \in CallbackIds) /\ st \in RunStates(evs)
  BY ElementOfSeq DEF TakenStates
<1>20. PICK it : OutSteps(it, st, ids)
  BY <1>1, TakeOutChain
<1>2. /\ it[1..n] = FoldLeft(TakeOut, st, ids)
      /\ it[{}] = st
      /\ \A d \in SUBSET (1..n) : d # {} => it[d] = TakeOut(it[d \ {Max(d)}], ids[Max(d)])
  BY <1>20 DEF OutSteps
<1> HIDE DEF n
<1>3. it[{}] \in Good[{}]
  <2>1. Out({}) = {}
    OBVIOUS
  <2>2. Good[{}] = TakenStates(evs, X, Out({}))
    OBVIOUS
  <2> QED BY <1>2, <2>1, <2>2
<1>4. ASSUME NEW d \in SUBSET (1..n), d # {}, it[d \ {Max(d)}] \in Good[d \ {Max(d)}]
      PROVE  it[d] \in Good[d]
  <2> DEFINE m == Max(d)
             c == d \ {m}
  <2>1. m \in 1..n /\ m \in d /\ c \in SUBSET (1..n)
    BY <1>1, <1>4, LastOne
  <2>2. it[d] = TakeOut(it[c], ids[m])
    BY <1>2, <1>4
  <2>3. it[c] \in TakenStates(evs, X, Out(c))
    BY <1>4, <2>1
  <2>4. Out(d) = Out(c) \cup {cb \in X : cb.id = ids[m]}
    BY <2>1
  <2>5. Out(c) \in SUBSET X /\ ids[m] \in CallbackIds
    BY <1>1, <2>1
  <2> HIDE DEF m, c, Out
  <2>6. TakeOut(it[c], ids[m]) \in TakenStates(evs, X, Out(d))
    BY <2>3, <2>4, <2>5, TakeOutExact
  <2> QED BY <2>2, <2>6
<1> HIDE DEF Good
<1>5. it[1..n] \in Good[1..n]
  BY <1>1, <1>3, <1>4, ChainKeeps
<1>6. Out(1..n) = Named(X, ids)
  BY DEF Named, n
<1> QED BY <1>2, <1>5, <1>6 DEF Good

\* All the callbacks of a list.
LEMMA PutAll ==
  ASSUME NEW evs, Consistent(evs), NEW X, NEW taken, NEW st \in PutStates(evs, X, taken, {}),
         NEW I \in Seq(Callbacks), Known(I, Ids(evs)),
         \A j, k \in Reg(I) : Clash(I[j], I[k]) => j = k,
         \A j \in Reg(I) : \A b \in X : ~Clash(I[j], b)
  PROVE  FoldLeft(PutIn, st, I) \in PutStates(evs, X, taken, Given(I))
<1> DEFINE n == Len(I)
           In(d) == {I[j] : j \in Reg(I) \cap d}
           Good == [d \in SUBSET (1..n) |-> PutStates(evs, X, taken, In(d))]
<1>1. n \in Nat /\ (\A i \in 1..n : I[i] \in Callbacks) /\ st \in RunStates(evs)
  BY ElementOfSeq DEF PutStates
<1>20. PICK it : InSteps(it, st, I)
  BY <1>1, PutInChain
<1>2. /\ it[1..n] = FoldLeft(PutIn, st, I)
      /\ it[{}] = st
      /\ \A d \in SUBSET (1..n) : d # {} => it[d] = PutIn(it[d \ {Max(d)}], I[Max(d)])
  BY <1>20 DEF InSteps
<1>0. Reg(I) \subseteq 1..n /\ \A j \in 1..n : j \in Reg(I) <=> I[j] # EmptyCallback
  BY DEF Reg
<1> HIDE DEF n
<1>3. it[{}] \in Good[{}]
  <2>1. In({}) = {}
    OBVIOUS
  <2>2. Good[{}] = PutStates(evs, X, taken, In({}))
    OBVIOUS
  <2> QED BY <1>2, <2>1, <2>2
<1>4. ASSUME NEW d \in SUBSET (1..n), d # {}, it[d \ {Max(d)}] \in Good[d \ {Max(d)}]
      PROVE  it[d] \in Good[d]
  <2> DEFINE m == Max(d)
             c == d \ {m}
             cb == I[m]
  <2>1. m \in 1..n /\ m \in d /\ c \in SUBSET (1..n)
    BY <1>1, <1>4, LastOne
  <2>2. it[d] = PutIn(it[c], cb)
    BY <1>2, <1>4
  <2>3. it[c] \in PutStates(evs, X, taken, In(c))
    BY <1>4, <2>1
  <2>4. cb \in Callbacks
    BY <1>1, <2>1
  <2>5. CASE cb = EmptyCallback
    <3>1. In(d) = In(c)
      BY <1>0, <2>1, <2>5
    <3> HIDE DEF m, c, In, cb
    <3>2. PutIn(it[c], cb) \in PutStates(evs, X, taken, In(d))
      BY <2>3, <2>4, <2>5, <3>1, PutInExact
    <3> QED BY <2>2, <3>2
  <2>6. CASE cb # EmptyCallback
    <3>1. m \in Reg(I)
      BY <1>0, <2>1, <2>6
    <3>2. In(d) = In(c) \cup {cb}
      BY <2>1, <3>1
    <3>3. cb.id.event \in Ids(evs)
      BY <3>1 DEF Known
    <3>4. \A b \in X \cup In(c) : ~Clash(cb, b)
      BY <3>1
    <3> HIDE DEF m, c, In, cb
    <3>5. PutIn(it[c], cb) \in PutStates(evs, X, taken, In(d))
      BY <2>3, <2>4, <2>6, <3>2, <3>3, <3>4, PutInExact
    <3> QED BY <2>2, <3>5
  <2> QED BY <2>5, <2>6
<1> HIDE DEF Good
<1>5. it[1..n] \in Good[1..n]
  BY <1>1, <1>3, <1>4, ChainKeeps
<1>6. In(1..n) = Given(I)
  BY <1>0 DEF Given
<1> QED BY <1>2, <1>5, <1>6 DEF Good

\* A command with two lists takes the callbacks from X to Y, and leaves lists
\* that take them back.
LEMMA RunExchange ==
  ASSUME NEW evs, Consistent(evs), NEW m \in HandlerStates, NEW I \in Seq(Callbacks),
         NEW D \in Seq(CallbackIds), NEW X, X = Cbs(evs), NEW Y,
         Apart(X), Exact(m, X), Exchange(I, D, X, Y), Known(I, Ids(evs)),
         NEW st, st = RedoItImplementation(evs, m, I, D)
  PROVE  /\ st \in RunStates(evs)
         /\ Cbs(st.events) = Y /\ Apart(Y) /\ Exact(st.maya, Y)
         /\ Exchange(st.insert, st.delete, Y, X) /\ Known(st.insert, Ids(evs))
<1> DEFINE start == [events |-> evs, maya |-> m, insert |-> << >>, delete |-> << >>]
           mid == FoldLeft(TakeOut, start, D)
           O == Named(X, D)
           rest == X \ O
           P == Given(I)
<1>1. start \in TakenStates(evs, X, {})
  <2>1. start \in RunStates(evs)
    BY DEF RunStates, Consistent, SameHeads, Same
  <2>2. X \ {} = X /\ Reg(start.insert) = {} /\ Given(start.insert) = {}
    BY DEF Reg, Given
  <2>3. IsTaken(start, X, {})
    BY <2>2 DEF IsTaken
  <2> QED BY <2>1, <2>3 DEF TakenStates
<1> HIDE DEF start
<1>2. mid \in TakenStates(evs, X, O)
  BY <1>1, TakenAll
<1> HIDE DEF mid
<1>3. /\ mid \in RunStates(evs)
      /\ Cbs(mid.events) = rest /\ Exact(mid.maya, rest)
      /\ mid.delete = << >> /\ Given(mid.insert) = O
      /\ \A j, k \in Reg(mid.insert) : mid.insert[j] = mid.insert[k] => j = k
  BY <1>2 DEF TakenStates, IsTaken
<1>4. mid \in PutStates(evs, rest, mid.insert, {})
  <2>1. Gone(mid.delete) = {} /\ {cb.id : cb \in {}} = {} /\ rest \cup {} = rest
    BY <1>3 DEF Gone
  <2> HIDE DEF rest, O
  <2>2. IsPut(mid, rest, mid.insert, {})
    BY <1>3, <2>1 DEF IsPut
  <2> QED BY <1>3, <2>2 DEF PutStates
<1>5. /\ Y = rest \cup P
      /\ \A j, k \in Reg(I) : Clash(I[j], I[k]) => j = k
      /\ \A j \in Reg(I) : \A b \in rest : ~Clash(I[j], b)
  BY DEF Exchange
<1>6. st = FoldLeft(PutIn, mid, I)
  BY Zenon DEF RedoItImplementation, mid, start
<1> HIDE DEF rest, P
<1>7. st \in PutStates(evs, rest, mid.insert, P)
  BY <1>4, <1>5, <1>6, PutAll DEF P
<1>8. /\ st \in RunStates(evs)
      /\ Cbs(st.events) = Y /\ Exact(st.maya, Y)
      /\ st.insert = mid.insert /\ Gone(st.delete) = {cb.id : cb \in P}
  BY <1>5, <1>7 DEF PutStates, IsPut
<1>9. O \subseteq X /\ rest = X \ O /\ (\A a, b \in X : Clash(a, b) => a = b)
  BY DEF Named, Apart, rest
<1>10. ASSUME NEW j \in Reg(I) PROVE I[j] \in P /\ I[j].id # InvalidId
  <2>1. I[j].id.event \in Ids(evs)
    BY DEF Known
  <2>2. I[j].id.event # 0
    BY <2>1 DEF Ids, Consistent, Ascending
  <2> QED BY <2>2 DEF InvalidId, P, Given
<1>11. \A cb \in P : \E j \in Reg(I) : I[j] = cb
  BY DEF P, Given
<1>12. Apart(Y)
  <2> SUFFICES ASSUME NEW a \in Y, NEW b \in Y, Clash(a, b) PROVE a = b
    BY DEF Apart
  <2>1. Clash(b, a)
    BY DEF Clash
  <2>2. CASE a \in rest /\ b \in rest
    BY <1>9, <2>2
  <2>3. CASE a \in P /\ b \in P
    BY <1>5, <1>11, <2>3
  <2>4. CASE a \in P /\ b \in rest
    BY <1>5, <1>11, <2>4
  <2>5. CASE a \in rest /\ b \in P
    BY <1>5, <1>11, <2>1, <2>5
  <2> QED BY <1>5, <2>2, <2>3, <2>4, <2>5
<1>13. Named(Y, st.delete) = P /\ Y \ P = rest
  <2>1. \A cb \in P : cb.id # InvalidId
    BY <1>10, <1>11
  <2>2. \A cb \in Y : cb.id # InvalidId
    <3>1. Consistent(st.events)
      BY <1>8 DEF RunStates
    <3> QED BY <1>8, <3>1, StoredReal
  <2>3. \A cb \in Y : cb.id \in Gone(st.delete) <=> cb \in P
    <3> TAKE cb \in Y
    <3>1. ASSUME cb.id \in Gone(st.delete) PROVE cb \in P
      <4>1. PICK b \in P : b.id = cb.id
        BY <1>8, <3>1
      <4>2. b \in Y /\ Clash(b, cb)
        BY <1>5, <4>1 DEF Clash
      <4> QED BY <1>12, <4>2 DEF Apart
    <3> QED BY <1>8, <3>1
  <2>4. \A cb \in Y : cb.id \in Gone(st.delete) <=> \E j \in 1..Len(st.delete) : st.delete[j] = cb.id
    BY <2>2 DEF Gone
  <2>5. \A cb \in P : cb \notin rest
    <3> TAKE cb \in P
    <3>1. PICK j \in Reg(I) : I[j] = cb
      BY <1>11
    <3> QED BY <1>5, <3>1 DEF Clash
  <2> QED BY <1>5, <2>3, <2>4, <2>5 DEF Named
<1>14. Given(st.insert) = O /\ (\A j, k \in Reg(st.insert) : st.insert[j] = st.insert[k] => j = k)
  BY <1>3, <1>8
<1>15. \A j \in Reg(st.insert) : st.insert[j] \in O
  BY <1>14 DEF Given
<1>16. Exchange(st.insert, st.delete, Y, X)
  <2>1. X = (Y \ Named(Y, st.delete)) \cup Given(st.insert)
    BY <1>9, <1>13, <1>14
  <2>2. \A j, k \in Reg(st.insert) : Clash(st.insert[j], st.insert[k]) => j = k
    BY <1>9, <1>14, <1>15
  <2>3. \A j \in Reg(st.insert) : \A b \in Y \ Named(Y, st.delete) : ~Clash(st.insert[j], b)
    BY <1>9, <1>13, <1>15
  <2> HIDE DEF O
  <2> QED BY <2>1, <2>2, <2>3 DEF Exchange
<1>17. Known(st.insert, Ids(evs))
  <2>1. \A cb \in X : cb.id.event \in Ids(evs)
    BY StoredReal
  <2> QED BY <1>9, <1>15, <2>1 DEF Known
<1> QED BY <1>8, <1>12, <1>16, <1>17

\* The states of doIt while it builds: nothing is stored, and what has been built
\* could be taken for nothing that is.
IsBuilt(st, evs, X) ==
  /\ Cbs(st.events) = X /\ Ids(evs) \subseteq Ids(st.events)
  /\ \A j \in 1..Len(st.insert) :
       st.insert[j].id.event \in Ids(st.events) /\ \A b \in X : ~Clash(st.insert[j], b)

BuiltStates(evs, X) == {st \in BuildStates(evs) : IsBuilt(st, evs, X)}

\* One flag.
LEMMA BuildFlagApart ==
  ASSUME NEW evs, NEW X, NEW st \in BuiltStates(evs, X), NEW flag \in Flags
  PROVE  BuildFlag(st, flag) \in BuiltStates(evs, X)
<1> DEFINE e == IF flag.node = NoOwner THEN EventsForBuild(st.events, flag.event) ELSE st.events
           id == IF flag.node = NoOwner THEN e[FirstNamed(e, flag.event)].id
                 ELSE IdOnNode(flag.node, flag.event)
           k == LowerBound(e, id)
           cb == IF HasEvent(e, id) THEN BuiltScript(e[k], flag.tag, flag.weight) ELSE EmptyCallback
           ins == IF cb = EmptyCallback THEN st.insert ELSE Append(st.insert, cb)
           new == BuildFlag(st, flag)
<1>1. /\ st \in BuildStates(evs) /\ Consistent(st.events) /\ st.insert \in Seq(Callbacks)
      /\ Cbs(st.events) = X /\ Ids(evs) \subseteq Ids(st.events)
      /\ \A j \in 1..Len(st.insert) :
           st.insert[j].id.event \in Ids(st.events) /\ \A b \in X : ~Clash(st.insert[j], b)
  BY DEF BuiltStates, BuildStates, IsBuilt
<1>2. flag.event \in Names /\ flag.tag \in Tags /\ flag.weight \in Weights
  BY DEF Flags
<1>3. new = [events |-> e, insert |-> ins]
  BY Zenon DEF BuildFlag
<1>4. new \in BuildStates(evs)
  BY <1>1, BuildFlagKeeps
<1>5. Consistent(e) /\ Cbs(e) = X /\ Ids(st.events) \subseteq Ids(e)
  <2>1. CASE flag.node = NoOwner
    BY <1>1, <1>2, <2>1, ForBuildKeeps, ForBuildCbs
  <2>2. CASE flag.node # NoOwner
    BY <1>1, <2>2
  <2> QED BY <2>1, <2>2
<1> HIDE DEF e, id, new
<1>6. cb = EmptyCallback \/ /\ cb \in Callbacks /\ cb.id.event \in Ids(e)
                            /\ \A b \in X : ~Clash(cb, b)
  <2> SUFFICES ASSUME HasEvent(e, id), cb # EmptyCallback
               PROVE  /\ cb \in Callbacks /\ cb.id.event \in Ids(e)
                      /\ \A b \in X : ~Clash(cb, b)
    OBVIOUS
  <2>1. k \in 1..Len(e)
    BY <1>5, LookupFacts DEF Consistent
  <2>2. cb = BuiltScript(e[k], flag.tag, flag.weight)
    OBVIOUS
  <2> HIDE DEF k, cb
  <2>3. /\ cb \in Callbacks /\ cb.id.event = e[k].id
        /\ \A b \in Cbs(e) : ~Clash(cb, b)
    BY <1>2, <1>5, <2>1, <2>2, BuiltApart
  <2> QED BY <1>5, <2>1, <2>3 DEF Ids
<1> HIDE DEF cb
<1>7. \A j \in 1..Len(ins) : ins[j].id.event \in Ids(e) /\ \A b \in X : ~Clash(ins[j], b)
  <2>1. CASE cb = EmptyCallback
    BY <1>1, <1>5, <2>1
  <2>2. CASE cb # EmptyCallback
    <3>1. /\ Len(st.insert) \in Nat /\ Len(ins) = Len(st.insert) + 1
          /\ ins[Len(st.insert) + 1] = cb
          /\ \A j \in 1..Len(st.insert) : ins[j] = st.insert[j]
      BY <1>1, <1>6, <2>2
    <3>2. \A j \in 1..Len(ins) : j = Len(st.insert) + 1 \/ j \in 1..Len(st.insert)
      BY <3>1
    <3> HIDE DEF ins
    <3> QED BY <1>1, <1>5, <1>6, <2>2, <3>1, <3>2
  <2> QED BY <2>1, <2>2
<1> HIDE DEF ins
<1>8. new.events = e /\ new.insert = ins
  BY <1>3
<1>9. IsBuilt(new, evs, X)
  BY <1>1, <1>5, <1>7, <1>8 DEF IsBuilt
<1> QED BY <1>4, <1>9 DEF BuiltStates, new

\* All the flags of a command.
LEMMA BuildApart ==
  ASSUME Consistent(events), NEW flags \in Seq(Flags)
  PROVE  Build(flags) \in BuiltStates(events, Cbs(events))
<1> DEFINE start == [events |-> events, insert |-> << >>]
           n == Len(flags)
           ST == BuiltStates(events, Cbs(events))
           Good == [d \in SUBSET (1..n) |-> ST]
<1>1. n \in Nat /\ \A i \in 1..n : flags[i] \in Flags
  BY ElementOfSeq
<1>2. start \in BuildStates(events) /\ start \in ST
  <2>1. start \in BuildStates(events)
    BY DEF BuildStates, Kin, Consistent
  <2>2. IsBuilt(start, events, Cbs(events))
    BY DEF IsBuilt
  <2> QED BY <2>1, <2>2 DEF BuiltStates
<1>3. Build(flags) = FoldLeft(BuildFlag, start, flags)
  BY Zenon DEF Build
<1> HIDE DEF start
<1>4. PICK it : BuildSteps(it, start, flags)
  BY <1>2, BuildChain
<1>5. /\ it[{}] = start /\ it[1..n] = FoldLeft(BuildFlag, start, flags)
      /\ \A d \in SUBSET (1..n) : d # {} => it[d] = BuildFlag(it[d \ {Max(d)}], flags[Max(d)])
  BY <1>4 DEF BuildSteps
<1> HIDE DEF n, ST
<1>6. ASSUME NEW d \in SUBSET (1..n), d # {}, it[d \ {Max(d)}] \in ST
      PROVE  it[d] \in ST
  <2>1. flags[Max(d)] \in Flags
    BY <1>1, <1>6, LastOne
  <2> DEFINE a == it[d \ {Max(d)}]
             f == flags[Max(d)]
  <2>2. a \in BuiltStates(events, Cbs(events)) /\ f \in Flags
    BY <1>6, <2>1 DEF ST
  <2>3. it[d] = BuildFlag(a, f)
    BY <1>5, <1>6
  <2> HIDE DEF a, f
  <2>4. BuildFlag(a, f) \in BuiltStates(events, Cbs(events))
    BY <2>2, BuildFlagApart
  <2> QED BY <2>3, <2>4 DEF ST
<1>7. \A d \in SUBSET (1..n) : Good[d] = ST
  OBVIOUS
<1> HIDE DEF Good
<1>8. it[{}] \in Good[{}]
  BY <1>2, <1>5, <1>7
<1>9. ASSUME NEW d \in SUBSET (1..n), d # {}, it[d \ {Max(d)}] \in Good[d \ {Max(d)}]
      PROVE  it[d] \in Good[d]
  BY <1>6, <1>7, <1>9
<1>10. it[1..n] \in Good[1..n]
  BY <1>1, <1>8, <1>9, ChainKeeps
<1> QED BY <1>3, <1>5, <1>7, <1>10 DEF ST

\* What plain flags have built can be put in after any ids have been taken out.
LEMMA PlainExchange ==
  ASSUME NEW I, Plain(I), NEW D, NEW X, \A j \in 1..Len(I) : \A b \in X : ~Clash(I[j], b)
  PROVE  Exchange(I, D, X, (X \ Named(X, D)) \cup Given(I))
<1>1. \A j \in Reg(I) : j \in 1..Len(I)
  BY DEF Reg
<1>2. \A j, k \in Reg(I) : Clash(I[j], I[k]) => j = k
  BY <1>1 DEF Plain, Clash
<1>3. \A j \in Reg(I) : \A b \in X \ Named(X, D) : ~Clash(I[j], b)
  BY <1>1
<1> QED BY <1>2, <1>3 DEF Exchange

-----------------------------------------------------------------------------
(***************************************************************************)
(* The history of the callbacks while there are plain commands only.       *)
(***************************************************************************)
\* The command c took the callbacks from X to Y.  When it is done its lists are
\* those that take Y back to X, when it was undone those that take X to Y.
Pass(c, X, Y, isDone, E) ==
  /\ c \in ListCommands
  /\ c.before = Filed(X) /\ c.after = Filed(Y)
  /\ Known(c.insert, E)
  /\ IF isDone THEN Exchange(c.insert, c.delete, Y, X)
     ELSE Exchange(c.insert, c.delete, X, Y)

\* T[k] is what is stored when the first k commands are done.
Past(T, q, k, E) ==
  /\ T \in [0..Len(q) -> SUBSET Callbacks]
  /\ \A j \in 1..Len(q) : Pass(q[j], T[j-1], T[j], j <= k, E)

Bare(ne) == \A n \in DOMAIN ne : DOMAIN ne[n] = {}

PlainState ==
  /\ Exact(maya, Cbs(events)) /\ Apart(Cbs(events))
  /\ Bare(nodeEvents)
  /\ \E T : Past(T, queue, done, Ids(events)) /\ T[done] = Cbs(events)

PlainInv == ClientsInv /\ (plain => PlainState)

\* More events do not matter.
LEMMA PassGrows ==
  ASSUME NEW c, NEW X, NEW Y, NEW isDone, NEW E, NEW F, E \subseteq F, Pass(c, X, Y, isDone, E)
  PROVE  Pass(c, X, Y, isDone, F)
<1>1. Known(c.insert, F)
  BY DEF Pass, Known
<1> QED BY <1>1 DEF Pass

LEMMA SameIds ==
  ASSUME NEW evs, NEW new, SameHeads(evs, new)
  PROVE  Ids(new) = Ids(evs)
BY DEF SameHeads, Same, Ids

\* A new command is pushed with what it did.
LEMMA PushPast ==
  ASSUME QueueOK(queue, done), NEW T, NEW E, Past(T, queue, done, E), NEW F, E \subseteq F,
         NEW cmd \in Commands, Push(cmd), NEW Y \in SUBSET Callbacks,
         Pass(cmd, T[done], Y, TRUE, F)
  PROVE  \E G : Past(G, queue', done', F) /\ G[done'] = Y
<1> DEFINE G == [j \in 0..done+1 |-> IF j <= done THEN T[j] ELSE Y]
<1>1. done \in 0..Len(queue) /\ Len(queue) \in Nat
  BY DEF QueueOK
<1>2. /\ done' = done + 1 /\ Len(queue') = done + 1 /\ queue'[done + 1] = cmd
      /\ \A k \in 1..done : queue'[k] = queue[k]
  BY PushOK
<1>3. T \in [0..Len(queue) -> SUBSET Callbacks]
  BY DEF Past
<1>4. G \in [0..Len(queue') -> SUBSET Callbacks]
  BY <1>1, <1>2, <1>3
<1>5. G[done+1] = Y /\ \A j \in 0..done : G[j] = T[j]
  BY <1>1
<1> HIDE DEF G
<1>6. ASSUME NEW j \in 1..Len(queue') PROVE Pass(queue'[j], G[j-1], G[j], j <= done', F)
  <2>1. CASE j = done + 1
    <3>1. G[j-1] = T[done] /\ G[j] = Y /\ queue'[j] = cmd /\ (j <= done') = TRUE
      BY <1>1, <1>2, <1>5, <2>1
    <3> QED BY <3>1
  <2>2. CASE j # done + 1
    <3>1. j \in 1..done
      BY <1>1, <1>2, <2>2
    <3>2. G[j-1] = T[j-1] /\ G[j] = T[j] /\ queue'[j] = queue[j]
      BY <1>1, <1>2, <1>5, <3>1
    <3>3. (j <= done') = (j <= done)
      BY <1>1, <1>2, <3>1
    <3>4. Pass(queue[j], T[j-1], T[j], j <= done, E)
      BY <1>1, <3>1 DEF Past
    <3>5. Pass(queue[j], T[j-1], T[j], j <= done, F)
      BY <3>4, PassGrows
    <3> QED BY <3>2, <3>3, <3>5
  <2> QED BY <2>1, <2>2
<1>7. Past(G, queue', done', F)
  BY <1>4, <1>6 DEF Past
<1> QED BY <1>2, <1>5, <1>7

\* The first run of a command with two lists.
LEMMA RunListsPlain ==
  ASSUME ClientsInv, PlainState, NEW evs, Consistent(evs),
         Cbs(evs) = Cbs(events), Ids(events) \subseteq Ids(evs),
         NEW I \in Seq(Callbacks), NEW D \in Seq(CallbackIds), NEW Y,
         Exchange(I, D, Cbs(evs), Y), Known(I, Ids(evs)), RunLists(evs, I, D)
  PROVE  /\ PlainState'
         /\ done' = done + 1 /\ Stored(events') = queue'[done'].after
<1> DEFINE st == RedoItImplementation(evs, maya, I, D)
           X == Cbs(events)
           cmd == [kind |-> "callback", insert |-> st.insert, delete |-> st.delete,
                   before |-> Stored(events), after |-> Stored(st.events)]
<1>1. maya \in HandlerStates /\ Consistent(events) /\ QueueOK(queue, done)
  BY CountsBounded DEF ClientsInv, Inv
<1>2. Exact(maya, X) /\ Apart(X) /\ Bare(nodeEvents)
  BY DEF PlainState
<1>3. PICK T : Past(T, queue, done, Ids(events)) /\ T[done] = X
  BY DEF PlainState
<1>4. /\ events' = st.events /\ maya' = st.maya /\ nodeEvents' = nodeEvents
      /\ Push(cmd)
  BY Zenon DEF RunLists
<1>5. st = RedoItImplementation(evs, maya, I, D) /\ X = Cbs(evs)
  OBVIOUS
<1> HIDE DEF st, X
<1>6. /\ st \in RunStates(evs)
      /\ Cbs(st.events) = Y /\ Apart(Y) /\ Exact(st.maya, Y)
      /\ Exchange(st.insert, st.delete, Y, X) /\ Known(st.insert, Ids(evs))
  <2>1. Exchange(I, D, X, Y)
    BY <1>5
  <2> QED BY <1>1, <1>2, <1>5, <2>1, RunExchange
<1>7. /\ Consistent(st.events) /\ SameHeads(evs, st.events)
      /\ st.insert \in Seq(Callbacks) /\ st.delete \in Seq(CallbackIds)
  BY <1>6 DEF RunStates
<1>8. Ids(st.events) = Ids(evs)
  BY <1>7, SameIds
<1>9. Stored(events) = Filed(X) /\ Stored(st.events) = Filed(Y) /\ Y \in SUBSET Callbacks
  BY <1>1, <1>6, <1>7, StoredFiled, CbsFacts DEF X
<1>10. cmd \in ListCommands
  <2>1. Stored(events) \in Stores /\ Stored(st.events) \in Stores
    BY <1>1, <1>7, StoredType DEF Consistent
  <2> QED BY <1>7, <2>1 DEF ListCommands
<1>11. /\ cmd.insert = st.insert /\ cmd.delete = st.delete
       /\ cmd.before = Filed(X) /\ cmd.after = Filed(Y)
       /\ cmd.after = Stored(st.events) /\ cmd \in Commands
  BY <1>9, <1>10 DEF Commands
<1> HIDE DEF cmd
<1>12. Pass(cmd, T[done], Y, TRUE, Ids(evs))
  BY <1>3, <1>6, <1>10, <1>11 DEF Pass
<1>13. \E G : Past(G, queue', done', Ids(evs)) /\ G[done'] = Y
  BY <1>1, <1>3, <1>4, <1>9, <1>11, <1>12, PushPast
<1>14. PlainState'
  BY <1>2, <1>4, <1>6, <1>8, <1>13 DEF PlainState
<1>15. done' = done + 1 /\ queue'[done + 1] = cmd
  BY <1>1, <1>4, <1>11, PushOK
<1> QED BY <1>4, <1>11, <1>14, <1>15

\* Undoing or redoing the command at k, which is next.
LEMMA RerunPlain ==
  ASSUME ClientsInv, PlainState, NEW k \in 1..Len(queue), Rerun(k),
         (k = done /\ done' = done - 1) \/ (k = done + 1 /\ done' = done + 1)
  PROVE  /\ PlainState'
         /\ Stored(events') = IF k <= done THEN queue[k].before ELSE queue'[k].after
<1> DEFINE isDone == k <= done
           c == queue[k]
           st == RedoItImplementation(events, maya, c.insert, c.delete)
           E == Ids(events)
<1>1. /\ maya \in HandlerStates /\ Consistent(events)
      /\ queue \in Seq(Commands) /\ done \in 0..Len(queue) /\ Len(queue) \in Nat
  BY CountsBounded DEF ClientsInv, Inv, QueueOK
<1>2. Exact(maya, Cbs(events)) /\ Apart(Cbs(events)) /\ Bare(nodeEvents)
  BY DEF PlainState
<1>3. PICK T : Past(T, queue, done, E) /\ T[done] = Cbs(events)
  BY DEF PlainState
<1> DEFINE here == IF isDone THEN T[k] ELSE T[k-1]
           there == IF isDone THEN T[k-1] ELSE T[k]
<1>4. /\ here = Cbs(events) /\ T[done'] = there /\ (k <= done') = ~isDone
      /\ isDone \in BOOLEAN
  <2>1. CASE k = done /\ done' = done - 1
    BY <1>1, <1>3, <2>1
  <2>2. CASE k = done + 1 /\ done' = done + 1
    <3>1. k - 1 = done
      BY <1>1, <2>2
    <3> QED BY <1>1, <1>3, <2>2, <3>1
  <2> QED BY <2>1, <2>2
<1>5. \A j \in 1..Len(queue) : j # k => ((j <= done') = (j <= done))
  BY <1>1
<1>6. Pass(c, T[k-1], T[k], isDone, E)
  BY <1>3 DEF Past
<1>7. /\ c \in ListCommands /\ c.kind = "callback"
      /\ c.insert \in Seq(Callbacks) /\ c.delete \in Seq(CallbackIds)
      /\ c.before = Filed(T[k-1]) /\ c.after = Filed(T[k]) /\ Known(c.insert, E)
  BY <1>6 DEF Pass, ListCommands
<1>8. Exchange(c.insert, c.delete, here, there)
  BY <1>6 DEF Pass
<1>9. /\ events' = st.events /\ maya' = st.maya /\ nodeEvents' = nodeEvents
      /\ queue' = [queue EXCEPT ![k].insert = st.insert, ![k].delete = st.delete]
  BY <1>7, Zenon DEF Rerun
<1>10. st = RedoItImplementation(events, maya, c.insert, c.delete) /\ E = Ids(events)
  OBVIOUS
<1> DEFINE new == [c EXCEPT !.insert = st.insert, !.delete = st.delete]
<1>11. queue' = [queue EXCEPT ![k] = new]
  BY <1>1, <1>9
<1> HIDE DEF st, c, here, there, isDone, E
<1>12. /\ st \in RunStates(events)
       /\ Cbs(st.events) = there /\ Apart(there) /\ Exact(st.maya, there)
       /\ Exchange(st.insert, st.delete, there, here) /\ Known(st.insert, E)
  BY <1>1, <1>2, <1>4, <1>7, <1>8, <1>10, RunExchange
<1>13. /\ Consistent(st.events) /\ SameHeads(events, st.events)
       /\ st.insert \in Seq(Callbacks) /\ st.delete \in Seq(CallbackIds)
  BY <1>12 DEF RunStates
<1>14. Ids(st.events) = E
  BY <1>10, <1>13, SameIds
<1>15. /\ new \in ListCommands /\ new.insert = st.insert /\ new.delete = st.delete
       /\ new.before = c.before /\ new.after = c.after
  BY <1>7, <1>13 DEF ListCommands
<1> HIDE DEF new
<1>16. /\ Len(queue') = Len(queue) /\ queue'[k] = new
       /\ \A j \in 1..Len(queue) : j # k => queue'[j] = queue[j]
  BY <1>1, <1>11
<1>17. Pass(new, T[k-1], T[k], ~isDone, E)
  BY <1>4, <1>7, <1>12, <1>15 DEF Pass, here, there
<1>18. ASSUME NEW j \in 1..Len(queue') PROVE Pass(queue'[j], T[j-1], T[j], j <= done', E)
  <2>1. CASE j = k
    <3>1. (j <= done') = ~isDone
      BY <1>4, <2>1
    <3> QED BY <1>16, <1>17, <2>1, <3>1
  <2>2. CASE j # k
    <3>1. queue'[j] = queue[j] /\ ((j <= done') = (j <= done)) /\ j \in 1..Len(queue)
      BY <1>5, <1>16, <2>2
    <3>2. Pass(queue[j], T[j-1], T[j], j <= done, E)
      BY <1>3, <3>1 DEF Past
    <3> QED BY <3>1, <3>2
  <2> QED BY <2>1, <2>2
<1>19. Past(T, queue', done', E)
  BY <1>3, <1>16, <1>18 DEF Past
<1>20. PlainState'
  BY <1>2, <1>4, <1>9, <1>12, <1>14, <1>19 DEF PlainState
<1>21. Stored(st.events) = Filed(there)
  BY <1>12, <1>13, StoredFiled
<1> QED BY <1>7, <1>9, <1>15, <1>16, <1>20, <1>21 DEF there, isDone, c

\* AL_usdmaya_Callback, when no two flags were for one event.
LEMMA CallbackDoItPlain ==
  ASSUME PlainInv, NEW args \in CommandArgs, CallbackDoIt(args), plain'
  PROVE  PlainState' /\ done' = done + 1 /\ Stored(events') = queue'[done'].after
<1> DEFINE built == Build(args.flags)
           X == Cbs(events)
           I == built.insert
<1>1. args.flags \in Seq(Flags) /\ args.delete \in Seq(CallbackIds)
  BY ArgsAssumption DEF Flags
<1>2. RunLists(built.events, built.insert, args.delete) /\ plain' = (plain /\ Plain(built.insert))
  BY Zenon DEF CallbackDoIt
<1>3. ClientsInv /\ PlainState /\ Plain(built.insert)
  BY <1>2 DEF PlainInv
<1>4. built \in BuiltStates(events, X)
  BY <1>1, <1>3, BuildApart DEF ClientsInv, Inv
<1> HIDE DEF built
<1>5. /\ Consistent(built.events) /\ I \in Seq(Callbacks)
      /\ Cbs(built.events) = X /\ Ids(events) \subseteq Ids(built.events)
      /\ \A j \in 1..Len(I) :
           I[j].id.event \in Ids(built.events) /\ \A b \in X : ~Clash(I[j], b)
  BY <1>4 DEF BuiltStates, BuildStates, IsBuilt
<1> DEFINE Y == (X \ Named(X, args.delete)) \cup Given(I)
<1>6. Exchange(I, args.delete, X, Y)
  BY <1>3, <1>5, PlainExchange
<1>7. Known(I, Ids(built.events))
  BY <1>5 DEF Known, Reg
<1> HIDE DEF Y
<1> QED BY <1>1, <1>2, <1>3, <1>5, <1>6, <1>7, RunListsPlain

\* AL_usdmaya_DeleteCallbacks.
LEMMA DeletePlain ==
  ASSUME PlainInv, NEW id \in StoredIds, DeleteCallbacksDoIt(<<id>>), plain'
  PROVE  PlainState' /\ done' = done + 1 /\ Stored(events') = queue'[done'].after
<1> DEFINE D == <<id>>
           I == << >>
           X == Cbs(events)
           Y == X \ Named(X, D)
<1>1. ClientsInv /\ PlainState /\ RunLists(events, I, D)
  BY DEF DeleteCallbacksDoIt, PlainInv
<1>2. D \in Seq(CallbackIds) /\ I \in Seq(Callbacks) /\ Consistent(events)
  BY <1>1, StoredIdsType DEF ClientsInv, Inv
<1>3. Reg(I) = {} /\ Given(I) = {}
  BY DEF Reg, Given
<1> HIDE DEF D, I
<1>4. Exchange(I, D, X, Y) /\ Known(I, Ids(events))
  BY <1>3 DEF Exchange, Known
<1> HIDE DEF Y
<1> QED BY <1>1, <1>2, <1>4, RunListsPlain

\* A node without events goes.
LEMMA DestroyPlain ==
  ASSUME PlainInv, plain, NEW n, DestroyNode(n)
  PROVE  PlainState' /\ queue' = << >> /\ done' = 0
<1>1. /\ ClientsInv /\ PlainState /\ n \in DOMAIN nodeEvents
      /\ maya' = maya /\ nodeEvents' = Restrict(nodeEvents, DOMAIN nodeEvents \ {n})
      /\ queue' = << >> /\ done' = 0
  BY DEF PlainInv, DestroyNode, NodeDestroyed
<1>2. OwnIds(n) = {}
  BY <1>1 DEF PlainState, Bare, OwnIds
<1>3. events' \in Trimmed(events, OwnIds(n))
  BY <1>1, DestroyInv DEF ClientsInv, DestroyNode
<1>4. events' = events
  BY <1>2, <1>3 DEF Trimmed
<1>5. Bare(nodeEvents')
  BY <1>1 DEF PlainState, Bare, Restrict
<1> DEFINE T == [j \in 0..0 |-> Cbs(events)]
<1>6. Cbs(events) \in SUBSET Callbacks
  BY <1>1, CbsFacts DEF ClientsInv, Inv
<1>7. Past(T, queue', done', Ids(events')) /\ T[done'] = Cbs(events')
  BY <1>1, <1>4, <1>6 DEF Past
<1> HIDE DEF T
<1> QED BY <1>1, <1>4, <1>5, <1>7 DEF PlainState

\* A step after which there were plain commands only.
LEMMA PlainStep ==
  ASSUME PlainInv, [CommandNext]_commandVars, plain'
  PROVE  /\ PlainState'
         /\ done' < done /\ queue' # << >> => Stored(events') = queue[done].before
         /\ done' > done => Stored(events') = queue'[done'].after
<1>0. ClientsInv /\ queue \in Seq(Commands) /\ done \in 0..Len(queue) /\ Len(queue) \in Nat
  BY DEF PlainInv, ClientsInv, QueueOK
<1>1. ASSUME NEW args \in CommandArgs, CallbackDoIt(args)
      PROVE  PlainState' /\ done' = done + 1 /\ Stored(events') = queue'[done'].after
  BY <1>1, CallbackDoItPlain
<1>2. ASSUME NEW id \in StoredIds, DeleteCallbacksDoIt(<<id>>)
      PROVE  PlainState' /\ done' = done + 1 /\ Stored(events') = queue'[done'].after
  BY <1>2, DeletePlain
<1>3. ASSUME NEW args \in EventArgs,
             EventDoIt(args.node, args.name, args.parent, args.deleting)
      PROVE  FALSE
  BY <1>3 DEF EventDoIt
<1>4. CASE UndoIt
  <2>1. done \in 1..Len(queue) /\ Rerun(done) /\ done' = done - 1
    BY <1>0, <1>4 DEF UndoIt
  <2>2. PlainState
    BY <1>4, Zenon DEF UndoIt, PlainInv
  <2>3. (done = done /\ done' = done - 1) \/ (done = done + 1 /\ done' = done + 1)
    BY <2>1
  <2>4. /\ PlainState'
        /\ Stored(events') = IF done <= done THEN queue[done].before ELSE queue'[done].after
    BY <1>0, <2>1, <2>2, <2>3, RerunPlain
  <2> QED BY <1>0, <2>1, <2>4
<1>5. CASE RedoIt
  <2>1. done+1 \in 1..Len(queue) /\ Rerun(done+1) /\ done' = done + 1
    BY <1>0, <1>5 DEF RedoIt
  <2>2. PlainState
    BY <1>5, Zenon DEF RedoIt, PlainInv
  <2>3. /\ PlainState'
        /\ Stored(events') = IF done+1 <= done THEN queue[done+1].before ELSE queue'[done+1].after
    BY <1>0, <2>1, <2>2, RerunPlain
  <2> QED BY <1>0, <2>1, <2>3
<1>6. ASSUME NEW n \in Nodes, DestroyNode(n)
      PROVE  PlainState' /\ queue' = << >> /\ done' = 0
  <2>1. plain
    BY <1>6 DEF DestroyNode
  <2> QED BY <1>6, <2>1, DestroyPlain
<1>7. CASE UNCHANGED commandVars
  <2>1. /\ events' = events /\ maya' = maya /\ nodeEvents' = nodeEvents
        /\ queue' = queue /\ done' = done /\ plain' = plain
    BY <1>7 DEF commandVars, nodeVars, vars
  <2>2. PlainState'
    BY <2>1 DEF PlainInv, PlainState
  <2> QED BY <1>0, <2>1, <2>2
<1>8. CASE done' = done + 1 /\ PlainState' /\ Stored(events') = queue'[done'].after
  BY <1>0, <1>8
<1>9. CASE queue' = << >> /\ done' = 0 /\ PlainState'
  BY <1>0, <1>9
<1> QED BY <1>1, <1>2, <1>3, <1>4, <1>5, <1>6, <1>7, <1>8, <1>9 DEF CommandNext

LEMMA PlainNext == PlainInv /\ [CommandNext]_commandVars => PlainInv'
BY ClientsNext, PlainStep DEF PlainInv

\* Nothing is stored at first.
LEMMA PlainInit == CommandInit => PlainInv
<1> SUFFICES ASSUME CommandInit PROVE PlainInv
  OBVIOUS
<1>1. ClientsInv
  BY ClientsInit
<1>2. /\ events = [i \in 1..Len(MayaNames) |->
                     NewEvent(i, MayaNames[i], MayaType, NoOwner, InvalidId)]
      /\ maya = [i \in 1..Len(MayaNames) |-> [refCount |-> 0, installed |-> 0]]
      /\ nodeEvents = [n \in Nodes |-> << >>] /\ queue = << >> /\ done = 0
  BY DEF CommandInit, NodeInit, Init
<1>3. Len(MayaNames) \in Nat
  BY MayaNamesAssumption
<1>4. \A k \in 1..Len(events) : events[k].cbs = << >>
  BY <1>2, <1>3 DEF NewEvent
<1>5. Cbs(events) = {}
  BY <1>4 DEF Cbs, CbsOf
<1>6. Bare(nodeEvents)
  BY <1>2 DEF Bare
<1>7. Apart({})
  BY DEF Apart
<1>8. Exact(maya, {})
  <2>1. \A e : MayaOf({}, e) = {}
    BY DEF MayaOf
  <2> QED BY <1>2, <2>1, FS_EmptySet DEF Exact
<1> DEFINE T == [j \in 0..0 |-> {}]
<1>9. Past(T, queue, done, Ids(events)) /\ T[done] = Cbs(events)
  BY <1>2, <1>5 DEF Past
<1> HIDE DEF T
<1> QED BY <1>1, <1>5, <1>6, <1>7, <1>8, <1>9 DEF PlainInv, PlainState

\* The handler's count is that of the callbacks stored.
LEMMA PlainMeansExact == PlainInv => PlainExact
<1> SUFFICES ASSUME ClientsInv, PlainState PROVE CountExact
  BY DEF PlainInv, PlainExact
<1>1. Consistent(events) /\ DOMAIN maya = 1..Len(MayaNames)
  BY DEF ClientsInv, Inv
<1>2. ASSUME NEW e \in 1..Len(MayaNames)
      PROVE  maya[e].refCount = Cardinality(MayaCallbacks(e))
  <2>1. maya[e].refCount = Cardinality(MayaOf(Cbs(events), e))
    BY DEF PlainState, Exact
  <2>2. Cardinality(MayaOf(Cbs(events), e)) = Held(events, e)
    BY <1>1, MayaHeld
  <2>3. Held(events, e) = Cardinality(MayaCallbacks(e))
    BY DEF Held, MayaIn, MayaCallbacks
  <2> QED BY <2>1, <2>2, <2>3
<1> QED BY <1>1, <1>2 DEF CountExact

\* Two callbacks with one id would be one, and in one place.
LEMMA PlainMeansUnique == PlainInv => PlainUnique
<1> SUFFICES ASSUME ClientsInv, PlainState PROVE UniqueIds
  BY DEF PlainInv, PlainUnique
<1>1. Consistent(events)
  BY DEF ClientsInv, Inv
<1> SUFFICES ASSUME NEW k \in 1..Len(events), NEW i \in 1..Len(events[k].cbs),
                    NEW j \in 1..Len(events[k].cbs),
                    events[k].cbs[i].id = events[k].cbs[j].id
             PROVE  i = j
  BY DEF UniqueIds
<1>2. events[k].cbs[i] \in Cbs(events) /\ events[k].cbs[j] \in Cbs(events)
  BY <1>1, CbsFacts
<1>3. events[k].cbs[i] = events[k].cbs[j]
  BY <1>2 DEF PlainState, Apart, Clash
<1>4. OnePerSite(events[k].cbs)
  BY <1>1 DEF Consistent, Sound
<1> QED BY <1>3, <1>4 DEF OnePerSite

\* No two stored callbacks have one id, through all the undo and redo of callback
\* commands there can be.
THEOREM PlainIdsUnique == CommandSpec => []PlainUnique
BY PlainInit, PlainNext, PlainMeansUnique, PTL DEF CommandSpec

\* Nor does the handler lose or gain a reference.
THEOREM PlainCountsExact == CommandSpec => []PlainExact
BY PlainInit, PlainNext, PlainMeansExact, PTL DEF CommandSpec

\* Undo leaves the callbacks that were stored before the command, redo those that
\* were stored after it, however many commands were done and undone in between.
THEOREM UndoIsExact == CommandSpec => UndoRestores
<1>1. PlainInv /\ [CommandNext]_commandVars =>
        [plain' =>
           /\ done' < done /\ queue' # << >> => Stored(events') = queue[done].before
           /\ done' > done => Stored(events') = queue'[done'].after ]_commandVars
  BY PlainStep
<1> QED BY <1>1, PlainInit, PlainNext, PTL DEF CommandSpec, UndoRestores

=============================================================================
