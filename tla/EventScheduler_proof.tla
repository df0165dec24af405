------------------------ MODULE EventScheduler_proof ------------------------
(***************************************************************************)
(* The event scheduler keeps its events sorted and distinct, and the       *)
(* callbacks of each event ordered, distinct and reachable, for all names, *)
(* tags, owners and weights and under every use of its interface.          *)
(*                                                                         *)
(* The inductive invariant is the conjunction of the safety properties     *)
(* with the type: none of them is inductive without the others (insertion  *)
(* needs the order it keeps, a promotion needs Distinct to keep Distinct,  *)
(* and finding an event by id needs the type).                             *)
(***************************************************************************)
EXTENDS EventScheduler, SequenceLemmas

\* What holds of each event by itself.
Sound(d) == Ordered(d.cbs) /\ OnePerSite(d.cbs) /\ Reachable(d)

\* What holds of the vector of events.
Consistent(evs) ==
  /\ evs \in Seq(Dispatchers)
  /\ Ascending(evs)
  /\ Distinct(evs)
  /\ \A k \in 1..Len(evs) : Sound(evs[k])

Inv ==
  /\ Consistent(events)
  /\ maya \in [1..Len(MayaNames) -> MayaInfos]
  /\ infos \subseteq Callbacks

-----------------------------------------------------------------------------
(***************************************************************************)
(* Callbacks of one event.                                                 *)
(***************************************************************************)

\* A new callback's id exists and belongs to its event: std::max over the ids
\* in use has a result (EventHandler.cpp:83-94).
LEMMA LargestId ==
  ASSUME NEW s \in Seq(CallbackIds), NEW base \in CallbackIds
  PROVE  \E x \in {s[i] : i \in 1..Len(s)} \cup {base} :
           \A y \in {s[i] : i \in 1..Len(s)} \cup {base} : IdLeq(y, x)
<1> DEFINE Ids(n) == {s[i] : i \in 1..n} \cup {base}
           HasMax(n) == \E x \in Ids(n) : \A y \in Ids(n) : IdLeq(y, x)
           Bad == {n \in 0..Len(s) : ~ HasMax(n)}
<1>0. Len(s) \in Nat /\ \A i \in 1..Len(s) : s[i] \in CallbackIds
  BY ElementOfSeq
<1>1. \A x, y \in CallbackIds : IdLeq(x, y) \/ IdLeq(y, x)
  BY DEF CallbackIds, IdLeq, EventTypes, UnknownType, UserType, SchemaType,
         USDMayaType, MayaType
<1>2. \A x, y, z \in CallbackIds : IdLeq(x, y) /\ IdLeq(y, z) => IdLeq(x, z)
  BY DEF CallbackIds, IdLeq, EventTypes, UnknownType, UserType, SchemaType,
         USDMayaType, MayaType
<1>3. Bad = {}
  <2> SUFFICES ASSUME Bad # {} PROVE FALSE
    OBVIOUS
  <2>1. PICK m \in Bad : \A n \in Bad : m <= n
    <3>1. Bad \in SUBSET Nat
      BY <1>0
    <3> HIDE DEF Bad
    <3> QED BY <3>1, MinNat
  <2>2. m # 0
    <3>1. Ids(0) = {base}
      OBVIOUS
    <3>2. IdLeq(base, base)
      BY <1>1
    <3> QED BY <3>1, <3>2
  <2>3. m \in 1..Len(s) /\ m-1 \in 0..Len(s) /\ m-1 \notin Bad
    <3> HIDE DEF HasMax
    <3>1. m \in 0..Len(s)
      OBVIOUS
    <3> HIDE DEF Bad
    <3> QED BY <1>0, <2>1, <2>2, <3>1
  <2>4. HasMax(m-1)
    <3> HIDE DEF HasMax
    <3> QED BY <2>3
  <2>5. ~ HasMax(m)
    <3> HIDE DEF HasMax
    <3> QED OBVIOUS
  <2>6. PICK x \in Ids(m-1) : \A y \in Ids(m-1) : IdLeq(y, x)
    BY <2>4
  <2>7. Ids(m) = Ids(m-1) \cup {s[m]}
    BY <1>0, <2>3
  <2>8. s[m] \in CallbackIds /\ Ids(m-1) \subseteq CallbackIds
    BY <1>0, <2>3
  <2> HIDE DEF Ids
  <2>9. CASE IdLeq(s[m], x)
    BY <2>6, <2>7, <2>9, <2>5, <2>8, <1>1
  <2>10. CASE IdLeq(x, s[m])
    <3>1. \A y \in Ids(m-1) : IdLeq(y, s[m])
      BY <2>6, <2>8, <2>10, <1>2
    <3>2. IdLeq(s[m], s[m])
      BY <1>1, <2>8
    <3> QED BY <3>1, <3>2, <2>7, <2>5
  <2> QED BY <2>9, <2>10, <1>1, <2>6, <2>8
<1>4. HasMax(Len(s))
  <2> HIDE DEF HasMax
  <2> QED BY <1>0, <1>3
<1> QED BY <1>4

\* The id a new callback gets is a callback id and names its event.
LEMMA NewIdFacts ==
  ASSUME NEW d \in Dispatchers, Reachable(d)
  PROVE  /\ NewCallbackId(d) \in CallbackIds
         /\ NewCallbackId(d).event = d.id
<1> DEFINE s == [i \in 1..Len(d.cbs) |-> d.cbs[i].id]
           ids == LiveIds(d) \cup {BaseId(d)}
           top == CHOOSE x \in ids : \A y \in ids : IdLeq(y, x)
<1>0. d.cbs \in Seq(Callbacks) /\ Len(d.cbs) \in Nat
  BY DEF Dispatchers
<1>1. \A i \in 1..Len(d.cbs) : d.cbs[i].id \in CallbackIds
  <2>1. \A i \in 1..Len(d.cbs) : d.cbs[i] \in Callbacks
    BY <1>0, ElementOfSeq
  <2> QED BY <2>1 DEF Callbacks
<1>2. s \in Seq(CallbackIds) /\ Len(s) = Len(d.cbs)
  BY <1>0, <1>1
<1>3. BaseId(d) \in CallbackIds /\ BaseId(d).event = d.id
  BY DEF BaseId, CallbackIds, Dispatchers
<1>4. ids = {s[i] : i \in 1..Len(s)} \cup {BaseId(d)}
  BY <1>2 DEF LiveIds
<1>5. \E x \in ids : \A y \in ids : IdLeq(y, x)
  <2> DEFINE all == {s[i] : i \in 1..Len(s)} \cup {BaseId(d)}
  <2> HIDE DEF s, ids
  <2>1. \E x \in all : \A y \in all : IdLeq(y, x)
    BY <1>2, <1>3, LargestId
  <2>2. ids = all
    BY <1>4
  <2> HIDE DEF all
  <2> QED BY <2>1, <2>2
<1>6. top \in ids
  <2> HIDE DEF ids
  <2> QED BY <1>5
<1>7. top \in CallbackIds /\ top.event = d.id
  <2>1. \A x \in ids : x \in CallbackIds /\ x.event = d.id
    BY <1>1, <1>3 DEF LiveIds, Reachable
  <2> HIDE DEF ids, top
  <2> QED BY <1>6, <2>1
<1>8. NewCallbackId(d) = [top EXCEPT !.num = @ + 1]
  BY DEF NewCallbackId
<1> HIDE DEF top
<1> QED BY <1>7, <1>8 DEF CallbackIds


\* Callbacks built by the event are new to it and belong to it.
LEMMA BuiltFacts ==
  ASSUME NEW d \in Dispatchers, Reachable(d),
         NEW tag \in Tags, NEW weight \in Weights, NEW data \in Datas,
         NEW cb \in {BuiltScript(d, tag, weight), BuiltFunction(d, tag, weight, data)},
         cb # EmptyCallback
  PROVE  /\ cb \in Callbacks
         /\ cb.id.event = d.id
         /\ ~ SiteTaken(d.cbs, cb.tag, cb.data)
<1>1. NewCallbackId(d) \in CallbackIds /\ NewCallbackId(d).event = d.id
  BY NewIdFacts
<1>2. weight \in Nat /\ NoData \in Datas
  BY WeightAssumption, DataAssumption
<1>3. CASE cb = BuiltScript(d, tag, weight)
  <2>1. ~ TagTaken(d.cbs, tag)
    BY <1>3 DEF BuiltScript
  <2>2. cb = [id |-> NewCallbackId(d), tag |-> tag, data |-> NoData, weight |-> weight]
    BY <1>3, <2>1 DEF BuiltScript
  <2> QED BY <1>1, <1>2, <2>1, <2>2 DEF Callbacks, TagTaken, SiteTaken
<1>4. CASE cb = BuiltFunction(d, tag, weight, data)
  <2>1. ~ SiteTaken(d.cbs, tag, data)
    BY <1>4 DEF BuiltFunction
  <2>2. cb = [id |-> NewCallbackId(d), tag |-> tag, data |-> data, weight |-> weight]
    BY <1>4, <2>1 DEF BuiltFunction
  <2> QED BY <1>1, <1>2, <2>1, <2>2 DEF Callbacks
<1> QED BY <1>3, <1>4

\* The place of insertion is behind every smaller weight and in front of
\* every other one, if the vector is in order.
LEMMA InsertLocationFacts ==
  ASSUME NEW cbs \in Seq(Callbacks), Ordered(cbs), NEW weight \in Nat
  PROVE  /\ InsertLocation(cbs, weight) \in 1..Len(cbs)+1
         /\ \A j \in 1..Len(cbs) :
              /\ j < InsertLocation(cbs, weight) => cbs[j].weight <= weight
              /\ j >= InsertLocation(cbs, weight) => cbs[j].weight >= weight
<1> DEFINE P == {i \in 1..Len(cbs)+1 : i <= Len(cbs) => cbs[i].weight >= weight}
           loc == InsertLocation(cbs, weight)
<1>0. Len(cbs) \in Nat /\ \A i \in 1..Len(cbs) : cbs[i].weight \in Nat
  <2>1. \A i \in 1..Len(cbs) : cbs[i] \in Callbacks
    BY ElementOfSeq
  <2>2. \A c \in Callbacks : c.weight \in Nat
    BY WeightAssumption DEF Callbacks
  <2>3. Len(cbs) \in Nat
    OBVIOUS
  <2> QED BY <2>1, <2>2, <2>3
<1>1. P \in SUBSET Nat /\ Len(cbs)+1 \in P
  BY <1>0
<1>2. loc = Min(P)
  BY DEF InsertLocation
<1>3. loc \in P /\ \A y \in P : loc <= y
  <2> HIDE DEF P, loc
  <2> QED BY <1>1, <1>2, MinNat
<1>4. loc \in 1..Len(cbs)+1 /\ (loc <= Len(cbs) => cbs[loc].weight >= weight)
  BY <1>3
<1>5. \A y \in 1..Len(cbs) : cbs[y].weight >= weight => loc <= y
  BY <1>3, <1>0
<1> HIDE DEF P, loc
<1>6. ASSUME NEW j \in 1..Len(cbs), j < loc PROVE cbs[j].weight <= weight
  BY <1>0, <1>4, <1>5, <1>6
<1>7. ASSUME NEW j \in 1..Len(cbs), j >= loc PROVE cbs[j].weight >= weight
  <2>1. CASE j = loc
    BY <1>4, <2>1, <1>0
  <2>2. CASE loc < j
    <3>1. loc \in 1..Len(cbs) /\ cbs[loc].weight <= cbs[j].weight
      BY <2>2, <1>4, <1>0 DEF Ordered
    <3> QED BY <3>1, <1>4, <1>0
  <2> QED BY <2>1, <2>2, <1>7, <1>4, <1>0
<1> QED BY <1>4, <1>6, <1>7 DEF loc

\* Inserting a callback whose site is free keeps an event sound.
LEMMA InsertSound ==
  ASSUME NEW d \in Dispatchers, Sound(d),
         NEW cb \in Callbacks, cb.id.event = d.id,
         ~ SiteTaken(d.cbs, cb.tag, cb.data),
         NEW d1, d1 = [d EXCEPT !.cbs = InsertCallback(@, cb)]
  PROVE  d1 \in Dispatchers /\ Sound(d1)
<1> DEFINE s == d.cbs
           loc == InsertLocation(s, cb.weight)
           t == InsertCallback(s, cb)
<1>0. s \in Seq(Callbacks) /\ Len(s) \in Nat /\ cb.weight \in Nat
  BY WeightAssumption DEF Dispatchers, Callbacks
<1>1. /\ loc \in 1..Len(s)+1
      /\ \A j \in 1..Len(s) : /\ j < loc => s[j].weight <= cb.weight
                              /\ j >= loc => s[j].weight >= cb.weight
  BY <1>0, InsertLocationFacts DEF Sound
<1>2. t = InsertAt(s, loc, cb)
  BY DEF InsertCallback
<1> HIDE DEF loc, t
<1>3. /\ t \in Seq(Callbacks) /\ Len(t) = Len(s) + 1
      /\ \A j \in 1..loc-1 : t[j] = s[j]
      /\ t[loc] = cb
      /\ \A j \in loc+1..Len(s)+1 : t[j] = s[j-1]
  <2> HIDE DEF s
  <2> QED BY <1>0, <1>1, <1>2, InsertAtFacts
<1>4. d1 \in Dispatchers /\ d1.cbs = t /\ d1.id = d.id
  BY <1>3 DEF Dispatchers, t
<1>5. \A i \in 1..Len(s) : s[i].weight \in Nat
  <2>1. \A i \in 1..Len(s) : s[i] \in Callbacks
    BY <1>0, ElementOfSeq
  <2> QED BY <2>1, WeightAssumption DEF Callbacks
<1> DEFINE from(j) == IF j < loc THEN j ELSE j-1
<1>6. ASSUME NEW j \in 1..Len(t), j # loc
      PROVE  from(j) \in 1..Len(s) /\ t[j] = s[from(j)]
  <2>1. CASE j < loc
    <3>1. j \in 1..loc-1 /\ j \in 1..Len(s)
      BY <1>0, <1>1, <1>3, <2>1
    <3> QED BY <3>1, <2>1, <1>3
  <2>2. CASE j > loc
    <3>1. j \in loc+1..Len(s)+1 /\ j-1 \in 1..Len(s) /\ ~(j < loc)
      BY <1>0, <1>1, <1>3, <2>2
    <3> QED BY <3>1, <1>3
  <2> QED BY <2>1, <2>2, <1>6, <1>0, <1>1, <1>3
<1> HIDE DEF s
<1>7. Ordered(t)
  <2> SUFFICES ASSUME NEW i \in 1..Len(t), NEW j \in 1..Len(t), i < j
               PROVE  t[i].weight <= t[j].weight
    BY DEF Ordered
  <2>1. CASE i # loc /\ j # loc
    <3>1. from(i) < from(j)
      BY <1>0, <1>1, <1>3, <2>1
    <3>2. s[from(i)].weight <= s[from(j)].weight
      BY <3>1, <2>1, <1>6 DEF Sound, Ordered, s
    <3> QED BY <2>1, <1>6, <3>2
  <2>2. CASE i = loc
    <3>1. j # loc /\ from(j) >= loc
      BY <1>0, <1>1, <1>3, <2>2
    <3>2. s[from(j)].weight >= cb.weight
      BY <3>1, <1>1, <1>6
    <3>3. t[j] = s[from(j)] /\ s[from(j)].weight \in Nat
      BY <3>1, <1>6, <1>5
    <3> HIDE DEF from
    <3> QED BY <3>2, <3>3, <2>2, <1>3, <1>0
  <2>3. CASE j = loc
    <3>1. i # loc /\ from(i) < loc
      BY <1>0, <1>1, <1>3, <2>3
    <3>2. s[from(i)].weight <= cb.weight
      BY <3>1, <1>1, <1>6
    <3> QED BY <3>1, <3>2, <2>3, <1>3, <1>6
  <2> QED BY <2>1, <2>2, <2>3
<1>8. OnePerSite(t)
  <2> SUFFICES ASSUME NEW i \in 1..Len(t), NEW j \in 1..Len(t),
                      t[i].tag = t[j].tag, t[i].data = t[j].data
               PROVE  i = j
    BY DEF OnePerSite
  <2>1. CASE i # loc /\ j # loc
    <3>1. from(i) = from(j)
      <4>1. from(i) \in 1..Len(s) /\ t[i] = s[from(i)]
        BY <2>1, <1>6
      <4>2. from(j) \in 1..Len(s) /\ t[j] = s[from(j)]
        BY <2>1, <1>6
      <4> HIDE DEF from
      <4> QED BY <4>1, <4>2 DEF Sound, OnePerSite, s
    <3> QED BY <3>1, <2>1, <1>0, <1>1, <1>3
  <2>2. CASE i = loc /\ j # loc
    BY <2>2, <1>3, <1>6 DEF SiteTaken, s
  <2>3. CASE j = loc /\ i # loc
    BY <2>3, <1>3, <1>6 DEF SiteTaken, s
  <2> QED BY <2>1, <2>2, <2>3
<1>9. \A i \in 1..Len(t) : t[i].id.event = d.id
  <2> TAKE i \in 1..Len(t)
  <2>1. CASE i = loc
    BY <2>1, <1>3
  <2>2. CASE i # loc
    BY <2>2, <1>6 DEF Sound, Reachable, s
  <2> QED BY <2>1, <2>2
<1> QED BY <1>4, <1>7, <1>8, <1>9 DEF Sound, Reachable

\* So does erasing a callback that is there.
LEMMA EraseSound ==
  ASSUME NEW d \in Dispatchers, Sound(d), NEW id, HasId(d.cbs, id),
         NEW d1, d1 = [d EXCEPT !.cbs = EraseCallback(@, id)]
  PROVE  /\ d1 \in Dispatchers /\ Sound(d1)
         /\ FirstWithId(d.cbs, id) \in 1..Len(d.cbs)
         /\ d.cbs[FirstWithId(d.cbs, id)].id = id
<1> DEFINE s == d.cbs
           P == {i \in 1..Len(s) : s[i].id = id}
           loc == FirstWithId(s, id)
           t == EraseCallback(s, id)
<1>0. s \in Seq(Callbacks) /\ Len(s) \in Nat
  BY DEF Dispatchers
<1>1. P \in SUBSET Nat /\ P # {}
  BY <1>0 DEF HasId
<1>2. loc \in P
  <2>1. loc = Min(P)
    BY DEF FirstWithId
  <2> HIDE DEF P, loc
  <2> QED BY <1>1, <2>1, MinNat
<1>3. loc \in 1..Len(s) /\ s[loc].id = id
  BY <1>2
<1>4. t = RemoveAt(s, loc)
  BY DEF EraseCallback
<1> HIDE DEF P, loc, t
<1>5. /\ t \in Seq(Callbacks) /\ Len(t) = Len(s) - 1
      /\ \A j \in 1..loc-1 : t[j] = s[j]
      /\ \A j \in loc..Len(s)-1 : t[j] = s[j+1]
  <2> HIDE DEF s
  <2> QED BY <1>0, <1>3, <1>4, RemoveAtFacts
<1>6. d1 \in Dispatchers /\ d1.cbs = t /\ d1.id = d.id
  BY <1>5 DEF Dispatchers, t
<1> DEFINE from(j) == IF j < loc THEN j ELSE j+1
<1>7. \A j \in 1..Len(t) : from(j) \in 1..Len(s) /\ t[j] = s[from(j)]
  BY <1>0, <1>3, <1>5
<1>8. \A i, j \in 1..Len(t) : i < j => from(i) < from(j)
  BY <1>0, <1>3, <1>5
<1>9. \A i, j \in 1..Len(t) : from(i) = from(j) => i = j
  BY <1>0, <1>3, <1>5
<1> HIDE DEF from
<1>10. Ordered(t)
  BY <1>7, <1>8 DEF Sound, Ordered
<1>11. OnePerSite(t)
  BY <1>7, <1>9 DEF Sound, OnePerSite
<1>12. \A i \in 1..Len(t) : t[i].id.event = d.id
  BY <1>7 DEF Sound, Reachable
<1> QED BY <1>3, <1>6, <1>10, <1>11, <1>12 DEF Sound, Reachable, loc


-----------------------------------------------------------------------------
(***************************************************************************)
(* The vector of events.                                                   *)
(***************************************************************************)

\* What a search returns is a place of the vector.
LEMMA LookupFacts ==
  ASSUME NEW evs \in Seq(Dispatchers)
  PROVE  /\ \A id : HasEvent(evs, id) =>
              LowerBound(evs, id) \in 1..Len(evs) /\ evs[LowerBound(evs, id)].id = id
         /\ \A name : HasName(evs, name) =>
              FirstNamed(evs, name) \in 1..Len(evs) /\ evs[FirstNamed(evs, name)].name = name
<1>0. Len(evs) \in Nat
  OBVIOUS
<1>1. ASSUME NEW id, HasEvent(evs, id)
      PROVE  LowerBound(evs, id) \in 1..Len(evs) /\ evs[LowerBound(evs, id)].id = id
  <2> DEFINE P == {i \in 1..Len(evs)+1 : i <= Len(evs) => evs[i].id >= id}
  <2>1. P \in SUBSET Nat /\ Len(evs)+1 \in P
    BY <1>0
  <2>2. LowerBound(evs, id) \in P
    <3>1. LowerBound(evs, id) = Min(P)
      BY DEF LowerBound
    <3> HIDE DEF P
    <3> QED BY <2>1, <3>1, MinNat
  <2>3. LowerBound(evs, id) \in 1..Len(evs)+1
    BY <2>2
  <2> HIDE DEF P
  <2> QED BY <2>3, <1>0, <1>1 DEF HasEvent
<1>2. ASSUME NEW name, HasName(evs, name)
      PROVE  FirstNamed(evs, name) \in 1..Len(evs) /\ evs[FirstNamed(evs, name)].name = name
  <2> DEFINE P == {i \in 1..Len(evs) : evs[i].name = name}
  <2>1. P \in SUBSET Nat /\ P # {}
    BY <1>0, <1>2 DEF HasName
  <2>2. FirstNamed(evs, name) \in P
    <3>1. FirstNamed(evs, name) = Min(P)
      BY DEF FirstNamed
    <3> HIDE DEF P
    <3> QED BY <2>1, <3>1, MinNat
  <2> QED BY <2>2
<1> QED BY <1>1, <1>2

\* Events that differ in their callbacks only.
Same(d, e) == /\ d.id = e.id /\ d.name = e.name /\ d.type = e.type
              /\ d.owner = e.owner /\ d.parent = e.parent

\* Changing the callbacks of one event, to callbacks that are sound for it.
LEMMA ChangeConsistent ==
  ASSUME NEW evs, Consistent(evs), NEW i \in 1..Len(evs),
         NEW d1 \in Dispatchers, Sound(d1), Same(d1, evs[i])
  PROVE  Consistent([evs EXCEPT ![i] = d1])
<1> DEFINE new == [evs EXCEPT ![i] = d1]
<1>0. evs \in Seq(Dispatchers) /\ Len(evs) \in Nat
  BY DEF Consistent
<1>3. new \in Seq(Dispatchers) /\ Len(new) = Len(evs)
  BY <1>0
<1>4. \A j \in 1..Len(evs) : new[j] = IF j = i THEN d1 ELSE evs[j]
  BY <1>0
<1> HIDE DEF new
<1>5. \A j \in 1..Len(evs) : Same(new[j], evs[j])
  BY <1>4 DEF Same
<1>6. Ascending(new)
  BY <1>0, <1>3, <1>5 DEF Consistent, Ascending, Same
<1>7. Distinct(new)
  <2> SUFFICES ASSUME NEW j \in 1..Len(new), NEW k \in 1..Len(new),
                      j # k, new[j].name = new[k].name
               PROVE  /\ new[j].type # UnknownType
                      /\ <<new[j].owner, new[j].parent>> # <<new[k].owner, new[k].parent>>
    BY DEF Distinct
  <2>1. Same(new[j], evs[j]) /\ Same(new[k], evs[k])
    BY <1>3, <1>5
  <2> QED BY <2>1, <1>3 DEF Consistent, Distinct, Same
<1>8. \A k \in 1..Len(new) : Sound(new[k])
  BY <1>3, <1>4 DEF Consistent
<1> QED BY <1>3, <1>6, <1>7, <1>8 DEF Consistent, new

\* Storing a callback under the event its id names keeps the scheduler consistent.
LEMMA StoreConsistent ==
  ASSUME NEW evs, Consistent(evs), NEW i \in 1..Len(evs),
         NEW cb \in Callbacks, cb.id.event = evs[i].id,
         ~ SiteTaken(evs[i].cbs, cb.tag, cb.data)
  PROVE  Consistent(WithCallback(evs, i, cb))
<1> DEFINE d1 == [evs[i] EXCEPT !.cbs = InsertCallback(@, cb)]
<1>1. evs \in Seq(Dispatchers) /\ evs[i] \in Dispatchers /\ Sound(evs[i])
  BY ElementOfSeq DEF Consistent
<1>2. d1 \in Dispatchers /\ Sound(d1)
  <2> DEFINE d == evs[i]
  <2>1. d \in Dispatchers /\ Sound(d) /\ cb.id.event = d.id
        /\ ~ SiteTaken(d.cbs, cb.tag, cb.data)
        /\ d1 = [d EXCEPT !.cbs = InsertCallback(@, cb)]
    BY <1>1
  <2> HIDE DEF d, d1
  <2> QED BY <2>1, InsertSound
<1>3. WithCallback(evs, i, cb) = [evs EXCEPT ![i] = d1]
  BY DEF WithCallback
<1>4. Same(d1, evs[i])
  BY <1>1 DEF Same, Dispatchers
<1> HIDE DEF d1
<1>5. Consistent([evs EXCEPT ![i] = d1])
  BY <1>2, <1>4, ChangeConsistent, Zenon
<1> QED BY <1>3, <1>5, Zenon

\* So does taking a callback out.
LEMMA TakeConsistent ==
  ASSUME NEW evs, Consistent(evs), NEW id, HasCallback(evs, id)
  PROVE  /\ Consistent(WithoutCallback(evs, id))
         /\ FoundCallback(evs, id) \in Callbacks
<1> DEFINE i == LowerBound(evs, id.event)
           d1 == [evs[i] EXCEPT !.cbs = EraseCallback(@, id)]
<1>1. evs \in Seq(Dispatchers)
  BY DEF Consistent
<1>2. i \in 1..Len(evs) /\ HasId(evs[i].cbs, id)
  BY <1>1, LookupFacts DEF HasCallback
<1>3. WithoutCallback(evs, id) = [evs EXCEPT ![i] = d1]
  BY DEF WithoutCallback
<1>4. FoundCallback(evs, id) = evs[i].cbs[FirstWithId(evs[i].cbs, id)]
  BY DEF FoundCallback
<1> HIDE DEF i
<1>5. evs[i] \in Dispatchers /\ Sound(evs[i])
  BY <1>1, <1>2, ElementOfSeq DEF Consistent
<1>6. /\ d1 \in Dispatchers /\ Sound(d1)
      /\ FirstWithId(evs[i].cbs, id) \in 1..Len(evs[i].cbs)
  <2> DEFINE d == evs[i]
  <2>1. d \in Dispatchers /\ Sound(d) /\ HasId(d.cbs, id)
        /\ d1 = [d EXCEPT !.cbs = EraseCallback(@, id)]
    BY <1>5, <1>2
  <2>2. /\ d1 \in Dispatchers /\ Sound(d1)
        /\ FirstWithId(d.cbs, id) \in 1..Len(d.cbs)
    <3> HIDE DEF d, d1
    <3> QED BY <2>1, EraseSound
  <2> QED BY <2>2
<1>7. evs[i].cbs \in Seq(Callbacks)
  BY <1>5 DEF Dispatchers
<1>8. FoundCallback(evs, id) \in Callbacks
  BY <1>4, <1>6, <1>7, ElementOfSeq
<1>9. Same(d1, evs[i])
  BY <1>5 DEF Same, Dispatchers
<1> HIDE DEF d1
<1>10. Consistent([evs EXCEPT ![i] = d1])
  BY <1>2, <1>6, <1>9, ChangeConsistent, Zenon
<1> QED BY <1>3, <1>8, <1>10, Zenon

\* So does erasing an event.
LEMMA RemoveConsistent ==
  ASSUME NEW evs, Consistent(evs), NEW i \in 1..Len(evs)
  PROVE  Consistent(RemoveAt(evs, i))
<1> DEFINE new == RemoveAt(evs, i)
           from(j) == IF j < i THEN j ELSE j+1
<1>0. evs \in Seq(Dispatchers) /\ Len(evs) \in Nat
  BY DEF Consistent
<1>1. /\ new \in Seq(Dispatchers) /\ Len(new) = Len(evs) - 1
      /\ \A j \in 1..i-1 : new[j] = evs[j]
      /\ \A j \in i..Len(evs)-1 : new[j] = evs[j+1]
  BY <1>0, RemoveAtFacts
<1> HIDE DEF new
<1>2. \A j \in 1..Len(new) : from(j) \in 1..Len(evs) /\ new[j] = evs[from(j)]
  BY <1>0, <1>1
<1>3. \A j, k \in 1..Len(new) : j < k => from(j) < from(k)
  BY <1>0, <1>1
<1>4. \A j, k \in 1..Len(new) : j # k => from(j) # from(k)
  BY <1>0, <1>1
<1> HIDE DEF from
<1>5. Ascending(new)
  BY <1>2, <1>3 DEF Consistent, Ascending
<1>6. Distinct(new)
  <2> SUFFICES ASSUME NEW j \in 1..Len(new), NEW k \in 1..Len(new),
                      j # k, new[j].name = new[k].name
               PROVE  /\ new[j].type # UnknownType
                      /\ <<new[j].owner, new[j].parent>> # <<new[k].owner, new[k].parent>>
    BY DEF Distinct
  <2>1. /\ from(j) \in 1..Len(evs) /\ from(k) \in 1..Len(evs) /\ from(j) # from(k)
        /\ new[j] = evs[from(j)] /\ new[k] = evs[from(k)]
    BY <1>2, <1>4
  <2> QED BY <2>1 DEF Consistent, Distinct
<1>7. \A k \in 1..Len(new) : Sound(new[k])
  BY <1>2 DEF Consistent
<1> QED BY <1>1, <1>5, <1>6, <1>7 DEF Consistent, new

\* The id registerEvent finds is the place it inserts at: the ids in front of
\* it are 1, 2, ... and those behind it are larger.
LEMMA UnusedIdFacts ==
  ASSUME NEW evs \in Seq(Dispatchers), Ascending(evs)
  PROVE  /\ UnusedId(evs) \in 1..Len(evs)+1
         /\ \A j \in 1..Len(evs) : /\ j < UnusedId(evs) => evs[j].id = j
                                   /\ j >= UnusedId(evs) => evs[j].id > UnusedId(evs)
<1> DEFINE P == {n \in 1..Len(evs)+1 : n <= Len(evs) => evs[n].id # n}
           u == UnusedId(evs)
<1>0. Len(evs) \in Nat /\ \A j \in 1..Len(evs) : evs[j].id \in Nat
  <2>1. \A j \in 1..Len(evs) : evs[j] \in Dispatchers
    BY ElementOfSeq
  <2> QED BY <2>1 DEF Dispatchers
<1>1. P \in SUBSET Nat /\ Len(evs)+1 \in P
  BY <1>0
<1>2. u \in P /\ \A y \in P : u <= y
  <2>1. u = Min(P)
    BY DEF UnusedId
  <2> HIDE DEF P, u
  <2> QED BY <1>1, <2>1, MinNat
<1>3. u \in 1..Len(evs)+1 /\ (u <= Len(evs) => evs[u].id # u)
  BY <1>2
<1>4. \A y \in 1..Len(evs) : evs[y].id # y => u <= y
  BY <1>2, <1>0
<1> HIDE DEF P, u
<1>5. \A j \in 1..Len(evs) : j < u => evs[j].id = j
  BY <1>0, <1>3, <1>4
<1>6. u <= Len(evs) => evs[u].id > u
  <2>1. CASE u = 1
    BY <2>1, <1>0, <1>3 DEF Ascending
  <2>2. CASE u > 1 /\ u <= Len(evs)
    <3>1. u-1 \in 1..Len(evs) /\ u \in 1..Len(evs) /\ u-1 < u
      BY <2>2, <1>0, <1>3
    <3>2. evs[u-1].id = u-1 /\ evs[u-1].id < evs[u].id
      BY <3>1, <1>5 DEF Ascending
    <3> QED BY <3>1, <3>2, <1>0, <1>3
  <2> QED BY <2>1, <2>2, <1>3, <1>0
<1>7. ASSUME NEW j \in 1..Len(evs), j >= u PROVE evs[j].id > u
  <2>1. CASE j = u
    BY <2>1, <1>6
  <2>2. CASE u < j
    <3>1. u \in 1..Len(evs) /\ evs[u].id < evs[j].id
      BY <2>2, <1>0, <1>3 DEF Ascending
    <3> QED BY <3>1, <1>6, <1>0, <1>3
  <2> QED BY <2>1, <2>2, <1>7, <1>3, <1>0
<1> QED BY <1>3, <1>5, <1>7 DEF u


\* So does a new event, if none of its name is in the way.
LEMMA NewEventConsistent ==
  ASSUME NEW evs, Consistent(evs),
         NEW name \in Names, NEW type \in EventTypes, NEW owner \in Owners,
         NEW parent \in CallbackIds,
         InTheWay(evs, name, owner, parent) = {},
         type # UnknownType \/ ~ HasName(evs, name)
  PROVE  /\ Consistent(WithNewEvent(evs, name, type, owner, parent))
         /\ HasName(WithNewEvent(evs, name, type, owner, parent), name)
<1> DEFINE u == UnusedId(evs)
           fresh == NewEvent(u, name, type, owner, parent)
           new == WithNewEvent(evs, name, type, owner, parent)
<1>0. evs \in Seq(Dispatchers) /\ Len(evs) \in Nat /\ Ascending(evs)
  BY DEF Consistent
<1>1. /\ u \in 1..Len(evs)+1
      /\ \A j \in 1..Len(evs) : /\ j < u => evs[j].id = j
                                /\ j >= u => evs[j].id > u
  BY <1>0, UnusedIdFacts
<1> HIDE DEF u
<1>2. /\ fresh \in Dispatchers /\ fresh.id = u /\ fresh.name = name /\ fresh.type = type
      /\ fresh.owner = owner /\ fresh.parent = parent /\ fresh.cbs = << >>
  BY <1>1 DEF NewEvent, Dispatchers
<1>3. new = InsertAt(evs, u, fresh)
  BY DEF WithNewEvent, u
<1> HIDE DEF fresh, new
<1>4. /\ new \in Seq(Dispatchers) /\ Len(new) = Len(evs) + 1
      /\ \A j \in 1..u-1 : new[j] = evs[j]
      /\ new[u] = fresh
      /\ \A j \in u+1..Len(evs)+1 : new[j] = evs[j-1]
  <2>1. evs \in Seq(Dispatchers) /\ u \in 1..Len(evs)+1 /\ fresh \in Dispatchers
    BY <1>0, <1>1, <1>2
  <2>2. /\ InsertAt(evs, u, fresh) \in Seq(Dispatchers)
        /\ Len(InsertAt(evs, u, fresh)) = Len(evs) + 1
        /\ \A j \in 1..u-1 : InsertAt(evs, u, fresh)[j] = evs[j]
        /\ InsertAt(evs, u, fresh)[u] = fresh
        /\ \A j \in u+1..Len(evs)+1 : InsertAt(evs, u, fresh)[j] = evs[j-1]
    BY <2>1, InsertAtFacts, SMTT(60)
  <2> QED BY <2>2, <1>3, Zenon
<1> DEFINE from(j) == IF j < u THEN j ELSE j-1
<1>5. ASSUME NEW j \in 1..Len(new), j # u
      PROVE  from(j) \in 1..Len(evs) /\ new[j] = evs[from(j)]
  <2>1. CASE j < u
    <3>1. j \in 1..u-1 /\ j \in 1..Len(evs)
      BY <1>0, <1>1, <1>4, <2>1
    <3> QED BY <3>1, <2>1, <1>4
  <2>2. CASE j > u
    <3>1. j \in u+1..Len(evs)+1 /\ j-1 \in 1..Len(evs) /\ ~(j < u)
      BY <1>0, <1>1, <1>4, <2>2
    <3> QED BY <3>1, <1>4
  <2> QED BY <2>1, <2>2, <1>5, <1>0, <1>1, <1>4
<1>6. \A j \in 1..Len(evs) : evs[j].id \in Nat
  <2>1. \A j \in 1..Len(evs) : evs[j] \in Dispatchers
    BY <1>0, ElementOfSeq
  <2> QED BY <2>1 DEF Dispatchers
<1>7. ASSUME NEW j \in 1..Len(new) PROVE new[j].id >= 1
  <2>1. CASE j = u
    BY <2>1, <1>1, <1>2, <1>4, <1>0
  <2>2. CASE j # u
    BY <2>2, <1>5, <1>0 DEF Ascending
  <2> QED BY <2>1, <2>2
<1>8. ASSUME NEW i \in 1..Len(new), NEW j \in 1..Len(new), i < j
      PROVE  new[i].id < new[j].id
  <2>1. CASE i # u /\ j # u
    <3>1. from(i) < from(j)
      BY <1>0, <1>1, <1>4, <1>8, <2>1
    <3>2. /\ from(i) \in 1..Len(evs) /\ new[i] = evs[from(i)]
          /\ from(j) \in 1..Len(evs) /\ new[j] = evs[from(j)]
      BY <2>1, <1>5
    <3> HIDE DEF from
    <3> QED BY <3>1, <3>2, <1>0 DEF Ascending
  <2>2. CASE i = u
    <3>1. j # u /\ from(j) >= u
      BY <1>0, <1>1, <1>4, <1>8, <2>2
    <3>2. from(j) \in 1..Len(evs) /\ new[j] = evs[from(j)]
      BY <3>1, <1>5
    <3>3. new[i].id = u
      BY <2>2, <1>2, <1>4
    <3> HIDE DEF from
    <3> QED BY <3>1, <3>2, <3>3, <1>1
  <2>3. CASE j = u
    <3>1. i # u /\ from(i) < u
      BY <1>0, <1>1, <1>4, <1>8, <2>3
    <3>2. from(i) \in 1..Len(evs) /\ new[i] = evs[from(i)]
      BY <3>1, <1>5
    <3>3. new[j].id = u
      BY <2>3, <1>2, <1>4
    <3> HIDE DEF from
    <3> QED BY <3>1, <3>2, <3>3, <1>1
  <2> QED BY <2>1, <2>2, <2>3
<1>9. Ascending(new)
  BY <1>7, <1>8 DEF Ascending
\* No event of the name stands in the way of the new one.
<1>10. ASSUME NEW j \in 1..Len(evs), evs[j].name = name
       PROVE  /\ evs[j].type # UnknownType /\ type # UnknownType
              /\ ~ (evs[j].owner = owner /\ evs[j].parent = parent)
  BY <1>10 DEF InTheWay, HasName
<1>11. Distinct(new)
  <2> SUFFICES ASSUME NEW j \in 1..Len(new), NEW k \in 1..Len(new),
                      j # k, new[j].name = new[k].name
               PROVE  /\ new[j].type # UnknownType
                      /\ <<new[j].owner, new[j].parent>> # <<new[k].owner, new[k].parent>>
    BY DEF Distinct
  <2>1. CASE j # u /\ k # u
    <3>1. /\ from(j) \in 1..Len(evs) /\ new[j] = evs[from(j)]
          /\ from(k) \in 1..Len(evs) /\ new[k] = evs[from(k)]
      BY <2>1, <1>5
    <3>2. from(j) # from(k)
      BY <2>1, <1>0, <1>1, <1>4
    <3> HIDE DEF from
    <3> QED BY <3>1, <3>2 DEF Consistent, Distinct
  <2>2. CASE j = u
    <3>1. from(k) \in 1..Len(evs) /\ new[k] = evs[from(k)] /\ new[j] = fresh
      BY <2>2, <1>4, <1>5
    <3> HIDE DEF from
    <3> QED BY <3>1, <1>2, <1>10
  <2>3. CASE k = u
    <3>1. from(j) \in 1..Len(evs) /\ new[j] = evs[from(j)] /\ new[k] = fresh
      BY <2>3, <1>4, <1>5
    <3> HIDE DEF from
    <3> QED BY <3>1, <1>2, <1>10
  <2> QED BY <2>1, <2>2, <2>3
<1>12. ASSUME NEW k \in 1..Len(new) PROVE Sound(new[k])
  <2>1. Sound(fresh)
    BY <1>2 DEF Sound, Ordered, OnePerSite, Reachable
  <2>2. CASE k = u
    BY <2>1, <2>2, <1>4
  <2>3. CASE k # u
    BY <2>3, <1>5 DEF Consistent
  <2> QED BY <2>2, <2>3
<1>13. HasName(new, name)
  BY <1>0, <1>1, <1>2, <1>4 DEF HasName
<1> QED BY <1>4, <1>9, <1>11, <1>12, <1>13 DEF Consistent, new

\* So does the promotion of an event of unknown type.
LEMMA PromoteConsistent ==
  ASSUME NEW evs, Consistent(evs), NEW i \in 1..Len(evs),
         evs[i].type = UnknownType,
         NEW type \in EventTypes, NEW owner \in Owners, NEW parent \in CallbackIds
  PROVE  Consistent(Promoted(evs, i, type, owner, parent))
<1> DEFINE d == [evs[i] EXCEPT !.type = type, !.owner = owner, !.parent = parent]
           new == Promoted(evs, i, type, owner, parent)
<1>0. evs \in Seq(Dispatchers) /\ Len(evs) \in Nat
  BY DEF Consistent
<1>1. evs[i] \in Dispatchers
  BY <1>0, ElementOfSeq
<1>2. d \in Dispatchers /\ d.id = evs[i].id /\ d.name = evs[i].name /\ d.cbs = evs[i].cbs
  BY <1>1 DEF Dispatchers
<1>3. new = [evs EXCEPT ![i] = d]
  BY DEF Promoted
<1> HIDE DEF d, new
<1>4. /\ new \in Seq(Dispatchers) /\ Len(new) = Len(evs)
      /\ \A j \in 1..Len(evs) : new[j] = IF j = i THEN d ELSE evs[j]
  BY <1>0, <1>2, <1>3
<1>5. \A j \in 1..Len(evs) :
        new[j].id = evs[j].id /\ new[j].name = evs[j].name /\ new[j].cbs = evs[j].cbs
  BY <1>2, <1>4
<1>6. Ascending(new)
  BY <1>4, <1>5 DEF Consistent, Ascending
\* Nobody else has the name of an event of unknown type.
<1>7. \A j \in 1..Len(evs) : j # i => evs[j].name # evs[i].name
  BY DEF Consistent, Distinct
<1>8. Distinct(new)
  <2> SUFFICES ASSUME NEW j \in 1..Len(evs), NEW k \in 1..Len(evs),
                      j # k, new[j].name = new[k].name
               PROVE  /\ new[j].type # UnknownType
                      /\ <<new[j].owner, new[j].parent>> # <<new[k].owner, new[k].parent>>
    BY <1>4 DEF Distinct
  <2>1. j # i /\ k # i
    BY <1>5, <1>7
  <2>2. new[j] = evs[j] /\ new[k] = evs[k]
    BY <2>1, <1>4
  <2> QED BY <2>2 DEF Consistent, Distinct
<1>9. ASSUME NEW k \in 1..Len(new) PROVE Sound(new[k])
  <2>1. Sound(evs[k]) /\ new[k].cbs = evs[k].cbs /\ new[k].id = evs[k].id
    BY <1>4, <1>5 DEF Consistent
  <2> QED BY <2>1 DEF Sound, Reachable
<1> QED BY <1>4, <1>6, <1>8, <1>9 DEF Consistent, new

\* registerEvent, whichever way it goes, and what buildCallback makes of it.
LEMMA RegisterConsistent ==
  ASSUME NEW evs, Consistent(evs),
         NEW name \in Names, NEW type \in EventTypes, NEW owner \in Owners,
         NEW parent \in CallbackIds,
         type # UnknownType \/ ~ HasName(evs, name)
  PROVE  /\ Consistent(AfterRegisterEvent(evs, name, type, owner, parent))
         /\ ~ HasName(evs, name) =>
              HasName(AfterRegisterEvent(evs, name, type, owner, parent), name)
<1> DEFINE I == InTheWay(evs, name, owner, parent)
           new == AfterRegisterEvent(evs, name, type, owner, parent)
<1>0. Len(evs) \in Nat
  BY DEF Consistent
<1>1. CASE I = {}
  <2>1. new = WithNewEvent(evs, name, type, owner, parent)
    BY <1>1 DEF AfterRegisterEvent
  <2>2. Consistent(new) /\ HasName(new, name)
    BY <1>1, <2>1, NewEventConsistent
  <2> QED BY <2>2
<1>2. CASE I # {}
  <2>1. I \in SUBSET Nat /\ I \subseteq 1..Len(evs) /\ HasName(evs, name)
    BY <1>0, <1>2 DEF InTheWay, HasName
  <2> DEFINE i == Min(I)
  <2>2. i \in 1..Len(evs)
    <3>1. i \in I
      <4> HIDE DEF I
      <4> QED BY <1>2, <2>1, MinNat
    <3> QED BY <2>1, <3>1
  <2>3. CASE evs[i].type = UnknownType
    <3>1. new = Promoted(evs, i, type, owner, parent)
      BY <1>2, <2>3 DEF AfterRegisterEvent
    <3> HIDE DEF i, I, new
    <3> QED BY <2>1, <2>2, <2>3, <3>1, PromoteConsistent DEF new
  <2>4. CASE evs[i].type # UnknownType
    <3>1. new = evs
      BY <1>2, <2>4 DEF AfterRegisterEvent
    <3> QED BY <2>1, <3>1
  <2> QED BY <2>3, <2>4
<1> QED BY <1>1, <1>2


-----------------------------------------------------------------------------
(***************************************************************************)
(* The Maya handler's bookkeeping keeps its type: a creation is considered *)
(* below the bound only, and a count that wraps ends at the bound.         *)
(***************************************************************************)
LEMMA HandlerType ==
  ASSUME NEW m \in [1..Len(MayaNames) -> MayaInfos], NEW id \in CallbackIds
  PROVE  /\ CanCreate(m, id) => OnCallbackCreated(m, id) \in [1..Len(MayaNames) -> MayaInfos]
         /\ OnCallbackDestroyed(m, id) \in [1..Len(MayaNames) -> MayaInfos]
<1>0. MaxRef \in Nat \ {0}
  BY RefAssumption
<1>1. CASE ~ Handles(m, id)
  BY <1>1 DEF OnCallbackCreated, OnCallbackDestroyed
<1>2. CASE Handles(m, id)
  <2>1. id.event \in 1..Len(MayaNames) /\ m[id.event] \in MayaInfos
    BY <1>2 DEF Handles
  <2>2. CanCreate(m, id) => OnCallbackCreated(m, id) \in [1..Len(MayaNames) -> MayaInfos]
    BY <1>0, <1>2, <2>1 DEF CanCreate, OnCallbackCreated, MayaInfos
  <2>3. OnCallbackDestroyed(m, id) \in [1..Len(MayaNames) -> MayaInfos]
    BY <1>0, <1>2, <2>1 DEF OnCallbackDestroyed, MayaInfos
  <2> QED BY <2>2, <2>3
<1> QED BY <1>1, <1>2

\* The initial states satisfy the invariant.
LEMMA InvInit == Init => Inv
<1> SUFFICES ASSUME Init PROVE Inv
  OBVIOUS
<1>0. Len(MayaNames) \in Nat /\ \A i \in 1..Len(MayaNames) : MayaNames[i] \in Names
  BY MayaNamesAssumption
<1>1. Len(events) = Len(MayaNames)
  BY <1>0 DEF Init
<1>2. ASSUME NEW i \in 1..Len(MayaNames)
      PROVE  NewEvent(i, MayaNames[i], MayaType, NoOwner, InvalidId) \in Dispatchers
  BY <1>0, OwnerAssumption
  DEF NewEvent, Dispatchers, InvalidId, CallbackIds, EventTypes, MayaType, UnknownType
<1>3. events \in Seq(Dispatchers)
  BY <1>0, <1>2 DEF Init
<1>4. ASSUME NEW i \in 1..Len(events)
      PROVE  /\ events[i].id = i /\ events[i].name = MayaNames[i]
             /\ events[i].type = MayaType /\ events[i].cbs = << >>
  <2>1. events[i] = NewEvent(i, MayaNames[i], MayaType, NoOwner, InvalidId)
    BY <1>0, <1>1 DEF Init
  <2> QED BY <2>1 DEF NewEvent
<1>5. Ascending(events)
  BY <1>0, <1>1, <1>4 DEF Ascending
<1>6. Distinct(events)
  BY <1>1, <1>4, MayaNamesAssumption DEF Distinct, MayaType, UnknownType
<1>7. ASSUME NEW k \in 1..Len(events) PROVE Sound(events[k])
  <2>1. Len(events[k].cbs) = 0
    BY <1>4
  <2> QED BY <2>1 DEF Sound, Ordered, OnePerSite, Reachable
<1>8. maya \in [1..Len(MayaNames) -> MayaInfos]
  BY RefAssumption DEF Init, MayaInfos
<1>9. infos \subseteq Callbacks
  BY DEF Init
<1> QED BY <1>3, <1>5, <1>6, <1>7, <1>8, <1>9 DEF Inv, Consistent

(***************************************************************************)
(* Each action keeps the invariant.                                        *)
(***************************************************************************)
LEMMA RegisterEventInv ==
  ASSUME Inv, NEW name \in Names, NEW type \in ClientTypes,
         NEW owner \in Owners, NEW parent \in Parents,
         RegisterEvent(name, type, owner, parent)
  PROVE  Inv'
<1>1. type \in EventTypes /\ type # UnknownType /\ parent \in CallbackIds
  BY ClientTypeAssumption, ParentAssumption
  DEF EventTypes, UserType, SchemaType, USDMayaType, UnknownType
<1>2. Consistent(events')
  BY <1>1, RegisterConsistent DEF Inv, RegisterEvent
<1> QED BY <1>2 DEF Inv, RegisterEvent

\* Unregistering an event by id preserves the invariant.
LEMMA UnregisterEventInv ==
  ASSUME Inv, NEW id, UnregisterEvent(id)
  PROVE  Inv'
<1>1. LowerBound(events, id) \in 1..Len(events)
  BY LookupFacts DEF Inv, Consistent, UnregisterEvent
<1>2. Consistent(events')
  BY <1>1, RemoveConsistent DEF Inv, UnregisterEvent
<1> QED BY <1>2 DEF Inv, UnregisterEvent

\* Unregistering an event by name preserves the invariant.
LEMMA UnregisterNamedEventInv ==
  ASSUME Inv, NEW name, UnregisterNamedEvent(name)
  PROVE  Inv'
<1> DEFINE P == Unowned(events, name)
<1>1. P \in SUBSET Nat /\ P \subseteq 1..Len(events) /\ P # {}
  BY DEF Inv, Consistent, Unowned, UnregisterNamedEvent
<1>2. Min(P) \in 1..Len(events)
  <2> HIDE DEF P
  <2> QED BY <1>1, MinNat
<1>3. Consistent(events')
  BY <1>2, RemoveConsistent DEF Inv, UnregisterNamedEvent
<1> QED BY <1>3 DEF Inv, UnregisterNamedEvent

\* Building and storing a callback in one call preserves the invariant.
LEMMA RegisterBuiltInv ==
  ASSUME Inv, NEW id, HasEvent(events, id), NEW tag \in Tags, NEW weight \in Weights,
         NEW data \in Datas, NEW i, i = LowerBound(events, id),
         NEW cb \in {BuiltScript(events[i], tag, weight),
                     BuiltFunction(events[i], tag, weight, data)},
         RegisterBuilt(i, cb)
  PROVE  Inv'
<1>1. events \in Seq(Dispatchers) /\ Consistent(events)
  BY DEF Inv, Consistent
<1>2. i \in 1..Len(events)
  BY <1>1, LookupFacts
<1>3. events[i] \in Dispatchers /\ Sound(events[i])
  BY <1>1, <1>2, ElementOfSeq DEF Consistent
<1>4. cb # EmptyCallback
  BY DEF RegisterBuilt
<1>5. /\ cb \in Callbacks /\ cb.id.event = events[i].id
      /\ ~ SiteTaken(events[i].cbs, cb.tag, cb.data)
  <2> DEFINE d == events[i]
  <2>1. d \in Dispatchers /\ Reachable(d) /\
        cb \in {BuiltScript(d, tag, weight), BuiltFunction(d, tag, weight, data)}
    BY <1>3 DEF Sound
  <2>2. /\ cb \in Callbacks /\ cb.id.event = d.id
        /\ ~ SiteTaken(d.cbs, cb.tag, cb.data)
    <3> HIDE DEF d
    <3> QED BY <2>1, <1>4, BuiltFacts
  <2> QED BY <2>2
<1>6. Consistent(events')
  BY <1>1, <1>2, <1>5, StoreConsistent DEF RegisterBuilt
<1>7. cb.id \in CallbackIds
  BY <1>5 DEF Callbacks
<1>8. maya' \in [1..Len(MayaNames) -> MayaInfos]
  BY <1>7, HandlerType DEF Inv, RegisterBuilt
<1> QED BY <1>6, <1>8 DEF Inv, RegisterBuilt

\* A callback handed to a client has its type.
LEMMA BuildOnInv ==
  ASSUME Inv, NEW id, NEW tag \in Tags, NEW weight \in Weights, NEW data \in Datas,
         BuildScriptOn(id, tag, weight) \/ BuildFunctionOn(id, tag, weight, data)
  PROVE  Inv'
<1> DEFINE d == events[LowerBound(events, id)]
<1>1. LowerBound(events, id) \in 1..Len(events)
  BY LookupFacts DEF Inv, Consistent, BuildScriptOn, BuildFunctionOn
<1>2. d \in Dispatchers /\ Reachable(d)
  BY <1>1, ElementOfSeq DEF Inv, Consistent, Sound
<1>3. PICK cb \in {BuiltScript(d, tag, weight), BuiltFunction(d, tag, weight, data)} :
        cb # EmptyCallback /\ infos' = infos \cup {cb} /\ UNCHANGED <<events, maya>>
  BY DEF BuildScriptOn, BuildFunctionOn, Hold
<1>4. cb \in Callbacks
  <2> HIDE DEF d
  <2> QED BY <1>2, <1>3, BuiltFacts
<1> QED BY <1>3, <1>4 DEF Inv

\* Building a callback for an event by name preserves the invariant.
LEMMA BuildNamedInv ==
  ASSUME Inv, NEW name \in Names, NEW tag \in Tags, NEW weight \in Weights,
         NEW data \in Datas,
         BuildScript(name, tag, weight) \/ BuildFunction(name, tag, weight, data)
  PROVE  Inv'
<1> DEFINE d == events'[FirstNamed(events', name)]
<1>1. events' = EventsForBuild(events, name) /\ maya' = maya
  BY DEF BuildScript, BuildFunction
<1>2. Consistent(events') /\ HasName(events', name)
  <2>1. CASE HasName(events, name)
    BY <1>1, <2>1 DEF EventsForBuild, Inv
  <2>2. CASE ~ HasName(events, name)
    <3>1. events' = AfterRegisterEvent(events, name, UnknownType, NoOwner, InvalidId)
      BY <1>1, <2>2 DEF EventsForBuild
    <3>2. UnknownType \in EventTypes /\ NoOwner \in Owners /\ InvalidId \in CallbackIds
      BY OwnerAssumption DEF EventTypes, InvalidId, CallbackIds, UnknownType
    <3> QED BY <2>2, <3>1, <3>2, RegisterConsistent DEF Inv
  <2> QED BY <2>1, <2>2
<1>3. events' \in Seq(Dispatchers)
  BY <1>2 DEF Consistent
<1>4. FirstNamed(events', name) \in 1..Len(events')
  BY <1>2, <1>3, LookupFacts
<1>5. d \in Dispatchers /\ Reachable(d)
  BY <1>2, <1>3, <1>4, ElementOfSeq DEF Consistent, Sound
<1>6. PICK cb \in {BuiltScript(d, tag, weight), BuiltFunction(d, tag, weight, data)} :
        cb # EmptyCallback /\ infos' = infos \cup {cb}
  BY DEF BuildScript, BuildFunction, Hold
<1>7. cb \in Callbacks
  <2> HIDE DEF d
  <2> QED BY <1>5, <1>6, BuiltFacts
<1> QED BY <1>1, <1>2, <1>6, <1>7 DEF Inv

\* Putting a held callback back preserves the invariant.
LEMMA RegisterInfoInv ==
  ASSUME Inv, NEW cb \in infos, RegisterInfo(cb)
  PROVE  Inv'
<1> DEFINE i == LowerBound(events, cb.id.event)
<1>1. cb \in Callbacks /\ cb.id \in CallbackIds
  BY DEF Inv, Callbacks
<1>2. i \in 1..Len(events) /\ events[i].id = cb.id.event
  BY LookupFacts DEF Inv, Consistent, RegisterInfo
<1>3. events' = IF SiteTaken(events[i].cbs, cb.tag, cb.data) THEN events
                ELSE WithCallback(events, i, cb)
  BY DEF RegisterInfo, AfterRegisterInfo
<1> HIDE DEF i
<1>4. Consistent(events')
  <2>1. CASE SiteTaken(events[i].cbs, cb.tag, cb.data)
    BY <1>3, <2>1 DEF Inv
  <2>2. CASE ~ SiteTaken(events[i].cbs, cb.tag, cb.data)
    BY <1>1, <1>2, <1>3, <2>2, StoreConsistent DEF Inv
  <2> QED BY <2>1, <2>2
<1>5. maya' \in [1..Len(MayaNames) -> MayaInfos]
  BY <1>1, HandlerType DEF Inv, RegisterInfo
<1>6. infos' \subseteq Callbacks
  BY DEF Inv, RegisterInfo
<1> QED BY <1>4, <1>5, <1>6 DEF Inv

\* Removing a callback preserves the invariant.
LEMMA RemoveCallbackInv ==
  ASSUME Inv, NEW id \in CallbackIds, UnregisterCallback(id) \/ TakeCallback(id)
  PROVE  Inv'
<1>1. HasCallback(events, id) /\ events' = WithoutCallback(events, id)
      /\ maya' = OnCallbackDestroyed(maya, id)
  BY DEF UnregisterCallback, TakeCallback
<1>2. Consistent(events') /\ FoundCallback(events, id) \in Callbacks
  BY <1>1, TakeConsistent DEF Inv
<1>3. maya' \in [1..Len(MayaNames) -> MayaInfos]
  BY <1>1, HandlerType DEF Inv
<1>4. infos' \subseteq Callbacks
  BY <1>2 DEF Inv, UnregisterCallback, TakeCallback, Hold
<1> QED BY <1>2, <1>3, <1>4 DEF Inv

\* The ids of stored callbacks are callback ids.
LEMMA StoredIdsType == Inv => StoredIds \subseteq CallbackIds
<1> SUFFICES ASSUME Inv, NEW k \in 1..Len(events), NEW i \in 1..Len(events[k].cbs)
             PROVE  events[k].cbs[i].id \in CallbackIds
  BY DEF StoredIds, LiveIds
<1>1. events[k] \in Dispatchers
  BY ElementOfSeq DEF Inv, Consistent
<1>2. events[k].cbs \in Seq(Callbacks)
  BY <1>1 DEF Dispatchers
<1>3. events[k].cbs[i] \in Callbacks
  BY <1>2, ElementOfSeq
<1> QED BY <1>3 DEF Callbacks

\* Every step preserves the invariant: one case for each action.
LEMMA InvNext == Inv /\ [Next]_vars => Inv'
<1> SUFFICES ASSUME Inv, [Next]_vars PROVE Inv'
  OBVIOUS
<1>1. CASE NextEvents
  <2>1. ASSUME NEW name \in Names, NEW type \in ClientTypes,
               NEW owner \in Owners, NEW parent \in Parents,
               RegisterEvent(name, type, owner, parent)
        PROVE  Inv'
    BY <2>1, RegisterEventInv
  <2>2. ASSUME NEW id \in EventIds, UnregisterEvent(id) PROVE Inv'
    BY <2>2, UnregisterEventInv
  <2>3. ASSUME NEW name \in Names, UnregisterNamedEvent(name) PROVE Inv'
    BY <2>3, UnregisterNamedEventInv
  <2> QED BY <1>1, <2>1, <2>2, <2>3 DEF NextEvents
<1>2. CASE NextDirect
  <2>1. ASSUME NEW id, NEW tag \in Tags, NEW weight \in Weights,
               RegisterScript(id, tag, weight)
        PROVE  Inv'
    BY <2>1, RegisterBuiltInv, DataAssumption DEF RegisterScript
  <2>2. ASSUME NEW id, NEW tag \in Tags, NEW weight \in Weights, NEW data \in Datas,
               RegisterFunction(id, tag, weight, data)
        PROVE  Inv'
    BY <2>2, RegisterBuiltInv DEF RegisterFunction
  <2>3. ASSUME NEW id \in StoredIds, UnregisterCallback(id) PROVE Inv'
    BY <2>3, RemoveCallbackInv, StoredIdsType
  <2> QED BY <1>2, <2>1, <2>2, <2>3 DEF NextDirect
<1>3. CASE NextHeld
  <2>1. ASSUME NEW id, NEW tag \in Tags, NEW weight \in Weights,
               \/ BuildScriptOn(id, tag, weight)
               \/ \E data \in Datas : BuildFunctionOn(id, tag, weight, data)
        PROVE  Inv'
    BY <2>1, BuildOnInv, DataAssumption
  <2>2. ASSUME NEW name \in Names, NEW tag \in Tags, NEW weight \in Weights,
               \/ BuildScript(name, tag, weight)
               \/ \E data \in Datas : BuildFunction(name, tag, weight, data)
        PROVE  Inv'
    BY <2>2, BuildNamedInv, DataAssumption
  <2>3. ASSUME NEW cb \in infos, RegisterInfo(cb) PROVE Inv'
    BY <2>3, RegisterInfoInv
  <2>4. ASSUME NEW id \in StoredIds, TakeCallback(id) PROVE Inv'
    BY <2>4, RemoveCallbackInv, StoredIdsType
  <2> QED BY <1>3, <2>1, <2>2, <2>3, <2>4 DEF NextHeld
<1>4. CASE UNCHANGED vars
  BY <1>4 DEF vars, Inv
<1> QED BY <1>1, <1>2, <1>3, <1>4 DEF Next

-----------------------------------------------------------------------------
\* Whatever the clients do, the state of the event system keeps its invariant.
THEOREM Invariance == Spec => []Inv
<1>1. Init => Inv
  BY InvInit
<1>2. Inv /\ [Next]_vars => Inv'
  BY InvNext
<1> QED BY <1>1, <1>2, PTL DEF Spec

\* Every stored value has the type of its field.
THEOREM TypeCorrect == Spec => []TypeOK
<1>1. Inv => TypeOK
  BY DEF Inv, Consistent, TypeOK
<1> QED BY <1>1, Invariance, PTL

\* Events are found by id, and registerEvent returns ids nobody has.
THEOREM IdsStayAscending == Spec => []IdsAscending
<1>1. Inv => IdsAscending
  BY DEF Inv, Consistent, IdsAscending
<1> QED BY <1>1, Invariance, PTL

\* Two events of one name are told apart by owner and parent.
THEOREM EventsStayDistinct == Spec => []EventsDistinct
<1>1. Inv => EventsDistinct
  BY DEF Inv, Consistent, EventsDistinct
<1> QED BY <1>1, Invariance, PTL

\* Callbacks are in the order in which they have to run.
THEOREM WeightsStayAscending == Spec => []WeightsAscending
<1>1. Inv => WeightsAscending
  BY DEF Inv, Consistent, Sound, WeightsAscending
<1> QED BY <1>1, Invariance, PTL

\* No call is registered twice with an event.
THEOREM SitesStayUnique == Spec => []SitesUnique
<1>1. Inv => SitesUnique
  BY DEF Inv, Consistent, Sound, SitesUnique
<1> QED BY <1>1, Invariance, PTL

\* Every callback stored can be found, and so unregistered, by its id.
THEOREM CallbacksStayReachable == Spec => []CallbacksReachable
<1>1. Inv => CallbacksReachable
  BY DEF Inv, Consistent, Sound, CallbacksReachable
<1> QED BY <1>1, Invariance, PTL

-----------------------------------------------------------------------------
(***************************************************************************)
(* The counts of the Maya event handler.  Inv and the counts are inductive *)
(* together: a count covers the callbacks it stands for because a stored   *)
(* callback is in the event its id names.                                  *)
(***************************************************************************)
OfMaya == {cb \in Callbacks : cb.id.type = MayaType}

MayaIn(evs, e) ==
  UNION {{i \in 1..Len(evs[k].cbs) : evs[k].cbs[i].id.type = MayaType} :
           k \in {j \in 1..Len(evs) : evs[j].id = e}}

Held(evs, e) == Cardinality(MayaIn(evs, e))

Covers(m, evs) ==
  \A e \in DOMAIN m :
    /\ m[e].refCount >= Held(evs, e)
    /\ m[e].installed = IF m[e].refCount = 0 THEN 0 ELSE 1

CountInv == Inv /\ Covers(maya, events)

\* The ids are distinct: an id names at most one event, and its callbacks are
\* the ones counted.
LEMMA HeldFacts ==
  ASSUME NEW evs, Consistent(evs)
  PROVE  /\ \A k \in 1..Len(evs) : /\ Held(evs, evs[k].id) = Count(evs[k].cbs, OfMaya)
                                   /\ Held(evs, evs[k].id) \in Nat
         /\ \A e : (\A k \in 1..Len(evs) : evs[k].id # e) => Held(evs, e) = 0
<1>0. evs \in Seq(Dispatchers) /\ Len(evs) \in Nat
  BY DEF Consistent
<1>1. ASSUME NEW k \in 1..Len(evs)
      PROVE  /\ Held(evs, evs[k].id) = Count(evs[k].cbs, OfMaya)
             /\ Held(evs, evs[k].id) \in Nat
  <2> DEFINE s == evs[k].cbs
             I == {i \in 1..Len(s) : s[i].id.type = MayaType}
  <2>0. \A j \in 1..Len(evs) : evs[j] \in Dispatchers
    BY <1>0, ElementOfSeq
  <2>1. s \in Seq(Callbacks)
    BY <2>0 DEF Dispatchers
  <2>2. {j \in 1..Len(evs) : evs[j].id = evs[k].id} = {k}
    <3>1. \A j \in 1..Len(evs) : evs[j].id = evs[k].id => j = k
      <4> TAKE j \in 1..Len(evs)
      <4>1. evs[j].id \in Nat /\ evs[k].id \in Nat
        BY <2>0 DEF Dispatchers
      <4>2. j < k => evs[j].id < evs[k].id
        BY DEF Consistent, Ascending
      <4>3. k < j => evs[k].id < evs[j].id
        BY DEF Consistent, Ascending
      <4> QED BY <4>1, <4>2, <4>3, <1>0
    <3> QED BY <3>1
  <2>3. MayaIn(evs, evs[k].id) = I
    BY <2>2 DEF MayaIn
  <2>4. \A i \in 1..Len(s) : s[i] \in Callbacks
    BY <2>1, ElementOfSeq
  <2>5. I = Where(s, OfMaya)
    BY <2>4 DEF Where, OfMaya
  <2> HIDE DEF s, I
  <2>6. Count(s, OfMaya) \in Nat
    BY <2>1, CountFacts
  <2> QED BY <2>3, <2>5, <2>6 DEF Held, Count, s
<1>2. ASSUME NEW e, \A k \in 1..Len(evs) : evs[k].id # e
      PROVE  Held(evs, e) = 0
  <2>1. MayaIn(evs, e) = {}
    BY <1>2 DEF MayaIn
  <2> QED BY <2>1, FS_EmptySet DEF Held
<1> QED BY <1>1, <1>2

\* For every id there is a natural number of callbacks.
LEMMA HeldNat ==
  ASSUME NEW evs, Consistent(evs), NEW e
  PROVE  Held(evs, e) \in Nat
<1>1. CASE \A k \in 1..Len(evs) : evs[k].id # e
  BY <1>1, HeldFacts
<1>2. CASE \E k \in 1..Len(evs) : evs[k].id = e
  BY <1>2, HeldFacts
<1> QED BY <1>1, <1>2

\* Every event of new that has callbacks is one of old.
KeepsCallbacks(old, new) ==
  \A k \in 1..Len(new) :
    \/ new[k].cbs = << >>
    \/ \E j \in 1..Len(old) : old[j].id = new[k].id /\ old[j].cbs = new[k].cbs

\* Registering, promoting and unregistering events adds no callback.
LEMMA KeptHeld ==
  ASSUME NEW old, Consistent(old), NEW new, Consistent(new), KeepsCallbacks(old, new),
         NEW e
  PROVE  Held(new, e) <= Held(old, e)
<1>1. Held(new, e) \in Nat /\ Held(old, e) \in Nat
  BY HeldNat
<1>2. CASE \A k \in 1..Len(new) : new[k].id # e
  BY <1>1, <1>2, HeldFacts
<1>3. ASSUME NEW k \in 1..Len(new), new[k].id = e
      PROVE  Held(new, e) <= Held(old, e)
  <2>1. Held(new, e) = Count(new[k].cbs, OfMaya)
    BY <1>3, HeldFacts
  <2>2. CASE new[k].cbs = << >>
    <3>1. Where(new[k].cbs, OfMaya) = {}
      BY <2>2 DEF Where
    <3>2. Count(new[k].cbs, OfMaya) = 0
      BY <3>1, FS_EmptySet DEF Count
    <3> QED BY <1>1, <2>1, <3>2
  <2>3. ASSUME NEW j \in 1..Len(old), old[j].id = new[k].id, old[j].cbs = new[k].cbs
        PROVE  Held(new, e) <= Held(old, e)
    <3>1. Held(old, e) = Count(old[j].cbs, OfMaya)
      BY <1>3, <2>3, HeldFacts
    <3> QED BY <1>1, <2>1, <2>3, <3>1
  <2> QED BY <2>2, <2>3 DEF KeepsCallbacks
<1> QED BY <1>2, <1>3

\* Less to count is covered as well.
LEMMA CoversLess ==
  ASSUME NEW m \in [1..Len(MayaNames) -> MayaInfos],
         NEW old, Consistent(old), NEW new, Consistent(new), KeepsCallbacks(old, new),
         Covers(m, old)
  PROVE  Covers(m, new)
<1> SUFFICES ASSUME NEW e \in DOMAIN m
             PROVE  /\ m[e].refCount >= Held(new, e)
                    /\ m[e].installed = IF m[e].refCount = 0 THEN 0 ELSE 1
  BY DEF Covers
<1>1. m[e].refCount >= Held(old, e)
  BY DEF Covers
<1>2. m[e].installed = IF m[e].refCount = 0 THEN 0 ELSE 1
  BY DEF Covers
<1>3. Held(new, e) <= Held(old, e)
  BY KeptHeld
<1>4. Held(new, e) \in Nat /\ Held(old, e) \in Nat
  BY HeldNat
<1>5. m[e].refCount \in Nat
  BY RefAssumption DEF MayaInfos
<1> QED BY <1>1, <1>2, <1>3, <1>4, <1>5

\* Storing a callback in event i, and taking one out of it.
LEMMA StoreHeld ==
  ASSUME NEW evs, Consistent(evs), NEW i \in 1..Len(evs), NEW cb \in Callbacks,
         NEW new, new = WithCallback(evs, i, cb), Consistent(new), NEW e
  PROVE  Held(new, e) = Held(evs, e) + (IF e = evs[i].id /\ cb \in OfMaya THEN 1 ELSE 0)
<1> DEFINE s == evs[i].cbs
           t == InsertCallback(s, cb)
<1>0. evs \in Seq(Dispatchers) /\ Len(evs) \in Nat
  BY DEF Consistent
<1>1. evs[i] \in Dispatchers /\ Sound(evs[i])
  BY <1>0, ElementOfSeq DEF Consistent
<1>2. Len(new) = Len(evs)
  BY <1>0 DEF WithCallback
<1>3. \A k \in 1..Len(new) : new[k].id = evs[k].id
  <2> TAKE k \in 1..Len(new)
  <2>1. evs[k] \in Dispatchers
    BY <1>0, <1>2, ElementOfSeq
  <2> QED BY <2>1, <1>0, <1>2 DEF WithCallback, Dispatchers
<1>4. \A k \in 1..Len(new) : k # i => new[k].cbs = evs[k].cbs
  BY <1>0, <1>2 DEF WithCallback
<1>5. new[i].cbs = t
  BY <1>0, <1>1 DEF WithCallback, Dispatchers
<1>6. Count(t, OfMaya) = Count(s, OfMaya) + (IF cb \in OfMaya THEN 1 ELSE 0)
  <2>1. s \in Seq(Callbacks) /\ cb.weight \in Nat /\ Ordered(s)
    BY <1>1, WeightAssumption DEF Dispatchers, Callbacks, Sound
  <2>2. InsertLocation(s, cb.weight) \in 1..Len(s)+1
    BY <2>1, InsertLocationFacts
  <2> HIDE DEF s
  <2> QED BY <2>1, <2>2, InsertCount DEF InsertCallback
<1> HIDE DEF s, t
<1>7. CASE e = evs[i].id
  <2>1. Held(evs, e) = Count(s, OfMaya)
    BY <1>7, HeldFacts DEF s
  <2>2. Held(new, e) = Count(t, OfMaya)
    BY <1>7, <1>2, <1>3, <1>5, HeldFacts
  <2> QED BY <1>6, <1>7, <2>1, <2>2
<1>8. ASSUME NEW k \in 1..Len(evs), k # i, evs[k].id = e, e # evs[i].id
      PROVE  Held(new, e) = Held(evs, e)
  <2>1. Held(evs, e) = Count(evs[k].cbs, OfMaya)
    BY <1>8, HeldFacts
  <2>2. Held(new, e) = Count(new[k].cbs, OfMaya)
    BY <1>2, <1>3, <1>8, HeldFacts
  <2> QED BY <2>1, <2>2, <1>2, <1>4, <1>8
<1>9. CASE \A k \in 1..Len(evs) : evs[k].id # e
  <2>1. Held(evs, e) = 0
    BY <1>9, HeldFacts
  <2>2. Held(new, e) = 0
    BY <1>9, <1>2, <1>3, HeldFacts
  <2> QED BY <2>1, <2>2, <1>9
<1>10. Held(evs, e) \in Nat
  BY HeldNat
<1> QED BY <1>7, <1>8, <1>9, <1>10

\* The callback taken out was counted, if it is one of Maya's.
LEMMA TakeHeld ==
  ASSUME NEW evs, Consistent(evs), NEW id, HasCallback(evs, id),
         NEW new, new = WithoutCallback(evs, id), Consistent(new), NEW e
  PROVE  Held(evs, e) = Held(new, e) +
           (IF e = id.event /\ id.type = MayaType THEN 1 ELSE 0)
<1> DEFINE i == LowerBound(evs, id.event)
           s == evs[i].cbs
           loc == FirstWithId(s, id)
           t == EraseCallback(s, id)
<1>0. evs \in Seq(Dispatchers) /\ Len(evs) \in Nat
  BY DEF Consistent
<1>1. i \in 1..Len(evs) /\ evs[i].id = id.event /\ HasId(s, id)
  BY <1>0, LookupFacts DEF HasCallback
<1>2. new = [evs EXCEPT ![i].cbs = EraseCallback(@, id)]
  BY DEF WithoutCallback
<1> HIDE DEF i
<1>3. evs[i] \in Dispatchers /\ Sound(evs[i])
  BY <1>0, <1>1, ElementOfSeq DEF Consistent
<1>4. Len(new) = Len(evs)
  BY <1>0, <1>2
<1>5. \A k \in 1..Len(new) : new[k].id = evs[k].id
  <2> TAKE k \in 1..Len(new)
  <2>1. evs[k] \in Dispatchers
    BY <1>0, <1>4, ElementOfSeq
  <2> QED BY <2>1, <1>0, <1>2, <1>4 DEF Dispatchers
<1>6. \A k \in 1..Len(new) : k # i => new[k].cbs = evs[k].cbs
  BY <1>0, <1>2, <1>4
<1>7. new[i].cbs = t
  BY <1>0, <1>1, <1>2, <1>3 DEF Dispatchers
<1>8. loc \in 1..Len(s) /\ s[loc].id = id
  <2> DEFINE d == evs[i]
  <2>1. d \in Dispatchers /\ Sound(d) /\ HasId(d.cbs, id)
    BY <1>1, <1>3
  <2>2. FirstWithId(d.cbs, id) \in 1..Len(d.cbs) /\ d.cbs[FirstWithId(d.cbs, id)].id = id
    <3> HIDE DEF d
    <3> DEFINE d1 == [d EXCEPT !.cbs = EraseCallback(@, id)]
    <3>1. d1 = [d EXCEPT !.cbs = EraseCallback(@, id)]
      OBVIOUS
    <3> HIDE DEF d1
    <3> QED BY <2>1, <3>1, EraseSound
  <2> QED BY <2>2
<1>9. s \in Seq(Callbacks)
  BY <1>3 DEF Dispatchers
<1>10. s[loc] \in OfMaya <=> id.type = MayaType
  <2>1. s[loc] \in Callbacks
    BY <1>8, <1>9, ElementOfSeq
  <2> QED BY <2>1, <1>8 DEF OfMaya
<1>11. Count(s, OfMaya) = Count(t, OfMaya) + (IF id.type = MayaType THEN 1 ELSE 0)
  <2>1. t = RemoveAt(s, loc)
    BY DEF EraseCallback
  <2> HIDE DEF s, loc, t
  <2>2. Count(s, OfMaya) = Count(RemoveAt(s, loc), OfMaya)
                           + (IF s[loc] \in OfMaya THEN 1 ELSE 0)
    BY <1>8, <1>9, RemoveCount
  <2> QED BY <1>10, <2>1, <2>2
<1> HIDE DEF s, t, loc
<1>12. CASE e = id.event
  <2>1. Held(evs, e) = Count(s, OfMaya)
    BY <1>12, <1>1, HeldFacts DEF s
  <2>2. Held(new, e) = Count(t, OfMaya)
    BY <1>12, <1>1, <1>4, <1>5, <1>7, HeldFacts
  <2> QED BY <1>11, <1>12, <2>1, <2>2
<1>13. ASSUME NEW k \in 1..Len(evs), evs[k].id = e, e # id.event
       PROVE  Held(new, e) = Held(evs, e)
  <2>1. Held(evs, e) = Count(evs[k].cbs, OfMaya)
    BY <1>13, HeldFacts
  <2>2. Held(new, e) = Count(new[k].cbs, OfMaya)
    BY <1>4, <1>5, <1>13, HeldFacts
  <2>3. k # i
    BY <1>1, <1>13
  <2> QED BY <2>1, <2>2, <2>3, <1>4, <1>6, <1>13
<1>14. CASE (\A k \in 1..Len(evs) : evs[k].id # e) /\ e # id.event
  <2>1. Held(evs, e) = 0
    BY <1>14, HeldFacts
  <2>2. Held(new, e) = 0
    BY <1>14, <1>4, <1>5, HeldFacts
  <2> QED BY <2>1, <2>2, <1>14
<1>15. Held(evs, e) \in Nat /\ Held(new, e) \in Nat
  BY HeldNat
<1> QED BY <1>12, <1>13, <1>14, <1>15

\* The handler told of a callback covers it, stored or refused.
LEMMA CreatedCovers ==
  ASSUME NEW m \in [1..Len(MayaNames) -> MayaInfos], NEW id \in CallbackIds,
         NEW evs, Consistent(evs), NEW new, Consistent(new), Covers(m, evs),
         \A e \in 1..Len(MayaNames) :
           Held(new, e) <= Held(evs, e) + (IF e = id.event /\ id.type = MayaType THEN 1 ELSE 0)
  PROVE  Covers(OnCallbackCreated(m, id), new)
<1> DEFINE c == OnCallbackCreated(m, id)
<1>1. DOMAIN c = 1..Len(MayaNames)
  BY DEF OnCallbackCreated
<1> SUFFICES ASSUME NEW e \in 1..Len(MayaNames)
             PROVE  /\ c[e].refCount >= Held(new, e)
                    /\ c[e].installed = IF c[e].refCount = 0 THEN 0 ELSE 1
  BY <1>1 DEF Covers
<1>2. m[e].refCount >= Held(evs, e) /\ m[e].installed = IF m[e].refCount = 0 THEN 0 ELSE 1
  BY DEF Covers
<1>3. m[e].refCount \in Nat /\ m[e].installed \in Nat
  BY RefAssumption DEF MayaInfos
<1>4. Held(new, e) \in Nat /\ Held(evs, e) \in Nat
  BY HeldNat
<1>5. CASE e = id.event /\ id.type = MayaType
  <2>1. Handles(m, id)
    BY <1>5 DEF Handles
  <2>2. c[e] = [refCount  |-> m[e].refCount + 1,
                installed |-> IF m[e].refCount = 0 THEN m[e].installed + 1 ELSE m[e].installed]
    BY <1>5, <2>1 DEF OnCallbackCreated
  <2>3. /\ c[e].refCount = m[e].refCount + 1
        /\ c[e].installed = IF m[e].refCount = 0 THEN m[e].installed + 1 ELSE m[e].installed
    BY <2>2
  <2>4. Held(new, e) <= Held(evs, e) + 1
    BY <1>5
  <2> HIDE DEF c
  <2> QED BY <1>2, <1>3, <1>4, <2>3, <2>4
<1>6. CASE ~(e = id.event /\ id.type = MayaType)
  <2>1. c[e] = m[e]
    BY <1>6 DEF OnCallbackCreated, Handles
  <2>2. Held(new, e) <= Held(evs, e)
    BY <1>4, <1>6
  <2> HIDE DEF c
  <2> QED BY <1>2, <1>3, <1>4, <2>1, <2>2
<1> QED BY <1>5, <1>6

\* The handler told that a callback it counted is gone still covers the rest:
\* the count was not zero, so it does not wrap.
LEMMA DestroyedCovers ==
  ASSUME NEW m \in [1..Len(MayaNames) -> MayaInfos], NEW id \in CallbackIds,
         NEW evs, Consistent(evs), NEW new, Consistent(new), Covers(m, evs),
         \A e \in 1..Len(MayaNames) :
           Held(evs, e) = Held(new, e) + (IF e = id.event /\ id.type = MayaType THEN 1 ELSE 0)
  PROVE  Covers(OnCallbackDestroyed(m, id), new)
<1> DEFINE c == OnCallbackDestroyed(m, id)
<1>1. DOMAIN c = 1..Len(MayaNames)
  BY DEF OnCallbackDestroyed
<1> SUFFICES ASSUME NEW e \in 1..Len(MayaNames)
             PROVE  /\ c[e].refCount >= Held(new, e)
                    /\ c[e].installed = IF c[e].refCount = 0 THEN 0 ELSE 1
  BY <1>1 DEF Covers
<1>2. m[e].refCount >= Held(evs, e) /\ m[e].installed = IF m[e].refCount = 0 THEN 0 ELSE 1
  BY DEF Covers
<1>3. m[e].refCount \in Nat /\ m[e].installed \in Nat
  BY RefAssumption DEF MayaInfos
<1>4. Held(new, e) \in Nat /\ Held(evs, e) \in Nat
  BY HeldNat
<1>5. CASE e = id.event /\ id.type = MayaType
  <2>1. Handles(m, id)
    BY <1>5 DEF Handles
  <2>2. Held(evs, e) = Held(new, e) + 1
    BY <1>5
  <2>3. m[e].refCount >= 1 /\ m[e].installed = 1
    BY <1>2, <1>3, <1>4, <2>2
  <2>4. c[e] = [refCount  |-> m[e].refCount - 1,
                installed |-> IF m[e].refCount = 1 THEN 0 ELSE 1]
    BY <1>3, <1>5, <2>1, <2>3 DEF OnCallbackDestroyed
  <2>5. /\ c[e].refCount = m[e].refCount - 1
        /\ c[e].installed = IF m[e].refCount = 1 THEN 0 ELSE 1
    BY <2>4
  <2> HIDE DEF c
  <2> QED BY <1>2, <1>3, <1>4, <2>2, <2>3, <2>5
<1>6. CASE ~(e = id.event /\ id.type = MayaType)
  <2>1. c[e] = m[e]
    BY <1>6 DEF OnCallbackDestroyed, Handles
  <2>2. Held(evs, e) = Held(new, e)
    BY <1>4, <1>6
  <2> HIDE DEF c
  <2> QED BY <1>2, <1>3, <1>4, <2>1, <2>2
<1> QED BY <1>5, <1>6

\* What registers an event, or promotes one, keeps the callbacks there are.
LEMMA RegisterKeeps ==
  ASSUME NEW evs, Consistent(evs), NEW name, NEW type, NEW owner, NEW parent
  PROVE  KeepsCallbacks(evs, AfterRegisterEvent(evs, name, type, owner, parent))
<1> DEFINE I == InTheWay(evs, name, owner, parent)
           new == AfterRegisterEvent(evs, name, type, owner, parent)
<1>0. evs \in Seq(Dispatchers) /\ Len(evs) \in Nat /\ Ascending(evs)
  BY DEF Consistent
<1>1. CASE I = {}
  <2> DEFINE u == UnusedId(evs)
             d == NewEvent(u, name, type, owner, parent)
             S == Dispatchers \cup {d}
  <2>1. new = InsertAt(evs, u, d)
    BY <1>1 DEF AfterRegisterEvent, WithNewEvent
  <2>2. u \in 1..Len(evs)+1
    BY <1>0, UnusedIdFacts
  <2>3. evs \in Seq(S) /\ d \in S
    BY <1>0
  <2>4. d.cbs = << >>
    BY DEF NewEvent
  <2> HIDE DEF u, d, S, new
  <2>5. /\ Len(new) = Len(evs) + 1
        /\ \A j \in 1..u-1 : new[j] = evs[j]
        /\ new[u] = d
        /\ \A j \in u+1..Len(evs)+1 : new[j] = evs[j-1]
    BY <2>1, <2>2, <2>3, InsertAtFacts
  <2>6. ASSUME NEW k \in 1..Len(new)
        PROVE  \/ new[k].cbs = << >>
               \/ \E j \in 1..Len(evs) : evs[j] = new[k]
    <3>1. CASE k < u
      <4>1. k \in 1..u-1 /\ k \in 1..Len(evs)
        BY <1>0, <2>2, <3>1
      <4> QED BY <4>1, <2>5
    <3>2. CASE k = u
      BY <2>4, <2>5, <3>2
    <3>3. CASE k > u
      <4>1. k \in u+1..Len(evs)+1 /\ k-1 \in 1..Len(evs)
        BY <1>0, <2>2, <2>5, <3>3
      <4> QED BY <4>1, <2>5
    <3> QED BY <3>1, <3>2, <3>3, <2>2
  <2> QED BY <2>6 DEF KeepsCallbacks, new
<1>2. CASE I # {} /\ evs[Min(I)].type = UnknownType
  <2> DEFINE i == Min(I)
  <2>1. new = Promoted(evs, i, type, owner, parent)
    BY <1>2 DEF AfterRegisterEvent
  <2> HIDE DEF i
  <2>2. Len(new) = Len(evs)
    BY <1>0, <2>1 DEF Promoted
  <2>3. \A k \in 1..Len(new) : new[k].id = evs[k].id /\ new[k].cbs = evs[k].cbs
    <3> TAKE k \in 1..Len(new)
    <3>1. evs[k] \in Dispatchers
      BY <1>0, <2>2, ElementOfSeq
    <3> QED BY <1>0, <2>1, <2>2, <3>1 DEF Promoted, Dispatchers
  <2> HIDE DEF new
  <2> QED BY <2>2, <2>3 DEF KeepsCallbacks, new
<1>3. CASE I # {} /\ evs[Min(I)].type # UnknownType
  <2>1. new = evs
    BY <1>3 DEF AfterRegisterEvent
  <2> QED BY <2>1 DEF KeepsCallbacks
<1> QED BY <1>1, <1>2, <1>3

\* So does what unregisters one.
LEMMA UnregisterKeeps ==
  ASSUME NEW evs, Consistent(evs), NEW i \in 1..Len(evs)
  PROVE  KeepsCallbacks(evs, RemoveAt(evs, i))
<1> DEFINE new == RemoveAt(evs, i)
<1>0. evs \in Seq(Dispatchers) /\ Len(evs) \in Nat
  BY DEF Consistent
<1>1. /\ Len(new) = Len(evs) - 1
      /\ \A j \in 1..i-1 : new[j] = evs[j]
      /\ \A j \in i..Len(evs)-1 : new[j] = evs[j+1]
  BY <1>0, RemoveAtFacts
<1> HIDE DEF new
<1>2. \A k \in 1..Len(new) : \E j \in 1..Len(evs) : new[k] = evs[j]
  <2> TAKE k \in 1..Len(new)
  <2>1. CASE k < i
    <3>1. k \in 1..i-1 /\ k \in 1..Len(evs)
      BY <1>0, <1>1, <2>1
    <3> QED BY <3>1, <1>1
  <2>2. CASE k >= i
    <3>1. k \in i..Len(evs)-1 /\ k+1 \in 1..Len(evs)
      BY <1>0, <1>1, <2>2
    <3> QED BY <3>1, <1>1
  <2> QED BY <2>1, <2>2
<1> QED BY <1>2 DEF KeepsCallbacks, new

\* Every step that keeps Inv keeps the counts too: one case for each action.
LEMMA CoversNext == CountInv /\ Inv' /\ [Next]_vars => Covers(maya', events')
<1> SUFFICES ASSUME CountInv, Inv', [Next]_vars PROVE Covers(maya', events')
  OBVIOUS
<1>0. /\ Consistent(events) /\ Consistent(events')
      /\ maya \in [1..Len(MayaNames) -> MayaInfos] /\ Covers(maya, events)
  BY DEF CountInv, Inv
<1> USE <1>0
<1>1. CASE NextEvents
  <2>1. maya' = maya
    BY <1>1 DEF NextEvents, RegisterEvent, UnregisterEvent, UnregisterNamedEvent
  <2>2. KeepsCallbacks(events, events')
    <3>1. ASSUME NEW name \in Names, NEW type \in ClientTypes,
                 NEW owner \in Owners, NEW parent \in Parents,
                 RegisterEvent(name, type, owner, parent)
          PROVE  KeepsCallbacks(events, events')
      BY <3>1, RegisterKeeps DEF RegisterEvent
    <3>2. ASSUME NEW id \in EventIds, UnregisterEvent(id)
          PROVE  KeepsCallbacks(events, events')
      <4>1. LowerBound(events, id) \in 1..Len(events)
        BY <3>2, LookupFacts DEF Consistent, UnregisterEvent
      <4> QED BY <3>2, <4>1, UnregisterKeeps DEF UnregisterEvent
    <3>3. ASSUME NEW name \in Names, UnregisterNamedEvent(name)
          PROVE  KeepsCallbacks(events, events')
      <4> DEFINE P == Unowned(events, name)
      <4>1. P \in SUBSET Nat /\ P \subseteq 1..Len(events) /\ P # {}
        BY <3>3 DEF Consistent, Unowned, UnregisterNamedEvent
      <4>2. Min(P) \in 1..Len(events)
        <5> HIDE DEF P
        <5> QED BY <4>1, MinNat
      <4> QED BY <3>3, <4>2, UnregisterKeeps DEF UnregisterNamedEvent
    <3> QED BY <1>1, <3>1, <3>2, <3>3 DEF NextEvents
  <2> QED BY <2>1, <2>2, CoversLess
<1>2. ASSUME NEW id, HasEvent(events, id), NEW tag \in Tags, NEW weight \in Weights,
             NEW data \in Datas, NEW i, i = LowerBound(events, id),
             NEW cb \in {BuiltScript(events[i], tag, weight),
                         BuiltFunction(events[i], tag, weight, data)},
             RegisterBuilt(i, cb)
      PROVE  Covers(maya', events')
  <2>1. i \in 1..Len(events)
    BY <1>2, LookupFacts DEF Consistent
  <2>2. events[i] \in Dispatchers /\ Reachable(events[i])
    BY <2>1, ElementOfSeq DEF Consistent, Sound
  <2>3. cb \in Callbacks /\ cb.id.event = events[i].id
    <3> DEFINE d == events[i]
    <3>1. d \in Dispatchers /\ Reachable(d) /\ cb # EmptyCallback
          /\ cb \in {BuiltScript(d, tag, weight), BuiltFunction(d, tag, weight, data)}
      BY <1>2, <2>2 DEF RegisterBuilt
    <3>2. cb \in Callbacks /\ cb.id.event = d.id
      <4> HIDE DEF d
      <4> QED BY <3>1, BuiltFacts
    <3> QED BY <3>2
  <2>4. events' = WithCallback(events, i, cb) /\ maya' = OnCallbackCreated(maya, cb.id)
    BY <1>2 DEF RegisterBuilt
  <2>5. \A e \in 1..Len(MayaNames) : Held(events', e) <=
          Held(events, e) + (IF e = cb.id.event /\ cb.id.type = MayaType THEN 1 ELSE 0)
    <3> TAKE e \in 1..Len(MayaNames)
    <3>1. Held(events', e) = Held(events, e)
            + (IF e = events[i].id /\ cb \in OfMaya THEN 1 ELSE 0)
      BY <2>1, <2>3, <2>4, StoreHeld
    <3>2. cb \in OfMaya <=> cb.id.type = MayaType
      BY <2>3 DEF OfMaya
    <3>3. Held(events', e) \in Nat /\ Held(events, e) \in Nat
      BY HeldNat
    <3> QED BY <2>3, <3>1, <3>2, <3>3
  <2>6. cb.id \in CallbackIds
    BY <2>3 DEF Callbacks
  <2> QED BY <2>4, <2>5, <2>6, CreatedCovers
<1>3. ASSUME NEW cb \in infos, RegisterInfo(cb) PROVE Covers(maya', events')
  <2> DEFINE i == LowerBound(events, cb.id.event)
  <2>1. cb \in Callbacks /\ cb.id \in CallbackIds
    BY DEF CountInv, Inv, Callbacks
  <2>2. i \in 1..Len(events) /\ events[i].id = cb.id.event
    BY <1>3, LookupFacts DEF Consistent, RegisterInfo
  <2>3. events' = IF SiteTaken(events[i].cbs, cb.tag, cb.data) THEN events
                  ELSE WithCallback(events, i, cb)
    BY <1>3 DEF RegisterInfo, AfterRegisterInfo
  <2>4. maya' = OnCallbackCreated(maya, cb.id)
    BY <1>3 DEF RegisterInfo
  <2> HIDE DEF i
  <2>5. \A e \in 1..Len(MayaNames) : Held(events', e) <=
          Held(events, e) + (IF e = cb.id.event /\ cb.id.type = MayaType THEN 1 ELSE 0)
    <3> TAKE e \in 1..Len(MayaNames)
    <3>1. Held(events', e) \in Nat /\ Held(events, e) \in Nat
      BY HeldNat
    <3>2. CASE events' = events
      BY <3>1, <3>2
    <3>3. CASE events' = WithCallback(events, i, cb)
      <4>1. Held(events', e) = Held(events, e)
              + (IF e = events[i].id /\ cb \in OfMaya THEN 1 ELSE 0)
        BY <2>1, <2>2, <3>3, StoreHeld
      <4>2. cb \in OfMaya <=> cb.id.type = MayaType
        BY <2>1 DEF OfMaya
      <4> QED BY <2>2, <3>1, <4>1, <4>2
    <3> QED BY <2>3, <3>2, <3>3
  <2> QED BY <2>1, <2>4, <2>5, CreatedCovers
<1>4. ASSUME NEW id \in CallbackIds, UnregisterCallback(id) \/ TakeCallback(id)
      PROVE  Covers(maya', events')
  <2>1. HasCallback(events, id) /\ events' = WithoutCallback(events, id)
        /\ maya' = OnCallbackDestroyed(maya, id)
    BY <1>4 DEF UnregisterCallback, TakeCallback
  <2>2. \A e \in 1..Len(MayaNames) : Held(events, e) =
          Held(events', e) + (IF e = id.event /\ id.type = MayaType THEN 1 ELSE 0)
    BY <2>1, TakeHeld
  <2> QED BY <2>1, <2>2, DestroyedCovers
<1>5. ASSUME maya' = maya, KeepsCallbacks(events, events') PROVE Covers(maya', events')
  BY <1>5, CoversLess
<1>6. KeepsCallbacks(events, events)
  BY DEF KeepsCallbacks
<1>7. CASE NextDirect
  <2>1. ASSUME NEW id, NEW tag \in Tags, NEW weight \in Weights,
               RegisterScript(id, tag, weight)
        PROVE  Covers(maya', events')
    BY <1>2, <2>1, DataAssumption DEF RegisterScript
  <2>2. ASSUME NEW id, NEW tag \in Tags, NEW weight \in Weights, NEW data \in Datas,
               RegisterFunction(id, tag, weight, data)
        PROVE  Covers(maya', events')
    BY <1>2, <2>2 DEF RegisterFunction
  <2>3. ASSUME NEW id \in StoredIds, UnregisterCallback(id) PROVE Covers(maya', events')
    BY <1>4, <2>3, StoredIdsType DEF CountInv
  <2> QED BY <1>7, <2>1, <2>2, <2>3 DEF NextDirect
<1>8. CASE NextHeld
  <2>1. ASSUME NEW id, NEW tag \in Tags, NEW weight \in Weights,
               \/ BuildScriptOn(id, tag, weight)
               \/ \E data \in Datas : BuildFunctionOn(id, tag, weight, data)
        PROVE  Covers(maya', events')
    BY <1>5, <1>6, <2>1 DEF BuildScriptOn, BuildFunctionOn
  <2>2. ASSUME NEW name \in Names, NEW tag \in Tags, NEW weight \in Weights,
               \/ BuildScript(name, tag, weight)
               \/ \E data \in Datas : BuildFunction(name, tag, weight, data)
        PROVE  Covers(maya', events')
    <3>1. events' = EventsForBuild(events, name) /\ maya' = maya
      BY <2>2 DEF BuildScript, BuildFunction
    <3>2. KeepsCallbacks(events, events')
      BY <1>6, <3>1, RegisterKeeps DEF EventsForBuild
    <3> QED BY <1>5, <3>1, <3>2
  <2>3. ASSUME NEW cb \in infos, RegisterInfo(cb) PROVE Covers(maya', events')
    BY <1>3, <2>3
  <2>4. ASSUME NEW id \in StoredIds, TakeCallback(id) PROVE Covers(maya', events')
    BY <1>4, <2>4, StoredIdsType DEF CountInv
  <2> QED BY <1>8, <2>1, <2>2, <2>3, <2>4 DEF NextHeld
<1>9. CASE UNCHANGED vars
  BY <1>5, <1>6, <1>9 DEF vars
<1> QED BY <1>1, <1>7, <1>8, <1>9 DEF Next

\* At the start there is nothing to count.
LEMMA CountInit == Init => CountInv
<1> SUFFICES ASSUME Init PROVE Covers(maya, events)
  BY InvInit DEF CountInv
<1>1. Consistent(events)
  BY InvInit DEF Inv
<1>2. Len(events) = Len(MayaNames) /\ Len(MayaNames) \in Nat
  BY MayaNamesAssumption DEF Init
<1>3. \A k \in 1..Len(events) : events[k].cbs = << >>
  BY <1>2 DEF Init, NewEvent
<1>4. \A e : MayaIn(events, e) = {}
  BY <1>3 DEF MayaIn
<1>5. \A e : Held(events, e) = 0
  BY <1>4, FS_EmptySet DEF Held
<1> QED BY <1>5 DEF Covers, Init

\* The count never wraps, and Maya has its callback installed once for every
\* event on which a callback of Maya's type is stored.
THEOREM CountsCover == Spec => []CountCovers
<1>1. CountInv /\ [Next]_vars => CountInv'
  BY CoversNext, InvNext DEF CountInv
<1>2. CountInv => CountCovers
  BY DEF CountInv, Covers, Held, MayaIn, CountCovers, MayaCallbacks
<1> QED BY <1>1, <1>2, CountInit, PTL DEF Spec

=============================================================================
