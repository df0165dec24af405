------------------------- MODULE LayerDatabase_proof -------------------------
(***************************************************************************)
(* The two maps of the layer database hold one relation, and the database  *)
(* implements the map of its documentation, for any set of layers and of   *)
(* identifiers.                                                            *)
(*                                                                         *)
(* OneRelation is inductive with the type.  The step addLayer makes is     *)
(* _addLayer once or twice, on a layer whose entry may still be empty.     *)
(***************************************************************************)
EXTENDS LayerDatabase, SequenceLemmas

Typed(toIds, toLayer) ==
  /\ DOMAIN toIds \subseteq Layers
  /\ toIds \in [DOMAIN toIds -> Seq(Ids)]
  /\ DOMAIN toLayer \subseteq Ids
  /\ toLayer \in [DOMAIN toLayer -> Layers]

\* Every layer but the one that is being added has an identifier.
AllNamed(toIds, except) ==
  \A layer \in DOMAIN toIds \ except : toIds[layer] # << >>

Good(db, except) ==
  /\ Typed(db.toIds, db.toLayer)
  /\ Listed(db.toIds, db.toLayer)
  /\ Keyed(db.toIds, db.toLayer)
  /\ AllNamed(db.toIds, except)

KeysWith(toLayer, ids, layer) ==
  [id \in DOMAIN toLayer \cup ids |-> IF id \in ids THEN layer ELSE toLayer[id]]

\* new is toIds without id: the other identifiers of each layer, each once, and
\* the layer with them or not at all.
Without(new, toIds, id, layer) ==
  /\ DOMAIN new \subseteq DOMAIN toIds /\ layer \in DOMAIN new
  /\ new \in [DOMAIN new -> Seq(Ids)]
  /\ new[layer] = toIds[layer]
  /\ \A l \in DOMAIN new : \A i \in 1..Len(new[l]) :
       \E k \in 1..Len(toIds[l]) : toIds[l][k] = new[l][i] /\ new[l][i] # id
  /\ \A l \in DOMAIN new : \A i, j \in 1..Len(new[l]) : new[l][i] = new[l][j] => i = j
  /\ \A l \in DOMAIN toIds : \A k \in 1..Len(toIds[l]) : toIds[l][k] # id =>
       l \in DOMAIN new /\ \E i \in 1..Len(new[l]) : new[l][i] = toIds[l][k]
  /\ AllNamed(new, {layer})

\* TakenFrom removes an identifier that is to become a key to another layer.
LEMMA TakenFromFacts ==
  ASSUME NEW toIds, NEW toLayer, NEW id \in DOMAIN toLayer, NEW layer,
         Typed(toIds, toLayer), Listed(toIds, toLayer), Keyed(toIds, toLayer),
         AllNamed(toIds, {layer}), layer \in DOMAIN toIds, toLayer[id] # layer,
         NEW new, new = TakenFrom(toIds, toLayer[id], id)
  PROVE  Without(new, toIds, id, layer)
<1> DEFINE old == toLayer[id]
           s == toIds[old]
           P == Places(s, id)
           p == Min(P)
<1>0. old \in DOMAIN toIds /\ P # {} /\ old # layer
  BY DEF Keyed
<1>1. s \in Seq(Ids) /\ Len(s) \in Nat
  BY <1>0 DEF Typed
<1>2. p \in 1..Len(s) /\ s[p] = id
  <2>1. P \in SUBSET Nat
    BY <1>1 DEF Places
  <2>2. p \in P
    <3> HIDE DEF P
    <3> QED BY <2>1, <1>0, MinNat
  <2> QED BY <2>2 DEF Places
<1>3. \A i \in 1..Len(s) : s[i] = id => i = p
  BY <1>0, <1>2 DEF Listed
<1>4. \A l \in DOMAIN toIds : l # old =>
        \A k \in 1..Len(toIds[l]) : toIds[l][k] # id
  BY DEF Listed
<1>5. \A l \in DOMAIN toIds : \A i, j \in 1..Len(toIds[l]) :
        toIds[l][i] = toIds[l][j] => i = j
  BY DEF Listed
<1>6. CASE Len(s) <= 1
  <2>1. new = [x \in DOMAIN toIds \ {old} |-> toIds[x]]
    BY <1>0, <1>6 DEF TakenFrom, WithoutKeys
  <2>2. DOMAIN new = DOMAIN toIds \ {old} /\ \A l \in DOMAIN new : new[l] = toIds[l]
    BY <2>1
  <2>3. \A k \in 1..Len(s) : s[k] = id
    BY <1>1, <1>2, <1>6
  <2>4. new \in [DOMAIN new -> Seq(Ids)]
    BY <2>1 DEF Typed
  <2>5. AllNamed(new, {layer})
    BY <2>2 DEF AllNamed
  <2> HIDE DEF old, s, P, p
  <2>6. \A l \in DOMAIN toIds : \A k \in 1..Len(toIds[l]) : toIds[l][k] # id =>
              l \in DOMAIN new /\ \E i \in 1..Len(new[l]) : new[l][i] = toIds[l][k]
    BY <2>2, <2>3 DEF s
  <2> QED BY <1>0, <1>4, <1>5, <2>2, <2>4, <2>5, <2>6 DEF Without
<1>7. CASE ~ (Len(s) <= 1)
  <2> DEFINE r == RemoveAt(s, p)
             from(j) == IF j < p THEN j ELSE j+1
  <2>1. new = [x \in DOMAIN toIds \cup {old} |-> IF x = old THEN r ELSE toIds[x]]
    BY <1>0, <1>7 DEF TakenFrom, WithKey
  <2>2. /\ r \in Seq(Ids) /\ Len(r) = Len(s) - 1
        /\ \A j \in 1..p-1 : r[j] = s[j]
        /\ \A j \in p..Len(s)-1 : r[j] = s[j+1]
    <3> HIDE DEF s, p
    <3> QED BY <1>1, <1>2, RemoveAtFacts
  <2>3. DOMAIN new = DOMAIN toIds /\ new[old] = r
    BY <1>0, <2>1
  <2>4. \A l \in DOMAIN new : l # old => new[l] = toIds[l]
    BY <2>1
  <2>5. new \in [DOMAIN new -> Seq(Ids)]
    BY <2>1, <2>2 DEF Typed
  <2>6. AllNamed(new, {layer})
    <3>1. r # << >>
      BY <1>1, <1>7, <2>2
    <3> HIDE DEF r
    <3> QED BY <2>3, <2>4, <3>1 DEF AllNamed
  <2> HIDE DEF old, P, p, r
  <2>7. \A j \in 1..Len(r) : /\ from(j) \in 1..Len(s) /\ r[j] = s[from(j)]
                             /\ from(j) # p
    <3> HIDE DEF s
    <3> TAKE j \in 1..Len(r)
    <3>1. CASE j < p
      <4>1. j \in 1..p-1 /\ j \in 1..Len(s)
        BY <1>1, <1>2, <2>2, <3>1
      <4> QED BY <4>1, <3>1, <2>2
    <3>2. CASE ~ (j < p)
      <4>1. j \in p..Len(s)-1 /\ j+1 \in 1..Len(s) /\ j+1 # p
        BY <1>1, <1>2, <2>2, <3>2
      <4> QED BY <4>1, <3>2, <2>2
    <3> QED BY <3>1, <3>2
  <2>8. \A i, j \in 1..Len(r) : from(i) = from(j) => i = j
    <3> HIDE DEF s
    <3> QED BY <1>1, <1>2, <2>2
  <2>9. \A k \in 1..Len(s) : k # p => \E i \in 1..Len(r) : r[i] = s[k]
    <3> HIDE DEF s
    <3> TAKE k \in 1..Len(s)
    <3>1. CASE k < p
      <4>1. k \in 1..Len(r) /\ k \in 1..p-1
        BY <1>1, <1>2, <2>2, <3>1
      <4> QED BY <4>1, <2>2
    <3>2. CASE k > p
      <4>1. k-1 \in 1..Len(r) /\ k-1 \in p..Len(s)-1 /\ (k-1)+1 = k
        BY <1>1, <1>2, <2>2, <3>2
      <4> QED BY <4>1, <2>2
    <3> QED BY <3>1, <3>2, <1>1, <1>2
  <2> HIDE DEF from
  <2>10. \A l \in DOMAIN new : \A i \in 1..Len(new[l]) :
              \E k \in 1..Len(toIds[l]) : toIds[l][k] = new[l][i] /\ new[l][i] # id
    <3> TAKE l \in DOMAIN new
    <3>1. CASE l = old
      BY <3>1, <2>3, <2>7, <1>3 DEF s
    <3>2. CASE l # old
      BY <3>2, <2>3, <2>4, <1>4
    <3> QED BY <3>1, <3>2
  <2>11. \A l \in DOMAIN new : \A i, j \in 1..Len(new[l]) : new[l][i] = new[l][j] => i = j
    <3> TAKE l \in DOMAIN new
    <3>1. CASE l = old
      <4>1. \A i, j \in 1..Len(r) : r[i] = r[j] => i = j
        BY <2>7, <2>8, <1>5, <1>0 DEF s
      <4> QED BY <3>1, <4>1, <2>3
    <3>2. CASE l # old
      BY <3>2, <2>3, <2>4, <1>5
    <3> QED BY <3>1, <3>2
  <2>12. \A l \in DOMAIN toIds : \A k \in 1..Len(toIds[l]) : toIds[l][k] # id =>
              l \in DOMAIN new /\ \E i \in 1..Len(new[l]) : new[l][i] = toIds[l][k]
    <3> TAKE l \in DOMAIN toIds
    <3>1. CASE l = old
      BY <3>1, <2>3, <2>9, <1>2 DEF s
    <3>2. CASE l # old
      BY <3>2, <2>3, <2>4
    <3> QED BY <3>1, <3>2
  <2> QED BY <1>0, <2>3, <2>4, <2>5, <2>6, <2>10, <2>11, <2>12 DEF Without
<1> QED BY <1>6, <1>7, <1>1


\* _addLayer on the maps without the old owner's claim to the identifier.
LEMMA AppendKey ==
  ASSUME NEW mid, NEW toIds, NEW toLayer, NEW layer \in Layers, NEW id \in Ids,
         Typed(toIds, toLayer), Listed(toIds, toLayer), Keyed(toIds, toLayer),
         id \in DOMAIN toLayer => toLayer[id] # layer,
         Without(mid, toIds, id, layer),
         NEW newIds, newIds = WithKey(mid, layer, Append(mid[layer], id)),
         NEW newLayer, newLayer = WithKey(toLayer, id, layer)
  PROVE  /\ Typed(newIds, newLayer) /\ Listed(newIds, newLayer)
         /\ Keyed(newIds, newLayer) /\ AllNamed(newIds, {})
         /\ newLayer = KeysWith(toLayer, {id}, layer)
         /\ layer \in DOMAIN newIds
<1> DEFINE a == Append(mid[layer], id)
           m == mid[layer]
<1>0. m \in Seq(Ids) /\ Len(m) \in Nat
  BY DEF Without
<1>1. /\ a \in Seq(Ids) /\ Len(a) = Len(m) + 1 /\ a # << >>
      /\ \A i \in 1..Len(m) : a[i] = m[i]
      /\ a[Len(m)+1] = id
  <2> HIDE DEF m
  <2>1. a = Append(m, id)
    BY DEF m
  <2> HIDE DEF a
  <2> QED BY <1>0, <2>1, AppendProperties
<1> HIDE DEF a
<1>2. newIds = [x \in DOMAIN mid |-> IF x = layer THEN a ELSE mid[x]]
  BY DEF WithKey, Without, a
<1>3. DOMAIN newIds = DOMAIN mid /\ layer \in DOMAIN newIds /\ newIds[layer] = a
      /\ \A l \in DOMAIN mid : l # layer => newIds[l] = mid[l]
  BY <1>2 DEF Without
<1>4. newLayer = [x \in DOMAIN toLayer \cup {id} |-> IF x = id THEN layer ELSE toLayer[x]]
  BY DEF WithKey
<1>5. DOMAIN newLayer = DOMAIN toLayer \cup {id} /\ newLayer[id] = layer
      /\ \A x \in DOMAIN toLayer : x # id => newLayer[x] = toLayer[x]
  BY <1>4
<1>6. newLayer = KeysWith(toLayer, {id}, layer)
  BY <1>4 DEF KeysWith
<1>7. Typed(newIds, newLayer)
  <2>1. newIds \in [DOMAIN newIds -> Seq(Ids)]
    BY <1>1, <1>2 DEF Without
  <2>2. newLayer \in [DOMAIN newLayer -> Layers]
    BY <1>4 DEF Typed
  <2> QED BY <2>1, <2>2, <1>3, <1>5 DEF Typed, Without
<1>8. AllNamed(newIds, {})
  BY <1>1, <1>3 DEF AllNamed, Without
<1>9. ASSUME NEW l \in DOMAIN newIds, NEW i \in 1..Len(newIds[l])
      PROVE  newIds[l][i] \in DOMAIN newLayer /\ newLayer[newIds[l][i]] = l
  <2>1. CASE l = layer /\ i = Len(m)+1
    BY <2>1, <1>1, <1>3, <1>5
  <2>2. CASE ~ (l = layer /\ i = Len(m)+1)
    <3>1. l \in DOMAIN mid /\ i \in 1..Len(mid[l]) /\ newIds[l][i] = mid[l][i]
      <4>1. CASE l = layer
        BY <4>1, <2>2, <1>0, <1>1, <1>3, <1>9
      <4>2. CASE l # layer
        BY <4>2, <1>3, <1>9
      <4> QED BY <4>1, <4>2
    <3>2. PICK k \in 1..Len(toIds[l]) : toIds[l][k] = mid[l][i] /\ mid[l][i] # id
      BY <3>1 DEF Without
    <3>3. l \in DOMAIN toIds
      BY <3>1 DEF Without
    <3>4. toIds[l][k] \in DOMAIN toLayer /\ toLayer[toIds[l][k]] = l
      BY <3>2, <3>3 DEF Listed
    <3> QED BY <3>1, <3>2, <3>4, <1>5
  <2> QED BY <2>1, <2>2
<1>10. ASSUME NEW l \in DOMAIN newIds, NEW i \in 1..Len(newIds[l]),
              NEW j \in 1..Len(newIds[l]), newIds[l][i] = newIds[l][j]
       PROVE  i = j
  <2>1. CASE l # layer
    BY <2>1, <1>3, <1>10 DEF Without
  <2>2. CASE l = layer
    <3>1. \A x \in 1..Len(m) : a[x] = m[x] /\ m[x] # id
      BY <1>1 DEF Without
    <3>2. \A x, y \in 1..Len(m) : m[x] = m[y] => x = y
      BY DEF Without
    <3>3. a[i] = a[j] /\ i \in 1..Len(m)+1 /\ j \in 1..Len(m)+1
      BY <2>2, <1>1, <1>3, <1>10
    <3> HIDE DEF m
    <3>4. CASE i \in 1..Len(m) /\ j \in 1..Len(m)
      BY <3>1, <3>2, <3>3, <3>4
    <3>5. CASE i = Len(m)+1 \/ j = Len(m)+1
      BY <3>1, <3>3, <3>5, <1>0, <1>1
    <3> QED BY <3>3, <3>4, <3>5, <1>0
  <2> QED BY <2>1, <2>2
<1>11. Keyed(newIds, newLayer)
  <2> SUFFICES ASSUME NEW x \in DOMAIN newLayer
               PROVE  /\ newLayer[x] \in DOMAIN newIds
                      /\ \E i \in 1..Len(newIds[newLayer[x]]) : newIds[newLayer[x]][i] = x
    BY DEF Keyed, Places
  <2>1. CASE x = id
    <3>1. Len(m)+1 \in 1..Len(a)
      BY <1>0, <1>1
    <3> QED BY <2>1, <3>1, <1>1, <1>3, <1>5
  <2>2. CASE x # id
    <3>1. x \in DOMAIN toLayer /\ newLayer[x] = toLayer[x]
      BY <2>2, <1>5
    <3> DEFINE l == toLayer[x]
    <3>2. l \in DOMAIN toIds
      BY <3>1 DEF Keyed
    <3>3. PICK k \in 1..Len(toIds[l]) : toIds[l][k] = x
      BY <3>1 DEF Keyed, Places
    <3>4. l \in DOMAIN mid
      BY <3>2, <3>3, <2>2 DEF Without
    <3>5. PICK i \in 1..Len(mid[l]) : mid[l][i] = x
      BY <3>2, <3>3, <2>2 DEF Without
    <3>6. i \in 1..Len(newIds[l]) /\ newIds[l][i] = x
      <4>1. CASE l = layer
        <5>1. i \in 1..Len(m) /\ m[i] = x
          BY <4>1, <3>5
        <5>2. i \in 1..Len(a) /\ a[i] = x
          <6> HIDE DEF m
          <6> QED BY <5>1, <1>0, <1>1
        <5> QED BY <5>2, <4>1, <1>3
      <4>2. CASE l # layer
        BY <4>2, <3>4, <3>5, <1>3
      <4> QED BY <4>1, <4>2
    <3> QED BY <3>1, <3>4, <3>6, <1>3
  <2> QED BY <2>1, <2>2
<1>12. Listed(newIds, newLayer)
  BY <1>9, <1>10 DEF Listed
<1> QED BY <1>3, <1>6, <1>7, <1>8, <1>11, <1>12

\* _addLayer leaves the maps in one relation, whether the identifier was a key
\* to this layer, to another one or to none.
LEMMA AddKeyGood ==
  ASSUME NEW db, NEW layer \in Layers, NEW id \in Ids,
         Good(db, {layer}), layer \in DOMAIN db.toIds,
         NEW new, new = AddKey(db, layer, id)
  PROVE  /\ Good(new, {}) /\ layer \in DOMAIN new.toIds
         /\ new.toLayer = KeysWith(db.toLayer, {id}, layer)
<1> DEFINE toIds == db.toIds
           toLayer == db.toLayer
<1>0. /\ Typed(toIds, toLayer) /\ Listed(toIds, toLayer) /\ Keyed(toIds, toLayer)
      /\ AllNamed(toIds, {layer})
  BY DEF Good
<1>1. CASE id \in DOMAIN toLayer /\ toLayer[id] = layer
  <2>1. new = db
    BY <1>1 DEF AddKey
  <2>2. toLayer = KeysWith(toLayer, {id}, layer)
    <3>1. toLayer = [x \in DOMAIN toLayer |-> toLayer[x]]
      BY <1>0 DEF Typed
    <3>2. DOMAIN toLayer = DOMAIN toLayer \cup {id}
      BY <1>1
    <3>3. \A x \in DOMAIN toLayer : toLayer[x] = IF x \in {id} THEN layer ELSE toLayer[x]
      BY <1>1
    <3> HIDE DEF toLayer
    <3> QED BY <3>1, <3>2, <3>3 DEF KeysWith
  <2>3. toIds[layer] # << >>
    <3>1. PICK i \in 1..Len(toIds[layer]) : toIds[layer][i] = id
      BY <1>0, <1>1 DEF Keyed, Places
    <3> HIDE DEF toIds
    <3> QED BY <3>1
  <2>4. AllNamed(toIds, {})
    BY <1>0, <2>3 DEF AllNamed
  <2> QED BY <1>0, <2>1, <2>2, <2>4 DEF Good
<1>2. CASE ~ (id \in DOMAIN toLayer /\ toLayer[id] = layer)
  <2> DEFINE mid == IF id \in DOMAIN toLayer THEN TakenFrom(toIds, toLayer[id], id) ELSE toIds
             newIds == WithKey(mid, layer, Append(mid[layer], id))
             newLayer == WithKey(toLayer, id, layer)
  <2>1. new = [toIds |-> newIds, toLayer |-> newLayer]
    <3>1. mid[layer] = toIds[layer]
      <4>1. CASE id \in DOMAIN toLayer
        <5>1. toLayer[id] # layer
          BY <1>2, <4>1
        <5> DEFINE t == TakenFrom(toIds, toLayer[id], id)
        <5>2. layer \in DOMAIN toIds
          OBVIOUS
        <5>3. Without(t, toIds, id, layer)
          <6> HIDE DEF toIds, toLayer
          <6> QED BY <1>0, <4>1, <5>1, <5>2, TakenFromFacts
        <5>4. t[layer] = toIds[layer]
          BY <5>3 DEF Without
        <5> QED BY <4>1, <5>4
      <4>2. CASE id \notin DOMAIN toLayer
        BY <4>2
      <4> QED BY <4>1, <4>2
    <3> QED BY <3>1, <1>2 DEF AddKey, Database
  <2> HIDE DEF toIds, toLayer
  <2>2. Without(mid, toIds, id, layer)
    <3>0. layer \in DOMAIN toIds
      BY DEF toIds
    <3>1. CASE id \in DOMAIN toLayer
      <4>1. toLayer[id] # layer /\ mid = TakenFrom(toIds, toLayer[id], id)
        BY <1>2, <3>1
      <4> HIDE DEF mid
      <4> QED BY <1>0, <3>0, <3>1, <4>1, TakenFromFacts
    <3>2. CASE id \notin DOMAIN toLayer
      <4>1. mid = toIds
        BY <3>2
      <4>2. \A l \in DOMAIN toIds : \A i \in 1..Len(toIds[l]) : toIds[l][i] # id
        BY <1>0, <3>2 DEF Listed
      <4> HIDE DEF mid
      <4> QED BY <1>0, <3>0, <4>1, <4>2 DEF Typed, Listed, Without
    <3> QED BY <3>1, <3>2
  <2>3. id \in DOMAIN toLayer => toLayer[id] # layer
    BY <1>2
  <2>4. /\ Typed(newIds, newLayer) /\ Listed(newIds, newLayer)
        /\ Keyed(newIds, newLayer) /\ AllNamed(newIds, {})
        /\ newLayer = KeysWith(toLayer, {id}, layer)
        /\ layer \in DOMAIN newIds
    <3>1. newIds = WithKey(mid, layer, Append(mid[layer], id))
          /\ newLayer = WithKey(toLayer, id, layer)
      OBVIOUS
    <3> HIDE DEF mid, newIds, newLayer
    <3> QED BY <1>0, <2>2, <2>3, <3>1, AppendKey
  <2> HIDE DEF newIds, newLayer
  <2> QED BY <2>1, <2>4 DEF Good, toLayer
<1> QED BY <1>1, <1>2


-----------------------------------------------------------------------------
(***************************************************************************)
(* The actions.                                                            *)
(***************************************************************************)
Inv == TypeOK /\ OneRelation

\* Adding a layer under its own identifier keeps the maps inverse.
LEMMA AddCanonicalGood ==
  ASSUME NEW db, Good(db, {}), NEW layer \in Layers, identifier[layer] \in Ids,
         NEW new, new = AddCanonical(db, layer)
  PROVE  /\ Good(new, {}) /\ layer \in DOMAIN new.toIds
         /\ new.toLayer = KeysWith(db.toLayer, {identifier[layer]}, layer)
<1> DEFINE toIds == WithEntry(db.toIds, layer)
           start == Database(toIds, db.toLayer)
<1>1. start.toIds = toIds /\ start.toLayer = db.toLayer
  BY DEF Database
<1>2. layer \in DOMAIN toIds /\ Good(start, {layer})
  <2>1. CASE layer \in DOMAIN db.toIds
    <3>1. toIds = db.toIds
      BY <2>1 DEF WithEntry
    <3> QED BY <2>1, <3>1 DEF Good, AllNamed, Database
  <2>2. CASE layer \notin DOMAIN db.toIds
    <3>1. toIds = [x \in DOMAIN db.toIds \cup {layer} |->
                     IF x = layer THEN << >> ELSE db.toIds[x]]
      BY <2>2 DEF WithEntry, WithKey
    <3>2. /\ DOMAIN toIds = DOMAIN db.toIds \cup {layer}
          /\ toIds[layer] = << >>
          /\ \A l \in DOMAIN db.toIds : toIds[l] = db.toIds[l]
      BY <2>2, <3>1
    <3>3. toIds \in [DOMAIN toIds -> Seq(Ids)]
      BY <3>1 DEF Good, Typed
    <3> HIDE DEF toIds
    <3>4. Typed(toIds, db.toLayer)
      BY <3>2, <3>3 DEF Good, Typed
    <3>5. Listed(toIds, db.toLayer)
      <4>1. Len(toIds[layer]) = 0
        BY <3>2
      <4> QED BY <3>2, <4>1 DEF Good, Listed
    <3>6. Keyed(toIds, db.toLayer)
      BY <3>2 DEF Good, Keyed
    <3>7. AllNamed(toIds, {layer})
      BY <3>2 DEF Good, AllNamed
    <3> QED BY <1>1, <3>2, <3>4, <3>5, <3>6, <3>7 DEF Good
  <2> QED BY <2>1, <2>2
<1>4. new = AddKey(start, layer, identifier[layer])
  BY DEF AddCanonical
<1>5. start.toLayer = db.toLayer
  BY <1>1
<1> HIDE DEF start, toIds
<1>6. /\ Good(new, {}) /\ layer \in DOMAIN new.toIds
      /\ new.toLayer = KeysWith(start.toLayer, {identifier[layer]}, layer)
  <2>1. layer \in DOMAIN start.toIds
    BY <1>1, <1>2
  <2>2. Good(start, {layer})
    BY <1>2
  <2> QED BY <1>4, <2>1, <2>2, AddKeyGood
<1> QED BY <1>5, <1>6

\* A database that is good is what Inv says of the variables.
LEMMA BecomeInv ==
  ASSUME NEW new, Good(new, {}), Become(new), Inv,
         added' \in BOOLEAN, UNCHANGED <<identifier, dirty>>
  PROVE  Inv'
BY DEF Good, Become, Inv, TypeOK, OneRelation, Typed, AllNamed

\* Inv says that the current database is good.
LEMMA CurrentGood == Inv => Good(Current, {})
BY DEF Inv, TypeOK, OneRelation, Current, Database, Good, Typed, AllNamed

\* The layers with a list are the layers some identifier is a key to.
LEMMA ManagedFacts ==
  Inv => DOMAIN layerToIds = {idToLayer[id] : id \in DOMAIN idToLayer}
<1> SUFFICES ASSUME Inv
             PROVE  DOMAIN layerToIds = {idToLayer[id] : id \in DOMAIN idToLayer}
  OBVIOUS
<1>1. ASSUME NEW layer \in DOMAIN layerToIds
      PROVE  \E id \in DOMAIN idToLayer : idToLayer[id] = layer
  <2>1. layerToIds[layer] \in Seq(Ids) /\ layerToIds[layer] # << >>
    BY DEF Inv, TypeOK, OneRelation
  <2>2. 1 \in 1..Len(layerToIds[layer])
    BY <2>1
  <2> QED BY <2>2 DEF Inv, OneRelation, Listed
<1>2. \A id \in DOMAIN idToLayer : idToLayer[id] \in DOMAIN layerToIds
  BY DEF Inv, OneRelation, Keyed
<1> QED BY <1>1, <1>2

\* The managed layers after a step are those that have an identifier.
LEMMA ManagedNext ==
  Inv' => DOMAIN layerToIds' = {idToLayer'[id] : id \in DOMAIN idToLayer'}
<1>1. (Inv => DOMAIN layerToIds = {idToLayer[id] : id \in DOMAIN idToLayer})'
  BY ManagedFacts, PTL
<1> QED BY <1>1

\* addLayer, for the identifiers it makes keys.
LEMMA AddLayerFacts ==
  ASSUME Inv, NEW layer \in Layers, NEW id \in Ids,
         AddLayer(layer) \/ AddLayerAs(layer, id)
  PROVE  /\ Inv'
         /\ \E ids \in SUBSET Ids :
              ids # {} /\ idToLayer' = KeysWith(idToLayer, ids, layer)
         /\ added' = (layer \notin DOMAIN layerToIds)
<1> DEFINE first == AddCanonical(Current, layer)
           own == identifier[layer]
<1>1. /\ Good(first, {}) /\ layer \in DOMAIN first.toIds
      /\ first.toLayer = KeysWith(idToLayer, {own}, layer)
  <2>1. identifier[layer] \in Ids /\ Good(Current, {}) /\ Current.toLayer = idToLayer
    BY CurrentGood DEF Inv, TypeOK, Current, Database
  <2> HIDE DEF first
  <2> QED BY <2>1, AddCanonicalGood DEF first
<1>2. own \in Ids
  BY DEF Inv, TypeOK
<1> HIDE DEF first, own
<1>3. CASE AddLayer(layer)
  <2>1. Become(first) /\ added' = (layer \notin DOMAIN layerToIds)
        /\ UNCHANGED <<identifier, dirty>>
    BY <1>3 DEF AddLayer, first
  <2>2. Inv'
    BY <1>1, <2>1, BecomeInv
  <2>3. idToLayer' = KeysWith(idToLayer, {own}, layer) /\ {own} \in SUBSET Ids
    BY <1>1, <1>2, <2>1 DEF Become
  <2> QED BY <2>1, <2>2, <2>3
<1>4. CASE AddLayerAs(layer, id)
  <2> DEFINE second == AddKey(first, layer, id)
  <2>1. Become(second) /\ added' = (layer \notin DOMAIN layerToIds)
        /\ UNCHANGED <<identifier, dirty>>
    BY <1>4 DEF AddLayerAs, first
  <2>2. Good(first, {layer})
    BY <1>1 DEF Good, AllNamed
  <2>3. Good(second, {}) /\ second.toLayer = KeysWith(first.toLayer, {id}, layer)
    <3> HIDE DEF second
    <3> QED BY <1>1, <2>2, AddKeyGood DEF second
  <2> HIDE DEF second
  <2>4. Inv'
    BY <2>1, <2>3, BecomeInv
  <2>5. KeysWith(KeysWith(idToLayer, {own}, layer), {id}, layer)
          = KeysWith(idToLayer, {own, id}, layer)
    BY DEF KeysWith
  <2>6. idToLayer' = KeysWith(idToLayer, {own, id}, layer) /\ {own, id} \in SUBSET Ids
    BY <1>1, <1>2, <2>1, <2>3, <2>5 DEF Become
  <2> QED BY <2>1, <2>4, <2>6
<1> QED BY <1>3, <1>4

\* Removing a layer keeps the maps inverse.
LEMMA RemovedGood ==
  ASSUME NEW db, Good(db, {}), NEW layer, NEW new, new = Removed(db, layer)
  PROVE  /\ Good(new, {})
         /\ new.toLayer = [id \in {i \in DOMAIN db.toLayer : db.toLayer[i] # layer} |->
                            db.toLayer[id]]
         /\ DOMAIN new.toIds = DOMAIN db.toIds \ {layer}
<1> DEFINE gone == ToSet(db.toIds[layer])
<1>1. CASE layer \notin DOMAIN db.toIds
  <2>1. new = db
    BY <1>1 DEF Removed
  <2>2. DOMAIN db.toLayer = {i \in DOMAIN db.toLayer : db.toLayer[i] # layer}
    BY <1>1 DEF Good, Keyed
  <2>3. db.toLayer = [id \in DOMAIN db.toLayer |-> db.toLayer[id]]
    BY DEF Good, Typed
  <2> QED BY <1>1, <2>1, <2>2, <2>3
<1>2. CASE layer \in DOMAIN db.toIds
  <2>0. /\ new.toLayer = [x \in DOMAIN db.toLayer \ gone |-> db.toLayer[x]]
        /\ new.toIds = [x \in DOMAIN db.toIds \ {layer} |-> db.toIds[x]]
    BY <1>2 DEF Removed, WithoutKeys, Database
  <2>1. \A id \in DOMAIN db.toLayer : id \in gone <=> db.toLayer[id] = layer
    <3>1. DOMAIN db.toIds[layer] = 1..Len(db.toIds[layer])
      BY <1>2 DEF Good, Typed
    <3>2. ASSUME NEW id \in DOMAIN db.toLayer, id \in gone PROVE db.toLayer[id] = layer
      <4>1. PICK i \in 1..Len(db.toIds[layer]) : db.toIds[layer][i] = id
        BY <3>1, <3>2 DEF ToSet
      <4> QED BY <1>2, <4>1 DEF Good, Listed
    <3>3. ASSUME NEW id \in DOMAIN db.toLayer, db.toLayer[id] = layer PROVE id \in gone
      <4>1. PICK i \in 1..Len(db.toIds[layer]) : db.toIds[layer][i] = id
        BY <3>3 DEF Good, Keyed, Places
      <4> QED BY <3>1, <4>1 DEF ToSet
    <3> QED BY <3>2, <3>3
  <2> HIDE DEF gone
  <2>2. new.toLayer = [id \in {i \in DOMAIN db.toLayer : db.toLayer[i] # layer} |->
                       db.toLayer[id]]
    <3>1. DOMAIN db.toLayer \ gone = {i \in DOMAIN db.toLayer : db.toLayer[i] # layer}
      BY <2>1
    <3> QED BY <2>0, <3>1
  <2>3. /\ DOMAIN new.toIds = DOMAIN db.toIds \ {layer}
        /\ \A l \in DOMAIN new.toIds : new.toIds[l] = db.toIds[l]
    BY <2>0
  <2>4. /\ DOMAIN new.toLayer = {i \in DOMAIN db.toLayer : db.toLayer[i] # layer}
        /\ \A id \in DOMAIN new.toLayer : new.toLayer[id] = db.toLayer[id]
    BY <2>2
  <2>5. Typed(new.toIds, new.toLayer)
    <3>1. new.toIds \in [DOMAIN new.toIds -> Seq(Ids)]
      BY <2>0 DEF Good, Typed
    <3>2. new.toLayer \in [DOMAIN new.toLayer -> Layers]
      BY <2>2 DEF Good, Typed
    <3> QED BY <2>3, <2>4, <3>1, <3>2 DEF Good, Typed
  <2>6. Listed(new.toIds, new.toLayer)
    BY <2>3, <2>4 DEF Good, Listed
  <2>7. Keyed(new.toIds, new.toLayer)
    BY <2>3, <2>4 DEF Good, Keyed
  <2>8. AllNamed(new.toIds, {})
    BY <2>3 DEF Good, AllNamed
  <2> QED BY <2>2, <2>3, <2>5, <2>6, <2>7, <2>8 DEF Good
<1> QED BY <1>1, <1>2

\* What removeLayer does to the two maps.
LEMMA RemoveLayerFacts ==
  ASSUME Inv, NEW layer \in Layers, RemoveLayer(layer)
  PROVE  /\ Inv'
         /\ idToLayer' = [id \in {i \in DOMAIN idToLayer : idToLayer[i] # layer} |-> idToLayer[id]]
         /\ DOMAIN layerToIds' = DOMAIN layerToIds \ {layer}
         /\ added' = (layer \in DOMAIN layerToIds)
<1> DEFINE new == Removed(Current, layer)
<1>1. /\ Good(new, {})
      /\ new.toLayer = [id \in {i \in DOMAIN Current.toLayer : Current.toLayer[i] # layer} |->
                         Current.toLayer[id]]
      /\ DOMAIN new.toIds = DOMAIN Current.toIds \ {layer}
  <2> HIDE DEF new
  <2> QED BY CurrentGood, RemovedGood DEF new
<1>2. Become(new) /\ added' = (layer \in DOMAIN layerToIds)
      /\ UNCHANGED <<identifier, dirty>>
  BY DEF RemoveLayer
<1>3. Current.toLayer = idToLayer /\ Current.toIds = layerToIds
  BY DEF Current, Database
<1> HIDE DEF new
<1>4. Inv'
  <2>1. added' \in BOOLEAN
    BY <1>2
  <2> QED BY <1>1, <1>2, <2>1, BecomeInv
<1> QED BY <1>1, <1>2, <1>3, <1>4 DEF Become

\* The initial states satisfy the invariant.
LEMMA InvInit == Init => Inv
<1> SUFFICES ASSUME Init PROVE Inv
  OBVIOUS
<1>1. DOMAIN layerToIds = {} /\ DOMAIN idToLayer = {}
  BY DEF Init
<1>2. layerToIds \in [{} -> Seq(Ids)] /\ idToLayer \in [{} -> Layers]
  BY DEF Init
<1>3. TypeOK
  BY <1>1, <1>2 DEF Init, TypeOK
<1> QED BY <1>1, <1>3 DEF Inv, OneRelation, Listed, Keyed

\* The steps that are USD's leave the maps alone.
LEMMA OtherFacts ==
  ASSUME Inv, NEW layer \in Layers, NEW id \in Ids,
         \/ SetIdentifier(layer, id) \/ Edit(layer) \/ Clean(layer)
         \/ UNCHANGED vars
  PROVE  Inv' /\ UNCHANGED <<layerToIds, idToLayer>>
<1>1. UNCHANGED <<layerToIds, idToLayer>>
  BY DEF SetIdentifier, Edit, Clean, dbVars, vars
<1>2. added' \in BOOLEAN
  BY DEF Inv, TypeOK, SetIdentifier, Edit, Clean, dbVars, vars
<1>3. identifier' \in [Layers -> Ids]
  BY DEF Inv, TypeOK, SetIdentifier, Edit, Clean, vars
<1>4. dirty' \subseteq Layers
  BY DEF Inv, TypeOK, SetIdentifier, Edit, Clean, vars
<1> QED BY <1>1, <1>2, <1>3, <1>4 DEF Inv, TypeOK, OneRelation


\* Every step preserves the invariant: one case for each action.
LEMMA InvNext == Inv /\ [Next]_vars => Inv'
<1> SUFFICES ASSUME Inv, [Next]_vars PROVE Inv'
  OBVIOUS
<1>1. CASE UNCHANGED vars
  <2>1. CASE Layers = {} \/ Ids = {}
    BY <1>1 DEF vars, dbVars, Inv, TypeOK, OneRelation
  <2>2. CASE Layers # {} /\ Ids # {}
    BY <1>1, <2>2, OtherFacts
  <2> QED BY <2>1, <2>2
<1>2. ASSUME NEW layer \in Layers, AddLayer(layer) PROVE Inv'
  <2>1. identifier[layer] \in Ids
    BY DEF Inv, TypeOK
  <2> QED BY <1>2, <2>1, AddLayerFacts
<1>3. ASSUME NEW layer \in Layers, NEW id \in Ids, AddLayerAs(layer, id) PROVE Inv'
  BY <1>3, AddLayerFacts
<1>4. ASSUME NEW layer \in Layers, RemoveLayer(layer) PROVE Inv'
  BY <1>4, RemoveLayerFacts
<1>5. ASSUME NEW layer \in Layers, Edit(layer) \/ Clean(layer) PROVE Inv'
  <2>1. identifier[layer] \in Ids
    BY DEF Inv, TypeOK
  <2> QED BY <1>5, <2>1, OtherFacts
<1>6. ASSUME NEW layer \in Layers, NEW id \in Ids, SetIdentifier(layer, id) PROVE Inv'
  BY <1>6, OtherFacts
<1> QED BY <1>1, <1>2, <1>3, <1>4, <1>5, <1>6 DEF Next

\* Every use of the database keeps the type and the relation.
THEOREM Invariance == Spec => []Inv
<1> QED BY InvInit, InvNext, PTL DEF Spec

\* The maps hold layers and identifiers only.
THEOREM TypeCorrect == Spec => []TypeOK
<1>1. Inv => TypeOK
  BY DEF Inv
<1> QED BY <1>1, Invariance, PTL

\* The two maps are the two directions of one relation.
THEOREM MapsAgree == Spec => []OneRelation
<1>1. Inv => OneRelation
  BY DEF Inv
<1> QED BY <1>1, Invariance, PTL

\* What findLayer returns is among the layers that are visited for saving.
THEOREM LookupIsVisible == Spec => []FoundIsVisible
<1>1. Inv => FoundIsVisible
  <2> SUFFICES ASSUME Inv, NEW id \in Ids PROVE Found(id) \subseteq Visible
    BY DEF FoundIsVisible
  <2>1. \A i \in DOMAIN idToLayer : idToLayer[i] \in DOMAIN layerToIds
    BY DEF Inv, OneRelation, Keyed
  <2> QED BY <2>1 DEF Found, Visible
<1> QED BY <1>1, Invariance, PTL

-----------------------------------------------------------------------------
(***************************************************************************)
(* Each step of the database is a step of the map or leaves it alone.      *)
(***************************************************************************)
LEMMA MapInitially == Init => Map!MapInit
<1> SUFFICES ASSUME Init PROVE Map!MapInit
  OBVIOUS
<1>1. DOMAIN layerToIds = {}
  BY DEF Init
<1> QED BY <1>1 DEF Init, Map!MapInit

\* A step of the database is a step of the map or leaves it as it is.
LEMMA MapStep == Inv /\ Inv' /\ [Next]_vars => [Map!MapNext]_(Map!mapVars)
<1> SUFFICES ASSUME Inv, Inv', [Next]_vars PROVE [Map!MapNext]_(Map!mapVars)
  OBVIOUS
<1>1. ASSUME NEW layer \in Layers, NEW id \in Ids, AddLayer(layer) \/ AddLayerAs(layer, id)
      PROVE  Map!MapNext
  <2>1. PICK ids \in SUBSET Ids : ids # {} /\ idToLayer' = KeysWith(idToLayer, ids, layer)
    BY <1>1, AddLayerFacts
  <2>2. added' = (layer \notin DOMAIN layerToIds)
    BY <1>1, AddLayerFacts
  <2>3. DOMAIN layerToIds' = {idToLayer'[i] : i \in DOMAIN idToLayer'}
    BY ManagedNext
  <2>4. Map!Add(layer, ids)
    BY <2>1, <2>2, <2>3 DEF Map!Add, KeysWith
  <2> QED BY <2>4 DEF Map!MapNext
<1>2. ASSUME NEW layer \in Layers, RemoveLayer(layer) PROVE Map!MapNext
  <2>1. CASE layer \in DOMAIN layerToIds
    <3>1. Map!RemoveManaged(layer)
      BY <1>2, <2>1, RemoveLayerFacts DEF Map!RemoveManaged, Map!Restrict
    <3> QED BY <3>1 DEF Map!MapNext
  <2>2. CASE layer \notin DOMAIN layerToIds
    <3>1. added' = FALSE
      <4>1. added' = (layer \in DOMAIN layerToIds)
        BY <1>2 DEF RemoveLayer
      <4>2. added' \in BOOLEAN
        BY DEF Inv, TypeOK
      <4>3. ~ (layer \in DOMAIN layerToIds)
        BY <2>2
      <4>4. ~ added'
        BY <4>1, <4>3
      <4> QED BY <4>2, <4>4
    <3>2. layerToIds' = layerToIds /\ idToLayer' = idToLayer
      BY <1>2, <2>2 DEF RemoveLayer, Removed, Current, Database, Become
    <3>3. Map!RemoveOther(layer)
      BY <2>2, <3>1, <3>2 DEF Map!RemoveOther
    <3> QED BY <3>3 DEF Map!MapNext
  <2> QED BY <2>1, <2>2
<1>3. ASSUME NEW layer \in Layers, NEW id \in Ids,
             SetIdentifier(layer, id) \/ Edit(layer) \/ Clean(layer)
      PROVE  UNCHANGED Map!mapVars
  BY <1>3 DEF SetIdentifier, Edit, Clean, dbVars, Map!mapVars
<1>4. CASE UNCHANGED vars
  BY <1>4 DEF vars, dbVars, Map!mapVars
<1>5. \A layer \in Layers : identifier[layer] \in Ids
  BY DEF Inv, TypeOK
<1> QED BY <1>1, <1>2, <1>3, <1>4, <1>5 DEF Next

\* The database implements the map of its documentation.
THEOREM Refinement == Spec => ImplementsMap
<1>1. Init => Map!MapInit
  BY MapInitially
<1>2. Inv /\ Inv' /\ [Next]_vars => [Map!MapNext]_(Map!mapVars)
  BY MapStep
<1> QED BY <1>1, <1>2, Invariance, PTL DEF Spec, ImplementsMap, Map!MapSpec

=============================================================================
