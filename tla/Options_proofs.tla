---------------------------- MODULE Options_proofs ----------------------------
(***************************************************************************)
(* Theorems about Options and OptionsAccess, for any sets of objects, keys *)
(* and values.                                                             *)
(***************************************************************************)
EXTENDS OptionsAccess, TLAPS

(***************************************************************************)
(* Maps.                                                                   *)
(***************************************************************************)
(* Merging is associative: a chain x | y | z does not depend on how it is  *)
(* bracketed.                                                              *)
THEOREM MergeIsAssociative ==
  ASSUME NEW x, NEW y, NEW z
  PROVE  Merged(Merged(x, y), z) = Merged(x, Merged(y, z))
BY DEF Merged

LEMMA MapsStayMaps ==
  ASSUME NEW m, IsMap(m), NEW n, IsMap(n), NEW k \in Keys, NEW v \in Values,
         NEW S \in SUBSET DOMAIN m
  PROVE  /\ IsMap(Empty) /\ IsMap(Added(m, k, v)) /\ IsMap(Merged(m, n))
         /\ IsMap(Restrict(m, S))
<1>1. IsMap(Empty)
  BY DEF IsMap, Empty
<1>2. IsMap(Added(m, k, v))
  BY DEF IsMap, Added, With
<1>3. IsMap(Merged(m, n))
  BY DEF IsMap, Merged
<1>4. IsMap(Restrict(m, S))
  BY DEF IsMap, Restrict
<1>. QED
  BY <1>1, <1>2, <1>3, <1>4

(* The values of the objects, and those that have none. *)
value == [o \in Usable |-> Content(o)]
moved == Constructed \ Usable

(* The pointers and the Impls belong together. *)
OwnInv == TypeOK /\ OneOwner

(***************************************************************************)
(* What each way to change the pointers and the heap does to the values.   *)
(***************************************************************************)
LEMMA NewStep ==
  ASSUME OwnInv, NEW o \in Objects, NEW map, IsMap(map), New(o, map)
  PROVE  /\ OwnInv' /\ moved' = moved
         /\ value' = With(value, o, map)
<1>1. PICK i \in Impls \ DOMAIN heap :
        m_impl' = With(m_impl, o, i) /\ heap' = With(heap, i, map)
  BY DEF New
<1>2. o \notin DOMAIN m_impl /\ i # nullptr
  BY ImplsAssumption DEF New, Constructed, nullptr
<1>3. Constructed' = Constructed \union {o} /\ Usable' = Usable \union {o}
  BY <1>1, <1>2 DEF Constructed, Usable, With
<1>4. /\ m_impl'[o] = i /\ \A p \in Usable : m_impl'[p] = m_impl[p] /\ p # o
      /\ DOMAIN heap' = DOMAIN heap \union {i}
      /\ heap'[i] = map /\ \A j \in DOMAIN heap : heap'[j] = heap[j]
  BY <1>1, <1>2 DEF Constructed, Usable, With
<1>5. OneOwner'
  BY <1>1, <1>3, <1>4 DEF OwnInv, OneOwner
<1>6. TypeOK'
  BY <1>1, <1>2 DEF OwnInv, TypeOK, New, Returns, With
<1>7. \A p \in Usable : Content(p)' = Content(p)
  BY <1>4 DEF OwnInv, OneOwner, Content
<1>8. Content(o)' = map
  BY <1>4 DEF Content
<1>. QED
  BY <1>2, <1>3, <1>5, <1>6, <1>7, <1>8 DEF OwnInv, moved, value, With, Usable, Constructed

LEMMA SetsStep ==
  ASSUME OwnInv, NEW o \in Usable, NEW map, IsMap(map), Sets(o, map),
         thrown' \in BOOLEAN
  PROVE  /\ OwnInv' /\ moved' = moved
         /\ value' = With(value, o, map)
<1>1. /\ UNCHANGED m_impl /\ DOMAIN heap' = DOMAIN heap
      /\ heap'[m_impl[o]] = map
      /\ \A j \in DOMAIN heap : j # m_impl[o] => heap'[j] = heap[j]
  BY DEF OwnInv, OneOwner, Sets
<1>2. UNCHANGED <<Constructed, Usable>>
  BY <1>1 DEF Constructed, Usable
<1>3. OneOwner'
  BY <1>1, <1>2 DEF OwnInv, OneOwner
<1>4. TypeOK'
  BY <1>1 DEF OwnInv, TypeOK
<1>5. Content(o)' = map /\ \A p \in Usable : p # o => Content(p)' = Content(p)
  BY <1>1 DEF OwnInv, OneOwner, Content
<1>. QED
  BY <1>2, <1>3, <1>4, <1>5 DEF OwnInv, moved, value, With

(* Two different objects get new maps. *)
LEMMA SetsTwoStep ==
  ASSUME OwnInv, NEW o \in Usable, NEW p \in Usable, o # p,
         NEW map, IsMap(map), NEW other, IsMap(other),
         heap' = [heap EXCEPT ![m_impl[p]] = other, ![m_impl[o]] = map], UNCHANGED m_impl,
         thrown' \in BOOLEAN
  PROVE  /\ OwnInv' /\ moved' = moved
         /\ value' = With(With(value, p, other), o, map)
<1>1. /\ DOMAIN heap' = DOMAIN heap /\ m_impl[o] # m_impl[p]
      /\ heap'[m_impl[o]] = map /\ heap'[m_impl[p]] = other
      /\ \A j \in DOMAIN heap : j \notin {m_impl[o], m_impl[p]} => heap'[j] = heap[j]
  BY DEF OwnInv, OneOwner
<1>2. UNCHANGED <<Constructed, Usable>>
  BY DEF Constructed, Usable
<1>3. OneOwner'
  BY <1>1, <1>2 DEF OwnInv, OneOwner
<1>4. TypeOK'
  BY <1>1 DEF OwnInv, TypeOK
<1>5. /\ Content(o)' = map /\ Content(p)' = other
      /\ \A q \in Usable : q \notin {o, p} => Content(q)' = Content(q)
  BY <1>1 DEF OwnInv, OneOwner, Content
<1>. QED
  BY <1>2, <1>3, <1>4, <1>5 DEF OwnInv, moved, value, With

LEMMA OrMoveStep ==
  ASSUME OwnInv, NEW o \in Objects, NEW p \in Usable, NEW q \in Usable, OrMove(o, p, q)
  PROVE  /\ OwnInv' /\ moved' = moved
         /\ value' = With(With(value, q, Empty), o, Merged(Content(p), Content(q)))
<1> DEFINE map == Merged(Content(p), Content(q))
<1>1. PICK i \in Impls \ DOMAIN heap :
        /\ m_impl' = With(m_impl, o, i)
        /\ heap' = With([heap EXCEPT ![m_impl[q]] = Empty], i, map)
  BY DEF OrMove
<1>2. o \notin DOMAIN m_impl /\ i # nullptr
  BY ImplsAssumption DEF OrMove, Constructed, nullptr
<1>3. IsMap(map) /\ IsMap(Empty)
  BY DEF OwnInv, OneOwner, TypeOK, Content, IsMap, Merged, Empty
<1> HIDE DEF map
<1>4. Constructed' = Constructed \union {o} /\ Usable' = Usable \union {o}
  BY <1>1, <1>2 DEF Constructed, Usable, With
<1>5. /\ m_impl'[o] = i /\ \A r \in Usable : m_impl'[r] = m_impl[r] /\ r # o
      /\ DOMAIN heap' = DOMAIN heap \union {i}
      /\ heap'[i] = map /\ heap'[m_impl[q]] = Empty
      /\ \A j \in DOMAIN heap : j # m_impl[q] => heap'[j] = heap[j]
  BY <1>1, <1>2 DEF OwnInv, OneOwner, Constructed, Usable, With
<1>6. OneOwner'
  <2>1. \A r \in Usable : m_impl'[r] = m_impl[r] /\ m_impl[r] \in DOMAIN heap /\ m_impl[r] # i
    BY <1>5 DEF OwnInv, OneOwner
  <2>2. \A r, s \in Usable : m_impl[r] = m_impl[s] => r = s
    BY DEF OwnInv, OneOwner
  <2>3. \A j \in DOMAIN heap : \E r \in Usable : m_impl'[r] = j
    BY <2>1 DEF OwnInv, OneOwner
  <2>. QED
    BY <1>4, <1>5, <2>1, <2>2, <2>3 DEF OneOwner
<1>7. TypeOK'
  <2>1. \A j \in DOMAIN heap' : IsMap(heap'[j])
    BY <1>3, <1>5 DEF OwnInv, TypeOK
  <2>. QED
    BY <1>1, <1>2, <1>5, <2>1 DEF OwnInv, TypeOK, OrMove, Returns, With
<1>8. /\ Content(o)' = map /\ Content(q)' = Empty
      /\ \A r \in Usable : r # q => Content(r)' = Content(r)
  BY <1>5 DEF OwnInv, OneOwner, Content
<1>9. moved' = moved
  BY <1>2, <1>4 DEF moved, Constructed, Usable
<1>10. value' = With(With(value, q, Empty), o, map)
  BY <1>4, <1>5, <1>8 DEF value, With
<1>. QED
  BY <1>6, <1>7, <1>9, <1>10 DEF OwnInv, map

LEMMA DestroyStep ==
  ASSUME OwnInv, NEW o \in Constructed, Destroy(o)
  PROVE  /\ OwnInv' /\ moved' = moved \ {o}
         /\ value' = Without(value, o)
<1>1. /\ Constructed' = Constructed \ {o} /\ Usable' = Usable \ {o}
      /\ \A p \in Constructed' : m_impl'[p] = m_impl[p]
      /\ DOMAIN heap' = DOMAIN heap \ {m_impl[o]}
      /\ \A j \in DOMAIN heap' : heap'[j] = heap[j]
  BY DEF Destroy, Constructed, Usable, Without, Restrict
<1>2. OneOwner'
  BY <1>1 DEF OwnInv, OneOwner, Usable
<1>3. TypeOK'
  BY <1>1 DEF OwnInv, TypeOK, Destroy, Returns, Constructed
<1>4. \A p \in Usable' : Content(p)' = Content(p)
  BY <1>1, <1>2 DEF OneOwner, Content, Usable
<1>. QED
  BY <1>1, <1>2, <1>3, <1>4 DEF OwnInv, moved, value, Without, Restrict

(* The pointer of p moves to o, which loses its Impl if it has one. *)
LEMMA MoveStep ==
  ASSUME OwnInv, NEW o \in Objects, NEW p \in Constructed, o # p,
         MoveConstruct(o, p) \/ (o \in Constructed /\ MoveAssign(o, p))
  PROVE  /\ OwnInv'
         /\ value' = IF p \in Usable THEN With(Without(value, p), o, value[p])
                     ELSE Without(value, o)
         /\ moved' = IF p \in Usable THEN (moved \ {o}) \union {p} ELSE moved \union {o}
<1>1. /\ Constructed' = Constructed \union {o}
      /\ m_impl'[o] = m_impl[p] /\ m_impl'[p] = nullptr
      /\ \A q \in Constructed : q \notin {o, p} => m_impl'[q] = m_impl[q]
      /\ heap' = heap \/ (o \in Constructed /\ heap' = Without(heap, m_impl[o]))
      /\ o \in Usable => heap' = Without(heap, m_impl[o])
  BY DEF MoveConstruct, MoveAssign, Constructed, Usable, With
<1>2. /\ DOMAIN heap' \subseteq DOMAIN heap
      /\ \A j \in DOMAIN heap' : heap'[j] = heap[j]
      /\ DOMAIN heap' = IF o \in Usable THEN DOMAIN heap \ {m_impl[o]} ELSE DOMAIN heap
  BY <1>1, ImplsAssumption DEF OwnInv, TypeOK, Without, Restrict, Usable, nullptr
<1>3. /\ p \in Usable => Usable' = (Usable \union {o}) \ {p}
      /\ p \notin Usable => Usable' = Usable \ {o}
  BY <1>1 DEF Usable
<1>4. OneOwner'
  BY <1>1, <1>2, <1>3 DEF OwnInv, OneOwner, Usable
<1>5. TypeOK'
  BY <1>1, <1>2 DEF OwnInv, TypeOK, MoveConstruct, MoveAssign, Returns, Constructed
<1>6. /\ p \in Usable => Content(o)' = Content(p)
      /\ \A q \in Usable : q \notin {o, p} => Content(q)' = Content(q)
  BY <1>1, <1>2, <1>3, <1>4 DEF OwnInv, OneOwner, Content, Usable
<1>7. moved' = IF p \in Usable THEN (moved \ {o}) \union {p} ELSE moved \union {o}
  BY <1>1, <1>3 DEF moved, Usable
<1>8. CASE p \in Usable
  BY <1>3, <1>4, <1>5, <1>6, <1>7, <1>8 DEF OwnInv, value, With, Without, Restrict
<1>9. CASE p \notin Usable
  BY <1>3, <1>4, <1>5, <1>6, <1>7, <1>9 DEF OwnInv, value, Without, Restrict
<1>. QED
  BY <1>8, <1>9

(***************************************************************************)
(* The theorems.                                                           *)
(***************************************************************************)
LEMMA ContentsAreMaps ==
  ASSUME OwnInv, NEW o \in Usable
  PROVE  IsMap(Content(o)) /\ o \in Constructed /\ o \in Objects
BY DEF OwnInv, OneOwner, TypeOK, Content, Usable, Constructed

LEMMA PartsAreMaps ==
  ASSUME OwnInv, NEW o \in Usable, NEW p \in Usable, NEW S \in SUBSET DOMAIN Content(p)
  PROVE  /\ IsMap(Restrict(Content(p), S))
         /\ IsMap(Merged(Content(o), Restrict(Content(p), S)))
         /\ \A k \in DOMAIN Content(p) :
              IsMap(With(Merged(Content(o), Restrict(Content(p), S)), k, False))
<1>1. IsMap(Restrict(Content(p), S))
  BY ContentsAreMaps DEF IsMap, Restrict
<1>2. IsMap(Merged(Content(o), Restrict(Content(p), S)))
  BY <1>1, ContentsAreMaps DEF IsMap, Merged
<1>3. \A k \in DOMAIN Content(p) : k \in Keys /\ False \in Values
  BY ContentsAreMaps, TypesAssumption DEF IsMap
<1>4. ASSUME NEW k \in DOMAIN Content(p)
      PROVE  IsMap(With(Merged(Content(o), Restrict(Content(p), S)), k, False))
  <2> DEFINE merged == Merged(Content(o), Restrict(Content(p), S))
  <2>1. IsMap(merged) /\ k \in Keys /\ False \in Values
    BY <1>2, <1>3
  <2> HIDE DEF merged
  <2>2. IsMap(With(merged, k, False))
    BY <2>1 DEF IsMap, With
  <2>. QED
    BY <2>2 DEF merged
<1>. QED
  BY <1>1, <1>2, <1>4

(* What is left when memory runs out. *)
LEMMA FailuresAre ==
  ASSUME NEW o \in Usable, NEW p \in Usable, RunsOutOfMemory(o, p)
  PROVE  /\ thrown' = TRUE
         /\ \E S \in SUBSET DOMAIN Content(p) :
              \/ Sets(o, Restrict(Content(p), S))
              \/ Sets(o, Merged(Content(o), Restrict(Content(p), S)))
              \/ \E k \in NewStrings(o, p, Restrict(Content(p), S)) :
                    Sets(o, With(Merged(Content(o), Restrict(Content(p), S)), k, False))
              \/ MovesIn(o, p, Restrict(Content(p), S))
<1>1. PICK S \in SUBSET DOMAIN Content(p) :
        \/ o # p /\ \/ Sets(o, Restrict(Content(p), S))
                    \/ Sets(o, Merged(Content(o), Restrict(Content(p), S)))
        \/ o # p /\ \E k \in NewStrings(o, p, Restrict(Content(p), S)) :
                       Sets(o, With(Merged(Content(o), Restrict(Content(p), S)), k, False))
        \/ MovesIn(o, p, Restrict(Content(p), S))
  BY Zenon DEF RunsOutOfMemory
<1>. QED
  BY <1>1, Zenon DEF RunsOutOfMemory, Throws

(* The maps that are moved into o, of which p is emptied, or o itself. *)
LEMMA MovesInStep ==
  ASSUME OwnInv, NEW o \in Usable, NEW p \in Usable, NEW options, IsMap(options),
         MovesIn(o, p, options), thrown' \in BOOLEAN
  PROVE  /\ OwnInv' /\ moved' = moved
         /\ value' = IF o = p THEN With(value, o, options)
                     ELSE With(With(value, p, Empty), o, Merged(Content(o), options))
<1>1. CASE o = p
  <2>1. Sets(o, options)
    BY <1>1 DEF MovesIn, Sets
  <2>. QED
    BY <1>1, <2>1, SetsStep
<1>2. CASE o # p
  <2>1. IsMap(Merged(Content(o), options)) /\ IsMap(Empty)
    BY ContentsAreMaps DEF IsMap, Merged, Empty
  <2>2. /\ heap' = [heap EXCEPT ![m_impl[p]] = Empty,
                               ![m_impl[o]] = Merged(Content(o), options)]
        /\ UNCHANGED m_impl
    BY <1>2, Zenon DEF MovesIn
  <2>. QED
    BY <1>2, <2>1, <2>2, SetsTwoStep
<1>. QED
  BY <1>1, <1>2

LEMMA OwnStep ==
  ASSUME OwnInv, [Next]_vars
  PROVE  OwnInv'
<1>1. ASSUME NEW o \in Objects, NEW map, IsMap(map), New(o, map)
      PROVE  OwnInv'
  BY <1>1, NewStep
<1>2. ASSUME NEW o \in Objects, Construct(o)
      PROVE  OwnInv'
  <2>1. IsMap(Empty)
    BY DEF IsMap, Empty
  <2>. QED
    BY <1>1, <1>2, <2>1 DEF Construct
<1>3. ASSUME NEW o \in Objects, NEW k \in Keys, NEW v \in Values, ConstructWith(o, k, v)
      PROVE  OwnInv'
  <2>1. IsMap(Added(Empty, k, v))
    BY DEF IsMap, Added, With, Empty
  <2>. QED
    BY <1>1, <1>3, <2>1 DEF ConstructWith
<1>4. ASSUME NEW o \in Objects, NEW p \in Usable, CopyConstruct(o, p)
      PROVE  OwnInv'
  BY <1>1, <1>4, ContentsAreMaps DEF CopyConstruct
<1>5. ASSUME NEW o \in Objects, NEW p \in Usable, NEW q \in Usable, Or(o, p, q)
      PROVE  OwnInv'
  <2>1. IsMap(Merged(Content(p), Content(q)))
    BY ContentsAreMaps DEF IsMap, Merged
  <2>. QED
    BY <1>1, <1>5, <2>1 DEF Or
<1>6. ASSUME NEW o \in Objects, NEW p \in Usable, NEW q \in Usable, OrMove(o, p, q)
      PROVE  OwnInv'
  BY <1>6, OrMoveStep
<1>7. ASSUME NEW o \in Objects, NEW p \in Constructed, MoveConstruct(o, p)
      PROVE  OwnInv'
  <2>1. o # p
    BY <1>7 DEF MoveConstruct
  <2>. QED
    BY <1>7, <2>1, MoveStep
<1>8. ASSUME NEW o \in Constructed, Destroy(o)
      PROVE  OwnInv'
  BY <1>8, DestroyStep
<1>9. ASSUME NEW o \in Constructed, NEW p \in Constructed, MoveAssign(o, p)
      PROVE  OwnInv'
  <2>1. CASE o = p
    BY <1>9, <2>1 DEF MoveAssign, Returns, OwnInv, TypeOK, OneOwner, Usable, Constructed
  <2>2. CASE o # p
    <3>1. o \in Objects
      BY DEF OwnInv, TypeOK, Constructed
    <3>. QED
      BY <1>9, <2>2, <3>1, MoveStep
  <2>. QED
    BY <2>1, <2>2
<1>10. ASSUME NEW o \in Usable, NEW k \in Keys, NEW v \in Values, Add(o, k, v)
       PROVE  OwnInv'
  <2>1. IsMap(Added(Content(o), k, v))
    BY ContentsAreMaps DEF IsMap, Added, With
  <2>. QED
    BY <1>10, <2>1, SetsStep DEF Add, Returns
<1>11. ASSUME NEW o \in Usable, NEW p \in Usable, CopyAssign(o, p)
       PROVE  OwnInv'
  BY <1>11, SetsStep, ContentsAreMaps DEF CopyAssign, Returns
<1>12. ASSUME NEW o \in Usable, NEW p \in Usable, MergeIn(o, p)
       PROVE  OwnInv'
  <2>1. IsMap(Merged(Content(o), Content(p)))
    BY ContentsAreMaps DEF IsMap, Merged
  <2>. QED
    BY <1>12, <2>1, SetsStep DEF MergeIn, Returns
<1>13. ASSUME NEW o \in Usable, NEW p \in Usable, MergeInMove(o, p)
       PROVE  OwnInv'
  BY <1>13, MovesInStep, ContentsAreMaps DEF MergeInMove, Returns
<1>14. ASSUME NEW o \in Usable, NEW p \in Usable, RunsOutOfMemory(o, p)
       PROVE  OwnInv'
  <2>1. PICK S \in SUBSET DOMAIN Content(p) :
          \/ Sets(o, Restrict(Content(p), S))
          \/ Sets(o, Merged(Content(o), Restrict(Content(p), S)))
          \/ \E k \in NewStrings(o, p, Restrict(Content(p), S)) :
                Sets(o, With(Merged(Content(o), Restrict(Content(p), S)), k, False))
          \/ MovesIn(o, p, Restrict(Content(p), S))
    BY <1>14, FailuresAre
  <2>2. /\ IsMap(Restrict(Content(p), S))
        /\ IsMap(Merged(Content(o), Restrict(Content(p), S)))
    BY PartsAreMaps
  <2>3. \A k \in NewStrings(o, p, Restrict(Content(p), S)) :
          IsMap(With(Merged(Content(o), Restrict(Content(p), S)), k, False))
    BY PartsAreMaps DEF NewStrings
  <2>4. thrown' \in BOOLEAN
    BY <1>14, FailuresAre
  <2>. QED
    BY <2>1, <2>2, <2>3, <2>4, SetsStep, MovesInStep
<1>15. CASE UNCHANGED vars
  BY <1>15 DEF vars, OwnInv, TypeOK, OneOwner, Usable, Constructed
<1>. QED
  BY <1>2, <1>3, <1>4, <1>5, <1>6, <1>7, <1>8, <1>9, <1>10, <1>11, <1>12, <1>13, <1>14, <1>15
  DEF Next

LEMMA OwnInit == Init => OwnInv
BY DEF Init, OwnInv, TypeOK, OneOwner, Usable, Constructed, Empty

LEMMA Owned == Spec => []OwnInv
BY OwnInit, OwnStep, PTL DEF Spec

(* Every variable keeps to its type. *)
THEOREM TypeCorrect == Spec => []TypeOK
<1>1. OwnInv => TypeOK
  BY DEF OwnInv
<1>. QED
  BY <1>1, Owned, PTL

(* No Impl is ever shared, leaked or used after it was deleted.            *)
THEOREM EveryImplHasOneOwner == Spec => []OneOwner
<1>1. OwnInv => OneOwner
  BY DEF OwnInv
<1>. QED
  BY <1>1, Owned, PTL

(***************************************************************************)
(* The refinement of OptionsValue.                                         *)
(***************************************************************************)
LEMMA SameOperators ==
  /\ V!Empty = Empty
  /\ \A f, x, y : V!With(f, x, y) = With(f, x, y)
  /\ \A f, x : V!Without(f, x) = Without(f, x)
  /\ \A f, S : V!Restrict(f, S) = Restrict(f, S)
  /\ \A f, g : V!Merge(f, g) = Merged(f, g)
BY DEF V!Empty, Empty, V!With, With, V!Without, Without, V!Restrict, Restrict, V!Merge, Merged

LEMMA SameObjects ==
  /\ V!Usable = Usable /\ V!Constructed = Constructed
  /\ \A o \in Usable : value[o] = Content(o)
BY DEF V!Usable, V!Constructed, value, Usable

(* An object becomes a value when it alone does. *)
LEMMA BecomesIf ==
  ASSUME NEW o, o \notin moved, NEW map,
         moved' = moved, value' = With(value, o, map)
  PROVE  V!Becomes(o, map)
BY SameOperators DEF V!Becomes, value, moved

LEMMA NewBecomes ==
  ASSUME OwnInv, NEW o \in Objects, NEW map, IsMap(map), New(o, map)
  PROVE  V!Becomes(o, map) /\ o \notin V!Constructed /\ thrown' = FALSE
<1>1. o \notin Constructed /\ thrown' = FALSE
  BY DEF New, Returns
<1>2. o \notin moved
  BY <1>1 DEF moved
<1>. QED
  BY <1>1, <1>2, NewStep, BecomesIf, SameObjects

LEMMA SetsBecomes ==
  ASSUME OwnInv, NEW o \in Usable, NEW map, IsMap(map), Sets(o, map),
         thrown' \in BOOLEAN
  PROVE  V!Becomes(o, map)
<1>1. o \notin moved
  BY DEF moved
<1>. QED
  BY <1>1, SetsStep, BecomesIf

LEMMA ConstructsValue ==
  ASSUME OwnInv, NEW o \in Objects,
         \/ Construct(o)
         \/ \E k \in Keys, v \in Values : ConstructWith(o, k, v)
         \/ \E p \in Usable : CopyConstruct(o, p) \/ \E q \in Usable : Or(o, p, q)
  PROVE  V!Construct(o)
<1>1. CASE Construct(o)
  <2>1. IsMap(Empty)
    BY DEF IsMap, Empty
  <2>. QED
    BY <1>1, <2>1, NewBecomes, SameOperators DEF Construct, V!Construct
<1>2. ASSUME NEW k \in Keys, NEW v \in Values, ConstructWith(o, k, v)
      PROVE  V!Construct(o)
  <2>1. IsMap(Added(Empty, k, v)) /\ Added(Empty, k, v) = With(Empty, k, v)
    BY DEF IsMap, Added, With, Empty
  <2>. QED
    BY <1>2, <2>1, NewBecomes, SameOperators DEF ConstructWith, V!Construct
<1>3. ASSUME NEW p \in Usable, CopyConstruct(o, p)
      PROVE  V!Construct(o)
  <2>1. V!Becomes(o, value[p]) /\ o \notin V!Constructed /\ thrown' = FALSE
    BY <1>3, NewBecomes, ContentsAreMaps, SameObjects DEF CopyConstruct
  <2>. QED
    BY <2>1, SameObjects DEF V!Construct, value
<1>4. ASSUME NEW p \in Usable, NEW q \in Usable, Or(o, p, q)
      PROVE  V!Construct(o)
  <2>1. IsMap(Merged(Content(p), Content(q)))
    BY ContentsAreMaps DEF IsMap, Merged
  <2>2. V!Becomes(o, V!Merge(value[p], value[q])) /\ o \notin V!Constructed /\ thrown' = FALSE
    BY <1>4, <2>1, NewBecomes, SameObjects, SameOperators DEF Or
  <2>. QED
    BY <2>2, SameObjects DEF V!Construct, value
<1>. QED
  BY <1>1, <1>2, <1>3, <1>4

LEMMA ChangesValue ==
  ASSUME OwnInv, NEW o \in Usable,
         \/ \E k \in Keys, v \in Values : Add(o, k, v)
         \/ \E p \in Usable : CopyAssign(o, p) \/ MergeIn(o, p)
  PROVE  V!Change(o)
<1>1. ASSUME NEW k \in Keys, NEW v \in Values, Add(o, k, v)
      PROVE  V!Change(o)
  <2>1. IsMap(Added(Content(o), k, v))
    BY ContentsAreMaps DEF IsMap, Added, With
  <2>2. V!Becomes(o, Added(Content(o), k, v)) /\ thrown' = FALSE
    BY <1>1, <2>1, SetsBecomes DEF Add, Returns
  <2>3. CASE k \in DOMAIN value[o]
    <3>1. V!Becomes(o, value[o])
      BY <2>2, <2>3, SameObjects DEF Added
    <3>. QED
      BY <2>2, <2>3, <3>1 DEF V!Change, value
  <2>4. CASE k \notin DOMAIN value[o]
    <3>1. V!Becomes(o, V!With(value[o], k, v))
      BY <2>2, <2>4, SameObjects, SameOperators DEF Added
    <3>. QED
      BY <2>2, <3>1 DEF V!Change, value
  <2>. QED
    BY <2>3, <2>4
<1>2. ASSUME NEW p \in Usable, CopyAssign(o, p)
      PROVE  V!Change(o)
  <2>1. V!Becomes(o, value[p]) /\ thrown' = FALSE
    BY <1>2, SetsBecomes, ContentsAreMaps, SameObjects DEF CopyAssign, Returns
  <2>. QED
    BY <2>1, SameObjects DEF V!Change, value
<1>3. ASSUME NEW p \in Usable, MergeIn(o, p)
      PROVE  V!Change(o)
  <2>1. IsMap(Merged(Content(o), Content(p)))
    BY ContentsAreMaps DEF IsMap, Merged
  <2>2. V!Becomes(o, V!Merge(value[o], value[p])) /\ thrown' = FALSE
    BY <1>3, <2>1, SetsBecomes, SameObjects, SameOperators DEF MergeIn, Returns
  <2>. QED
    BY <2>2, SameObjects DEF V!Change, value
<1>. QED
  BY <1>1, <1>2, <1>3

LEMMA FailsValue ==
  ASSUME OwnInv, NEW o \in Usable, NEW p \in Usable, RunsOutOfMemory(o, p)
  PROVE  V!Fail(o, p)
<1>1. PICK S \in SUBSET DOMAIN Content(p) :
        \/ Sets(o, Restrict(Content(p), S))
        \/ Sets(o, Merged(Content(o), Restrict(Content(p), S)))
        \/ \E k \in NewStrings(o, p, Restrict(Content(p), S)) :
              Sets(o, With(Merged(Content(o), Restrict(Content(p), S)), k, False))
        \/ MovesIn(o, p, Restrict(Content(p), S))
  BY FailuresAre
<1>2. /\ IsMap(Restrict(Content(p), S))
      /\ IsMap(Merged(Content(o), Restrict(Content(p), S)))
  BY PartsAreMaps
<1>3. thrown' = TRUE
  BY FailuresAre
<1>4. S \in SUBSET DOMAIN value[p] /\ value[p] = Content(p) /\ value[o] = Content(o)
  BY SameObjects
<1>5. CASE Sets(o, Restrict(Content(p), S))
  <2>1. V!Becomes(o, V!Restrict(value[p], S))
    BY <1>2, <1>3, <1>4, <1>5, SetsBecomes, SameOperators
  <2>. QED
    BY <1>3, <1>4, <2>1 DEF V!Fail, value
<1>6. CASE Sets(o, Merged(Content(o), Restrict(Content(p), S)))
  <2>1. V!Becomes(o, V!Merge(value[o], V!Restrict(value[p], S)))
    BY <1>2, <1>3, <1>4, <1>6, SetsBecomes, SameOperators
  <2>. QED
    BY <1>3, <1>4, <2>1 DEF V!Fail, value
<1>7. CASE MovesIn(o, p, Restrict(Content(p), S))
  <2> DEFINE part == Restrict(Content(p), S)
  <2>1. /\ moved' = moved
        /\ value' = IF o = p THEN With(value, o, part)
                    ELSE With(With(value, p, Empty), o, Merged(Content(o), part))
    BY <1>2, <1>3, <1>7, MovesInStep
  <2>2. With(value, o, part) = With(With(value, o, Empty), o, part)
    BY DEF With
  <2>3. value' = V!With(V!With(value, p, V!Empty), o,
                        IF o = p THEN V!Restrict(value[p], S)
                        ELSE V!Merge(value[o], V!Restrict(value[p], S)))
    BY <1>4, <2>1, <2>2, SameOperators
  <2>. QED
    BY <1>3, <1>4, <2>1, <2>3 DEF V!Fail, value, moved
<1>8. ASSUME NEW k \in NewStrings(o, p, Restrict(Content(p), S)),
             Sets(o, With(Merged(Content(o), Restrict(Content(p), S)), k, False))
      PROVE  V!Fail(o, p)
  <2> DEFINE merged == V!Merge(value[o], V!Restrict(value[p], S))
  <2>1. merged = Merged(Content(o), Restrict(Content(p), S))
    BY <1>4, SameOperators
  <2>2. k \in DOMAIN Content(p) /\ k \notin DOMAIN Content(o) \union DOMAIN Restrict(Content(p), S)
    BY DEF NewStrings
  <2>3. k \in DOMAIN value[p] \ DOMAIN merged
    BY <1>4, <2>1, <2>2 DEF Merged
  <2>4. IsMap(With(Merged(Content(o), Restrict(Content(p), S)), k, False))
    BY <2>2, PartsAreMaps
  <2>5. V!Becomes(o, V!With(merged, k, False))
    BY <1>3, <1>8, <2>1, <2>4, SetsBecomes, SameOperators
  <2>. QED
    BY <1>3, <1>4, <2>3, <2>5 DEF V!Fail, value
<1>. QED
  BY <1>1, <1>5, <1>6, <1>7, <1>8

LEMMA MovesValue ==
  ASSUME OwnInv, NEW o \in Objects, NEW p \in Constructed, o # p,
         MoveConstruct(o, p) \/ (o \in Constructed /\ MoveAssign(o, p))
  PROVE  V!Move(o, p)
<1>1. thrown' = FALSE
  BY DEF MoveConstruct, MoveAssign, Returns
<1>2. /\ value' = IF p \in Usable THEN V!With(V!Without(value, p), o, value[p])
                  ELSE V!Without(value, o)
      /\ moved' = IF p \in Usable THEN (moved \ {o}) \union {p} ELSE moved \union {o}
  BY MoveStep, SameOperators
<1>. QED
  BY <1>1, <1>2, SameObjects DEF V!Move, value, moved

(* Every step of the program is a step of OptionsValue or changes no value. *)
LEMMA ValueStep ==
  ASSUME OwnInv, [Next]_vars
  PROVE  [V!Next]_(V!vars)
<1> USE SameObjects
<1>1. ASSUME NEW o \in Objects,
             \/ Construct(o)
             \/ \E k \in Keys, v \in Values : ConstructWith(o, k, v)
             \/ \E p \in Usable : CopyConstruct(o, p) \/ \E q \in Usable : Or(o, p, q)
      PROVE  V!Next
  BY <1>1, ConstructsValue DEF V!Next
<1>2. ASSUME NEW o \in Objects, NEW p \in Usable, NEW q \in Usable, OrMove(o, p, q)
      PROVE  V!Next
  <2>1. value' = V!With(V!With(value, q, V!Empty), o, V!Merge(value[p], value[q]))
    BY <1>2, OrMoveStep, SameOperators
  <2>2. moved' = moved /\ thrown' = FALSE /\ o \notin V!Constructed
    BY <1>2, OrMoveStep DEF OrMove, Returns
  <2>3. V!ConstructFrom(o, p, q)
    BY <2>1, <2>2 DEF V!ConstructFrom, value, moved
  <2>. QED
    BY <2>3 DEF V!Next
<1>3. ASSUME NEW o \in Objects, NEW p \in Constructed, MoveConstruct(o, p)
      PROVE  V!Next
  <2>1. o # p
    BY <1>3 DEF MoveConstruct
  <2>. QED
    BY <1>3, <2>1, MovesValue DEF V!Next
<1>4. ASSUME NEW o \in Constructed, Destroy(o)
      PROVE  V!Next
  <2>1. thrown' = FALSE /\ moved' = moved \ {o} /\ value' = V!Without(value, o)
    BY <1>4, DestroyStep, SameOperators DEF Destroy, Returns
  <2>2. V!Destroy(o)
    BY <2>1 DEF V!Destroy, value, moved
  <2>. QED
    BY <2>2 DEF V!Next
<1>5. ASSUME NEW o \in Constructed, NEW p \in Constructed, MoveAssign(o, p)
      PROVE  V!Next
  <2>1. o \in Objects
    BY DEF OwnInv, TypeOK, Constructed
  <2>2. CASE o # p
    BY <1>5, <2>1, <2>2, MovesValue DEF V!Next
  <2>3. CASE o = p
    <3>1. UNCHANGED <<m_impl, heap>> /\ thrown' = FALSE
      BY <1>5, <2>3 DEF MoveAssign, Returns
    <3>2. V!Keep
      BY <3>1 DEF V!Keep, Usable, Constructed, Content
    <3>. QED
      BY <3>2 DEF V!Next
  <2>. QED
    BY <2>2, <2>3
<1>6. ASSUME NEW o \in Usable,
             \/ \E k \in Keys, v \in Values : Add(o, k, v)
             \/ \E p \in Usable : CopyAssign(o, p) \/ MergeIn(o, p)
      PROVE  V!Next
  BY <1>6, ChangesValue DEF V!Next
<1>7. ASSUME NEW o \in Usable, NEW p \in Usable, MergeInMove(o, p)
      PROVE  V!Next
  <2> SUFFICES V!Change(o) \/ V!MergeFrom(o, p)
    BY DEF V!Next
  <2>1. thrown' = FALSE
    BY <1>7 DEF MergeInMove, Returns
  <2>2. CASE o = p
    <3>1. Sets(o, Content(o))
      BY <1>7, <2>2 DEF MergeInMove, MovesIn, Sets
    <3>2. V!Becomes(o, value[o])
      BY <3>1, <2>1, SetsBecomes, ContentsAreMaps
    <3>. QED
      BY <2>1, <3>2 DEF V!Change, value
  <2>3. CASE o # p
    <3>1. /\ moved' = moved
          /\ value' = V!With(V!With(value, p, V!Empty), o, V!Merge(value[o], value[p]))
      <4>1. MovesIn(o, p, Content(p)) /\ IsMap(Content(p))
        BY <1>7, ContentsAreMaps DEF MergeInMove
      <4>2. /\ moved' = moved
            /\ value' = With(With(value, p, Empty), o, Merged(Content(o), Content(p)))
        BY <2>1, <2>3, <4>1, MovesInStep
      <4>. QED
        BY <4>2, SameOperators
    <3>. QED
      BY <2>1, <2>3, <3>1 DEF V!MergeFrom, value, moved
  <2>. QED
    BY <2>2, <2>3
<1>8. ASSUME NEW o \in Usable, NEW p \in Usable, RunsOutOfMemory(o, p)
      PROVE  V!Next
  BY <1>8, FailsValue DEF V!Next
<1>9. CASE UNCHANGED vars
  BY <1>9 DEF vars, V!vars, Usable, Constructed, Content
<1>. QED
  BY <1>1, <1>2, <1>3, <1>4, <1>5, <1>6, <1>7, <1>8, <1>9 DEF Next

(* Options objects are values, whatever is done with their pointers. *)
THEOREM OptionsAreValues == Spec => ImplementsOptionsValue
<1>1. Init => V!Init
  BY DEF Init, V!Init, V!Empty, Empty, Usable, Constructed
<1>2. OwnInv /\ [Next]_vars => [V!Next]_(V!vars)
  BY ValueStep
<1>. QED
  BY <1>1, <1>2, Owned, PTL DEF Spec, V!Spec, ImplementsOptionsValue

(***************************************************************************)
(* Pointers that are held.                                                 *)
(***************************************************************************)
(* The option that is pointed to stays where it is, as it is. *)
Stays ==
  /\ pointer.impl \in DOMAIN heap' /\ pointer.key \in DOMAIN heap'[pointer.impl]
  /\ heap'[pointer.impl][pointer.key] = heap[pointer.impl][pointer.key]

AccessInv == OwnInv /\ PointersHold

LEMMA AccessStepsAreSteps == AccessNext => [Next]_vars
<1>1. Look => UNCHANGED vars
  BY DEF Look
<1>2. ASSUME NEW o \in Objects, Creates(o)
      PROVE  Next
  BY <1>2 DEF Creates, Next
<1>3. ASSUME NEW o \in Constructed, Destroy(o) \/ \E p \in Constructed : MoveAssign(o, p)
      PROVE  Next
  BY <1>3 DEF Next
<1>4. ASSUME NEW o \in Usable, NEW p \in Usable,
             \/ \E k \in Keys, v \in Values : Add(o, k, v)
             \/ CopyAssign(o, p) \/ MergeIn(o, p) \/ MergeInMove(o, p)
             \/ RunsOutOfMemory(o, p)
      PROVE  Next
  BY <1>4 DEF Next
<1>5. ASSUME NEW o \in Usable, NEW k \in Keys, NEW v \in Values, Add(o, k, v)
      PROVE  Next
  BY <1>5 DEF Next
<1>6. MayHold => Next
  BY <1>2, <1>3, <1>4, <1>5 DEF MayHold, AddsBeside, MergesBeside
<1>. QED
  BY <1>1, <1>6 DEF AccessNext, Forget, Hold

LEMMA HoldStays ==
  ASSUME AccessInv, MayHold, pointer # NoPointer
  PROVE  Stays
<1>1. /\ pointer.impl \in DOMAIN heap /\ pointer.key \in DOMAIN heap[pointer.impl]
      /\ pointer.impl # nullptr
  BY DEF AccessInv, PointersHold, Usable
<1>2. ASSUME NEW o, NEW map, New(o, map)
      PROVE  Stays
  BY <1>1, <1>2 DEF New, Stays, With
<1>3. ASSUME NEW o \in Objects, Creates(o)
      PROVE  Stays
  <2>1. CASE \/ Construct(o)
             \/ \E k \in Keys, v \in Values : ConstructWith(o, k, v)
             \/ \E p \in Usable : CopyConstruct(o, p) \/ \E q \in Usable : Or(o, p, q)
    BY <1>2, <2>1 DEF Construct, ConstructWith, CopyConstruct, Or
  <2>2. ASSUME NEW p \in Usable, NEW q \in Usable, Elsewhere(q), OrMove(o, p, q)
        PROVE  Stays
    BY <1>1, <2>2 DEF OrMove, Elsewhere, Stays, With
  <2>3. ASSUME NEW p \in Constructed, MoveConstruct(o, p)
        PROVE  Stays
    BY <1>1, <2>3 DEF MoveConstruct, Stays
  <2>. QED
    BY <1>3, <2>1, <2>2, <2>3 DEF Creates
<1>4. ASSUME NEW o \in Constructed, Elsewhere(o),
             Destroy(o) \/ \E p \in Constructed : MoveAssign(o, p)
      PROVE  Stays
  BY <1>1, <1>4 DEF Destroy, MoveAssign, Elsewhere, Stays, Without, Restrict
<1>5. ASSUME NEW o \in Usable, NEW map, Sets(o, map),
             Elsewhere(o) \/ ( /\ pointer.key \in DOMAIN Content(o) => pointer.key \in DOMAIN map
                               /\ pointer.key \in DOMAIN Content(o)
                                    => map[pointer.key] = Content(o)[pointer.key] )
      PROVE  Stays
  <2>1. CASE Elsewhere(o)
    BY <1>1, <1>5, <2>1 DEF Sets, Elsewhere, Stays
  <2>2. CASE ~Elsewhere(o)
    <3>1. pointer.impl = m_impl[o] /\ Content(o) = heap[pointer.impl]
      BY <2>2 DEF Elsewhere, Content
    <3>2. heap' = [heap EXCEPT ![pointer.impl] = map]
      BY <1>5, <3>1 DEF Sets
    <3>. QED
      BY <1>1, <1>5, <2>2, <3>1, <3>2 DEF Stays
  <2>. QED
    BY <2>1, <2>2
<1>6. ASSUME NEW o \in Usable, NEW k \in Keys, NEW v \in Values, AddsBeside(o, k, v)
      PROVE  Stays
  <2>1. /\ DOMAIN Content(o) \subseteq DOMAIN Added(Content(o), k, v)
        /\ \A l \in DOMAIN Content(o) \ {k} : Added(Content(o), k, v)[l] = Content(o)[l]
    BY DEF Added, With
  <2>2. Elsewhere(o) \/ k # pointer.key
    BY <1>6 DEF AddsBeside
  <2>. QED
    BY <1>5, <1>6, <2>1, <2>2 DEF AddsBeside, Add
<1>7. ASSUME NEW o \in Usable, NEW p \in Usable, Elsewhere(o), CopyAssign(o, p) \/ MergeIn(o, p)
      PROVE  Stays
  BY <1>5, <1>7 DEF CopyAssign, MergeIn
<1>8. ASSUME NEW o \in Usable, NEW p \in Usable, MergesBeside(o, p)
      PROVE  Stays
  <2>1. /\ DOMAIN Content(o) \subseteq DOMAIN Merged(Content(o), Content(p))
        /\ pointer.key \in DOMAIN Content(o)
             => Merged(Content(o), Content(p))[pointer.key] = Content(o)[pointer.key]
    BY <1>8 DEF MergesBeside, Merged
  <2>. QED
    BY <1>5, <1>8, <2>1 DEF MergesBeside, MergeIn
<1>9. ASSUME NEW o \in Usable, NEW p \in Usable, Elsewhere(o), Elsewhere(p), NEW map,
             MovesIn(o, p, map)
      PROVE  Stays
  BY <1>1, <1>9 DEF MovesIn, Elsewhere, Stays
<1>10. ASSUME NEW o \in Usable, NEW p \in Usable, Elsewhere(o), Elsewhere(p),
              MergeInMove(o, p) \/ RunsOutOfMemory(o, p)
       PROVE  Stays
  <2>1. CASE MergeInMove(o, p)
    BY <1>9, <1>10, <2>1 DEF MergeInMove
  <2>2. CASE RunsOutOfMemory(o, p)
    BY <1>5, <1>9, <1>10, <2>2, FailuresAre
  <2>. QED
    BY <1>10, <2>1, <2>2
<1>. QED
  BY <1>3, <1>4, <1>6, <1>7, <1>8, <1>10 DEF MayHold

LEMMA AccessStep ==
  ASSUME AccessInv, [AccessNext]_accessVars
  PROVE  AccessInv'
<1>1. OwnInv'
  BY AccessStepsAreSteps, OwnStep DEF AccessInv, accessVars
<1>2. PointersHold'
  <2>1. CASE Look
    <3>1. PICK o \in Usable, k \in Keys, type \in Types : pointer' = TryAs(o, k, type)
      BY <2>1 DEF Look
    <3>2. UNCHANGED vars
      BY <2>1 DEF Look
    <3>3. CASE k \in DOMAIN Content(o) /\ TypeOf[Content(o)[k]] = type
      <4>1. pointer' = [impl |-> m_impl[o], key |-> k, type |-> type]
        BY <3>1, <3>3 DEF TryAs
      <4>2. m_impl[o] \in DOMAIN heap
        BY DEF AccessInv, OwnInv, OneOwner
      <4>. QED
        BY <3>2, <3>3, <4>1, <4>2 DEF PointersHold, vars, Usable, Constructed, Content
    <3>4. CASE ~(k \in DOMAIN Content(o) /\ TypeOf[Content(o)[k]] = type)
      <4>1. pointer' = NoPointer
        BY <3>1, <3>4 DEF TryAs
      <4>. QED
        BY <4>1 DEF PointersHold, NoPointer
    <3>. QED
      BY <3>3, <3>4
  <2>2. CASE Forget
    BY <2>2 DEF Forget, PointersHold, NoPointer
  <2>3. CASE Hold
    <3>1. CASE pointer = NoPointer
      BY <2>3, <3>1 DEF Hold, PointersHold, NoPointer
    <3>2. CASE pointer # NoPointer
      <4>1. Stays /\ pointer' = pointer
        BY <2>3, <3>2, HoldStays DEF Hold
      <4>2. TypeOf[heap[pointer.impl][pointer.key]] = pointer.type
        BY <3>2 DEF AccessInv, PointersHold
      <4>3. \E o \in Usable' : m_impl'[o] = pointer.impl
        BY <1>1, <4>1 DEF Stays, OwnInv, OneOwner
      <4>. QED
        BY <4>1, <4>2, <4>3 DEF Stays, PointersHold
    <3>. QED
      BY <3>1, <3>2
  <2>4. CASE UNCHANGED accessVars
    BY <2>4 DEF AccessInv, PointersHold, accessVars, vars, Usable, Constructed
  <2>. QED
    BY <2>1, <2>2, <2>3, <2>4 DEF AccessNext
<1>. QED
  BY <1>1, <1>2 DEF AccessInv

(* A pointer into the options is good for as long as OptionsAccess allows  *)
(* it to be held: through every call that creates or moves objects, and    *)
(* through add() and merges with other keys.                               *)
THEOREM HeldPointersAreGood == AccessSpec => []PointersHold
<1>1. AccessInit => AccessInv
  BY OwnInit DEF AccessInit, AccessInv, PointersHold
<1>2. AccessInv => PointersHold
  BY DEF AccessInv
<1>. QED
  BY <1>1, <1>2, AccessStep, PTL DEF AccessSpec

(* Reading changes no option: what holds of Options holds of OptionsAccess. *)
THEOREM AccessIsOptions == AccessSpec => Spec
<1>1. [AccessNext]_accessVars => [Next]_vars
  BY AccessStepsAreSteps DEF accessVars
<1>. QED
  BY <1>1, PTL DEF AccessSpec, AccessInit, Spec
=============================================================================
