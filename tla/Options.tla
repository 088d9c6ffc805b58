------------------------------- MODULE Options -------------------------------
(***************************************************************************)
(* Options.cpp: an Options object owns an Impl, a map, through a           *)
(* unique_ptr.  Copies copy the Impl; moves hand over the pointer, except  *)
(* for the merges, which move the map out of an Impl that stays.  The host *)
(* calls nothing but the destructor and moves on an object moved from,     *)
(* for its pointer is null.  Reading is in OptionsAccess.                  *)
(***************************************************************************)
EXTENDS Functions

CONSTANTS
  Objects,   \* the Options objects of the host
  Impls,     \* the memory for Impl objects
  Keys, Values,
  TypeOf,    \* the alternative of the variant that holds each value
  False      \* the bool false, which a default-constructed variant holds

Types == {"bool", "int64", "double", "string"}

ASSUME ImplsAssumption == "nullptr" \notin Impls

ASSUME TypesAssumption ==
  TypeOf \in [Values -> Types] /\ False \in Values /\ TypeOf[False] = "bool"

VARIABLES
  m_impl,    \* the pointers of the objects that are constructed
  heap,      \* the maps of the Impls that are allocated
  thrown     \* did the last call throw std::bad_alloc?

vars == <<m_impl, heap, thrown>>

nullptr == "nullptr"
Empty == [k \in {} |-> k]
With(f, x, y) == [z \in DOMAIN f \union {x} |-> IF z = x THEN y ELSE f[z]]
Without(f, x) == Restrict(f, DOMAIN f \ {x})

(***************************************************************************)
(* Options::Impl.                                                          *)
(***************************************************************************)
(* emplace(): an option that is there stays, although Options.h:105 says   *)
(* that it is overwritten.                                                 *)
Added(m, k, v) == IF k \in DOMAIN m THEN m ELSE With(m, k, v)

(* The bug this would be: the merge emplaces. *)
Merged_emplace(m, other) ==
  [k \in DOMAIN m \union DOMAIN other |-> IF k \in DOMAIN m THEN m[k] ELSE other[k]]
(* The bug this would be: the merge assigns the whole map. *)
Merged_assign(m, other) == other
Merged(m, other) ==
  [k \in DOMAIN m \union DOMAIN other |-> IF k \in DOMAIN other THEN other[k] ELSE m[k]]

(***************************************************************************)
(* Options.                                                                *)
(***************************************************************************)
Constructed == DOMAIN m_impl
Usable == {o \in Constructed : m_impl[o] # nullptr}
Content(o) == heap[m_impl[o]]

Init ==
  /\ m_impl = Empty /\ heap = Empty
  /\ thrown = FALSE

Returns == thrown' = FALSE
Throws == thrown' = TRUE

New(o, map) ==
  /\ o \notin Constructed
  /\ \E i \in Impls \ DOMAIN heap :
       m_impl' = With(m_impl, o, i) /\ heap' = With(heap, i, map)
  /\ Returns

Construct(o) == New(o, Empty)
ConstructWith(o, k, v) == New(o, Added(Empty, k, v))

(* The bug this would be: a copy shares the Impl. *)
CopyConstruct_share(o, p) ==
  /\ o \notin Constructed
  /\ m_impl' = With(m_impl, o, m_impl[p])
  /\ Returns /\ UNCHANGED heap
CopyConstruct(o, p) == New(o, Content(p))

(* x | y, x being a copy of p: the object that is returned *)
Or(o, p, q) == New(o, Merged(Content(p), Content(q)))

OrMove(o, p, q) ==
  /\ o \notin Constructed
  /\ \E i \in Impls \ DOMAIN heap :
       /\ m_impl' = With(m_impl, o, i)
       /\ heap' = With([heap EXCEPT ![m_impl[q]] = Empty], i, Merged(Content(p), Content(q)))
  /\ Returns

MoveConstruct(o, p) ==
  /\ o \notin Constructed
  /\ m_impl' = With(With(m_impl, p, nullptr), o, m_impl[p])
  /\ Returns /\ UNCHANGED heap

(* The Impl of o, if it has one, is deleted. *)
MoveAssign(o, p) ==
  /\ IF o = p
     THEN UNCHANGED <<m_impl, heap>>
     ELSE /\ m_impl' = [m_impl EXCEPT ![o] = m_impl[p], ![p] = nullptr]
          /\ heap' = Without(heap, m_impl[o])
  /\ Returns

Destroy(o) ==
  /\ m_impl' = Without(m_impl, o)
  /\ heap' = Without(heap, m_impl[o])
  /\ Returns

(* The map of o is replaced by another one. *)
Sets(o, map) == heap' = [heap EXCEPT ![m_impl[o]] = map] /\ UNCHANGED m_impl

CopyAssign(o, p) == Sets(o, Content(p)) /\ Returns

Add(o, k, v) == Sets(o, Added(Content(o), k, v)) /\ Returns

MergeIn(o, p) == Sets(o, Merged(Content(o), Content(p))) /\ Returns

(* What was in p goes by way of tmp, so that an object may be merged into  *)
(* itself; options is what arrives.                                        *)
MovesIn(o, p, options) ==
  /\ heap' = IF o = p
             THEN [heap EXCEPT ![m_impl[o]] = options]
             ELSE [heap EXCEPT ![m_impl[p]] = Empty, ![m_impl[o]] = Merged(Content(o), options)]
  /\ UNCHANGED m_impl
MergeInMove(o, p) == MovesIn(o, p, Content(p)) /\ Returns

(* A key of p that is new to o, after the part of p, when it is merged:    *)
(* operator[] inserts it with the value false before the string is copied, *)
(* which may fail.                                                         *)
NewStrings(o, p, part) ==
  {k \in DOMAIN Content(p) \ (DOMAIN Content(o) \union DOMAIN part) :
     TypeOf[Content(p)[k]] = "string"}

(* Memory runs out when a part of the options has been copied or merged;   *)
(* or moved, in which case the others are lost; all of them if it is       *)
(* x | std::move(y) that fails.  add() and the other constructors then     *)
(* change nothing.                                                         *)
RunsOutOfMemory(o, p) ==
  /\ \E S \in SUBSET DOMAIN Content(p) :
       LET part == Restrict(Content(p), S)
           merged == Merged(Content(o), part)
       IN  /\ S # DOMAIN Content(p)
           /\ \/ o # p /\ (Sets(o, part) \/ Sets(o, merged))
              \/ o # p /\ \E k \in NewStrings(o, p, part) : Sets(o, With(merged, k, False))
              \/ MovesIn(o, p, part)
  /\ Throws

Next ==
  \/ \E o \in Objects :
       \/ Construct(o)
       \/ \E k \in Keys, v \in Values : ConstructWith(o, k, v)
       \/ \E p \in Usable :
            CopyConstruct(o, p) \/ \E q \in Usable : Or(o, p, q) \/ OrMove(o, p, q)
       \/ \E p \in Constructed : MoveConstruct(o, p)
  \/ \E o \in Constructed : Destroy(o) \/ \E p \in Constructed : MoveAssign(o, p)
  \/ \E o \in Usable :
       \/ \E k \in Keys, v \in Values : Add(o, k, v)
       \/ \E p \in Usable :
            \/ CopyAssign(o, p) \/ MergeIn(o, p) \/ MergeInMove(o, p)
            \/ RunsOutOfMemory(o, p)

Spec == Init /\ [][Next]_vars

(***************************************************************************)
(* Properties.                                                             *)
(***************************************************************************)
IsMap(m) == DOMAIN m \subseteq Keys /\ \A k \in DOMAIN m : m[k] \in Values

(* The type of the state. *)
TypeOK ==
  /\ DOMAIN m_impl \subseteq Objects
  /\ \A o \in DOMAIN m_impl : m_impl[o] \in Impls \union {nullptr}
  /\ DOMAIN heap \subseteq Impls
  /\ \A i \in DOMAIN heap : IsMap(heap[i])
  /\ thrown \in BOOLEAN

(* Each Impl belongs to exactly one object: none is shared, none is leaked *)
(* and no object points to one that was deleted, however objects are       *)
(* copied, moved, merged with themselves and destroyed.                    *)
OneOwner ==
  /\ \A o \in Usable : m_impl[o] \in DOMAIN heap
  /\ \A o, p \in Usable : m_impl[o] = m_impl[p] => o = p
  /\ \A i \in DOMAIN heap : \E o \in Usable : m_impl[o] = i

(* The objects are values: what is done to one shows in no other, and a    *)
(* call that fails leaves a part of what it should have done, and at most  *)
(* one key with a value of neither operand.                                *)
V == INSTANCE OptionsValue WITH
       value <- [o \in Usable |-> Content(o)],
       moved <- Constructed \ Usable
ImplementsOptionsValue == V!Spec
=============================================================================
