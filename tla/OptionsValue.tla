----------------------------- MODULE OptionsValue -----------------------------
(***************************************************************************)
(* What the users of Options objects can rely on: each is a value of its   *)
(* own, a map from keys, which changes only by the calls made on it.  What *)
(* add() does to a key that is there is left open, for Options.h:105 and   *)
(* Options.cpp:42 disagree on it.                                          *)
(***************************************************************************)
EXTENDS Functions

CONSTANTS
  Objects, Keys, Values,
  False      \* the value of a key whose own value could not be copied

VARIABLES
  value,    \* the maps of the objects that can be used
  moved,    \* the objects that were moved from
  thrown    \* did the last call throw?

vars == <<value, moved, thrown>>

Empty == [k \in {} |-> k]
With(f, x, y) == [z \in DOMAIN f \union {x} |-> IF z = x THEN y ELSE f[z]]
Without(f, x) == Restrict(f, DOMAIN f \ {x})

(* The options of g overwrite those of f with the same key. *)
Merge(f, g) == [k \in DOMAIN f \union DOMAIN g |-> IF k \in DOMAIN g THEN g[k] ELSE f[k]]

Init == value = Empty /\ moved = {} /\ thrown = FALSE

Constructed == DOMAIN value \union moved
Usable == DOMAIN value

(* Object o, which can be used from now on, has the value m. *)
Becomes(o, m) == value' = With(value, o, m) /\ moved' = moved \ {o}

Construct(o) ==
  /\ o \notin Constructed
  /\ thrown' = FALSE
  /\ \/ Becomes(o, Empty)
     \/ \E k \in Keys, v \in Values : Becomes(o, With(Empty, k, v))
     \/ \E p \in Usable : Becomes(o, value[p])
     \/ \E p, q \in Usable : Becomes(o, Merge(value[p], value[q]))

(* The operand q of x | std::move(q) is left empty. *)
ConstructFrom(o, p, q) ==
  /\ o \notin Constructed
  /\ value' = With(With(value, q, Empty), o, Merge(value[p], value[q]))
  /\ thrown' = FALSE
  /\ UNCHANGED moved

(* A key that is there keeps its value when it is added, or it does not. *)
Change(o) ==
  /\ thrown' = FALSE
  /\ \/ \E k \in Keys, v \in Values :
          \/ Becomes(o, With(value[o], k, v))
          \/ k \in DOMAIN value[o] /\ Becomes(o, value[o])
     \/ \E p \in Usable : Becomes(o, value[p]) \/ Becomes(o, Merge(value[o], value[p]))

(* The value of p, if it has one, moves to o. *)
Move(o, p) ==
  /\ o # p /\ p \in Constructed
  /\ value' = IF p \in Usable THEN With(Without(value, p), o, value[p]) ELSE Without(value, o)
  /\ moved' = IF p \in Usable THEN (moved \ {o}) \union {p} ELSE moved \union {o}
  /\ thrown' = FALSE

(* An object is assigned to itself. *)
Keep == thrown' = FALSE /\ UNCHANGED <<value, moved>>

MergeFrom(o, p) ==
  /\ o # p
  /\ value' = With(With(value, p, Empty), o, Merge(value[o], value[p]))
  /\ thrown' = FALSE
  /\ UNCHANGED moved

(* A call that throws has done a part of its work, and a merge may have    *)
(* left a new key with a value that is in neither operand.                 *)
Fail(o, p) ==
  /\ thrown' = TRUE
  /\ \E S \in SUBSET DOMAIN value[p] :
       LET part == Restrict(value[p], S)
           merged == Merge(value[o], part)
       IN  \/ Becomes(o, part) \/ Becomes(o, merged)
           \/ \E k \in DOMAIN value[p] \ DOMAIN merged : Becomes(o, With(merged, k, False))
           \/ /\ value' = With(With(value, p, Empty), o, IF o = p THEN part ELSE merged)
              /\ UNCHANGED moved

Destroy(o) ==
  /\ value' = Without(value, o) /\ moved' = moved \ {o}
  /\ thrown' = FALSE

Next ==
  \/ \E o \in Objects : Construct(o) \/ \E p, q \in Usable : ConstructFrom(o, p, q)
  \/ \E o \in Usable : Change(o) \/ \E p \in Usable : MergeFrom(o, p) \/ Fail(o, p)
  \/ \E o \in Objects, p \in Constructed : Move(o, p)
  \/ Keep \/ \E o \in Constructed : Destroy(o)

Spec == Init /\ [][Next]_vars
=============================================================================
