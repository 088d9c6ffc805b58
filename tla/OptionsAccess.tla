---------------------------- MODULE OptionsAccess ----------------------------
(***************************************************************************)
(* Reading Options by type: tryAs*() and asString(key) give the host a     *)
(* pointer into the map, while it goes on calling.  Options.h does not say *)
(* how long the pointer is good; MayHold says it, from what Options.cpp    *)
(* does to the map and to the variants in it.                              *)
(***************************************************************************)
EXTENDS Options

VARIABLE pointer   \* NoPointer, or the Impl, the key and the type it points to

accessVars == <<vars, pointer>>

NoPointer == [impl |-> nullptr]

(* Impl::tryAs<T>(): no conversion and no exception.  Where it finds no    *)
(* option of the type, as(key) throws and as(key, default) is the default. *)
TryAs(o, k, type) ==
  IF k \in DOMAIN Content(o) /\ TypeOf[Content(o)[k]] = type
  THEN [impl |-> m_impl[o], key |-> k, type |-> type]
  ELSE NoPointer

Look ==
  /\ \E o \in Usable, k \in Keys, type \in Types : pointer' = TryAs(o, k, type)
  /\ UNCHANGED vars

Forget == Next /\ pointer' = NoPointer

(* The calls during which a pointer may be held: all that create objects   *)
(* or move them, add() with another key and merges that bring no option of *)
(* its own, and those that do not concern its Impl.                        *)
Elsewhere(o) == m_impl[o] # pointer.impl

AddsBeside(o, k, v) ==
  /\ ~Elsewhere(o) => k # pointer.key
  /\ Add(o, k, v)

Creates(o) ==
  \/ Construct(o)
  \/ \E k \in Keys, v \in Values : ConstructWith(o, k, v)
  \/ \E p \in Usable : CopyConstruct(o, p) \/ \E q \in Usable : Or(o, p, q)
  \/ \E p, q \in Usable : Elsewhere(q) /\ OrMove(o, p, q)
  \/ \E p \in Constructed : MoveConstruct(o, p)

MergesBeside(o, p) ==
  /\ pointer.impl # nullptr /\ pointer.key \notin DOMAIN Content(p)
  /\ MergeIn(o, p)

MayHold ==
  \/ \E o \in Objects : Creates(o)
  \/ \E o \in Constructed, p \in Constructed : Elsewhere(o) /\ MoveAssign(o, p)
  \/ \E o \in Constructed : Elsewhere(o) /\ Destroy(o)
  \/ \E o \in Usable, k \in Keys, v \in Values : AddsBeside(o, k, v)
  \/ \E o, p \in Usable :
       \/ Elsewhere(o) /\ (CopyAssign(o, p) \/ MergeIn(o, p))
       \/ MergesBeside(o, p)
       \/ Elsewhere(o) /\ Elsewhere(p) /\ (MergeInMove(o, p) \/ RunsOutOfMemory(o, p))

Hold == MayHold /\ UNCHANGED pointer

AccessNext == Look \/ Forget \/ Hold

AccessInit == Init /\ pointer = NoPointer

AccessSpec == AccessInit /\ [][AccessNext]_accessVars

(***************************************************************************)
(* Properties.                                                             *)
(***************************************************************************)
(* A pointer that is held through such calls, however many, still points   *)
(* to an option of the type it was taken for, in an object the host still  *)
(* has: though other objects came, went or took the option over, and       *)
(* though options were added and merged beside it.                         *)
PointersHold ==
  pointer # NoPointer =>
    /\ \E o \in Usable : m_impl[o] = pointer.impl
    /\ pointer.impl \in DOMAIN heap /\ pointer.key \in DOMAIN heap[pointer.impl]
    /\ TypeOf[heap[pointer.impl][pointer.key]] = pointer.type
=============================================================================
