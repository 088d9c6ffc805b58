------------------------------ MODULE MCOptions ------------------------------
(* Two values of different types: false and a string. *)
EXTENDS OptionsAccess, TLC

CONSTANTS v1, v2

MCTypeOf == [v \in {v1, v2} |-> IF v = v1 THEN "bool" ELSE "string"]

Symmetry == Permutations(Objects) \union Permutations(Impls) \union Permutations(Keys)
=============================================================================
