------------------------------ MODULE MCMerge ------------------------------
EXTENDS Merge, TLC
CONSTANTS v1, v2
Symmetry == Permutations({v1, v2})

(* d, d-x, d/s, d/s/x: the second sorts between the first and its contents. *)
Nested == <<0, 0, 1, 3>>
(* d, d-x, d/a: the second sorts before what is in the first. *)
Sibling == <<0, 0, 1>>

ShortNames == [p \in DOMAIN Parent |-> 1]
(* 255 bytes, each written as three digits and a comma *)
LongNames == [p \in DOMAIN Parent |-> 1021]
FourFiles == <<0, 0, 0, 0>>
=============================================================================
