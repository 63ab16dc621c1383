-------------------------------- MODULE Lists --------------------------------
(***************************************************************************)
(* Lists that the components build from sets of numbers.                   *)
(***************************************************************************)
EXTENDS Integers, Sequences, FiniteSets

(* A finite set of numbers in ascending order.                             *)
InOrder(S) ==
    [i \in 1 .. Cardinality(S) |-> CHOOSE x \in S : Cardinality({y \in S : y < x}) = i - 1]

(* What a list has at some of its places, in its order.                    *)
AtPlaces(list, places) ==
    LET at == InOrder(places) IN [i \in DOMAIN at |-> list[at[i]]]
=============================================================================
