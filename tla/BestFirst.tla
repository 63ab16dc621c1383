----------------------------- MODULE BestFirst -----------------------------
(***************************************************************************)
(* Best-first assignment, the algorithm both matchers of the live executor *)
(* run: the candidate pairs are sorted by (cost, left, right) and walked   *)
(* from the cheapest, a pair being taken when neither of its ends has been *)
(* taken yet.  An edge is a triple <<cost, left, right>>.                  *)
(*                                                                         *)
(* The walk is stated by its result: the edges taken are exactly those     *)
(* that no earlier taken edge conflicts with.  BestFirstMC compares this   *)
(* with the walk itself.                                                   *)
(***************************************************************************)
EXTENDS Integers

(* Mutant: ties between right ends are not broken.                         *)
MutPriorTies(f, e) ==
    \/ f[1] < e[1]
    \/ f[1] = e[1] /\ f[2] < e[2]

(* Order of the sorted list of tuples.                                     *)
Prior(f, e) ==
    \/ f[1] < e[1]
    \/ f[1] = e[1] /\ f[2] < e[2]
    \/ f[1] = e[1] /\ f[2] = e[2] /\ f[3] < e[3]

(* Two edges compete when they share an end (used_d / used_l).             *)
Clash(f, e) == f[2] = e[2] \/ f[3] = e[3]

(* M is what the walk over the edges of E returns.                         *)
IsBestFirst(E, M) ==
    /\ M \subseteq E
    /\ \A e \in E : e \in M <=> ~ \E f \in M : Prior(f, e) /\ Clash(f, e)

(* Every result of the walk; BestFirstMC checks that there is exactly one. *)
BestFirst(E) == { M \in SUBSET E : IsBestFirst(E, M) }
=============================================================================
