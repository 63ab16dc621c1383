---------------------------- MODULE BestFirstMC ----------------------------
(***************************************************************************)
(* BestFirst against the loop it stands for, on every graph over a few     *)
(* left and right ends: one step adds one candidate pair.                  *)
(***************************************************************************)
EXTENDS BestFirst, FiniteSets, SequencesExt

CONSTANTS Left, Right, Costs

(* Both sides are lists, told apart by their places.                       *)
ASSUME BestFirstAssumption ==
    /\ Left \cup Right \cup Costs \subseteq Int
    /\ IsFiniteSet(Left) /\ IsFiniteSet(Right)

VARIABLE edges

Ends == { <<e[2], e[3]>> : e \in edges }

Init == edges = {}

AddEdge ==
    \E a \in Left, b \in Right, c \in Costs :
      <<a, b>> \notin Ends /\ edges' = edges \cup {<<c, a, b>>}

Spec == Init /\ [][AddEdge]_edges

(* How tuples compare.                                                     *)
Sooner(f, e) == \E i \in 1..3 : f[i] < e[i] /\ \A j \in 1..(i - 1) : f[j] = e[j]

Sorted(E) ==
    [i \in 1..Cardinality(E) |-> CHOOSE e \in E : Cardinality({ f \in E : Sooner(f, e) }) = i - 1]

(* A pair is taken when both of its ends are free.                         *)
TakeIfFree(taken, e) ==
    IF e[2] \in { f[2] : f \in taken } \/ e[3] \in { f[3] : f \in taken }
    THEN taken ELSE taken \cup {e}

(* The loop over the sorted candidates.                                    *)
Walk(E) == FoldLeft(TakeIfFree, {}, Sorted(E))

(* The characterisation has exactly one solution, what the loop over the   *)
(* sorted pairs collects (the loop of _match_positions, and the same loop  *)
(* in _assign_close_orders).                                               *)
WalkIsBestFirst == BestFirst(edges) = { Walk(edges) }

(* When every pair is a candidate as many pairs as possible are matched,   *)
(* however bad: nobody is left out for a better fit elsewhere (docstring   *)
(* of _match_positions: "Cardinality is unchanged").                       *)
NobodyLeftOut ==
    Ends = Left \X Right =>
      \A M \in BestFirst(edges) :
        Cardinality(M) = IF Cardinality(Left) < Cardinality(Right)
                         THEN Cardinality(Left) ELSE Cardinality(Right)

(* A pair of genuine partners -- nothing fits either of them as well -- is *)
(* matched whatever else is going on, so a phantom never takes the live    *)
(* position of a trade that is still held (the 2026-08-08 incident).       *)
GenuinePairsMatch ==
    \A e \in edges :
      (\A f \in edges \ {e} : Clash(e, f) => e[1] < f[1]) =>
        \A M \in BestFirst(edges) : e \in M

(* The assignment of the matchers, with what its callers count on.         *)
MatchingIsBestFirst == WalkIsBestFirst /\ NobodyLeftOut /\ GenuinePairsMatch
=============================================================================
