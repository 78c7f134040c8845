-------------------------------- MODULE Ranks --------------------------------
(* The members of a finite set in the order of a number, "at", that no two of  *)
(* them share.  A member stands where its rank says; SetToSortSeq would say the *)
(* same, but rests on an operator the prover has no definition of.             *)
EXTENDS Integers, FiniteSets

RankIn(S, at, e) == Cardinality({d \in S : at[d] < at[e]})
EarliestFirst(S, at) == [i \in 1..Cardinality(S) |-> CHOOSE e \in S : RankIn(S, at, e) = i - 1]
LatestFirst(S, at) == EarliestFirst(S, [e \in S |-> -at[e]])

(* Numbers in their own order.                                                 *)
Ascending(S) == EarliestFirst(S, [e \in S |-> e])
Descending(S) == LatestFirst(S, [e \in S |-> e])
=============================================================================
