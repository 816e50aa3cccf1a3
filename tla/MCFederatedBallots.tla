------------------------ MODULE MCFederatedBallots ------------------------
(***************************************************************************)
(* FederatedBallots for TLC: three nodes, any two of which are a quorum.   *)
(***************************************************************************)
EXTENDS FederatedBallots, FiniteSets, TLC

Majorities == [n \in Node |-> {S \in SUBSET Node : Cardinality(S) >= 2}]

Symmetry == Permutations(Node)
=============================================================================
