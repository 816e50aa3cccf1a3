----------------------------- MODULE QuorumLoop -----------------------------
(***************************************************************************)
(* LocalNode::isQuorum, the test behind every federated vote: starting     *)
(* from the nodes whose statements pass a filter, drop those whose own     *)
(* quorum set is not satisfied by the nodes that are left, until the       *)
(* number of nodes no longer changes; then look at the local quorum set.   *)
(*                                                                         *)
(* A quorum set is the collection of the sets of nodes that satisfy it.    *)
(*                                                                         *)
(* An operator whose name ends in a word after "_" is a faulty variant of  *)
(* the definition that follows it, kept to show that a property notices.   *)
(***************************************************************************)
EXTENDS Integers, FiniteSets

CONSTANT Node

VARIABLES
    qSet,      \* the local quorum set
    qfun,      \* the quorum set of every node's statement
    filtered,  \* the nodes that passed the filter
    pNodes,    \* the nodes that are left
    pc         \* "loop", then the result: "true" or "false"

vars == <<qSet, qfun, filtered, pNodes, pc>>

(* A set of nodes that satisfies a quorum set satisfies it with more nodes *)
QuorumSetsOn(N) ==
    {q \in SUBSET SUBSET N :
        \A S \in q, T \in SUBSET N : S \subseteq T => T \in q}

Init ==
    /\ qSet \in QuorumSetsOn(Node)
    /\ qfun \in [Node -> QuorumSetsOn(Node)]
    /\ filtered \in SUBSET Node
    /\ pNodes = filtered
    /\ pc = "loop"

fNodes == {n \in pNodes : pNodes \in qfun[n]}

(* A single pass.                                                          *)
Filter_once ==
    /\ pc = "loop"
    /\ pNodes' = fNodes
    /\ pc' = IF fNodes \in qSet THEN "true" ELSE "false"
    /\ UNCHANGED <<qSet, qfun, filtered>>

(* The loop goes on while nodes are left.                                  *)
Filter_endless ==
    /\ pc = "loop"
    /\ pNodes' = fNodes
    /\ pc' = IF fNodes # {} THEN "loop"
             ELSE IF fNodes \in qSet THEN "true" ELSE "false"
    /\ UNCHANGED <<qSet, qfun, filtered>>

Filter ==
    /\ pc = "loop"
    /\ pNodes' = fNodes
    /\ pc' = IF Cardinality(fNodes) # Cardinality(pNodes) THEN "loop"
             ELSE IF fNodes \in qSet THEN "true" ELSE "false"
    /\ UNCHANGED <<qSet, qfun, filtered>>

Next == Filter

Spec == Init /\ [][Next]_vars /\ WF_vars(Next)

-----------------------------------------------------------------------------
TypeOK ==
    /\ qSet \in QuorumSetsOn(Node)
    /\ qfun \in [Node -> QuorumSetsOn(Node)]
    /\ filtered \in SUBSET Node
    /\ pNodes \in SUBSET filtered
    /\ pc \in {"loop", "true", "false"}

(* Q contains a slice of each of its members.                              *)
SelfSufficient(Q) == \A n \in Q : Q \in qfun[n]

(* isQuorum returns true exactly when the filtered nodes include a set     *)
(* that contains a slice of each of its members and one of the local node: *)
(* the loop neither stops too early nor drops a node of a quorum.          *)
Correct ==
    pc # "loop" =>
        (pc = "true" <=> \E Q \in SUBSET filtered : SelfSufficient(Q) /\ Q \in qSet)

(* The loop ends.                                                          *)
Terminates == <>(pc # "loop")
=============================================================================
