--------------------------- MODULE LocalNodeLoops ---------------------------
(***************************************************************************)
(* The two loops of LocalNode.cpp side by side: isQuorum's (QuorumLoop)    *)
(* and isNodeInQuorum's (NodeSearch), on the same nodes.  MCLocalNode      *)
(* checks them with TLC, FederatedVotingProofs proves them.                *)
(***************************************************************************)
CONSTANTS NodeID, Self

VARIABLES
    qSet, qfun, filtered, pNodes, answer,
    target, known, qsets, missing, backlog, visited, res, pc

loopVars == <<qSet, qfun, filtered, pNodes, answer>>
searchVars == <<target, known, qsets, missing, backlog, visited, res, pc>>

Loop == INSTANCE QuorumLoop WITH Node <- NodeID, pc <- answer
Search == INSTANCE NodeSearch WITH Node <- NodeID

(* The loop of isQuorum returns true exactly when the filtered nodes       *)
(* include a self-sufficient set that satisfies the local quorum set.      *)
Correct == Loop!Correct

(* isNodeInQuorum answers true exactly for the reachable nodes, and false  *)
(* only when no information on any of them is missing.                     *)
SearchCorrect == Search!SearchCorrect

(* The loop and the search end.                                            *)
Terminates == Loop!Terminates /\ Search!Terminates
=============================================================================
