-------------------------- MODULE FederatedBallots --------------------------
(***************************************************************************)
(* What the ballot protocol promises, with the messages left out: which    *)
(* ballots every node voted for and accepted, as prepared and as committed *)
(* (the four kinds of pledges that the statements of BallotProtocol.cpp    *)
(* carry), and the values it externalized.  A node looks at the pledges of *)
(* the others directly, through the two tests of Slot.cpp: federatedAccept *)
(* and federatedRatify.  The last three actions state their updates before *)
(* their guards, so that checking a step against them is quick.            *)
(*                                                                         *)
(* An operator whose name ends in a word after "_" is a faulty variant of  *)
(* the definition that follows it, kept to show that a property notices.   *)
(***************************************************************************)
EXTENDS Ballots

CONSTANTS
    Node,      \* the nodes
    Slices     \* [Node -> the sets of nodes that satisfy its quorum set]

IsQuorum(Q) == Q # {} /\ \A n \in Q : Q \in Slices[n]

ASSUME SlicesAssumption == Slices \in [Node -> SUBSET SUBSET Node]

(* A sane quorum set has a threshold of at least 1 and at most the number  *)
(* of its members (isQuorumSetSane): some set satisfies it, and not {}.    *)
ASSUME SaneSlices ==
    \A n \in Node : Slices[n] # {} /\ {} \notin Slices[n]

(* The nodes are configured so that any two quorums intersect.             *)
ASSUME QuorumIntersection ==
    \A Q1, Q2 \in SUBSET Node :
        IsQuorum(Q1) /\ IsQuorum(Q2) => Q1 \cap Q2 # {}

VARIABLES
    votedPrepare,      \* ballots that a node voted to prepare
    acceptedPrepare,   \* ballots that it accepted as prepared
    votedCommit,       \* ballots that it voted to commit, before it accepted
    acceptedCommit,    \* ballots that it accepted as committed
    externalized       \* values that it externalized

vars == <<votedPrepare, acceptedPrepare, votedCommit, acceptedCommit,
          externalized>>

-----------------------------------------------------------------------------
TypeOK ==
    /\ votedPrepare \in [Node -> SUBSET Ballot]
    /\ acceptedPrepare \in [Node -> SUBSET Ballot]
    /\ votedCommit \in [Node -> SUBSET Ballot]
    /\ acceptedCommit \in [Node -> SUBSET Ballot]
    /\ externalized \in [Node -> SUBSET Value]

(* Preparing a ballot prepares the smaller ones of the same value.         *)
Below(b) == {a \in Ballot : areBallotsLessAndCompatible(a, b)}

(* All the ballots that commit v at or above one of B.                     *)
Above(B) == {a \in Ballot : \E b \in B : areBallotsLessAndCompatible(b, a)}

OfValue(v) == {a \in Ballot : a.value = v}

(* S meets every slice of n.                                               *)
Blocks(n, S) == \A Q \in Slices[n] : Q \cap S # {}

(* The set S, all of whose members pledge something about value v, is a    *)
(* quorum for n.  A node that externalized v counts as satisfied by itself *)
(* alone.                                                                  *)
Ratifies(n, S, v) ==
    /\ S \in Slices[n]
    /\ \A m \in S : S \in Slices[m] \/ v \in externalized[m]

(* Node m supports preparing b: it voted for it or accepted it, or it      *)
(* accepted a commit of that value, which votes for every counter.         *)
SupportsPrepare(m, b) ==
    \/ b \in votedPrepare[m] \cup acceptedPrepare[m]
    \/ \E c \in acceptedCommit[m] : areBallotsCompatible(c, b)

(* An accepted commit votes for the commit at every higher counter.        *)
HasCommitted(m, b) ==
    \E c \in acceptedCommit[m] : areBallotsLessAndCompatible(c, b)

(* n accepted that c is aborted: a higher, incompatible ballot is prepared *)
AcceptedAbort(n, c) ==
    \E p \in acceptedPrepare[n] : areBallotsLessAndIncompatible(c, p)

-----------------------------------------------------------------------------
Init ==
    /\ votedPrepare = [n \in Node |-> {}]
    /\ acceptedPrepare = [n \in Node |-> {}]
    /\ votedCommit = [n \in Node |-> {}]
    /\ acceptedCommit = [n \in Node |-> {}]
    /\ externalized = [n \in Node |-> {}]

(* Commit votes forgotten.                                                 *)
MayVotePrepare_any(n, b) == TRUE

(* A vote to prepare b is a vote against the lower ballots of other        *)
(* values; a node only contradicts its commit votes that it knows aborted. *)
MayVotePrepare(n, b) ==
    \A c \in votedCommit[n] :
        areBallotsLessAndIncompatible(c, b) => AcceptedAbort(n, c)

VotePrepare(n, b) ==
    /\ MayVotePrepare(n, b)
    /\ votedPrepare' = [votedPrepare EXCEPT ![n] = @ \cup Below(b)]
    /\ UNCHANGED <<acceptedPrepare, votedCommit, acceptedCommit, externalized>>

AcceptPrepare(n, b) ==
    /\ \/ \E S \in SUBSET Node :
            Blocks(n, S) /\ \A m \in S : b \in acceptedPrepare[m]
       \/ \E S \in SUBSET Node :
            Ratifies(n, S, b.value) /\ \A m \in S : SupportsPrepare(m, b)
    /\ acceptedPrepare' = [acceptedPrepare EXCEPT ![n] = @ \cup Below(b)]
    /\ UNCHANGED <<votedPrepare, votedCommit, acceptedCommit, externalized>>

(* Vote to commit the ballots of B, none of which n voted against and all  *)
(* of which are confirmed prepared; the node moves to ballot b.            *)
VoteCommit(n, B, b) ==
    /\ votedCommit' = [votedCommit EXCEPT ![n] = @ \cup B]
    /\ votedPrepare' = [votedPrepare EXCEPT ![n] = @ \cup Below(b)]
    /\ UNCHANGED <<acceptedPrepare, acceptedCommit, externalized>>
    /\ \A c \in B :
        /\ \E S \in SUBSET Node : /\ Ratifies(n, S, c.value)
                                  /\ \A m \in S : c \in acceptedPrepare[m]
        /\ \A a \in votedPrepare[n] : ~areBallotsLessAndIncompatible(c, a)
        /\ areBallotsCompatible(c, b)
    /\ MayVotePrepare(n, b)

AcceptCommit(n, B) ==
    /\ acceptedCommit' = [acceptedCommit EXCEPT ![n] = @ \cup B]
    /\ UNCHANGED <<votedPrepare, acceptedPrepare, votedCommit, externalized>>
    /\ \A c \in B :
        \/ \E S \in SUBSET Node :
            Blocks(n, S) /\ \A m \in S : c \in acceptedCommit[m]
        \/ \E S \in SUBSET Node :
            /\ Ratifies(n, S, c.value)
            /\ \A m \in S : \/ HasCommitted(m, c)
                            \/ c \in votedCommit[m] /\ S \in Slices[m]

(* A confirmed commit of a ballot of B externalizes its value v; the node  *)
(* now stands for every ballot of that value.                              *)
Externalizes(n, B, v) ==
    /\ externalized' = [externalized EXCEPT ![n] = @ \cup {v}]
    /\ acceptedCommit' = [acceptedCommit EXCEPT ![n] = @ \cup Above(B)]
    /\ acceptedPrepare' = [acceptedPrepare EXCEPT ![n] = @ \cup OfValue(v)]
    /\ UNCHANGED <<votedPrepare, votedCommit>>
    /\ B # {}
    /\ \A c \in B :
        /\ c.value = v
        /\ \E S \in SUBSET Node : /\ Ratifies(n, S, v)
                                  /\ \A m \in S : c \in acceptedCommit[m]

Next ==
    \E n \in Node :
        \/ \E b \in Ballot : VotePrepare(n, b)
        \/ \E b \in Ballot : AcceptPrepare(n, b)
        \/ \E B \in SUBSET Ballot, b \in Ballot : VoteCommit(n, B, b)
        \/ \E B \in SUBSET Ballot : AcceptCommit(n, B)
        \/ \E B \in SUBSET Ballot, v \in Value : Externalizes(n, B, v)

Spec == Init /\ [][Next]_vars

-----------------------------------------------------------------------------
(* Agreement: no two nodes externalize different values for the slot.      *)
Agreement ==
    \A n, m \in Node : \A u \in externalized[n], v \in externalized[m] : u = v
=============================================================================
