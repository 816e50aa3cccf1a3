------------------------- MODULE BallotRefinement -------------------------
(***************************************************************************)
(* BallotProtocol implements FederatedBallots.                             *)
(*                                                                         *)
(* The pledges of a node are what the statements it made about itself      *)
(* said.  A handler may make several statements, one after the other (the  *)
(* nested calls of emitCurrentStateStatement), each of which is a step of  *)
(* the abstract specification; "pending" holds those of the last handler   *)
(* that are still to be counted, and no other handler runs meanwhile.      *)
(***************************************************************************)
EXTENDS BallotProtocol

VARIABLES
    votedPrepare, acceptedPrepare, votedCommit, acceptedCommit, externalized,
    pending

pledges == <<votedPrepare, acceptedPrepare, votedCommit, acceptedCommit,
             externalized>>

Abstract == INSTANCE FederatedBallots

(* What a statement pledges.                                               *)

Commits(v, counters) == {SCPBallot(k, v) : k \in counters}

votesToPrepare(st) ==
    IF st.type = "PREPARE" THEN Abstract!Below(st.ballot) ELSE {}

acceptsPrepared(st) == {b \in Ballot : hasPreparedBallot(b, st)}

votesToCommit(st) ==
    IF st.type = "PREPARE" /\ st.nC # 0
    THEN Commits(st.ballot.value, st.nC..st.nH) ELSE {}

acceptsCommitted(st) ==
    CASE st.type = "PREPARE" -> {}
      [] st.type = "CONFIRM" -> Commits(st.ballot.value, st.nCommit..st.nH)
      [] st.type = "EXTERNALIZE" ->
            Commits(st.commit.value, st.commit.counter..UINT32_MAX)

externalizes(st) == IF st.type = "EXTERNALIZE" THEN {st.commit.value} ELSE {}

RInit ==
    /\ Init
    /\ Abstract!Init
    /\ pending = <<>>

(* Count the pledges of the first of some statements.                      *)
CountFirst(log) ==
    /\ pending' = Tail(log)
    /\ LET st == Head(log)
           add(f, S) == [f EXCEPT ![st.node] = @ \cup S]
       IN  /\ votedPrepare' = add(votedPrepare, votesToPrepare(st))
           /\ acceptedPrepare' = add(acceptedPrepare, acceptsPrepared(st))
           /\ votedCommit' = add(votedCommit, votesToCommit(st))
           /\ acceptedCommit' = add(acceptedCommit, acceptsCommitted(st))
           /\ externalized' = add(externalized, externalizes(st))

(* The statements of a handler that did not survive it pledge nothing.     *)
Handled(n, w) ==
    IF Up(node'[n]) /\ w.log # <<>> THEN CountFirst(w.log)
                                    ELSE UNCHANGED <<pledges, pending>>

Step ==
    /\ pending = <<>>
    /\ \E n \in Node :
        \/ \E st \in sent :
            Receive(n, st) /\ Handled(n, processEnvelope(node[n], st, FALSE, 0))
        \/ TimerExpired(n) /\ Handled(n, ballotProtocolTimerExpired(node[n]))
        \/ \E C \in CandidateSets[n] :
            NewCandidates(n, C) /\ Handled(n, updatedCandidateValue(node[n], C))
        \/ Restart(n) /\ Handled(n, InitialState(n))

Count ==
    /\ pending # <<>>
    /\ CountFirst(pending)
    /\ UNCHANGED vars

RNext == Step \/ Count

RSpec == RInit /\ [][RNext]_<<vars, pledges, pending>>

-----------------------------------------------------------------------------
(* Every statement that BallotProtocol.cpp makes is a step that federated  *)
(* voting allows: no vote against an own commit vote that is not known     *)
(* aborted, nothing accepted or externalized without the quorum or         *)
(* v-blocking set that justifies it, across bumps, timeouts and restarts.  *)
ImplementsFederatedBallots == Abstract!Spec
=============================================================================
