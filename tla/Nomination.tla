----------------------------- MODULE Nomination -----------------------------
(***************************************************************************)
(* The nomination protocol of one slot (scp/NominationProtocol.cpp) at     *)
(* every node, with the federated tests of Slot.cpp and what the herder    *)
(* does around it: it starts and stops nomination, persists the last       *)
(* statement and restores it after a crash.                                *)
(*                                                                         *)
(* A handler that changed the votes makes a statement and processes it as  *)
(* if it was received (emitNomination calls processEnvelope), which may    *)
(* change the votes again.  The model takes one step for every level of    *)
(* this nest (ProcessOwn); until the innermost level is left the node does *)
(* nothing else, but it may crash.                                         *)
(*                                                                         *)
(* A quorum set is given by the sets of nodes that satisfy it, as in       *)
(* FederatedBallots.  Hashes are left out: the leader of a round is a      *)
(* constant, and any new value of a statement may be the highest.          *)
(*                                                                         *)
(* The operators with a suffix (nominate_again, ...) are mistakes that the *)
(* properties have to notice; no specification uses them.                  *)
(***************************************************************************)
EXTENDS Naturals

CONSTANTS
    Node, Value,
    Slices,         \* the sets of nodes that satisfy the quorum set of a node
    ValidAt,        \* the values that a node finds fully valid
    Extracted,      \* what it extracts from the others: {}, or a valid value
    Proposals,      \* the values that the herder of a node may nominate
    Period,         \* the leaders of a node repeat after so many rounds
    Leader,         \* its leader in a round, NoNode when nobody has priority
    NoNode, NoValue,
    MayStop,        \* the nodes that stop nominating
    MayCrash,       \* the nodes that crash
    MaxCrashes      \* bound on the crashes

ASSUME NominationAssumption ==
    /\ Slices \in [Node -> SUBSET SUBSET Node]
    /\ \A n \in Node : Slices[n] # {} /\ {} \notin Slices[n]
    /\ ValidAt \in [Node -> SUBSET Value]
    /\ Extracted \in [Node -> [Value -> SUBSET Value]]
    /\ Proposals \in [Node -> SUBSET Value]
    /\ Period \in Nat \ {0}
    /\ Leader \in [Node -> [0..(Period - 1) -> Node \cup {NoNode}]]
    /\ NoNode \notin Node
    /\ NoValue \notin Value
    /\ MayStop \subseteq Node /\ MayCrash \subseteq Node

VARIABLES
    votes,          \* mVotes
    accepted,       \* mAccepted
    candidates,     \* mCandidates
    latest,         \* mLatestNominations
    last,           \* mLastEnvelope, which is also what is persisted
    started,        \* mNominationStarted
    round,          \* mRoundNumber, modulo Period
    nominating,     \* the value that the timer of the node nominates again
    own,            \* a statement was made that is not processed yet
    newCandidates,  \* newCandidates at some level of the nest
    composite,      \* the candidates in mLatestCompositeCandidate
    sent,           \* every statement that a node ever emitted
    bad,            \* the nodes that threw "moved to a bad state"
    crashes         \* the number of crashes

values == <<votes, accepted, candidates, latest>>
driver == <<started, round, nominating>>
vars == <<values, driver, last, own, newCandidates, composite, sent, bad, crashes>>

-----------------------------------------------------------------------------
Statement == [votes : SUBSET Value, accepted : SUBSET Value]

(* No statement: an empty one is not sane.                                 *)
NoStatement == [votes |-> {}, accepted |-> {}]

isNewerStatement(old, st) ==
    /\ old.votes \subseteq st.votes
    /\ old.accepted \subseteq st.accepted
    /\ old # st

(* The latest statements L of the nodes voted for v, or accepted it.       *)
VotedFor(L, v) == {m \in Node : v \in L[m].votes}
HaveAccepted(L, v) == {m \in Node : v \in L[m].accepted}

Blocks(n, S) == \A Q \in Slices[n] : Q \cap S # {}

(* Slot::federatedRatify: S includes a quorum that satisfies n.            *)
federatedRatify(n, S) ==
    \E Q \in Slices[n] : Q \subseteq S /\ \A m \in Q : Q \in Slices[m]

(* Slot::federatedAccept.                                                  *)
federatedAccept(n, L, v) ==
    \/ Blocks(n, HaveAccepted(L, v))
    \/ federatedRatify(n, VotedFor(L, v) \cup HaveAccepted(L, v))

(* The values that n would vote for in place of the values V.              *)
nominable(n, V) ==
    (V \cap ValidAt[n]) \cup UNION {Extracted[n][v] : v \in V \ ValidAt[n]}

(* Only what the leader accepted is looked at.                             *)
getNewValueFromNomination_accepted(n, st, V) ==
    LET new == nominable(n, st.accepted) \ V
    IN  IF new = {} THEN {{}} ELSE {{v} : v \in new}

(* The new votes that n may take from the statement st, beside those in V. *)
getNewValueFromNomination(n, st, V) ==
    LET new == nominable(n, st.votes \cup st.accepted) \ V
    IN  IF new = {} THEN {{}} ELSE {{v} : v \in new}

leader(n) == Leader[n][round[n]]

-----------------------------------------------------------------------------
(* processEnvelope, after recordEnvelope: st is a statement of m, and L    *)
(* are the statements that are recorded now.                               *)

nowAccepted(n, st, L) == {v \in st.votes \ accepted[n] : federatedAccept(n, L, v)}

(* Votes are counted for acceptance.                                       *)
nowCandidates_voted(n, A, L) ==
    candidates[n] \cup
        {a \in A : federatedRatify(n, VotedFor(L, a) \cup HaveAccepted(L, a))}

nowCandidates(n, A, L) ==
    candidates[n] \cup {a \in A : federatedRatify(n, HaveAccepted(L, a))}

leaderVotes(n, m, st, V, C) ==
    IF C = {} /\ m = leader(n) THEN getNewValueFromNomination(n, st, V) ELSE {{}}

(* emitNomination: the statement is made, and is to be processed.          *)
emitNomination(n) ==
    /\ own' = [own EXCEPT ![n] = TRUE]
    /\ UNCHANGED <<composite, last, sent>>

(* A statement is sent that is not saved.                                  *)
Return_unsaved(n, st, C, new) ==
    /\ own' = [own EXCEPT ![n] = FALSE]
    /\ composite' = [composite EXCEPT ![n] = IF new THEN C ELSE @]
    /\ IF own[n] /\ isNewerStatement(last[n], st)
       THEN sent' = [sent EXCEPT ![n] = @ \cup {st}]
       ELSE UNCHANGED sent
    /\ UNCHANGED last

(* The innermost level is left: all that found new candidates hand them to *)
(* the ballot protocol, and its statement st is sent.  The statements of   *)
(* the outer levels are older.                                             *)
Return(n, st, C, new) ==
    /\ own' = [own EXCEPT ![n] = FALSE]
    /\ composite' = [composite EXCEPT ![n] = IF new THEN C ELSE @]
    /\ IF own[n] /\ isNewerStatement(last[n], st)
       THEN /\ last' = [last EXCEPT ![n] = st]
            /\ sent' = [sent EXCEPT ![n] = @ \cup {st}]
       ELSE UNCHANGED <<last, sent>>

(* Only the innermost level hands over its candidates.                     *)
Promote_inner(n, m, st, A, V, C) ==
    LET new == C # candidates[n]
    IN  \E P \in leaderVotes(n, m, st, V, C) :
        /\ votes' = [votes EXCEPT ![n] = V \cup P]
        /\ accepted' = [accepted EXCEPT ![n] = A]
        /\ candidates' = [candidates EXCEPT ![n] = C]
        /\ UNCHANGED newCandidates
        /\ IF A # accepted[n] \/ V \cup P # votes[n]
           THEN emitNomination(n) ELSE Return(n, st, C, new)

(* A, V, C: the values accepted, voted for and candidates, but for the     *)
(* vote for a value of the leader.                                         *)
Promote(n, m, st, A, V, C) ==
    LET new == newCandidates[n] \/ C # candidates[n]
    IN  \E P \in leaderVotes(n, m, st, V, C) :
        /\ votes' = [votes EXCEPT ![n] = V \cup P]
        /\ accepted' = [accepted EXCEPT ![n] = A]
        /\ candidates' = [candidates EXCEPT ![n] = C]
        /\ IF A # accepted[n] \/ V \cup P # votes[n]
           THEN /\ emitNomination(n)
                /\ newCandidates' = [newCandidates EXCEPT ![n] = new]
           ELSE /\ Return(n, st, C, new)
                /\ newCandidates' = [newCandidates EXCEPT ![n] = FALSE]

promoted(n, m, st, L, N, A) ==
    Promote(n, m, st, A, votes[n] \cup nominable(n, N), nowCandidates(n, A, L))

accepting(n, m, st, L, N) ==
    promoted(n, m, st, L, N, accepted[n] \cup (N \cap ValidAt[n]))

processEnvelope(n, m, st, L) ==
    /\ latest' = [latest EXCEPT ![n] = L]
    /\ IF started[n]
       THEN accepting(n, m, st, L, nowAccepted(n, st, L))
       ELSE UNCHANGED <<votes, accepted, candidates, last, own, newCandidates,
                        composite, sent>>

-----------------------------------------------------------------------------
Init ==
    /\ votes = [n \in Node |-> {}]
    /\ accepted = [n \in Node |-> {}]
    /\ candidates = [n \in Node |-> {}]
    /\ latest = [n \in Node |-> [m \in Node |-> NoStatement]]
    /\ last = [n \in Node |-> NoStatement]
    /\ started = [n \in Node |-> FALSE]
    /\ round = [n \in Node |-> 0]
    /\ nominating = [n \in Node |-> NoValue]
    /\ own = [n \in Node |-> FALSE]
    /\ newCandidates = [n \in Node |-> FALSE]
    /\ composite = [n \in Node |-> {}]
    /\ sent = [n \in Node |-> {}]
    /\ bad = {}
    /\ crashes = 0

(* A statement arrives, late, again or out of order.                       *)
Receive(n, m, st) ==
    /\ ~own[n]
    /\ m # n
    /\ st \in sent[m]
    /\ isNewerStatement(latest[n][m], st)
    /\ processEnvelope(n, m, st, [latest[n] EXCEPT ![m] = st])
    /\ UNCHANGED <<driver, bad, crashes>>

ownStatement(n) == [votes |-> votes[n], accepted |-> accepted[n]]

ProcessOwn(n) ==
    /\ own[n]
    /\ IF isNewerStatement(latest[n][n], ownStatement(n))
       THEN /\ processEnvelope(n, n, ownStatement(n),
                               [latest[n] EXCEPT ![n] = ownStatement(n)])
            /\ UNCHANGED bad
       ELSE /\ bad' = bad \cup {n}
            /\ own' = [own EXCEPT ![n] = FALSE]
            /\ UNCHANGED <<values, last, newCandidates, composite, sent>>
    /\ UNCHANGED <<driver, crashes>>

(* A statement is made although the own value is no new vote.              *)
nominate_again(n, value, r) ==
    /\ started' = [started EXCEPT ![n] = TRUE]
    /\ round' = [round EXCEPT ![n] = r]
    /\ nominating' = [nominating EXCEPT ![n] = value]
    /\ \E P \in IF Leader[n][r] = n THEN {{value}}
                ELSE IF Leader[n][r] = NoNode THEN {{}}
                ELSE getNewValueFromNomination(n, latest[n][Leader[n][r]], votes[n]) :
            /\ votes' = [votes EXCEPT ![n] = @ \cup P]
            /\ own' = [own EXCEPT ![n] = P # {}]
    /\ UNCHANGED <<accepted, candidates, latest, last, newCandidates, composite,
                   sent, bad, crashes>>

(* nominate: a round begins, with the node's own value when it leads the   *)
(* round, and with a value of the leader otherwise.                        *)
nominate(n, value, r) ==
    /\ started' = [started EXCEPT ![n] = TRUE]
    /\ round' = [round EXCEPT ![n] = r]
    /\ nominating' = [nominating EXCEPT ![n] = value]
    /\ \E P \in IF Leader[n][r] = n THEN {{value}}
                ELSE IF Leader[n][r] = NoNode THEN {{}}
                ELSE getNewValueFromNomination(n, latest[n][Leader[n][r]], votes[n]) :
            /\ votes' = [votes EXCEPT ![n] = @ \cup P]
            /\ own' = [own EXCEPT ![n] = ~(P \subseteq votes[n])]
    /\ UNCHANGED <<accepted, candidates, latest, last, newCandidates, composite,
                   sent, bad, crashes>>

(* The herder nominates a value that is not among the votes: its close     *)
(* time is the current time.                                               *)
Nominate(n) ==
    /\ ~own[n]
    /\ nominating[n] = NoValue
    /\ \E v \in Proposals[n] \ votes[n] : nominate(n, v, (round[n] + 1) % Period)

Timeout(n) ==
    /\ ~own[n]
    /\ started[n]
    /\ nominate(n, nominating[n], (round[n] + 1) % Period)

(* The slot is externalized, which takes a ballot on some candidates.      *)
stopNomination(n) ==
    /\ ~own[n]
    /\ started[n]
    /\ \E m \in Node : composite[m] # {}
    /\ started' = [started EXCEPT ![n] = FALSE]
    /\ UNCHANGED <<values, round, nominating, last, own, newCandidates, composite,
                   sent, bad, crashes>>

(* setStateFromEnvelope with the statement that was persisted.             *)
restored(n) ==
    /\ votes' = [votes EXCEPT ![n] = last[n].votes]
    /\ accepted' = [accepted EXCEPT ![n] = last[n].accepted]

(* A crash, also in the middle of a handler, and a restart.                *)
Restart(n) ==
    /\ crashes < MaxCrashes
    /\ crashes' = crashes + 1
    /\ restored(n)
    /\ latest' = [latest EXCEPT ![n] =
                    [m \in Node |-> IF m = n THEN last[n] ELSE NoStatement]]
    /\ candidates' = [candidates EXCEPT ![n] = {}]
    /\ started' = [started EXCEPT ![n] = FALSE]
    /\ round' = [round EXCEPT ![n] = 0]
    /\ nominating' = [nominating EXCEPT ![n] = NoValue]
    /\ own' = [own EXCEPT ![n] = FALSE]
    /\ newCandidates' = [newCandidates EXCEPT ![n] = FALSE]
    /\ composite' = [composite EXCEPT ![n] = {}]
    /\ UNCHANGED <<last, sent, bad>>

Next ==
    \/ \E n, m \in Node : \E st \in sent[m] : Receive(n, m, st)
    \/ \E n \in Node : ProcessOwn(n) \/ Nominate(n) \/ Timeout(n)
    \/ \E n \in MayStop : stopNomination(n)
    \/ \E n \in MayCrash : Restart(n)

Spec == Init /\ [][Next]_vars

(* Every node starts and its timer expires again and again; statements are *)
(* rebroadcast until the last one arrives.                                 *)
Fairness ==
    \A n \in Node :
        /\ WF_vars(ProcessOwn(n))
        /\ WF_vars(Nominate(n))
        /\ WF_vars(Timeout(n))
        /\ \A m \in Node : WF_vars(Receive(n, m, last[m]))

FairSpec == Spec /\ Fairness

-----------------------------------------------------------------------------
(* Properties.                                                             *)

TypeOK ==
    /\ votes \in [Node -> SUBSET Value]
    /\ accepted \in [Node -> SUBSET Value]
    /\ candidates \in [Node -> SUBSET Value]
    /\ composite \in [Node -> SUBSET Value]
    /\ latest \in [Node -> [Node -> Statement]]
    /\ last \in [Node -> Statement]
    /\ started \in [Node -> BOOLEAN]
    /\ round \in [Node -> 0..(Period - 1)]
    /\ nominating \in [Node -> Value \cup {NoValue}]
    /\ own \in [Node -> BOOLEAN]
    /\ newCandidates \in [Node -> BOOLEAN]
    /\ sent \in [Node -> SUBSET Statement]
    /\ bad \subseteq Node
    /\ crashes \in Nat

(* "there is a bug in the application if it queued up a statement for      *)
(* itself that it considers invalid": what a node votes for or accepts     *)
(* only grows between two of its statements, at any depth of the nest and  *)
(* also after a restart, so that no statement of its own is refused.       *)
NeverBad == bad = {}

(* A candidate is accepted by all members of a quorum of its node; none of *)
(* them forgets it, though they may crash before they send everything.     *)
CandidatesBacked ==
    \A n \in Node : \A v \in candidates[n] :
        \E Q \in Slices[n] : \A m \in Q : Q \in Slices[m] /\ v \in accepted[m]

(* A value is only accepted when all members of some quorum voted for it.  *)
AcceptedBacked ==
    \A n \in Node : \A v \in accepted[n] :
        \E k \in Node : \E Q \in Slices[k] :
            \A m \in Q : Q \in Slices[m] /\ v \in votes[m]

(* The ballot protocol works with all candidates when no handler runs,     *)
(* though nested handlers find some of them.                               *)
CompositeIsCurrent ==
    \A n \in Node : ~own[n] => composite[n] = candidates[n]

(* Nodes never take back what they sent: every statement extends all the   *)
(* earlier ones, whatever a crash made the node forget.                    *)
StatementsGrow ==
    [][\A n \in Node : \A new \in sent'[n] \ sent[n] : \A old \in sent[n] :
            isNewerStatement(old, new)]_vars

(* When no node stops nominating, all of them end up with the same         *)
(* candidates, so that their ballots start with the same value.            *)
Convergence ==
    [](\A n \in Node : nominating[n] # NoValue => started[n]) =>
        <>[](\A n, m \in Node : candidates[n] = candidates[m] /\ candidates[n] # {})
=============================================================================
