------------------------- MODULE MCBallotProtocol -------------------------
(***************************************************************************)
(* Instances of BallotProtocol for TLC.                                    *)
(***************************************************************************)
EXTENDS BallotProtocol, TLC

CONSTANTS n1, n2, n3

-----------------------------------------------------------------------------
(* Quorum sets.                                                            *)

Nodes2 == {n1, n2}
Nodes3 == {n1, n2, n3}

Flat(k, validators) ==
    [threshold |-> k, validators |-> validators, innerSets |-> <<>>]

BothQSet == [n \in Nodes2 |-> Flat(2, <<n1, n2>>)]

(* n1 and n2 decide between them; n3 listens to both.                      *)
CoreQSet == [n \in Nodes3 |->
                IF n = n3 THEN Flat(3, <<n1, n2, n3>>) ELSE Flat(2, <<n1, n2>>)]

-----------------------------------------------------------------------------
(* Values, validation, candidates and bounds.                              *)

AllValid == [n \in Node |-> [v \in Value |-> "fullyValidated"]]

MaxCombine(S) == CHOOSE v \in S : \A u \in S : u <= v

NoCandidates == [n \in Node |-> {}]
(* n1 may hear of the second value only after it started with the first.  *)
LateCandidates ==
    [n \in Node |-> IF n = n1 THEN {{1}, {1, 2}} ELSE {{1}, {2}}]
SplitCandidates ==
    [n \in Node |-> CASE n = n1 -> {{1}} [] n = n2 -> {{1}, {2}} [] n = n3 -> {}]

Counter1 == [n \in Node |-> 1]
Counter2 == [n \in Node |-> 2]
Counter4 == [n \in Node |-> 4]

-----------------------------------------------------------------------------
(* A start in the middle of a slot.                                       *)

Emitted(w) == [End(w) EXCEPT !.out = w.out]

Started(n, C) == Emitted(updatedCandidateValue(InitialState(n), C))

(* Nomination has converged: every node knows both candidates, but started *)
(* its first ballot with either of them.                                   *)

Converged(n, v) ==
    [Started(n, {v}) EXCEPT !.cands = Value]

ConvergedInit ==
    \E first \in [Node -> Value] :
        /\ node = [n \in Node |-> End(Converged(n, first[n]))]
        /\ sent = UNION {Converged(n, first[n]).out : n \in Node}

(* computeTimeout grows with the counter.  From counter 3 on it exceeds the *)
(* time that messages take: a timer expires only when all have arrived.    *)
PatientNext ==
    \E n \in Node :
        \/ \E st \in sent : Receive(n, st)
        \/ /\ node[n].b.counter >= 3 => \A m \in Node : ~CanReceive(m)
           /\ TimerExpired(n)

ConvergedSpec == ConvergedInit /\ [][PatientNext]_vars /\ Fairness

-----------------------------------------------------------------------------
(* A node that externalized only records what it receives, and a statement *)
(* that no running node can take as news has no effect: TLC need not tell  *)
(* apart states that differ in these only.  Neither does it matter who was *)
(* heard when the bound stops the timer anyway.                            *)
Live(st) ==
    \E n \in Node \ {st.node} :
        \/ n \in MayRestart
        \/ node[n].phase # "EXTERNALIZE" /\ isNews(node[n], st)

View == << [n \in Node |->
              IF node[n].phase = "EXTERNALIZE"
              THEN [node[n] EXCEPT !.M = {}, !.heard = FALSE, !.cands = {}]
              ELSE IF node[n].b.counter \in MaxCounter[n]..(UINT32_MAX - 1)
              THEN [node[n] EXCEPT !.heard = FALSE]
              ELSE node[n]],
           {st \in sent : Live(st)} >>
=============================================================================
