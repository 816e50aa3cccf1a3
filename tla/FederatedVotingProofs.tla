----------------------- MODULE FederatedVotingProofs ------------------------
(***************************************************************************)
(* Federated voting, for every set of nodes and every quorum               *)
(* configuration: the loops of LocalNode.cpp answer rightly, and           *)
(* FederatedBallots keeps Agreement when quorums intersect, for every set  *)
(* of values and every bound on the counters.  The scans that              *)
(* BallotProtocol makes of the statements it knows miss nothing.           *)
(*                                                                         *)
(* Agreement is not inductive.  A ballot is Chosen when a whole quorum     *)
(* voted to commit it.  The heart of the argument is                       *)
(* ChosenNotAborted: no ballot above a chosen one is prepared with another *)
(* value.  It is kept because of AcceptedAborts: whoever accepts b as      *)
(* prepared knows, for every lower ballot a of another value, that either  *)
(* a whole quorum can never vote to commit a, or something incompatible    *)
(* below a is chosen already.                                              *)
(***************************************************************************)
EXTENDS FederatedBallots, LocalNodeLoops, FiniteSetTheorems,
        WellFoundedInduction, TLAPS

(* The loop of isQuorum.  No node of a self-sufficient set is ever         *)
(* dropped, and a result is given for a self-sufficient set only.          *)
LoopInv ==
    /\ Loop!TypeOK
    /\ \A Q \in SUBSET filtered : Loop!SelfSufficient(Q) => Q \subseteq pNodes
    /\ answer # "loop" => /\ Loop!SelfSufficient(pNodes)
                          /\ answer = "true" <=> pNodes \in qSet

LEMMA LoopInitInv == Loop!Init => LoopInv
  BY DEF Loop!Init, LoopInv, Loop!TypeOK

(* When the number of nodes does not change, no node was dropped.          *)
LEMMA SameSize ==
    ASSUME IsFiniteSet(NodeID), NEW S \in SUBSET NodeID, NEW T \in SUBSET S,
           Loop!Cardinality(T) = Loop!Cardinality(S)
    PROVE  T = S
  <1>1. \A U : Loop!Cardinality(U) = Cardinality(U)
    BY DEF Loop!Cardinality, Cardinality
  <1> QED
    BY <1>1, FS_Subset

LEMMA LoopFilterInv ==
    ASSUME IsFiniteSet(NodeID), LoopInv, Loop!Filter
    PROVE  LoopInv'
  <1> USE DEF LoopInv, Loop!Filter
  <1>1. Loop!TypeOK'
    BY DEF Loop!TypeOK, Loop!fNodes
  <1>2. ASSUME NEW Q \in SUBSET filtered, Loop!SelfSufficient(Q)
        PROVE  Q \subseteq Loop!fNodes
    <2>1. Q \subseteq pNodes
      BY <1>2
    <2>2. ASSUME NEW n \in Q PROVE pNodes \in qfun[n]
      <3>1. Q \in qfun[n] /\ qfun[n] \in Loop!QuorumSetsOn(NodeID)
        BY <1>2 DEF Loop!SelfSufficient, Loop!TypeOK
      <3>2. pNodes \in SUBSET NodeID
        BY DEF Loop!TypeOK
      <3> QED
        BY <2>1, <3>1, <3>2 DEF Loop!QuorumSetsOn
    <2> QED
      BY <2>1, <2>2 DEF Loop!fNodes
  <1>3. \A Q \in SUBSET filtered' : Loop!SelfSufficient(Q)' => Q \subseteq pNodes'
    BY <1>2 DEF Loop!SelfSufficient
  <1>4. ASSUME answer' # "loop"
        PROVE  Loop!SelfSufficient(pNodes)' /\ (answer' = "true" <=> pNodes' \in qSet')
    <2>1. Loop!fNodes \in SUBSET pNodes /\ pNodes \in SUBSET NodeID
      BY DEF Loop!fNodes, Loop!TypeOK
    <2>2. Loop!fNodes = pNodes
      BY <1>4, <2>1, SameSize
    <2> QED
      BY <1>4, <2>2, Zenon DEF Loop!SelfSufficient, Loop!fNodes
  <1> QED
    BY <1>1, <1>3, <1>4

(* The loop is right for every configuration of the quorum sets of         *)
(* finitely many nodes.                                                    *)
THEOREM LoopCorrect ==
    ASSUME IsFiniteSet(NodeID)
    PROVE  Loop!Spec => []Correct
  <1>1. LoopInv /\ UNCHANGED Loop!vars => LoopInv'
    BY DEF LoopInv, Loop!TypeOK, Loop!SelfSufficient, Loop!vars
  <1>2. LoopInv /\ [Loop!Next]_(Loop!vars) => LoopInv'
    BY <1>1, LoopFilterInv DEF Loop!Next
  <1>3. LoopInv => Correct
    <2> SUFFICES ASSUME LoopInv, answer # "loop"
                 PROVE  answer = "true" <=>
                          \E Q \in SUBSET filtered : Loop!SelfSufficient(Q) /\ Q \in qSet
      BY DEF Correct, Loop!Correct
    <2>1. ASSUME NEW Q \in SUBSET filtered, Loop!SelfSufficient(Q), Q \in qSet
          PROVE  pNodes \in qSet
      BY <2>1 DEF LoopInv, Loop!TypeOK, Loop!QuorumSetsOn
    <2> QED
      BY <2>1 DEF LoopInv, Loop!TypeOK
  <1> QED
    BY <1>2, <1>3, LoopInitInv, PTL DEF Loop!Spec
-----------------------------------------------------------------------------
(* The search of isNodeInQuorum.  What is visited or waits to be is        *)
(* reachable, and the links of what is visited lead nowhere else.          *)
SearchInv ==
    /\ Search!TypeOK
    /\ Self \in backlog \cup visited
    /\ target \notin visited
    /\ \A c \in visited : Search!Links(c) \subseteq backlog \cup visited
    /\ \A C \in SUBSET NodeID : Search!Closed(C) => backlog \cup visited \subseteq C
    /\ res = "maybe" <=> \E c \in visited : Search!Incomplete(c)
    /\ pc = "true" => target \in backlog
    /\ pc \in {"false", "maybe"} => backlog = {} /\ pc = res

LEMMA SearchInitInv == ASSUME Self \in NodeID PROVE Search!Init => SearchInv
  BY DEF Search!Init, SearchInv, Search!TypeOK, Search!Closed

LEMMA LinksType ==
    ASSUME Search!TypeOK, NEW c \in NodeID
    PROVE  Search!Links(c) \in SUBSET NodeID
  BY DEF Search!TypeOK, Search!Links

LEMMA VisitInv ==
    ASSUME SearchInv, NEW c \in backlog, Search!Visit(c)
    PROVE  SearchInv'
  <1> USE DEF SearchInv, Search!Visit, Search!inputs
  <1>1. c \in NodeID /\ Search!Links(c) \in SUBSET NodeID
    BY LinksType DEF Search!TypeOK
  <1>2. Search!TypeOK'
    BY <1>1 DEF Search!TypeOK
  <1>3. \A d : /\ Search!Links(d)' = Search!Links(d)
               /\ Search!Incomplete(d)' <=> Search!Incomplete(d)
    BY DEF Search!Links, Search!Incomplete
  <1>4. \A C : Search!Closed(C)' <=> Search!Closed(C)
    BY <1>3 DEF Search!Closed
  <1>5. (backlog \cup visited)' = backlog \cup visited \cup Search!Links(c)
    OBVIOUS
  <1>6. \A d \in visited' : Search!Links(d)' \subseteq (backlog \cup visited)'
    BY <1>3, <1>5
  <1>7. ASSUME NEW C \in SUBSET NodeID, Search!Closed(C)'
        PROVE  (backlog \cup visited)' \subseteq C
    BY <1>4, <1>5, <1>7 DEF Search!Closed
  <1>8. res' = "maybe" <=> \E d \in visited' : Search!Incomplete(d)'
    BY <1>3 DEF Search!TypeOK
  <1> QED
    BY <1>2, <1>5, <1>6, <1>7, <1>8

LEMMA SearchNextInv == SearchInv /\ [Search!Next]_(Search!vars) => SearchInv'
  <1> SUFFICES ASSUME SearchInv, [Search!Next]_(Search!vars) PROVE SearchInv'
    OBVIOUS
  <1> USE DEF SearchInv, Search!inputs
  <1>1. ASSUME NEW c \in backlog, Search!Found(c) PROVE SearchInv'
    BY <1>1 DEF Search!Found, Search!TypeOK, Search!Links, Search!Incomplete,
                Search!Closed
  <1>2. CASE Search!Return
    BY <1>2 DEF Search!Return, Search!TypeOK, Search!Links, Search!Incomplete,
                Search!Closed
  <1>3. CASE UNCHANGED Search!vars
    BY <1>3 DEF Search!vars, Search!TypeOK, Search!Links, Search!Incomplete,
                Search!Closed
  <1> QED
    BY <1>1, <1>2, <1>3, VisitInv DEF Search!Next

(* The search is right for every set of quorum sets, in whatever order the *)
(* backlog is worked through.                                              *)
THEOREM SearchIsCorrect ==
    ASSUME Self \in NodeID
    PROVE  Search!Spec => []SearchCorrect
  <1>1. SearchInv => SearchCorrect
    <2> SUFFICES ASSUME SearchInv, pc # "search" PROVE SearchCorrect
      BY DEF SearchCorrect, Search!SearchCorrect
    <2>1. \A n \in backlog \cup visited : Search!Reachable(n)
      BY DEF SearchInv, Search!Reachable
    <2>2. CASE pc = "true"
      BY <2>1, <2>2 DEF SearchInv, SearchCorrect, Search!SearchCorrect
    <2>3. CASE pc \in {"false", "maybe"}
      <3>1. visited \in SUBSET NodeID /\ Search!Closed(visited)
        BY <2>3 DEF SearchInv, Search!TypeOK, Search!Closed
      <3>2. \A n : Search!Reachable(n) => n \in visited
        BY <3>1 DEF Search!Reachable
      <3> QED
        BY <2>1, <2>3, <3>1, <3>2 DEF SearchInv, Search!TypeOK, SearchCorrect,
               Search!SearchCorrect
    <2> QED
      BY <2>2, <2>3 DEF SearchInv, Search!TypeOK
  <1> QED
    BY <1>1, SearchInitInv, SearchNextInv, PTL DEF Search!Spec

-----------------------------------------------------------------------------
(* The ballots.                                                            *)

(* A whole quorum voted to commit b.                                       *)
Chosen(b) ==
    \E Q \in SUBSET Node : IsQuorum(Q) /\ \A m \in Q : b \in votedCommit[m]

(* m did not vote to commit b and voted against it: it never will.         *)
Refuses(m, b) ==
    /\ b \notin votedCommit[m]
    /\ \E a \in votedPrepare[m] : areBallotsLessAndIncompatible(b, a)

Blocked(b) ==
    \E Q \in SUBSET Node : IsQuorum(Q) /\ \A m \in Q : Refuses(m, b)

Superseded(b) ==
    \E c \in Ballot : areBallotsLessAndIncompatible(c, b) /\ Chosen(c)

CommitVotesPrepared ==
    \A n \in Node : \A b \in votedCommit[n] :
        \E m \in Node : b \in acceptedPrepare[m]

VotesConsistent ==
    \A n \in Node : \A c \in votedCommit[n] : \A b \in votedPrepare[n] :
        areBallotsLessAndIncompatible(c, b) => AcceptedAbort(n, c)

CommitsChosen ==
    \A n \in Node : \A b \in acceptedCommit[n] :
        \E c \in Ballot : areBallotsLessAndCompatible(c, b) /\ Chosen(c)

ExternalizedCommitted ==
    \A n \in Node : \A v \in externalized[n] :
        \E b \in acceptedCommit[n] : b.value = v

ChosenNotAborted ==
    \A n \in Node : \A b \in acceptedPrepare[n] : \A c \in Ballot :
        areBallotsLessAndIncompatible(c, b) => ~Chosen(c)

AcceptedAborts ==
    \A n \in Node : \A b \in acceptedPrepare[n] : \A a \in Ballot :
        areBallotsLessAndIncompatible(a, b) => Blocked(a) \/ Superseded(a)

(* The inductive invariant: no node's pledges contradict its commit votes, *)
(* commits and externalized values go back to a chosen ballot, and no      *)
(* ballot above a chosen one is accepted as prepared with another value.   *)
IInv ==
    /\ TypeOK
    /\ CommitVotesPrepared
    /\ VotesConsistent
    /\ CommitsChosen
    /\ ExternalizedCommitted
    /\ ChosenNotAborted
    /\ AcceptedAborts

-----------------------------------------------------------------------------
(* The order of ballots, compareBallots of BallotProtocol.cpp.             *)

LEMMA ValueInt ==
    ASSUME NEW v \in Value
    PROVE  v \in Int
  BY ValueAssumption DEF EmptyValue

LEMMA BallotFields ==
    ASSUME NEW a \in Ballot
    PROVE  a.counter \in Int /\ a.value \in Int /\ a.value \in Value
  <1>1. a.counter \in Int
    BY CounterAssumption DEF Ballot, Counter
  <1>2. a.value \in Value
    BY DEF Ballot
  <1>3. a.value \in Int
    BY <1>2, ValueInt
  <1> QED
    BY <1>1, <1>2, <1>3

(* Two ballots of different values are ordered one way or the other.       *)
LEMMA IncompatibleTotal ==
    ASSUME NEW a \in Ballot, NEW b \in Ballot, a.value # b.value
    PROVE  areBallotsLessAndIncompatible(a, b)
           \/ areBallotsLessAndIncompatible(b, a)
  <1>1. a.counter \in Int /\ b.counter \in Int /\ a.value \in Int
        /\ b.value \in Int
    BY BallotFields
  <1> QED
    BY <1>1 DEF areBallotsLessAndIncompatible, areBallotsCompatible, LessEq, Less

(* A ballot below and incompatible with a is so with every ballot that is  *)
(* above a and has its value.                                              *)
LEMMA IncompatibleUp ==
    ASSUME NEW c \in Ballot, NEW a \in Ballot, NEW b \in Ballot,
           areBallotsLessAndIncompatible(c, a),
           areBallotsLessAndCompatible(a, b)
    PROVE  areBallotsLessAndIncompatible(c, b)
  <1>1. /\ a.counter \in Int /\ b.counter \in Int /\ c.counter \in Int
        /\ a.value \in Int /\ b.value \in Int /\ c.value \in Int
    BY BallotFields
  <1> QED
    BY <1>1 DEF areBallotsLessAndIncompatible, areBallotsLessAndCompatible,
                areBallotsCompatible, LessEq, Less

LEMMA CompatibleTransitive ==
    ASSUME NEW c \in Ballot, NEW a \in Ballot, NEW b \in Ballot,
           areBallotsLessAndCompatible(c, a),
           areBallotsLessAndCompatible(a, b)
    PROVE  areBallotsLessAndCompatible(c, b)
  <1>1. /\ a.counter \in Int /\ b.counter \in Int /\ c.counter \in Int
        /\ a.value \in Int /\ b.value \in Int /\ c.value \in Int
    BY BallotFields
  <1> QED
    BY <1>1 DEF areBallotsLessAndCompatible, areBallotsCompatible, LessEq, Less

-----------------------------------------------------------------------------
(* Facts about one state.                                                  *)

(* A ballot of a quorum's commit votes is accepted as prepared somewhere.  *)
LEMMA ChosenPrepared ==
    ASSUME CommitVotesPrepared, NEW c \in Ballot, Chosen(c)
    PROVE  \E m \in Node : c \in acceptedPrepare[m]
  BY DEF Chosen, CommitVotesPrepared, IsQuorum

(* A quorum that refuses a ballot keeps it from being chosen.              *)
LEMMA BlockedNotChosen ==
    ASSUME NEW b \in Ballot, Blocked(b)
    PROVE  ~Chosen(b)
  BY QuorumIntersection DEF Blocked, Chosen, Refuses

(* Two chosen ballots have the same value.                                 *)
LEMMA ChosenCompatible ==
    ASSUME CommitVotesPrepared, ChosenNotAborted,
           NEW a \in Ballot, NEW b \in Ballot, Chosen(a), Chosen(b)
    PROVE  a.value = b.value
  BY ChosenPrepared, IncompatibleTotal DEF ChosenNotAborted

(* If a ballot of value v is chosen then every ballot of v is as safe to   *)
(* prepare as one that was accepted by a vote.                             *)
LEMMA ChosenValueAborts ==
    ASSUME CommitVotesPrepared, AcceptedAborts,
           NEW c \in Ballot, Chosen(c),
           NEW b \in Ballot, b.value = c.value,
           NEW a \in Ballot, areBallotsLessAndIncompatible(a, b)
    PROVE  Blocked(a) \/ Superseded(a)
  <1>1. PICK m \in Node : c \in acceptedPrepare[m]
    BY ChosenPrepared
  <1>2. a.value # c.value
    BY DEF areBallotsLessAndIncompatible, areBallotsCompatible
  <1>3. CASE areBallotsLessAndIncompatible(a, c)
    BY <1>1, <1>3 DEF AcceptedAborts
  <1>4. CASE areBallotsLessAndIncompatible(c, a)
    BY <1>4 DEF Superseded
  <1> QED
    BY <1>2, <1>3, <1>4, IncompatibleTotal

(* Agreement follows from the invariant: an externalized value has a       *)
(* chosen ballot.                                                          *)
LEMMA IInvAgreement ==
    ASSUME IInv
    PROVE  Agreement
  <1> SUFFICES ASSUME NEW n \in Node, NEW m \in Node,
                      NEW u \in externalized[n], NEW v \in externalized[m]
               PROVE  u = v
    BY DEF Agreement
  <1>1. PICK a \in acceptedCommit[n] : a.value = u
    BY DEF IInv, ExternalizedCommitted
  <1>2. PICK b \in acceptedCommit[m] : b.value = v
    BY DEF IInv, ExternalizedCommitted
  <1>3. PICK c \in Ballot : areBallotsLessAndCompatible(c, a) /\ Chosen(c)
    BY DEF IInv, CommitsChosen
  <1>4. PICK d \in Ballot : areBallotsLessAndCompatible(d, b) /\ Chosen(d)
    BY DEF IInv, CommitsChosen
  <1>5. c.value = d.value
    BY <1>3, <1>4, ChosenCompatible DEF IInv
  <1> QED
    BY <1>1, <1>2, <1>3, <1>4, <1>5
       DEF areBallotsLessAndCompatible, areBallotsCompatible

-----------------------------------------------------------------------------
(* Facts about a step.                                                     *)

(* The pledges of every node only grow, and no node newly votes to commit  *)
(* a ballot that it voted against.                                         *)
Grows ==
    \A n \in Node :
        /\ votedPrepare[n] \subseteq votedPrepare'[n]
        /\ acceptedPrepare[n] \subseteq acceptedPrepare'[n]
        /\ votedCommit[n] \subseteq votedCommit'[n]
        /\ \A c \in votedCommit'[n] \ votedCommit[n] :
            \A a \in votedPrepare[n] : ~areBallotsLessAndIncompatible(c, a)

LEMMA ChosenStable ==
    ASSUME Grows, NEW c \in Ballot, Chosen(c)
    PROVE  Chosen(c)'
  BY DEF Grows, Chosen, IsQuorum

LEMMA BlockedStable ==
    ASSUME Grows, NEW b \in Ballot, Blocked(b)
    PROVE  Blocked(b)'
  <1>1. PICK Q \in SUBSET Node : IsQuorum(Q) /\ \A m \in Q : Refuses(m, b)
    BY DEF Blocked
  <1>2. ASSUME NEW m \in Q PROVE Refuses(m, b)'
    BY <1>1 DEF Refuses, Grows
  <1> QED
    BY <1>1, <1>2 DEF Blocked, IsQuorum

LEMMA SupersededStable ==
    ASSUME Grows, NEW b \in Ballot, Superseded(b)
    PROVE  Superseded(b)'
  BY ChosenStable DEF Superseded

(* What the accepted ballots abort stays aborted, so that a step has to    *)
(* show AcceptedAborts of the ballots it newly accepts only.               *)
LEMMA AcceptedAbortsStable ==
    ASSUME TypeOK', Grows, AcceptedAborts,
           \A n \in Node : \A b \in acceptedPrepare'[n] \ acceptedPrepare[n] :
              \A a \in Ballot : areBallotsLessAndIncompatible(a, b)
                  => Blocked(a) \/ Superseded(a)
    PROVE  AcceptedAborts'
  <1> SUFFICES ASSUME NEW n \in Node, NEW b \in acceptedPrepare'[n],
                      NEW a \in Ballot, areBallotsLessAndIncompatible(a, b)
               PROVE  Blocked(a)' \/ Superseded(a)'
    BY DEF AcceptedAborts
  <1>1. Blocked(a) \/ Superseded(a)
    BY DEF AcceptedAborts
  <1> QED
    BY <1>1, BlockedStable, SupersededStable

(* ChosenNotAborted of the next state, when no new ballot is chosen.       *)
LEMMA ChosenNotAbortedStable ==
    ASSUME IInv, UNCHANGED votedCommit, TypeOK',
           \A n \in Node : \A b \in acceptedPrepare'[n] \ acceptedPrepare[n] :
              \A a \in Ballot : areBallotsLessAndIncompatible(a, b)
                  => Blocked(a) \/ Superseded(a)
    PROVE  ChosenNotAborted'
  <1> SUFFICES ASSUME NEW n \in Node, NEW b \in acceptedPrepare'[n],
                      NEW c \in Ballot, areBallotsLessAndIncompatible(c, b),
                      Chosen(c)'
               PROVE  FALSE
    BY DEF ChosenNotAborted
  <1>1. Chosen(c)
    BY DEF Chosen, IsQuorum
  <1>2. CASE b \in acceptedPrepare[n]
    BY <1>1, <1>2 DEF IInv, ChosenNotAborted
  <1>3. CASE b \notin acceptedPrepare[n]
    <2>1. Blocked(c) \/ Superseded(c)
      BY <1>3
    <2>2. ~Superseded(c)
      <3>1. ASSUME Superseded(c) PROVE FALSE
        <4>1. PICK d \in Ballot :
                areBallotsLessAndIncompatible(d, c) /\ Chosen(d)
          BY <3>1 DEF Superseded
        <4>2. d.value = c.value
          BY <1>1, <4>1, ChosenCompatible DEF IInv
        <4> QED
          BY <4>1, <4>2
             DEF areBallotsLessAndIncompatible, areBallotsCompatible
      <3> QED
        BY <3>1
    <2> QED
      BY <1>1, <2>1, <2>2, BlockedNotChosen
  <1> QED
    BY <1>2, <1>3

-----------------------------------------------------------------------------
(* The invariant holds initially.                                          *)
LEMMA InitIInv ==
    Init => IInv
  BY DEF Init, IInv, TypeOK, CommitVotesPrepared, VotesConsistent,
         CommitsChosen, ExternalizedCommitted, ChosenNotAborted, AcceptedAborts

(* Every action keeps it.  A vote to prepare touches VotesConsistent only. *)
LEMMA VotePrepareIInv ==
    ASSUME IInv, NEW n \in Node, NEW b \in Ballot, VotePrepare(n, b)
    PROVE  IInv'
  <1> USE DEF IInv
  <1>1. /\ UNCHANGED <<acceptedPrepare, votedCommit, acceptedCommit, externalized>>
        /\ votedPrepare' = [votedPrepare EXCEPT ![n] = @ \cup Below(b)]
    BY DEF VotePrepare
  <1>2. Below(b) \subseteq Ballot
    BY DEF Below
  <1>3. TypeOK'
    BY <1>1, <1>2 DEF TypeOK
  <1>4. Grows
    BY <1>1 DEF Grows, TypeOK
  <1>5. CommitVotesPrepared' /\ ExternalizedCommitted'
    BY <1>1 DEF CommitVotesPrepared, ExternalizedCommitted
  <1>6. VotesConsistent'
    <2> SUFFICES ASSUME NEW m \in Node, NEW c \in votedCommit[m],
                        NEW a \in votedPrepare'[m],
                        areBallotsLessAndIncompatible(c, a)
                 PROVE  AcceptedAbort(m, c)
      BY <1>1 DEF VotesConsistent, AcceptedAbort
    <2>1. CASE a \in votedPrepare[m]
      BY <2>1 DEF VotesConsistent
    <2>2. CASE a \notin votedPrepare[m]
      <3>1. m = n /\ a \in Below(b)
        BY <2>2, <1>1 DEF TypeOK
      <3>2. areBallotsLessAndIncompatible(c, b)
        BY <3>1, IncompatibleUp DEF Below, TypeOK
      <3> QED
        BY <3>1, <3>2 DEF VotePrepare, MayVotePrepare
    <2> QED
      BY <2>1, <2>2
  <1>7. CommitsChosen'
    BY <1>1, <1>4, ChosenStable DEF CommitsChosen
  <1>8. ChosenNotAborted'
    BY <1>1, <1>3, ChosenNotAbortedStable
  <1>9. AcceptedAborts'
    BY <1>1, <1>3, <1>4, AcceptedAbortsStable
  <1> QED
    BY <1>3, <1>5, <1>6, <1>7, <1>8, <1>9

(* What a quorum for n supports as prepared is safe to accept: either its  *)
(* members never vote for what b aborts, or they accepted it themselves.   *)
LEMMA SupportedAborts ==
    ASSUME IInv, NEW n \in Node, NEW b \in Ballot,
           NEW S \in SUBSET Node, Ratifies(n, S, b.value),
           \A m \in S : SupportsPrepare(m, b),
           NEW a \in Ballot, areBallotsLessAndIncompatible(a, b)
    PROVE  Blocked(a) \/ Superseded(a)
  <1> USE DEF IInv
  <1>0. S # {}
    BY SaneSlices DEF Ratifies
  <1>1. CASE \E m \in S : \E c \in acceptedCommit[m] : c.value = b.value
    <2>1. PICK m \in S : \E c \in acceptedCommit[m] : c.value = b.value
      BY <1>1
    <2>. PICK c \in acceptedCommit[m] : c.value = b.value
      BY <2>1
    <2>2. PICK d \in Ballot : areBallotsLessAndCompatible(d, c) /\ Chosen(d)
      BY DEF CommitsChosen
    <2>3. b.value = d.value
      BY <2>1, <2>2 DEF areBallotsLessAndCompatible, areBallotsCompatible
    <2> QED
      BY <2>2, <2>3, ChosenValueAborts
  <1>2. CASE \E m \in S : b \in acceptedPrepare[m]
    BY <1>2 DEF AcceptedAborts
  <1>3. CASE /\ \A m \in S : b \notin acceptedPrepare[m]
             /\ \A m \in S : \A c \in acceptedCommit[m] : c.value # b.value
    <2>1. \A m \in S : S \in Slices[m]
      BY <1>3 DEF Ratifies, ExternalizedCommitted
    <2>2. IsQuorum(S)
      BY <1>0, <2>1 DEF IsQuorum
    <2>3. \A m \in S : b \in votedPrepare[m]
      BY <1>3 DEF SupportsPrepare, areBallotsCompatible
    <2>4. CASE \A m \in S : a \notin votedCommit[m]
      BY <2>2, <2>3, <2>4 DEF Blocked, Refuses
    <2>5. CASE \E m \in S : a \in votedCommit[m]
      <3>1. PICK m \in S : AcceptedAbort(m, a)
        BY <2>3, <2>5 DEF VotesConsistent
      <3> QED
        BY <3>1 DEF AcceptedAbort, AcceptedAborts
    <2> QED
      BY <2>4, <2>5
  <1> QED
    BY <1>1, <1>2, <1>3

LEMMA AcceptPrepareIInv ==
    ASSUME IInv, NEW n \in Node, NEW b \in Ballot, AcceptPrepare(n, b)
    PROVE  IInv'
  <1> USE DEF IInv
  <1>1. /\ UNCHANGED <<votedPrepare, votedCommit, acceptedCommit, externalized>>
        /\ acceptedPrepare' = [acceptedPrepare EXCEPT ![n] = @ \cup Below(b)]
    BY DEF AcceptPrepare
  <1>2. Below(b) \subseteq Ballot
    BY DEF Below
  <1>3. TypeOK'
    BY <1>1, <1>2 DEF TypeOK
  <1>4. Grows
    BY <1>1 DEF Grows, TypeOK
  <1>5. CommitVotesPrepared' /\ ExternalizedCommitted'
    BY <1>1, <1>4 DEF CommitVotesPrepared, ExternalizedCommitted, Grows
  <1>6. VotesConsistent'
    BY <1>1, <1>4 DEF VotesConsistent, AcceptedAbort, Grows
  <1>7. CommitsChosen'
    BY <1>1, <1>4, ChosenStable DEF CommitsChosen
  <1>8. ASSUME NEW a \in Ballot, areBallotsLessAndIncompatible(a, b)
        PROVE  Blocked(a) \/ Superseded(a)
    <2>1. CASE \E S \in SUBSET Node :
                  Blocks(n, S) /\ \A m \in S : b \in acceptedPrepare[m]
      <3>1. PICK S \in SUBSET Node :
                  Blocks(n, S) /\ \A m \in S : b \in acceptedPrepare[m]
        BY <2>1
      <3>2. \E m \in S : TRUE
        BY <3>1, SaneSlices DEF Blocks
      <3> QED
        BY <1>8, <3>1, <3>2 DEF AcceptedAborts
    <2>2. CASE \E S \in SUBSET Node :
                  Ratifies(n, S, b.value) /\ \A m \in S : SupportsPrepare(m, b)
      BY <1>8, <2>2, SupportedAborts
    <2> QED
      BY <2>1, <2>2 DEF AcceptPrepare
  <1>9. ASSUME NEW m \in Node, NEW d \in acceptedPrepare'[m] \ acceptedPrepare[m],
               NEW a \in Ballot, areBallotsLessAndIncompatible(a, d)
        PROVE  Blocked(a) \/ Superseded(a)
    <2>1. d \in Below(b)
      BY <1>1 DEF TypeOK
    <2>2. areBallotsLessAndIncompatible(a, b)
      BY <1>9, <2>1, IncompatibleUp DEF Below
    <2> QED
      BY <1>8, <2>2
  <1>10. ChosenNotAborted'
    BY <1>1, <1>3, <1>9, ChosenNotAbortedStable
  <1>11. AcceptedAborts'
    BY <1>3, <1>4, <1>9, AcceptedAbortsStable
  <1> QED
    BY <1>3, <1>5, <1>6, <1>7, <1>10, <1>11

(* A vote to commit may make a ballot chosen.  It was accepted as prepared *)
(* before, so ChosenNotAborted of the state before the step applies to it. *)
LEMMA VoteCommitIInv ==
    ASSUME IInv, NEW n \in Node, NEW B \in SUBSET Ballot, NEW b \in Ballot,
           VoteCommit(n, B, b)
    PROVE  IInv'
  <1> USE DEF IInv
  <1>1. /\ UNCHANGED <<acceptedPrepare, acceptedCommit, externalized>>
        /\ votedCommit' = [votedCommit EXCEPT ![n] = @ \cup B]
        /\ votedPrepare' = [votedPrepare EXCEPT ![n] = @ \cup Below(b)]
    BY DEF VoteCommit
  <1>2. Below(b) \subseteq Ballot
    BY DEF Below
  <1>3. TypeOK'
    BY <1>1, <1>2 DEF TypeOK
  <1>4. Grows
    BY <1>1 DEF Grows, TypeOK, VoteCommit
  <1>5. ASSUME NEW c \in B PROVE \E m \in Node : c \in acceptedPrepare[m]
    BY SaneSlices, ZenonT(30) DEF VoteCommit, Ratifies
  <1>6. CommitVotesPrepared'
    BY <1>1, <1>5 DEF CommitVotesPrepared, TypeOK
  <1>7. ExternalizedCommitted'
    BY <1>1 DEF ExternalizedCommitted
  <1>8. VotesConsistent'
    <2> SUFFICES ASSUME NEW m \in Node, NEW c \in votedCommit'[m],
                        NEW a \in votedPrepare'[m],
                        areBallotsLessAndIncompatible(c, a)
                 PROVE  AcceptedAbort(m, c)
      BY <1>1 DEF VotesConsistent, AcceptedAbort
    <2>1. CASE c \in votedCommit[m] /\ a \in votedPrepare[m]
      BY <2>1 DEF VotesConsistent
    <2>2. CASE c \in votedCommit[m] /\ a \notin votedPrepare[m]
      <3>1. m = n /\ a \in Below(b)
        BY <2>2, <1>1 DEF TypeOK
      <3>2. areBallotsLessAndIncompatible(c, b)
        BY <2>2, <3>1, IncompatibleUp DEF Below, TypeOK
      <3> QED
        BY <2>2, <3>1, <3>2 DEF VoteCommit, MayVotePrepare
    <2>3. CASE c \notin votedCommit[m]
      <3>1. m = n /\ c \in B
        BY <2>3, <1>1 DEF TypeOK
      <3>2. a \in votedPrepare[n] => FALSE
        BY <3>1 DEF VoteCommit
      <3>3. a \in Below(b)
        BY <3>1, <3>2, <1>1 DEF TypeOK
      <3>4. a.value = b.value /\ c.value = b.value
        BY <3>1, <3>3 DEF Below, VoteCommit, areBallotsLessAndCompatible,
                          areBallotsCompatible
      <3> QED
        BY <3>4 DEF areBallotsLessAndIncompatible, areBallotsCompatible
    <2> QED
      BY <2>1, <2>2, <2>3
  <1>9. CommitsChosen'
    BY <1>1, <1>4, ChosenStable DEF CommitsChosen, TypeOK
  <1>10. AcceptedAborts'
    BY <1>1, <1>3, <1>4, AcceptedAbortsStable
  <1>11. ChosenNotAborted'
    <2> SUFFICES ASSUME NEW m \in Node, NEW d \in acceptedPrepare[m],
                        NEW c \in Ballot, areBallotsLessAndIncompatible(c, d),
                        Chosen(c)'
                 PROVE  FALSE
      BY <1>1 DEF ChosenNotAborted
    <2>1. ~Chosen(c)
      BY DEF ChosenNotAborted
    <2>2. c \in B
      BY <1>1, <2>1 DEF Chosen, TypeOK, IsQuorum
    <2>3. PICK k \in Node : c \in acceptedPrepare[k]
      BY <1>5, <2>2
    <2>4. Blocked(c)' \/ Superseded(c)'
      BY <1>1, <1>10 DEF AcceptedAborts
    <2>5. ~Blocked(c)'
      <3>1. ASSUME Blocked(c)' PROVE FALSE
        BY <3>1, QuorumIntersection DEF Blocked, Chosen, Refuses, IsQuorum
      <3> QED
        BY <3>1
    <2>6. PICK a \in Ballot : areBallotsLessAndIncompatible(a, c) /\ Chosen(a)'
      BY <2>4, <2>5 DEF Superseded
    <2>7. a \notin B
      BY <2>2, <2>6 DEF VoteCommit, areBallotsLessAndIncompatible,
                        areBallotsCompatible
    <2>8. Chosen(a)
      BY <1>1, <2>6, <2>7 DEF Chosen, TypeOK, IsQuorum
    <2> QED
      BY <2>3, <2>6, <2>8 DEF ChosenNotAborted
  <1> QED
    BY <1>3, <1>6, <1>7, <1>8, <1>9, <1>10, <1>11

LEMMA AcceptCommitIInv ==
    ASSUME IInv, NEW n \in Node, NEW B \in SUBSET Ballot, AcceptCommit(n, B)
    PROVE  IInv'
  <1> USE DEF IInv
  <1>1. /\ UNCHANGED <<votedPrepare, acceptedPrepare, votedCommit, externalized>>
        /\ acceptedCommit' = [acceptedCommit EXCEPT ![n] = @ \cup B]
    BY DEF AcceptCommit
  <1>2. TypeOK'
    BY <1>1 DEF TypeOK
  <1>3. Grows
    BY <1>1 DEF Grows
  <1>4. CommitVotesPrepared' /\ VotesConsistent'
    BY <1>1 DEF CommitVotesPrepared, VotesConsistent, AcceptedAbort
  <1>5. ExternalizedCommitted'
    BY <1>1 DEF ExternalizedCommitted, TypeOK
  <1>6. ChosenNotAborted'
    BY <1>1, <1>2, ChosenNotAbortedStable
  <1>7. AcceptedAborts'
    BY <1>1, <1>2, <1>3, AcceptedAbortsStable
  <1>8. ASSUME NEW c \in B
        PROVE  \E d \in Ballot : areBallotsLessAndCompatible(d, c) /\ Chosen(d)
    <2>1. CASE \E S \in SUBSET Node :
                  Blocks(n, S) /\ \A m \in S : c \in acceptedCommit[m]
      BY <2>1, SaneSlices DEF Blocks, CommitsChosen
    <2>2. CASE \E S \in SUBSET Node :
                  /\ Ratifies(n, S, c.value)
                  /\ \A m \in S : \/ HasCommitted(m, c)
                                  \/ c \in votedCommit[m] /\ S \in Slices[m]
      <3>1. PICK S \in SUBSET Node :
                  /\ Ratifies(n, S, c.value)
                  /\ \A m \in S : \/ HasCommitted(m, c)
                                  \/ c \in votedCommit[m] /\ S \in Slices[m]
        BY <2>2
      <3>2. CASE \E m \in S : HasCommitted(m, c)
        <4>1. PICK m \in S : HasCommitted(m, c)
          BY <3>2
        <4>2. PICK a \in acceptedCommit[m] : areBallotsLessAndCompatible(a, c)
          BY <4>1 DEF HasCommitted
        <4>3. PICK d \in Ballot :
                  areBallotsLessAndCompatible(d, a) /\ Chosen(d)
          BY DEF CommitsChosen
        <4>4. a \in Ballot
          BY DEF TypeOK
        <4> QED
          BY <4>2, <4>3, <4>4, CompatibleTransitive
      <3>3. CASE \A m \in S : c \in votedCommit[m] /\ S \in Slices[m]
        <4>1. S # {}
          BY <3>1, SaneSlices DEF Ratifies
        <4>2. Chosen(c)
          BY <3>3, <4>1 DEF Chosen, IsQuorum
        <4> QED
          BY <4>2 DEF areBallotsLessAndCompatible, areBallotsCompatible, LessEq
      <3> QED
        BY <3>1, <3>2, <3>3
    <2> QED
      BY <2>1, <2>2 DEF AcceptCommit
  <1>9. CommitsChosen'
    BY <1>1, <1>3, <1>8, ChosenStable DEF CommitsChosen, TypeOK
  <1> QED
    BY <1>2, <1>4, <1>5, <1>6, <1>7, <1>9

LEMMA ExternalizesIInv ==
    ASSUME IInv, NEW n \in Node, NEW B \in SUBSET Ballot, NEW v \in Value,
           Externalizes(n, B, v)
    PROVE  IInv'
  <1> USE DEF IInv
  <1>1. /\ UNCHANGED <<votedPrepare, votedCommit>>
        /\ externalized' = [externalized EXCEPT ![n] = @ \cup {v}]
        /\ acceptedCommit' = [acceptedCommit EXCEPT ![n] = @ \cup Above(B)]
        /\ acceptedPrepare' = [acceptedPrepare EXCEPT ![n] = @ \cup OfValue(v)]
    BY DEF Externalizes
  <1>2. Above(B) \subseteq Ballot /\ OfValue(v) \subseteq Ballot
    BY DEF Above, OfValue
  <1>3. TypeOK'
    BY <1>1, <1>2 DEF TypeOK
  <1>4. Grows
    BY <1>1 DEF Grows, TypeOK
  <1>5. CommitVotesPrepared'
    BY <1>1, <1>4 DEF CommitVotesPrepared, Grows
  <1>6. VotesConsistent'
    BY <1>1, <1>4 DEF VotesConsistent, AcceptedAbort, Grows
  <1>7. \A c \in B : c.value = v /\ c \in Above(B)
    BY DEF Externalizes, Above, areBallotsLessAndCompatible,
           areBallotsCompatible, LessEq
  <1>8. ExternalizedCommitted'
    <2> SUFFICES ASSUME NEW m \in Node, NEW u \in externalized'[m]
                 PROVE  \E b \in acceptedCommit'[m] : b.value = u
      BY DEF ExternalizedCommitted
    <2>1. CASE u \in externalized[m]
      BY <1>1, <2>1 DEF ExternalizedCommitted, TypeOK
    <2>2. CASE u \notin externalized[m]
      <3>1. m = n /\ u = v
        BY <1>1, <2>2 DEF TypeOK
      <3>2. PICK c \in B : c.value = v /\ c \in Above(B)
        BY <1>7 DEF Externalizes
      <3> QED
        BY <1>1, <3>1, <3>2 DEF TypeOK
    <2> QED
      BY <2>1, <2>2
  <1>9. ASSUME NEW c \in B
        PROVE  \E d \in Ballot : areBallotsLessAndCompatible(d, c) /\ Chosen(d)
    BY SaneSlices, ZenonT(30) DEF Externalizes, Ratifies, CommitsChosen
  <1>10. PICK d \in Ballot : d.value = v /\ Chosen(d)
    BY <1>7, <1>9 DEF Externalizes, areBallotsLessAndCompatible,
                      areBallotsCompatible
  <1>11. CommitsChosen'
    <2> SUFFICES ASSUME NEW m \in Node, NEW b \in acceptedCommit'[m]
                 PROVE  \E c \in Ballot :
                            areBallotsLessAndCompatible(c, b) /\ Chosen(c)
      BY <1>4, ChosenStable DEF CommitsChosen
    <2>1. CASE b \in acceptedCommit[m]
      BY <2>1 DEF CommitsChosen
    <2>2. CASE b \in Above(B)
      <3>1. PICK c \in B : areBallotsLessAndCompatible(c, b)
        BY <2>2 DEF Above
      <3>2. PICK a \in Ballot : areBallotsLessAndCompatible(a, c) /\ Chosen(a)
        BY <1>9
      <3> QED
        BY <1>2, <2>2, <3>1, <3>2, CompatibleTransitive
    <2> QED
      BY <1>1, <2>1, <2>2 DEF TypeOK
  <1>12. ASSUME NEW m \in Node,
                NEW b \in acceptedPrepare'[m] \ acceptedPrepare[m],
                NEW a \in Ballot, areBallotsLessAndIncompatible(a, b)
         PROVE  Blocked(a) \/ Superseded(a)
    <2>1. b \in OfValue(v)
      BY <1>1 DEF TypeOK
    <2>2. b \in Ballot /\ b.value = d.value
      BY <1>10, <2>1 DEF OfValue
    <2> QED
      BY <1>10, <1>12, <2>2, ChosenValueAborts
  <1>13. ChosenNotAborted'
    BY <1>1, <1>3, <1>12, ChosenNotAbortedStable
  <1>14. AcceptedAborts'
    BY <1>3, <1>4, <1>12, AcceptedAbortsStable
  <1> QED
    BY <1>3, <1>5, <1>6, <1>8, <1>11, <1>13, <1>14

LEMMA StutterIInv ==
    ASSUME IInv, UNCHANGED vars
    PROVE  IInv'
  <1> USE DEF IInv, vars
  <1>1. Grows
    BY DEF Grows
  <1>2. TypeOK'
    BY DEF TypeOK
  <1>3. CommitVotesPrepared' /\ VotesConsistent' /\ ExternalizedCommitted'
    BY DEF CommitVotesPrepared, VotesConsistent, ExternalizedCommitted,
           AcceptedAbort
  <1>4. CommitsChosen'
    BY <1>1, ChosenStable DEF CommitsChosen
  <1>5. ChosenNotAborted'
    BY <1>2, ChosenNotAbortedStable
  <1>6. AcceptedAborts'
    BY <1>1, <1>2, AcceptedAbortsStable
  <1> QED
    BY <1>2, <1>3, <1>4, <1>5, <1>6

-----------------------------------------------------------------------------
(* The inductive invariant: the pledges of the nodes stay consistent (see  *)
(* the top of this module), whatever the interleaving of their votes.      *)
THEOREM Invariance == Spec => []IInv
  <1>1. IInv /\ [Next]_vars => IInv'
    <2> SUFFICES ASSUME IInv, [Next]_vars
                 PROVE  IInv'
      OBVIOUS
    <2>1. ASSUME NEW n \in Node, NEW b \in Ballot, VotePrepare(n, b)
          PROVE  IInv'
      BY <2>1, VotePrepareIInv
    <2>2. ASSUME NEW n \in Node, NEW b \in Ballot, AcceptPrepare(n, b)
          PROVE  IInv'
      BY <2>2, AcceptPrepareIInv
    <2>3. ASSUME NEW n \in Node, NEW B \in SUBSET Ballot, NEW b \in Ballot,
                 VoteCommit(n, B, b)
          PROVE  IInv'
      BY <2>3, VoteCommitIInv
    <2>4. ASSUME NEW n \in Node, NEW B \in SUBSET Ballot, AcceptCommit(n, B)
          PROVE  IInv'
      BY <2>4, AcceptCommitIInv
    <2>5. ASSUME NEW n \in Node, NEW B \in SUBSET Ballot, NEW v \in Value,
                 Externalizes(n, B, v)
          PROVE  IInv'
      BY <2>5, ExternalizesIInv
    <2>6. CASE UNCHANGED vars
      BY <2>6, StutterIInv
    <2> QED
      BY <2>1, <2>2, <2>3, <2>4, <2>5, <2>6 DEF Next
  <1> QED
    BY <1>1, InitIInv, PTL DEF Spec

(* No two nodes ever externalize different values for a slot               *)
(* (setConfirmCommit of BallotProtocol.cpp), for all quorum configurations *)
(* whose quorums intersect.                                                *)
THEOREM AgreementTheorem == Spec => []Agreement
  <1>1. IInv => Agreement
    BY IInvAgreement
  <1> QED
    BY <1>1, Invariance, PTL

(* The pledges are always sets of ballots with a counter of at least 1.    *)
THEOREM TypeCorrect == Spec => []TypeOK
  <1>1. IInv => TypeOK
    BY DEF IInv
  <1> QED
    BY <1>1, Invariance, PTL

-----------------------------------------------------------------------------
(* The operators on statements that BallotProtocol is built from.          *)

BallotOrNull == [counter : Counter, value : Value \cup {EmptyValue}]

IsPrepare(st) ==
    /\ st.type = "PREPARE"
    /\ st.ballot \in BallotOrNull
    /\ st.prepared \in BallotOrNull
    /\ st.preparedPrime \in BallotOrNull
    /\ st.nC \in Counter
    /\ st.nH \in Counter

IsConfirm(st) ==
    /\ st.type = "CONFIRM"
    /\ st.ballot \in BallotOrNull
    /\ st.nPrepared \in Counter
    /\ st.nCommit \in Counter
    /\ st.nH \in Counter

IsExternalize(st) ==
    /\ st.type = "EXTERNALIZE"
    /\ st.commit \in BallotOrNull
    /\ st.nH \in Counter

IsStatement(st) == IsPrepare(st) \/ IsConfirm(st) \/ IsExternalize(st)

LEMMA StatementTypes ==
    ASSUME NEW st, IsStatement(st)
    PROVE  /\ st.type = "PREPARE" \/ st.type = "CONFIRM" \/ st.type = "EXTERNALIZE"
           /\ st.type = "PREPARE" => IsPrepare(st)
           /\ st.type = "CONFIRM" => IsConfirm(st)
  <1>1. CASE IsPrepare(st)
    BY <1>1 DEF IsPrepare
  <1>2. CASE IsConfirm(st)
    BY <1>2 DEF IsConfirm
  <1>3. CASE IsExternalize(st)
    BY <1>3 DEF IsExternalize
  <1> QED
    BY <1>1, <1>2, <1>3, Zenon DEF IsStatement

LEMMA BallotNumbers ==
    ASSUME NEW b \in BallotOrNull
    PROVE  /\ b.counter \in Nat /\ b.counter <= UINT32_MAX
           /\ b.value \in Nat
           /\ b = SCPBallot(b.counter, b.value)
  <1>1. b.counter \in Counter /\ b.value \in Value \cup {EmptyValue}
    BY DEF BallotOrNull
  <1>2. Counter \subseteq Nat /\ \A n \in Counter : n <= UINT32_MAX
    BY CounterAssumption DEF Counter
  <1>3. Value \cup {EmptyValue} \subseteq Nat
    BY ValueAssumption DEF EmptyValue
  <1>4. b = SCPBallot(b.counter, b.value)
    BY DEF BallotOrNull, SCPBallot
  <1> QED
    BY <1>1, <1>2, <1>3, <1>4, Zenon

(* Ballots are ordered totally.                                            *)
LEMMA BallotOrder ==
    ASSUME NEW a \in BallotOrNull, NEW b \in BallotOrNull, NEW c \in BallotOrNull
    PROVE  /\ ~Less(a, a)
           /\ (Less(a, b) /\ Less(b, c)) => Less(a, c)
           /\ Less(a, b) \/ a = b \/ Less(b, a)
  <1>1. /\ a.counter \in Nat /\ a.value \in Nat
        /\ b.counter \in Nat /\ b.value \in Nat
        /\ c.counter \in Nat /\ c.value \in Nat
    BY BallotNumbers
  <1>2. a.counter = b.counter /\ a.value = b.value => a = b
    BY BallotNumbers, Zenon
  <1> QED
    BY <1>1, <1>2 DEF Less

(* isNewerStatement is a strict order on the statements of a node: however *)
(* the statements that a peer made arrive, no sequence of newer ones leads *)
(* back to one that was already replaced.                                  *)
THEOREM NewerIsStrictOrder ==
    ASSUME NEW r, IsStatement(r), NEW s, IsStatement(s), NEW t, IsStatement(t)
    PROVE  /\ ~isNewerStatement(r, r)
           /\ isNewerStatement(r, s) /\ isNewerStatement(s, t)
                => isNewerStatement(r, t)
  <1>1. \A x, y, z \in Counter : ~(x < x) /\ (x < y /\ y < z => x < z)
    BY CounterAssumption DEF Counter
  <1>2. /\ TypeRank(r) = 0 <=> r.type = "PREPARE"
        /\ TypeRank(r) = 1 <=> r.type = "CONFIRM"
        /\ TypeRank(r) = 2 <=> r.type = "EXTERNALIZE"
        /\ TypeRank(r) \in {0, 1, 2}
    BY DEF TypeRank, IsStatement, IsPrepare, IsConfirm, IsExternalize
  <1>3. /\ TypeRank(s) = 0 <=> s.type = "PREPARE"
        /\ TypeRank(s) = 1 <=> s.type = "CONFIRM"
        /\ TypeRank(s) = 2 <=> s.type = "EXTERNALIZE"
        /\ TypeRank(s) \in {0, 1, 2}
    BY DEF TypeRank, IsStatement, IsPrepare, IsConfirm, IsExternalize
  <1>4. /\ TypeRank(t) = 0 <=> t.type = "PREPARE"
        /\ TypeRank(t) = 1 <=> t.type = "CONFIRM"
        /\ TypeRank(t) = 2 <=> t.type = "EXTERNALIZE"
        /\ TypeRank(t) \in {0, 1, 2}
    BY DEF TypeRank, IsStatement, IsPrepare, IsConfirm, IsExternalize
  <1>5. ~isNewerStatement(r, r)
    <2>1. ~(TypeRank(r) < TypeRank(r))
      BY <1>2
    <2>2. IsConfirm(r) => /\ ~Less(r.ballot, r.ballot)
                          /\ ~(r.nPrepared < r.nPrepared) /\ ~(r.nH < r.nH)
      BY <1>1, BallotOrder, Zenon DEF IsConfirm
    <2>3. IsPrepare(r) => /\ ~Less(r.ballot, r.ballot)
                          /\ ~Less(r.prepared, r.prepared)
                          /\ ~Less(r.preparedPrime, r.preparedPrime)
                          /\ ~(r.nH < r.nH)
      BY <1>1, BallotOrder, Zenon DEF IsPrepare
    <2>4. /\ r.type = "PREPARE" => IsPrepare(r)
          /\ r.type = "CONFIRM" => IsConfirm(r)
      BY StatementTypes, Zenon
    <2> QED
      BY <2>1, <2>2, <2>3, <2>4, Zenon DEF isNewerStatement
  <1>6. ASSUME isNewerStatement(r, s), isNewerStatement(s, t)
        PROVE  isNewerStatement(r, t)
    <2>1. CASE TypeRank(r) < TypeRank(t)
      BY <2>1 DEF isNewerStatement
    <2>2. CASE IsPrepare(r) /\ IsPrepare(s) /\ IsPrepare(t)
      <3>1. /\ Less(r.ballot, s.ballot) /\ Less(s.ballot, t.ballot)
                 => Less(r.ballot, t.ballot)
            /\ Less(r.prepared, s.prepared) /\ Less(s.prepared, t.prepared)
                 => Less(r.prepared, t.prepared)
            /\ Less(r.preparedPrime, s.preparedPrime)
                 /\ Less(s.preparedPrime, t.preparedPrime)
                 => Less(r.preparedPrime, t.preparedPrime)
        BY <2>2, BallotOrder DEF IsPrepare
      <3>2. r.nH < s.nH /\ s.nH < t.nH => r.nH < t.nH
        BY <2>2, <1>1, Zenon DEF IsPrepare
      <3>3. ~(TypeRank(r) < TypeRank(s)) /\ ~(TypeRank(s) < TypeRank(t))
        BY <2>2, <1>2, <1>3, <1>4 DEF IsPrepare
      <3> QED
        BY <1>6, <2>2, <3>1, <3>2, <3>3, Zenon DEF isNewerStatement, IsPrepare
    <2>3. CASE IsConfirm(r) /\ IsConfirm(s) /\ IsConfirm(t)
      <3>1. Less(r.ballot, s.ballot) /\ Less(s.ballot, t.ballot)
                 => Less(r.ballot, t.ballot)
        BY <2>3, BallotOrder DEF IsConfirm
      <3>2. /\ r.nH < s.nH /\ s.nH < t.nH => r.nH < t.nH
            /\ r.nPrepared < s.nPrepared /\ s.nPrepared < t.nPrepared
                 => r.nPrepared < t.nPrepared
        BY <2>3, <1>1, Zenon DEF IsConfirm
      <3>3. ~(TypeRank(r) < TypeRank(s)) /\ ~(TypeRank(s) < TypeRank(t))
        BY <2>3, <1>2, <1>3, <1>4 DEF IsConfirm
      <3> QED
        BY <1>6, <2>3, <3>1, <3>2, <3>3, Zenon DEF isNewerStatement, IsConfirm
    <2>4. /\ TypeRank(r) < TypeRank(s) \/ (r.type = s.type /\ r.type # "EXTERNALIZE")
          /\ TypeRank(s) < TypeRank(t) \/ (s.type = t.type /\ s.type # "EXTERNALIZE")
      BY <1>6 DEF isNewerStatement
    <2>5. TypeRank(r) < TypeRank(t)
            \/ (r.type = s.type /\ s.type = t.type /\ r.type # "EXTERNALIZE")
      <3>1. CASE TypeRank(r) < TypeRank(s) \/ TypeRank(s) < TypeRank(t)
        <4>1. /\ TypeRank(r) < TypeRank(s) \/ TypeRank(r) = TypeRank(s)
              /\ TypeRank(s) < TypeRank(t) \/ TypeRank(s) = TypeRank(t)
          BY <2>4, Zenon DEF TypeRank
        <4> QED
          BY <3>1, <4>1, <1>2, <1>3, <1>4
      <3>2. CASE ~(TypeRank(r) < TypeRank(s)) /\ ~(TypeRank(s) < TypeRank(t))
        BY <3>2, <2>4, Zenon
      <3> QED
        BY <3>1, <3>2, Zenon
    <2>6. CASE r.type = "PREPARE" /\ s.type = "PREPARE" /\ t.type = "PREPARE"
      BY <2>2, <2>6, StatementTypes, Zenon
    <2>7. CASE r.type = "CONFIRM" /\ s.type = "CONFIRM" /\ t.type = "CONFIRM"
      BY <2>3, <2>7, StatementTypes, Zenon
    <2>8. r.type = "PREPARE" \/ r.type = "CONFIRM" \/ r.type = "EXTERNALIZE"
      BY StatementTypes, Zenon
    <2> QED
      BY <2>1, <2>5, <2>6, <2>7, <2>8, Zenon
  <1> QED
    BY <1>5, <1>6

(* Every non-empty set of naturals has a least element.                    *)
LEMMA LeastElement ==
    ASSUME NEW S \in SUBSET Nat, S # {}
    PROVE  \E x \in S : \A y \in S : x <= y
  <1> DEFINE R == {ss \in Nat \X Nat : ss[1] < ss[2]}
  <1>1. IsWellFoundedOn(R, Nat)
    BY NatLessThanWellFounded, Zenon DEF OpToRel
  <1>2. \A x, y \in Nat : x < y => <<x, y>> \in R
    OBVIOUS
  <1> HIDE DEF R
  <1>3. PICK x \in S : \A y \in S : ~ (<<y, x>> \in R)
    BY <1>1, WFMin, Zenon
  <1>4. ASSUME NEW y \in S
        PROVE  x <= y
    <2>1. ~(y < x)
      BY <1>2, <1>3, Zenon
    <2> QED
      BY <2>1
  <1> QED
    BY <1>4

LEMMA LessAndCompatible ==
    ASSUME NEW a \in BallotOrNull, NEW b \in BallotOrNull
    PROVE  areBallotsLessAndCompatible(a, b)
             <=> a.value = b.value /\ a.counter <= b.counter
  <1>1. /\ a.counter \in Nat /\ a.value \in Nat
        /\ b.counter \in Nat /\ b.value \in Nat
    BY BallotNumbers
  <1>2. a.counter = b.counter /\ a.value = b.value => a = b
    BY BallotNumbers, Zenon
  <1> QED
    BY <1>1, <1>2 DEF areBallotsLessAndCompatible, areBallotsCompatible, LessEq, Less

LEMMA BallotMade ==
    ASSUME NEW n \in Counter, NEW v \in Value \cup {EmptyValue}
    PROVE  /\ SCPBallot(n, v) \in BallotOrNull
           /\ SCPBallot(n, v).counter = n /\ SCPBallot(n, v).value = v
  BY DEF SCPBallot, BallotOrNull

LEMMA HintBallots ==
    ASSUME NEW hint, IsStatement(hint)
    PROVE  hintBallots(hint) \subseteq BallotOrNull
  <1>1. UINT32_MAX \in Counter
    BY CounterAssumption DEF Counter
  <1>2. CASE IsPrepare(hint)
    BY <1>2 DEF IsPrepare, hintBallots
  <1>3. CASE IsConfirm(hint)
    <2>1. hint.ballot.value \in Value \cup {EmptyValue} /\ hint.nPrepared \in Counter
      BY <1>3 DEF IsConfirm, BallotOrNull
    <2>2. hintBallots(hint) = {SCPBallot(n, hint.ballot.value) :
                                  n \in {hint.nPrepared, UINT32_MAX}}
      BY <1>3 DEF IsConfirm, hintBallots
    <2> QED
      BY <1>1, <2>1, <2>2, BallotMade
  <1>4. CASE IsExternalize(hint)
    <2>1. hint.commit.value \in Value \cup {EmptyValue}
      BY <1>4 DEF IsExternalize, BallotOrNull
    <2>2. hintBallots(hint) = {SCPBallot(UINT32_MAX, hint.commit.value)}
      BY <1>4 DEF IsExternalize, hintBallots
    <2> QED
      BY <1>1, <2>1, <2>2, BallotMade
  <1> QED
    BY <1>2, <1>3, <1>4 DEF IsStatement

(* What st says of b when it is asked for votes and for acceptance.        *)
Upholds(b, st) == votesPrepare(b, st) \/ hasPreparedBallot(b, st)

Within(b, x, c) == x.value = b.value /\ b.counter <= x.counter /\ x.counter < c.counter

UpTo(c, topVote) == c.value = topVote.value /\ c.counter <= topVote.counter

LEMMA CandidatesUpTo ==
    ASSUME NEW topVote \in BallotOrNull, NEW st, IsStatement(st),
           NEW c \in candidatesOf(topVote, st)
    PROVE  c \in BallotOrNull /\ UpTo(c, topVote)
  <1>1. topVote.counter \in Nat
    BY BallotNumbers
  <1>2. CASE IsPrepare(st)
    <2>1. c \in BallotOrNull /\ areBallotsLessAndCompatible(c, topVote)
      BY <1>2 DEF IsPrepare, candidatesOf
    <2> QED
      BY <2>1, LessAndCompatible DEF UpTo
  <1>3. CASE st.type # "PREPARE"
    <2>1. \/ c = topVote
          \/ /\ st.type = "CONFIRM" /\ st.nPrepared < topVote.counter
             /\ c = SCPBallot(st.nPrepared, topVote.value)
      BY <1>3 DEF candidatesOf
    <2>2. CASE c = topVote
      BY <2>2, <1>1 DEF UpTo
    <2>3. CASE /\ st.type = "CONFIRM" /\ st.nPrepared < topVote.counter
               /\ c = SCPBallot(st.nPrepared, topVote.value)
      <3>1. st.nPrepared \in Counter /\ st.nPrepared \in Nat
        BY <2>3, CounterAssumption
           DEF IsStatement, IsPrepare, IsConfirm, IsExternalize, Counter
      <3>2. topVote.value \in Value \cup {EmptyValue}
        BY DEF BallotOrNull
      <3>3. /\ c \in BallotOrNull
            /\ c.counter = st.nPrepared /\ c.value = topVote.value
        BY <2>3, <3>1, <3>2, BallotMade, Zenon
      <3> QED
        BY <1>1, <2>3, <3>1, <3>3 DEF UpTo
    <2> QED
      BY <2>1, <2>2, <2>3
  <1> QED
    BY <1>2, <1>3 DEF IsStatement, IsConfirm, IsExternalize

(* Whoever upholds b but not c, which is higher, makes a candidate of what *)
(* it upholds instead.                                                     *)
LEMMA PreparesBelow ==
    ASSUME NEW topVote \in BallotOrNull, NEW st, IsPrepare(st),
           NEW b \in BallotOrNull, NEW c \in BallotOrNull,
           UpTo(c, topVote), b.value = c.value,
           NEW x \in {st.ballot} \cup ({st.prepared, st.preparedPrime} \ {NullBallot}),
           areBallotsLessAndCompatible(b, x), ~areBallotsLessAndCompatible(c, x)
    PROVE  x \in candidatesOf(topVote, st) /\ Within(b, x, c)
  <1>1. x \in BallotOrNull
    BY DEF IsPrepare
  <1>2. /\ b.counter \in Nat /\ c.counter \in Nat
        /\ x.counter \in Nat /\ topVote.counter \in Nat
    BY <1>1, BallotNumbers
  <1>3. /\ b.value = x.value /\ b.counter <= x.counter
        /\ ~(c.value = x.value /\ c.counter <= x.counter)
    BY <1>1, LessAndCompatible, Zenon
  <1>4. x.value = topVote.value /\ x.counter <= topVote.counter
    BY <1>2, <1>3 DEF UpTo
  <1>5. areBallotsLessAndCompatible(x, topVote)
    BY <1>1, <1>4, LessAndCompatible
  <1>6. x \in candidatesOf(topVote, st)
    BY <1>5 DEF candidatesOf, IsPrepare
  <1> QED
    BY <1>2, <1>3, <1>6 DEF Within

LEMMA UpheldBelow ==
    ASSUME NEW topVote \in BallotOrNull, NEW st, IsStatement(st),
           NEW b \in BallotOrNull, NEW c \in BallotOrNull,
           UpTo(c, topVote), b.value = c.value,
           Upholds(b, st), ~Upholds(c, st)
    PROVE  \E x \in candidatesOf(topVote, st) : Within(b, x, c)
  <1>1. CASE IsPrepare(st)
    <2>1. PICK x \in {st.ballot} \cup ({st.prepared, st.preparedPrime} \ {NullBallot}) :
              areBallotsLessAndCompatible(b, x)
      BY <1>1 DEF IsPrepare, Upholds, votesPrepare, hasPreparedBallot
    <2>2. ~areBallotsLessAndCompatible(c, x)
      BY <1>1 DEF IsPrepare, Upholds, votesPrepare, hasPreparedBallot
    <2> QED
      BY <1>1, <2>1, <2>2, PreparesBelow
  <1>2. CASE IsConfirm(st)
    BY <1>2 DEF IsConfirm, Upholds, votesPrepare, hasPreparedBallot,
                getWorkingValue, areBallotsLessAndCompatible,
                areBallotsCompatible, SCPBallot
  <1>3. CASE IsExternalize(st)
    BY <1>3 DEF IsExternalize, Upholds, votesPrepare, hasPreparedBallot,
                getWorkingValue, areBallotsCompatible
  <1> QED
    BY <1>1, <1>2, <1>3, Zenon DEF IsStatement

LEMMA AcceptedBelow ==
    ASSUME NEW topVote \in BallotOrNull, NEW st, IsStatement(st),
           NEW b \in BallotOrNull, NEW c \in BallotOrNull,
           UpTo(c, topVote), b.value = c.value,
           hasPreparedBallot(b, st), ~hasPreparedBallot(c, st)
    PROVE  \E x \in candidatesOf(topVote, st) : Within(b, x, c)
  <1>1. CASE IsPrepare(st)
    <2>1. PICK x \in {st.prepared, st.preparedPrime} \ {NullBallot} :
              areBallotsLessAndCompatible(b, x)
      BY <1>1 DEF IsPrepare, hasPreparedBallot
    <2>2. ~areBallotsLessAndCompatible(c, x)
      BY <1>1, Zenon DEF IsPrepare, hasPreparedBallot
    <2> QED
      BY <1>1, <2>1, <2>2, PreparesBelow
  <1>2. CASE IsConfirm(st)
    <2> DEFINE x == SCPBallot(st.nPrepared, st.ballot.value)
    <2>1. st.nPrepared \in Counter /\ st.ballot.value \in Value \cup {EmptyValue}
      BY <1>2, Zenon DEF IsConfirm, BallotOrNull
    <2>2. /\ x \in BallotOrNull
          /\ x.counter = st.nPrepared /\ x.value = st.ballot.value
      BY <2>1, BallotMade
    <2>3. areBallotsLessAndCompatible(b, x) /\ ~areBallotsLessAndCompatible(c, x)
      BY <1>2, Zenon DEF IsConfirm, hasPreparedBallot
    <2> HIDE DEF x
    <2>4. /\ b.value = x.value /\ b.counter <= x.counter
          /\ ~(c.value = x.value /\ c.counter <= x.counter)
      BY <2>2, <2>3, LessAndCompatible, Zenon
    <2>5. /\ b.counter \in Nat /\ c.counter \in Nat
          /\ x.counter \in Nat /\ topVote.counter \in Nat
      BY <2>2, BallotNumbers, Zenon
    <2>6. /\ Within(b, x, c) /\ st.nPrepared < topVote.counter
          /\ topVote.value = st.ballot.value
      BY <2>2, <2>4, <2>5 DEF Within, UpTo
    <2>7. x \in candidatesOf(topVote, st)
      BY <1>2, <2>6 DEF candidatesOf, IsConfirm, getWorkingValue, x
    <2> QED
      BY <2>6, <2>7, Zenon
  <1>3. CASE IsExternalize(st)
    BY <1>3 DEF IsExternalize, hasPreparedBallot, areBallotsCompatible
  <1> QED
    BY <1>1, <1>2, <1>3, Zenon DEF IsStatement

LEMMA HintCandidate ==
    ASSUME NEW hint, IsStatement(hint), NEW b \in BallotOrNull, Upholds(b, hint)
    PROVE  \E topVote \in hintBallots(hint) :
               UpTo(b, topVote) /\ topVote \in candidatesOf(topVote, hint)
  <1>1. CASE IsPrepare(hint)
    <2>1. PICK x \in {hint.ballot} \cup ({hint.prepared, hint.preparedPrime} \ {NullBallot}) :
              areBallotsLessAndCompatible(b, x)
      BY <1>1 DEF IsPrepare, Upholds, votesPrepare, hasPreparedBallot
    <2>2. x \in BallotOrNull
      BY <1>1 DEF IsPrepare
    <2>3. x \in hintBallots(hint)
      BY <1>1 DEF IsPrepare, hintBallots
    <2>4. areBallotsLessAndCompatible(x, x)
      BY <2>2, LessAndCompatible, BallotNumbers
    <2>5. x \in candidatesOf(x, hint)
      BY <1>1, <2>4 DEF IsPrepare, candidatesOf
    <2>6. UpTo(b, x)
      BY <2>1, <2>2, LessAndCompatible DEF UpTo
    <2> QED
      BY <2>3, <2>5, <2>6
  <1>2. CASE ~IsPrepare(hint)
    <2> DEFINE v == getWorkingValue(hint)
               x == SCPBallot(UINT32_MAX, v)
    <2>1. hint.type # "PREPARE" /\ x \in hintBallots(hint)
      BY <1>2 DEF IsStatement, IsPrepare, IsConfirm, IsExternalize, hintBallots,
                  getWorkingValue
    <2>2. b.value = v
      BY <1>2, Zenon DEF IsStatement, IsConfirm, IsExternalize, Upholds, votesPrepare,
                  hasPreparedBallot, getWorkingValue, SCPBallot,
                  areBallotsLessAndCompatible, areBallotsCompatible
    <2>3. x.counter = UINT32_MAX /\ x.value = v
      BY DEF SCPBallot
    <2>4. x \in candidatesOf(x, hint)
      BY <2>1, <2>3 DEF candidatesOf
    <2>5. UpTo(b, x)
      BY <2>2, <2>3, BallotNumbers DEF UpTo
    <2> QED
      BY <2>1, <2>4, <2>5
  <1> QED
    BY <1>1, <1>2, Zenon

(* The lowest candidate from b on.                                         *)
LEMMA LowestCandidate ==
    ASSUME NEW sts, \A st \in sts : IsStatement(st), NEW hint \in sts,
           NEW b \in BallotOrNull, Upholds(b, hint)
    PROVE  \E c \in getPrepareCandidates(hint, sts), topVote \in hintBallots(hint) :
               /\ c \in BallotOrNull /\ UpTo(b, c) /\ UpTo(c, topVote)
               /\ \A st \in sts : \A x \in candidatesOf(topVote, st) : ~Within(b, x, c)
  <1> DEFINE C == {x \in getPrepareCandidates(hint, sts) : UpTo(b, x)}
             T == {x.counter : x \in C}
  <1>1. hintBallots(hint) \subseteq BallotOrNull
    BY HintBallots
  <1>2. ASSUME NEW x \in getPrepareCandidates(hint, sts)
        PROVE  /\ x \in BallotOrNull /\ x.counter \in Nat
               /\ \E topVote \in hintBallots(hint) : UpTo(x, topVote)
    <2>1. PICK topVote \in hintBallots(hint), st \in sts : x \in candidatesOf(topVote, st)
      BY <1>2 DEF getPrepareCandidates
    <2>2. x \in BallotOrNull /\ UpTo(x, topVote)
      BY <1>1, <2>1, CandidatesUpTo
    <2> QED
      BY <2>2, BallotNumbers
  <1>3. C # {}
    <2>1. PICK topVote \in hintBallots(hint) :
              UpTo(b, topVote) /\ topVote \in candidatesOf(topVote, hint)
      BY HintCandidate
    <2> QED
      BY <2>1 DEF getPrepareCandidates
  <1>4. T \in SUBSET Nat /\ T # {}
    BY <1>2, <1>3
  <1>5. PICK n \in T : \A m \in T : n <= m
    <2> HIDE DEF T
    <2> QED
      BY <1>4, LeastElement
  <1>6. PICK c \in C : n = c.counter
    BY Zenon
  <1>7. PICK topVote \in hintBallots(hint) : UpTo(c, topVote)
    BY <1>2, Zenon
  <1>8. ASSUME NEW st \in sts, NEW x \in candidatesOf(topVote, st), Within(b, x, c)
        PROVE  FALSE
    <2>1. x \in getPrepareCandidates(hint, sts)
      BY DEF getPrepareCandidates
    <2>2. UpTo(b, x)
      BY <1>8, Zenon DEF UpTo, Within
    <2>3. n <= x.counter
      BY <1>5, <2>1, <2>2, Zenon
    <2>4. x.counter \in Nat /\ c.counter \in Nat
      BY <1>2, <2>1
    <2> QED
      BY <1>6, <1>8, <2>3, <2>4 DEF Within
  <1> QED
    BY <1>2, <1>7, <1>8

(* getPrepareCandidates misses nothing: when the statement that was just   *)
(* recorded is one of those that vote for or accept b as prepared, then    *)
(* one of the candidates is b, or b with a higher counter, and all those   *)
(* statements vote for or accept it too.  A quorum that lets the node      *)
(* accept a ballot is therefore found.                                     *)
THEOREM CandidatesMissNoVote ==
    ASSUME NEW sts, \A st \in sts : IsStatement(st), NEW S \in SUBSET sts,
           NEW hint \in S, NEW b \in Ballot,
           \A st \in S : votesPrepare(b, st) \/ hasPreparedBallot(b, st)
    PROVE  \E c \in getPrepareCandidates(hint, sts) :
               /\ areBallotsLessAndCompatible(b, c)
               /\ \A st \in S : votesPrepare(c, st) \/ hasPreparedBallot(c, st)
  <1>1. b \in BallotOrNull
    BY DEF Ballot, BallotOrNull
  <1>2. \A st \in S : Upholds(b, st)
    BY DEF Upholds
  <1>3. PICK c \in getPrepareCandidates(hint, sts), topVote \in hintBallots(hint) :
               /\ c \in BallotOrNull /\ UpTo(b, c) /\ UpTo(c, topVote)
               /\ \A st \in sts : \A x \in candidatesOf(topVote, st) : ~Within(b, x, c)
    BY <1>1, <1>2, LowestCandidate
  <1>4. topVote \in BallotOrNull
    BY HintBallots, Zenon
  <1>5. b.value = c.value
    BY <1>3 DEF UpTo
  <1>6. \A st \in S : Upholds(c, st)
    BY <1>1, <1>2, <1>3, <1>4, <1>5, UpheldBelow, Zenon
  <1>7. areBallotsLessAndCompatible(b, c)
    BY <1>1, <1>3, LessAndCompatible DEF UpTo
  <1> QED
    BY <1>6, <1>7 DEF Upholds

(* The same for those that accept b as prepared, whom a blocking set, or   *)
(* the quorum that confirms a prepared ballot, consists of.                *)
THEOREM CandidatesMissNoAcceptance ==
    ASSUME NEW sts, \A st \in sts : IsStatement(st), NEW S \in SUBSET sts,
           NEW hint \in S, NEW b \in Ballot,
           \A st \in S : hasPreparedBallot(b, st)
    PROVE  \E c \in getPrepareCandidates(hint, sts) :
               /\ areBallotsLessAndCompatible(b, c)
               /\ \A st \in S : hasPreparedBallot(c, st)
  <1>1. b \in BallotOrNull
    BY DEF Ballot, BallotOrNull
  <1>2. Upholds(b, hint)
    BY DEF Upholds
  <1>3. PICK c \in getPrepareCandidates(hint, sts), topVote \in hintBallots(hint) :
               /\ c \in BallotOrNull /\ UpTo(b, c) /\ UpTo(c, topVote)
               /\ \A st \in sts : \A x \in candidatesOf(topVote, st) : ~Within(b, x, c)
    BY <1>1, <1>2, LowestCandidate, Zenon
  <1>4. topVote \in BallotOrNull
    BY HintBallots
  <1>5. b.value = c.value
    BY <1>3 DEF UpTo
  <1>6. \A st \in S : hasPreparedBallot(c, st)
    BY <1>1, <1>3, <1>4, <1>5, AcceptedBelow, Zenon
  <1>7. areBallotsLessAndCompatible(b, c)
    BY <1>1, <1>3, LessAndCompatible DEF UpTo
  <1> QED
    BY <1>6, <1>7

(* The counter from which on st votes to commit.                           *)
commitsFrom(st) == CASE st.type = "PREPARE" -> st.nC
                     [] st.type = "CONFIRM" -> st.nCommit
                     [] st.type = "EXTERNALIZE" -> st.commit.counter

IsFloor(m, B, n) == m <= n /\ \A x \in B : x <= n => x <= m

LEMMA GreatestUpTo ==
    ASSUME NEW B \in SUBSET Nat, NEW n \in Nat, NEW a \in B, a <= n
    PROVE  \E m \in B : IsFloor(m, B, n)
  <1> DEFINE T == {n - x : x \in {y \in B : y <= n}}
  <1>1. T \in SUBSET Nat /\ n - a \in T
    OBVIOUS
  <1>2. PICK d \in T : \A e \in T : d <= e
    <2> HIDE DEF T
    <2> QED
      BY <1>1, LeastElement
  <1>3. PICK m \in B : m <= n /\ d = n - m
    OBVIOUS
  <1>4. ASSUME NEW x \in B, x <= n
        PROVE  x <= m
    <2>1. n - x \in T
      BY <1>4
    <2>2. n - m <= n - x
      BY <1>2, <1>3, <2>1
    <2> QED
      BY <1>3, <2>2
  <1> QED
    BY <1>3, <1>4 DEF IsFloor

LEMMA LeastFrom ==
    ASSUME NEW B \in SUBSET Nat, NEW n \in Nat, NEW a \in B, n <= a
    PROVE  \E m \in B : n <= m /\ \A x \in B : n <= x => m <= x
  <1> DEFINE T == {y \in B : n <= y}
  <1>1. T \in SUBSET Nat /\ a \in T
    BY Zenon
  <1>2. PICK m \in T : \A e \in T : m <= e
    <2> HIDE DEF T
    <2> QED
      BY <1>1, LeastElement
  <1> QED
    BY <1>2

LEMMA BoundariesAreCounters ==
    ASSUME NEW sts, \A st \in sts : IsStatement(st), NEW v
    PROVE  getCommitBoundariesFromStatements(v, sts) \in SUBSET Nat
  <1>1. Counter \subseteq Nat /\ UINT32_MAX \in Nat
    BY CounterAssumption DEF Counter
  <1>2. ASSUME NEW st \in sts
        PROVE  commitBoundariesOf(v, st) \subseteq Nat
    <2>1. CASE IsPrepare(st)
      BY <1>1, <2>1 DEF IsPrepare, commitBoundariesOf
    <2>2. CASE IsConfirm(st)
      BY <1>1, <2>2 DEF IsConfirm, commitBoundariesOf
    <2>3. CASE IsExternalize(st)
      BY <1>1, <2>3, BallotNumbers, Zenon DEF IsExternalize, commitBoundariesOf
    <2> QED
      BY <2>1, <2>2, <2>3 DEF IsStatement
  <1> QED
    BY <1>2 DEF getCommitBoundariesFromStatements

(* What one statement says of the boundaries around counters that it votes *)
(* to commit.                                                              *)
LEMMA VoteBoundary ==
    ASSUME NEW st, IsStatement(st), NEW v, NEW n \in Nat,
           votesCommit(v, n, n, st) \/ commitPredicate(v, n, n, st)
    PROVE  /\ commitsFrom(st) \in commitBoundariesOf(v, st)
           /\ commitsFrom(st) <= n
           /\ \A m \in Nat : commitsFrom(st) <= m /\ m <= n =>
                  votesCommit(v, m, m, st) \/ commitPredicate(v, m, m, st)
  <1>1. \A x \in Counter : x \in Nat
    BY CounterAssumption DEF Counter
  <1>2. CASE IsPrepare(st)
    <2>1. v = getWorkingValue(st) /\ st.nC # 0 /\ st.nC <= n /\ n <= st.nH
      BY <1>2 DEF IsPrepare, votesCommit, commitPredicate
    <2>2. commitsFrom(st) = st.nC
      BY <1>2 DEF IsPrepare, commitsFrom
    <2>3. st.nC \in commitBoundariesOf(v, st)
      BY <1>2, <2>1 DEF IsPrepare, commitBoundariesOf
    <2>4. ASSUME NEW m \in Nat, st.nC <= m, m <= n
          PROVE  votesCommit(v, m, m, st)
      <3>1. st.nH \in Nat
        BY <1>1, <1>2 DEF IsPrepare
      <3>2. m <= st.nH
        BY <2>1, <2>4, <3>1
      <3> QED
        BY <1>2, <2>1, <2>4, <3>2, Zenon DEF IsPrepare, votesCommit
    <2> QED
      BY <2>1, <2>2, <2>3, <2>4
  <1>3. CASE IsConfirm(st)
    <2>1. v = getWorkingValue(st) /\ st.nCommit <= n
      BY <1>3 DEF IsConfirm, votesCommit, commitPredicate
    <2>2. commitsFrom(st) = st.nCommit
      BY <1>3 DEF IsConfirm, commitsFrom
    <2>3. st.nCommit \in commitBoundariesOf(v, st)
      BY <1>3, <2>1 DEF IsConfirm, commitBoundariesOf
    <2>4. ASSUME NEW m \in Nat, st.nCommit <= m
          PROVE  votesCommit(v, m, m, st)
      BY <1>3, <2>1, <2>4, Zenon DEF IsConfirm, votesCommit
    <2> QED
      BY <2>1, <2>2, <2>3, <2>4
  <1>4. CASE IsExternalize(st)
    <2>1. v = getWorkingValue(st) /\ st.commit.counter <= n
      BY <1>4 DEF IsExternalize, votesCommit, commitPredicate
    <2>2. commitsFrom(st) = st.commit.counter
      BY <1>4 DEF IsExternalize, commitsFrom
    <2>3. st.commit.counter \in commitBoundariesOf(v, st)
      BY <1>4, <2>1 DEF IsExternalize, commitBoundariesOf
    <2>4. ASSUME NEW m \in Nat, st.commit.counter <= m
          PROVE  votesCommit(v, m, m, st)
      BY <1>4, <2>1, <2>4 DEF IsExternalize, votesCommit
    <2> QED
      BY <2>1, <2>2, <2>3, <2>4
  <1> QED
    BY <1>2, <1>3, <1>4 DEF IsStatement

(* The scan for counters to commit stops at boundaries only, and misses    *)
(* nothing by it: when some statements all vote for or accept the commit   *)
(* of v at a counter n, they do so at a boundary up to n, and it is not    *)
(* below the first counter that any of them votes to commit.               *)
THEOREM BoundariesMissNoVote ==
    ASSUME NEW sts, \A st \in sts : IsStatement(st), NEW S \in SUBSET sts,
           S # {}, NEW v, NEW n \in Counter,
           \A st \in S : votesCommit(v, n, n, st) \/ commitPredicate(v, n, n, st)
    PROVE  \E m \in getCommitBoundariesFromStatements(v, sts) :
               /\ m <= n
               /\ \A st \in S : /\ commitsFrom(st) <= m
                                 /\ \/ votesCommit(v, m, m, st)
                                    \/ commitPredicate(v, m, m, st)
  <1> DEFINE B == getCommitBoundariesFromStatements(v, sts)
  <1>1. B \in SUBSET Nat
    BY BoundariesAreCounters
  <1>2. n \in Nat
    BY CounterAssumption DEF Counter
  <1>3. ASSUME NEW st \in S
        PROVE  /\ commitsFrom(st) \in B /\ commitsFrom(st) <= n
               /\ \A m \in Nat : commitsFrom(st) <= m /\ m <= n =>
                      votesCommit(v, m, m, st) \/ commitPredicate(v, m, m, st)
    <2>1. IsStatement(st)
      OBVIOUS
    <2>2. /\ commitsFrom(st) \in commitBoundariesOf(v, st)
          /\ commitsFrom(st) <= n
          /\ \A m \in Nat : commitsFrom(st) <= m /\ m <= n =>
                 votesCommit(v, m, m, st) \/ commitPredicate(v, m, m, st)
      BY <1>2, <2>1, VoteBoundary
    <2> QED
      BY <2>2 DEF getCommitBoundariesFromStatements
  <1> HIDE DEF B
  <1>4. PICK m \in B : IsFloor(m, B, n)
    <2>1. PICK a \in B : a <= n
      BY <1>3, Zenon
    <2> QED
      BY <1>1, <1>2, <2>1, GreatestUpTo, Zenon
  <1>5. \A st \in S : commitsFrom(st) <= m
    BY <1>3, <1>4, Zenon DEF IsFloor
  <1>6. m \in Nat
    BY <1>1
  <1>7. \A st \in S : votesCommit(v, m, m, st) \/ commitPredicate(v, m, m, st)
    BY <1>3, <1>4, <1>5, <1>6, Zenon DEF IsFloor
  <1> QED
    BY <1>4, <1>5, <1>7, Zenon DEF B, IsFloor

(* The boundaries around counters that st accepts to commit.               *)
LEMMA AcceptBoundaries ==
    ASSUME NEW st, IsStatement(st), NEW v, NEW lo \in Counter, NEW hi \in Counter,
           commitPredicate(v, lo, hi, st)
    PROVE  \E to \in commitBoundariesOf(v, st) :
               /\ commitsFrom(st) \in commitBoundariesOf(v, st)
               /\ commitsFrom(st) <= lo /\ hi <= to
               /\ \A l, h \in Nat : commitsFrom(st) <= l /\ h <= to =>
                      commitPredicate(v, l, h, st)
  <1>1. hi <= UINT32_MAX
    BY CounterAssumption DEF Counter
  <1>2. CASE IsPrepare(st)
    BY <1>2 DEF IsPrepare, commitPredicate
  <1>3. CASE IsConfirm(st)
    <2>1. v = getWorkingValue(st) /\ st.nCommit <= lo /\ hi <= st.nH
      BY <1>3 DEF IsConfirm, commitPredicate
    <2>2. commitsFrom(st) = st.nCommit
      BY <1>3 DEF IsConfirm, commitsFrom
    <2>3. {st.nCommit, st.nH} = commitBoundariesOf(v, st)
      BY <1>3, <2>1 DEF IsConfirm, commitBoundariesOf
    <2>4. ASSUME NEW l \in Nat, NEW h \in Nat, st.nCommit <= l, h <= st.nH
          PROVE  commitPredicate(v, l, h, st)
      BY <1>3, <2>1, <2>4, Zenon DEF IsConfirm, commitPredicate
    <2> QED
      BY <2>1, <2>2, <2>3, <2>4
  <1>4. CASE IsExternalize(st)
    <2>1. v = getWorkingValue(st) /\ st.commit.counter <= lo
      BY <1>4 DEF IsExternalize, commitPredicate
    <2>2. commitsFrom(st) = st.commit.counter
      BY <1>4 DEF IsExternalize, commitsFrom
    <2>3. {st.commit.counter, st.nH, UINT32_MAX} = commitBoundariesOf(v, st)
      BY <1>4, <2>1 DEF IsExternalize, commitBoundariesOf
    <2>4. ASSUME NEW l \in Nat, NEW h \in Nat, st.commit.counter <= l
          PROVE  commitPredicate(v, l, h, st)
      BY <1>4, <2>1, <2>4 DEF IsExternalize, commitPredicate
    <2> QED
      BY <1>1, <2>1, <2>2, <2>3, <2>4
  <1> QED
    BY <1>2, <1>3, <1>4 DEF IsStatement

(* Every interval whose commit some statements all accept lies in one that *)
(* they all accept and that begins and ends at boundaries: no interval is  *)
(* lost because findExtendedInterval takes the ends of intervals from the  *)
(* boundaries only.                                                        *)
THEOREM BoundariesMissNoInterval ==
    ASSUME NEW sts, \A st \in sts : IsStatement(st), NEW S \in SUBSET sts,
           S # {}, NEW v, NEW lo \in Counter, NEW hi \in Counter,
           \A st \in S : commitPredicate(v, lo, hi, st)
    PROVE  \E l, h \in getCommitBoundariesFromStatements(v, sts) :
               /\ l <= lo /\ hi <= h
               /\ \A st \in S : commitsFrom(st) <= l /\ commitPredicate(v, l, h, st)
  <1> DEFINE B == getCommitBoundariesFromStatements(v, sts)
  <1>1. B \in SUBSET Nat
    BY BoundariesAreCounters
  <1>2. lo \in Nat /\ hi \in Nat
    BY CounterAssumption DEF Counter
  <1>3. ASSUME NEW st \in S
        PROVE  \E to \in B :
                  /\ commitsFrom(st) \in B
                  /\ commitsFrom(st) <= lo /\ hi <= to
                  /\ \A l, h \in Nat : commitsFrom(st) <= l /\ h <= to =>
                         commitPredicate(v, l, h, st)
    <2>1. IsStatement(st)
      OBVIOUS
    <2>2. PICK to \in commitBoundariesOf(v, st) :
               /\ commitsFrom(st) \in commitBoundariesOf(v, st)
               /\ commitsFrom(st) <= lo /\ hi <= to
               /\ \A l, h \in Nat : commitsFrom(st) <= l /\ h <= to =>
                      commitPredicate(v, l, h, st)
      BY <2>1, AcceptBoundaries
    <2>3. commitBoundariesOf(v, st) \subseteq B
      BY DEF getCommitBoundariesFromStatements
    <2> QED
      BY <2>2, <2>3, Zenon
  <1> HIDE DEF B
  <1>4. PICK l \in B : IsFloor(l, B, lo)
    <2>1. PICK a \in B : a <= lo
      BY <1>3, Zenon
    <2> QED
      BY <1>1, <1>2, <2>1, GreatestUpTo, Zenon
  <1>5. PICK h \in B : hi <= h /\ \A x \in B : hi <= x => h <= x
    <2>1. PICK a \in B : hi <= a
      BY <1>3, Zenon
    <2> QED
      BY <1>1, <1>2, <2>1, LeastFrom, Zenon
  <1>6. l \in Nat /\ h \in Nat
    BY <1>1
  <1>7. ASSUME NEW st \in S
        PROVE  commitsFrom(st) <= l /\ commitPredicate(v, l, h, st)
    BY <1>3, <1>4, <1>5, <1>6, Zenon DEF IsFloor
  <1> QED
    BY <1>4, <1>5, <1>7, Zenon DEF B, IsFloor
=============================================================================
