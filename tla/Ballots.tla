------------------------------ MODULE Ballots ------------------------------
(***************************************************************************)
(* Ballots, ballot-protocol statements and the predicates on them that     *)
(* src/src/scp/BallotProtocol.cpp evaluates.  Nothing here has state.      *)
(*                                                                         *)
(* A ballot is a record of a counter and a value.  Values are positive     *)
(* integers, ordered as the code orders the opaque byte strings; 0 is the  *)
(* empty value.  NullBallot is the default-constructed SCPBallot, and also *)
(* stands for an empty pointer: the code never stores a ballot whose       *)
(* counter is 0 behind one of its pointers (checkInvariants asserts it).   *)
(***************************************************************************)
EXTENDS Integers, FiniteSets

CONSTANTS
    Value,        \* the values proposed for the slot, positive integers
    UINT32_MAX    \* the largest counter: 2^32 - 1 in the code

EmptyValue == 0

ASSUME ValueAssumption == Value \subseteq Nat \ {EmptyValue}
ASSUME CounterAssumption == UINT32_MAX \in Nat \ {0}

Counter == 0..UINT32_MAX

Ballot == [counter : Counter \ {0}, value : Value]

SCPBallot(n, v) == [counter |-> n, value |-> v]

NullBallot == SCPBallot(0, EmptyValue)

(* compareBallots(b1, b2) < 0: by counter, then by value.  An empty        *)
(* pointer is smaller than every ballot, which NullBallot is too.          *)
Less(b1, b2) ==
    \/ b1.counter < b2.counter
    \/ b1.counter = b2.counter /\ b1.value < b2.value

LessEq(b1, b2) == Less(b1, b2) \/ b1 = b2

areBallotsCompatible(b1, b2) == b1.value = b2.value

areBallotsLessAndCompatible(b1, b2) ==
    LessEq(b1, b2) /\ areBallotsCompatible(b1, b2)

areBallotsLessAndIncompatible(b1, b2) ==
    LessEq(b1, b2) /\ ~areBallotsCompatible(b1, b2)

-----------------------------------------------------------------------------
(* Statements.  The quorum set of a statement is that of its sender.       *)

Prepare(n, b, p, pp, nC, nH) ==
    [type |-> "PREPARE", node |-> n, ballot |-> b, prepared |-> p,
     preparedPrime |-> pp, nC |-> nC, nH |-> nH]

Confirm(n, b, nPrepared, nCommit, nH) ==
    [type |-> "CONFIRM", node |-> n, ballot |-> b,
     nPrepared |-> nPrepared, nCommit |-> nCommit, nH |-> nH]

Externalize(n, c, nH) ==
    [type |-> "EXTERNALIZE", node |-> n, commit |-> c, nH |-> nH]

TypeRank(st) == CASE st.type = "PREPARE"     -> 0
                  [] st.type = "CONFIRM"     -> 1
                  [] st.type = "EXTERNALIZE" -> 2

(* The order on the statements of one node: lexicographic on               *)
(* (type, b, p, p', h), and EXTERNALIZE is final.                          *)
isNewerStatement(old, st) ==
    \/ TypeRank(old) < TypeRank(st)
    \/ /\ old.type = "CONFIRM" /\ st.type = "CONFIRM"
       /\ \/ Less(old.ballot, st.ballot)
          \/ /\ old.ballot = st.ballot
             /\ \/ old.nPrepared < st.nPrepared
                \/ old.nPrepared = st.nPrepared /\ old.nH < st.nH
    \/ /\ old.type = "PREPARE" /\ st.type = "PREPARE"
       /\ \/ Less(old.ballot, st.ballot)
          \/ /\ old.ballot = st.ballot
             /\ \/ Less(old.prepared, st.prepared)
                \/ /\ old.prepared = st.prepared
                   /\ \/ Less(old.preparedPrime, st.preparedPrime)
                      \/ /\ old.preparedPrime = st.preparedPrime
                         /\ old.nH < st.nH

(* The checks on the pledges; the quorum sets of the model are sane.       *)
isStatementSane(st, self) ==
    CASE st.type = "PREPARE" ->
            /\ self \/ st.ballot.counter > 0
            /\ \/ NullBallot \in {st.prepared, st.preparedPrime}
               \/ areBallotsLessAndIncompatible(st.preparedPrime, st.prepared)
            /\ \/ st.nH = 0
               \/ st.prepared # NullBallot /\ st.nH <= st.prepared.counter
            /\ \/ st.nC = 0
               \/ /\ st.nH # 0
                  /\ st.ballot.counter >= st.nH
                  /\ st.nH >= st.nC
      [] st.type = "CONFIRM" ->
            /\ st.ballot.counter > 0
            /\ st.nH <= st.ballot.counter
            /\ st.nCommit <= st.nH
      [] st.type = "EXTERNALIZE" ->
            /\ st.commit.counter > 0
            /\ st.nH >= st.commit.counter

(* The value the statement is about; only the value of the code's working  *)
(* ballot is ever used.                                                    *)
getWorkingValue(st) ==
    IF st.type = "EXTERNALIZE" THEN st.commit.value ELSE st.ballot.value

(* The values that validateValues passes to the driver.                    *)
valuesToValidate(st) ==
    IF st.type = "PREPARE"
    THEN {b.value : b \in {st.ballot, st.prepared} \ {NullBallot}}
    ELSE {getWorkingValue(st)}

-----------------------------------------------------------------------------
(* What a statement says of a ballot.                                      *)

(* st votes to prepare the ballot (the first argument of federatedAccept   *)
(* in attemptPreparedAccept).                                              *)
votesPrepare(ballot, st) ==
    IF st.type = "PREPARE"
    THEN areBallotsLessAndCompatible(ballot, st.ballot)
    ELSE ballot.value = getWorkingValue(st)

(* st accepts the ballot as prepared.                                      *)
hasPreparedBallot(ballot, st) ==
    CASE st.type = "PREPARE" ->
            \E p \in {st.prepared, st.preparedPrime} \ {NullBallot} :
                areBallotsLessAndCompatible(ballot, p)
      [] st.type = "CONFIRM" ->
            areBallotsLessAndCompatible(
                ballot, SCPBallot(st.nPrepared, st.ballot.value))
      [] st.type = "EXTERNALIZE" -> areBallotsCompatible(ballot, st.commit)

(* st votes to commit value v at every counter from lo to hi.              *)
votesCommit(v, lo, hi, st) ==
    /\ v = getWorkingValue(st)
    /\ CASE st.type = "PREPARE" -> st.nC # 0 /\ st.nC <= lo /\ hi <= st.nH
         [] st.type = "CONFIRM" -> st.nCommit <= lo
         [] st.type = "EXTERNALIZE" -> st.commit.counter <= lo

(* st accepts the commit of value v at every counter from lo to hi.        *)
commitPredicate(v, lo, hi, st) ==
    /\ v = getWorkingValue(st)
    /\ CASE st.type = "PREPARE" -> FALSE
         [] st.type = "CONFIRM" -> st.nCommit <= lo /\ hi <= st.nH
         [] st.type = "EXTERNALIZE" -> st.commit.counter <= lo

(* st is at a counter above n, for attemptBump.                            *)
isAheadOf(n, st) ==
    IF st.type = "EXTERNALIZE" THEN n # UINT32_MAX ELSE n < st.ballot.counter

statementCounter(st) ==
    IF st.type = "EXTERNALIZE" THEN UINT32_MAX ELSE st.ballot.counter

(* The ballots of the hint that getPrepareCandidates starts from.          *)
hintBallots(hint) ==
    CASE hint.type = "PREPARE" ->
            {hint.ballot} \cup ({hint.prepared, hint.preparedPrime}
                                    \ {NullBallot})
      [] hint.type = "CONFIRM" ->
            {SCPBallot(n, hint.ballot.value) :
                n \in {hint.nPrepared, UINT32_MAX}}
      [] hint.type = "EXTERNALIZE" ->
            {SCPBallot(UINT32_MAX, hint.commit.value)}

(* The ballots of statement st that may be prepared, given a top vote.     *)
candidatesOf(topVote, st) ==
    CASE st.type = "PREPARE" ->
            {b \in {st.ballot} \cup ({st.prepared, st.preparedPrime}
                                         \ {NullBallot}) :
                areBallotsLessAndCompatible(b, topVote)}
      [] OTHER ->
            IF topVote.value # getWorkingValue(st) THEN {}
            ELSE {topVote} \cup
                 IF st.type = "CONFIRM" /\ st.nPrepared < topVote.counter
                 THEN {SCPBallot(st.nPrepared, topVote.value)} ELSE {}

getPrepareCandidates(hint, sts) ==
    UNION {candidatesOf(topVote, st) : topVote \in hintBallots(hint),
                                       st \in sts}

(* The counters at which the set of statements may start or stop           *)
(* committing value v.                                                     *)
commitBoundariesOf(v, st) ==
    IF v # getWorkingValue(st) THEN {}
    ELSE CASE st.type = "PREPARE" ->
                    IF st.nC = 0 THEN {} ELSE {st.nC, st.nH}
           [] st.type = "CONFIRM" -> {st.nCommit, st.nH}
           [] st.type = "EXTERNALIZE" ->
                    {st.commit.counter, st.nH, UINT32_MAX}

getCommitBoundariesFromStatements(v, sts) ==
    UNION {commitBoundariesOf(v, st) : st \in sts}
=============================================================================
