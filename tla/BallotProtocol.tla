-------------------------- MODULE BallotProtocol --------------------------
(***************************************************************************)
(* One slot of the ballot protocol on every node of a network:             *)
(* src/src/scp/BallotProtocol.cpp, with the parts of Slot.cpp that it      *)
(* calls.                                                                  *)
(*                                                                         *)
(* The code is single threaded and a handler runs to completion, so every  *)
(* handler is one action: an envelope is received, the ballot timer        *)
(* expires, nomination hands over a new composite candidate, the process   *)
(* restarts.  A handler re-enters advanceSlot for every statement the node *)
(* makes, with that statement as the new hint; the operators below thread  *)
(* the node's state through those nested calls, "lvl" being                *)
(* mCurrentMessageLevel at the time of the call.                           *)
(*                                                                         *)
(* A failed dbgAssert calls abort() (the default build does not define     *)
(* NDEBUG) and the exceptions thrown here reach no handler: both end the   *)
(* process, and the field "fault" says at which check.                     *)
(*                                                                         *)
(* An operator whose name ends in a word after "_" is a faulty variant of  *)
(* the definition that follows it, kept to show that a property notices.   *)
(*                                                                         *)
(* The network is the set of envelopes ever emitted.  An envelope may be   *)
(* delivered late, in any order, many times or never.                      *)
(***************************************************************************)
EXTENDS Ballots, QuorumSets

CONSTANTS
    Node,                 \* the nodes
    QSet,                 \* [Node -> quorum set]
    ValidationLevel,      \* [Node -> [Value -> level]], see validateValue
    CombineCandidates(_), \* the driver's combineCandidates
    CandidateSets,        \* bound: [Node -> candidate sets nomination finds]
    MaxCounter,           \* bound: [Node -> counter the node's timer stops at]
    MayRestart            \* the nodes that may crash and restart

MAX_ADVANCE_SLOT_RECURSION == 50

ASSUME QSetAssumption == DOMAIN QSet = Node
ASSUME MaxCounterAssumption == MaxCounter \in [Node -> 0..(UINT32_MAX - 1)]
ASSUME CandidateAssumption == \A n \in Node : {} \notin CandidateSets[n]

VARIABLES
    node,      \* [Node -> state of the node's BallotProtocol object]
    sent       \* the envelopes emitted so far

vars == <<node, sent>>

NoStatement == [type |-> "NONE"]

-----------------------------------------------------------------------------
(* The state of one BallotProtocol object.                                 *)

InitialState(n) ==
    [ self      |-> n,
      phase     |-> "PREPARE",               \* mPhase
      b         |-> NullBallot,              \* mCurrentBallot
      p         |-> NullBallot,              \* mPrepared
      pp        |-> NullBallot,              \* mPreparedPrime
      h         |-> NullBallot,              \* mHighBallot
      c         |-> NullBallot,              \* mCommit
      M         |-> [m \in Node |-> NoStatement],   \* mLatestEnvelopes
      heard     |-> TRUE,                    \* mHeardFromQuorum
      timer     |-> FALSE,                   \* the ballot timer is armed
      last      |-> NoStatement,             \* mLastEnvelope
      emit      |-> NoStatement,             \* mLastEnvelopeEmit, persisted
      validated |-> TRUE,                    \* mSlot.mFullyValidated
      cands     |-> {},                      \* nomination's mCandidates
      closed    |-> FALSE,                   \* the slot's ledger is closed, persisted
      fault     |-> "none",                  \* the check that ended the process
      (* During a handler: what it emitted and externalized, the own        *)
      (* statements that it recorded, and advanceSlot's didWork             *)
      out |-> {}, ext |-> {}, log |-> <<>>, did |-> FALSE ]

(* After a handler; a process that ended keeps only what it persisted.     *)
End(w) == IF w.fault = "none"
          THEN [w EXCEPT !.out = {}, !.ext = {}, !.log = <<>>, !.did = FALSE]
          ELSE [InitialState(w.self) EXCEPT !.fault = w.fault, !.emit = w.emit,
                                            !.closed = w.closed]

Abort(w, check) == [w EXCEPT !.fault = check]

Up(w) == w.fault = "none"

Known(w) == {w.M[m] : m \in Node} \ {NoStatement}

Heard(w) == {m \in Node : w.M[m] # NoStatement}

(* The quorum set of a statement is the sender's, or the sender alone once *)
(* it externalized; here as the sets of nodes that satisfy it.             *)
Slices == [n \in Node |-> slicesOf(QSet[n], Node)]
SingletonSlices == [n \in Node |-> slicesOf(singletonQSet(n), Node)]
BlockingSets == [n \in Node |-> blockingSetsOf(QSet[n], Node)]

getQuorumSetFromStatement(st) ==
    IF st.type = "EXTERNALIZE" THEN SingletonSlices[st.node]
                               ELSE Slices[st.node]

isQuorum(w, S) ==
    quorumFixpoint(S, [m \in S |-> getQuorumSetFromStatement(w.M[m])])
        \in Slices[w.self]

(* The v-blocking test dropped.                                            *)
federatedAccept_quorum(w, voted, accepted) == isQuorum(w, accepted \cup voted)

federatedAccept(w, voted, accepted) ==
    \/ accepted \in BlockingSets[w.self]
    \/ isQuorum(w, accepted \cup voted)

(* The two tests mixed up.                                                 *)
federatedRatify_blocking(w, voted) == voted \in BlockingSets[w.self]

federatedRatify(w, voted) == isQuorum(w, voted)

Highest(B) == CHOOSE b \in B : \A a \in B : LessEq(a, b)
Lowest(B) == CHOOSE b \in B : \A a \in B : LessEq(b, a)

-----------------------------------------------------------------------------
(* Assertions.                                                             *)

checkInvariants(w) ==
    /\ w.b # NullBallot => w.b.counter # 0
    /\ NullBallot \notin {w.p, w.pp} =>
            areBallotsLessAndIncompatible(w.pp, w.p)
    /\ w.c # NullBallot =>
            /\ w.b # NullBallot
            /\ areBallotsLessAndCompatible(w.c, w.h)
            /\ areBallotsLessAndCompatible(w.h, w.b)
    /\ w.phase = "CONFIRM" => w.c # NullBallot
    /\ w.phase = "EXTERNALIZE" => NullBallot \notin {w.c, w.h}

(* createStatement dereferences p for a CONFIRM statement.                 *)
canCreateStatement(w) ==
    /\ w.phase # "PREPARE" => areBallotsLessAndCompatible(w.c, w.h)
    /\ w.phase = "CONFIRM" => NullBallot \notin {w.b, w.p}

createStatement(w) ==
    CASE w.phase = "PREPARE" ->
            Prepare(w.self, w.b, w.p, w.pp, w.c.counter, w.h.counter)
      [] w.phase = "CONFIRM" ->
            Confirm(w.self, w.b, w.p.counter, w.c.counter, w.h.counter)
      [] w.phase = "EXTERNALIZE" ->
            Externalize(w.self, w.c, w.h.counter)

-----------------------------------------------------------------------------
(* The current ballot and its timer.                                       *)

(* The herder sets up no timer for a slot whose ledger is closed.          *)
bumpToBallot(w, ballot, check) ==
    IF \/ w.phase = "EXTERNALIZE"
       \/ check /\ w.b # NullBallot /\ Less(ballot, w.b)
    THEN Abort(w, "bumpToBallot")
    ELSE [w EXCEPT !.b = ballot, !.heard = FALSE,
                   !.timer = ~w.closed /\ (w.timer \/ w.b # ballot)]

updateCurrentIfNeeded(w) ==
    IF Less(w.b, w.h) THEN bumpToBallot(w, w.h, TRUE) ELSE w

(* The statement that the driver's validateValue calls make of st: the     *)
(* last value, in the order of the set, that is not fully valid decides.   *)
(* Once the ledger is closed the driver calls every value maybe valid.     *)
validateValues(w, st) ==
    LET level == IF w.closed THEN [v \in Value |-> "maybeValid"]
                             ELSE ValidationLevel[w.self]
        bad == {v \in valuesToValidate(st) : level[v] # "fullyValidated"}
    IN  IF bad = {} THEN "fullyValidated"
        ELSE level[CHOOSE v \in bad : \A u \in bad : u <= v]

recordEnvelope(w, st) ==
    [w EXCEPT !.M[st.node] = st,
              !.log = IF st.node = w.self THEN Append(@, st) ELSE @]

sendLatestEnvelope(w, lvl) ==
    IF lvl = 0 /\ w.last # NoStatement /\ w.validated /\ w.last # w.emit
    THEN [w EXCEPT !.emit = w.last, !.out = @ \cup {w.last}]
    ELSE w

-----------------------------------------------------------------------------
(* The nested part: recording a statement advances the slot, which may     *)
(* make further statements.                                                *)

RECURSIVE advanceSlot(_, _, _)

isNews(w, st) ==
    w.M[st.node] # NoStatement => isNewerStatement(w.M[st.node], st)

(* A statement that is not recorded is ignored, unless it is the node's    *)
(* own: emitCurrentStateStatement then throws ("moved to a bad state").    *)
processEnvelope(w, st, self, lvl) ==
    LET level == validateValues(w, st)
        accept == /\ isStatementSane(st, self)
                  /\ isNews(w, st)
                  /\ level # "invalid"
                  /\ w.phase = "EXTERNALIZE" =>
                        w.c.value = getWorkingValue(st)
    IN  IF ~accept THEN IF self THEN Abort(w, "bad state") ELSE w
        ELSE IF w.phase = "EXTERNALIZE" THEN recordEnvelope(w, st)
        ELSE advanceSlot(
                recordEnvelope([w EXCEPT !.validated =
                                    @ /\ level # "maybeValid"], st),
                st, lvl)

(* The statement st was processed in state r; canEmit says whether the     *)
(* node had a ballot when it made st.                                      *)
keepLastEnvelope(r, st, canEmit, lvl) ==
    IF /\ Up(r)
       /\ canEmit
       /\ r.last = NoStatement \/ isNewerStatement(r.last, st)
    THEN sendLatestEnvelope([r EXCEPT !.last = st], lvl)
    ELSE r

emitStatement(w, st, lvl) ==
    IF w.M[w.self] = st THEN w
    ELSE keepLastEnvelope(processEnvelope(w, st, TRUE, lvl), st,
                          w.b # NullBallot, lvl)

emitCurrentStateStatement(w, lvl) ==
    IF ~Up(w) THEN w
    ELSE IF ~checkInvariants(w) THEN Abort(w, "checkInvariants")
    ELSE IF ~canCreateStatement(w) THEN Abort(w, "createStatement")
    ELSE emitStatement(w, createStatement(w), lvl)

(* The end of every set... function: make a statement, report work done.   *)
didWork(w, lvl) == [emitCurrentStateStatement(w, lvl) EXCEPT !.did = TRUE]

-----------------------------------------------------------------------------
(* Bumping the ballot.                                                     *)

checked(w) == IF checkInvariants(w) THEN w ELSE Abort(w, "checkInvariants")

updateCurrentValue(w, ballot) ==
    IF Less(ballot, w.b) THEN Abort(w, "updateCurrentValue")
    ELSE IF w.c # NullBallot /\ ~areBallotsCompatible(w.c, ballot) THEN w
    ELSE IF w.b = ballot THEN checked(w)
    ELSE checked(bumpToBallot(w, ballot, TRUE))

(* The current ballot was updated iff it is another one than before.       *)
emitIfUpdated(u, before, lvl) ==
    IF Up(u) /\ u.b # before THEN didWork(u, lvl) ELSE u

bumpState(w, value, n, lvl) ==
    LET newb == SCPBallot(n, IF w.h # NullBallot THEN w.h.value ELSE value)
    IN  IF w.phase = "EXTERNALIZE" THEN w
        ELSE emitIfUpdated(updateCurrentValue(w, newb), w.b, lvl)

(* The counter of bumpState(value, force), a 32-bit increment.             *)
nextCounter(w) == (w.b.counter + 1) % (UINT32_MAX + 1)

getLatestCompositeCandidate(w) ==
    IF w.cands = {} THEN EmptyValue ELSE CombineCandidates(w.cands)

abandonBallot(w, n, lvl) ==
    LET composite == getLatestCompositeCandidate(w)
        v == IF composite = EmptyValue THEN w.b.value ELSE composite
    IN  IF v = EmptyValue THEN w
        ELSE bumpState(w, v, IF n = 0 THEN nextCounter(w) ELSE n, lvl)

(* The counters are scanned upwards and the scan stops at the first one    *)
(* below the node's own.                                                   *)
attemptBump(w, lvl) ==
    LET target == w.b.counter
        counters == {statementCounter(st) : st \in Known(w)} \cup {target}
        blockedAt(n) == {m \in Heard(w) : isAheadOf(n, w.M[m])}
                            \in BlockingSets[w.self]
        free == {n \in counters : n > target /\ ~blockedAt(n)}
    IN  IF \/ w.phase = "EXTERNALIZE"
           \/ \E n \in counters : n < target
           \/ ~blockedAt(target)
           \/ free = {}
        THEN w
        ELSE abandonBallot(w, CHOOSE n \in free : \A m \in free : n <= m, lvl)

(* attemptBump is repeated until it does no work.  Here r is the state     *)
(* after an attempt, and "did" says whether work was done before it.       *)
RECURSIVE bumpAgain(_, _, _)
bumpAgain(r, did, lvl) ==
    IF Up(r) /\ r.did
    THEN bumpAgain(attemptBump([r EXCEPT !.did = FALSE], lvl), TRUE, lvl)
    ELSE [r EXCEPT !.did = did]

bumpLoop(w, lvl) ==
    IF Up(w) /\ lvl = 1
    THEN bumpAgain(attemptBump([w EXCEPT !.did = FALSE], lvl), w.did, lvl)
    ELSE w

-----------------------------------------------------------------------------
(* Accept a ballot as prepared.                                            *)

setPrepared(w, ballot) ==
    IF w.p = NullBallot THEN [w EXCEPT !.p = ballot]
    ELSE IF Less(w.p, ballot) THEN
        [w EXCEPT !.p = ballot,
                  !.pp = IF areBallotsCompatible(w.p, ballot) THEN @
                                                              ELSE w.p]
    ELSE IF Less(ballot, w.p) /\ Less(w.pp, ballot) THEN
        [w EXCEPT !.pp = ballot]
    ELSE w

(* A node that accepted that h is aborted votes to commit no longer.       *)
clearCommit(s) ==
    IF /\ NullBallot \notin {s.c, s.h}
       /\ \E x \in {s.p, s.pp} \ {NullBallot} :
              areBallotsLessAndIncompatible(s.h, x)
    THEN IF s.phase = "PREPARE" THEN [s EXCEPT !.c = NullBallot]
                                ELSE Abort(s, "setPreparedAccept")
    ELSE s

emitIfChanged(s, w, lvl) == IF s = w THEN w ELSE didWork(s, lvl)

setPreparedAccept(w, ballot, lvl) ==
    emitIfChanged(clearCommit(setPrepared(w, ballot)), w, lvl)

attemptPreparedAccept(w, hint, lvl) ==
    LET considered ==
            {ballot \in getPrepareCandidates(hint, Known(w)) :
                w.phase = "CONFIRM" =>
                    areBallotsLessAndCompatible(w.p, ballot)}
        open == {ballot \in considered :
                    /\ w.pp = NullBallot \/ Less(w.pp, ballot)
                    /\ \/ w.p = NullBallot
                       \/ ~areBallotsLessAndCompatible(ballot, w.p)}
        accepted == {ballot \in open :
                        federatedAccept(w,
                            {m \in Heard(w) : votesPrepare(ballot, w.M[m])},
                            {m \in Heard(w) : hasPreparedBallot(ballot, w.M[m])})}
    IN  IF ~Up(w) \/ w.phase = "EXTERNALIZE" THEN w
        ELSE IF /\ w.phase = "CONFIRM"
                /\ considered # {}
                /\ ~areBallotsCompatible(w.c, w.p)
        THEN Abort(w, "attemptPreparedAccept")
        ELSE IF accepted = {} THEN w
        ELSE setPreparedAccept(w, Highest(accepted), lvl)

(* Confirm a ballot as prepared: raise h, and vote to commit from c.       *)

setPreparedConfirmed(w, newC, newH, lvl) ==
    LET raise == Less(w.h, newH)
        s == [w EXCEPT !.h = IF raise THEN newH ELSE @,
                       !.c = IF newC # NullBallot THEN newC ELSE @]
    IN  IF newC # NullBallot /\ w.c # NullBallot
        THEN Abort(w, "setPreparedConfirmed")
        ELSE IF raise \/ newC # NullBallot
        THEN didWork(updateCurrentIfNeeded(s), lvl)
        ELSE w

(* The node may vote to commit up to newH: it has not voted to commit yet  *)
(* and did not accept that newH is aborted.                                *)
mayVoteCommit_again(w, newH) ==
    \A x \in {w.p, w.pp} \ {NullBallot} :
        ~areBallotsLessAndIncompatible(newH, x)

mayVoteCommit(w, newH) ==
    /\ w.c = NullBallot
    /\ \A x \in {w.p, w.pp} \ {NullBallot} :
            ~areBallotsLessAndIncompatible(newH, x)

(* newC is the lowest ballot that the downward scan from newH reaches; the *)
(* scan looks at every candidate, whatever its value.                      *)
attemptPreparedConfirmed(w, hint, lvl) ==
    LET candidates == getPrepareCandidates(hint, Known(w))
        ratified(ballot) ==
            federatedRatify(w, {m \in Heard(w) : hasPreparedBallot(ballot, w.M[m])})
        raising == {ballot \in candidates :
                        Less(w.h, ballot) /\ ratified(ballot)}
        newH == Highest(raising)
        below == {ballot \in candidates : LessEq(ballot, newH)}
        reached == {ballot \in below :
                        \A x \in below : LessEq(ballot, x) =>
                            LessEq(w.b, x) /\ ratified(x)}
        newC == IF mayVoteCommit(w, newH) /\ reached # {}
                THEN Lowest(reached) ELSE NullBallot
    IN  IF ~Up(w) \/ w.phase # "PREPARE" \/ w.p = NullBallot \/ raising = {}
        THEN w
        ELSE setPreparedConfirmed(w, newC, newH, lvl)

-----------------------------------------------------------------------------
(* Accept and confirm the commit of an interval of counters.               *)

(* The interval that the downward scan of the boundaries ends with, as a   *)
(* pair; <<0, 0>> if there is none.  intervals are those that satisfy the  *)
(* predicate of the code.                                                  *)
findExtendedInterval(boundaries, intervals) ==
    LET tops == {x \in boundaries : <<x, x>> \in intervals}
        hi == CHOOSE x \in tops : \A y \in tops : y <= x
        los == {x \in boundaries :
                    /\ x <= hi
                    /\ \A y \in boundaries : y \in x..hi => <<y, hi>> \in intervals}
        lo == CHOOSE x \in los : \A y \in los : x <= y
    IN  IF tops = {} THEN <<0, 0>> ELSE <<lo, hi>>

setAcceptCommit(w, c, h, lvl) ==
    LET enter == w.phase = "PREPARE"
        s1 == [w EXCEPT !.c = c, !.h = h]
        s2 == IF ~enter THEN s1
              ELSE LET s == [s1 EXCEPT !.phase = "CONFIRM"]
                   IN  [IF /\ s.b # NullBallot
                           /\ ~areBallotsLessAndCompatible(h, s.b)
                        THEN bumpToBallot(s, h, FALSE) ELSE s
                            EXCEPT !.pp = NullBallot]
    IN  IF enter \/ w.h # h \/ w.c # c
        THEN didWork(updateCurrentIfNeeded(s2), lvl)
        ELSE w

attemptAcceptCommit(w, hint, lvl) ==
    LET v == getWorkingValue(hint)
        boundaries == getCommitBoundariesFromStatements(v, Known(w))
        intervals == {<<lo, hi>> \in boundaries \X boundaries :
            federatedAccept(w, {m \in Heard(w) : votesCommit(v, lo, hi, w.M[m])},
                               {m \in Heard(w) : commitPredicate(v, lo, hi, w.M[m])})}
        found == findExtendedInterval(boundaries, intervals)
    IN  IF \/ ~Up(w)
           \/ w.phase = "EXTERNALIZE"
           \/ hint.type = "PREPARE" /\ hint.nC = 0
           \/ w.phase = "CONFIRM" /\ v # w.h.value
           \/ found[1] = 0
           \/ w.phase = "CONFIRM" /\ found[2] <= w.h.counter
        THEN w
        ELSE setAcceptCommit(w, SCPBallot(found[1], v),
                                SCPBallot(found[2], v), lvl)

(* The driver's valueExternalized cancels the slot's timers and closes the *)
(* ledger.                                                                 *)
valueExternalized(r) ==
    IF ~Up(r) THEN r
    ELSE [r EXCEPT !.ext = @ \cup {r.c.value}, !.timer = FALSE, !.closed = TRUE]

setConfirmCommit(w, c, h, lvl) ==
    LET s == updateCurrentIfNeeded([w EXCEPT !.c = c, !.h = h])
    IN  valueExternalized(didWork([s EXCEPT !.phase = "EXTERNALIZE"], lvl))

attemptConfirmCommit(w, hint, lvl) ==
    LET v == getWorkingValue(hint)
        boundaries == getCommitBoundariesFromStatements(v, Known(w))
        intervals == {<<lo, hi>> \in boundaries \X boundaries :
            federatedRatify(w, {m \in Heard(w) : commitPredicate(v, lo, hi, w.M[m])})}
        found == findExtendedInterval(boundaries, intervals)
    IN  IF \/ ~Up(w)
           \/ w.phase # "CONFIRM"
           \/ NullBallot \in {w.h, w.c}
           \/ hint.type = "PREPARE"
           \/ v # w.c.value
           \/ found[1] = 0
        THEN w
        ELSE setConfirmCommit(w, SCPBallot(found[1], v),
                                 SCPBallot(found[2], v), lvl)

-----------------------------------------------------------------------------
(* The counters compared strictly.                                         *)
checkHeardFromQuorum_above(w) ==
    LET reached(st) == \/ st.type # "PREPARE"
                       \/ w.b.counter < st.ballot.counter
    IN  IF ~w.heard /\ w.b # NullBallot /\ isQuorum(w, {m \in Heard(w) : reached(w.M[m])})
        THEN [w EXCEPT !.heard = TRUE] ELSE w

checkHeardFromQuorum(w) ==
    LET reached(st) == \/ st.type # "PREPARE"
                       \/ w.b.counter <= st.ballot.counter
    IN  IF ~w.heard /\ w.b # NullBallot /\ isQuorum(w, {m \in Heard(w) : reached(w.M[m])})
        THEN [w EXCEPT !.heard = TRUE] ELSE w

(* The attempts are made in this order, all with the hint of this call,    *)
(* while the statements they make advance the slot one level deeper.       *)
attemptAll(w, hint, level) ==
    bumpLoop(
        attemptConfirmCommit(
            attemptAcceptCommit(
                attemptPreparedConfirmed(
                    attemptPreparedAccept(
                        checkHeardFromQuorum([w EXCEPT !.did = FALSE]),
                        hint, level),
                    hint, level),
                hint, level),
            hint, level),
        level)

sendIfDidWork(r, lvl) ==
    IF Up(r) /\ r.did THEN sendLatestEnvelope(r, lvl) ELSE r

(* The level decremented only after the attempt to send.                   *)
advanceSlot_early(w, hint, lvl) == attemptAll(w, hint, lvl + 1)

advanceSlot(w, hint, lvl) ==
    IF lvl + 1 >= MAX_ADVANCE_SLOT_RECURSION THEN Abort(w, "advanceSlot")
    ELSE sendIfDidWork(attemptAll(w, hint, lvl + 1), lvl)

-----------------------------------------------------------------------------
(* The handlers.                                                           *)

ballotProtocolTimerExpired(w) ==
    IF w.heard THEN abandonBallot([w EXCEPT !.timer = FALSE], 0, 0) ELSE w

(* Nomination found new candidates: it recomputes the composite value and  *)
(* starts the ballot protocol if that has not happened yet.                *)
updatedCandidateValue(w, C) ==
    LET s == [w EXCEPT !.cands = C]
    IN  IF w.b # NullBallot THEN s
        ELSE bumpState(s, CombineCandidates(C), nextCounter(w), 0)

(* A process starts with what was persisted when it last emitted.          *)
restored_lost(n, st, b, p, pp, h, c, phase) ==
    [InitialState(n) EXCEPT !.emit = st]

restored(n, st, b, p, pp, h, c, phase) ==
    [InitialState(n) EXCEPT
        !.b = b, !.p = p, !.pp = pp, !.h = h, !.c = c,
        !.phase = phase, !.heard = FALSE, !.timer = TRUE,
        !.M[n] = st, !.last = st, !.emit = st]

(* A counter of 0 stands for no ballot.                                    *)
ballotAt(k, v) == IF k = 0 THEN NullBallot ELSE SCPBallot(k, v)

setStateFromEnvelope(n, st) ==
    CASE st.type = "NONE" -> InitialState(n)
      [] st.type = "PREPARE" ->
            restored(n, st, st.ballot, st.prepared, st.preparedPrime,
                     ballotAt(st.nH, st.ballot.value),
                     ballotAt(st.nC, st.ballot.value), "PREPARE")
      [] st.type = "CONFIRM" ->
            restored(n, st, st.ballot,
                     SCPBallot(st.nPrepared, st.ballot.value), NullBallot,
                     SCPBallot(st.nH, st.ballot.value),
                     SCPBallot(st.nCommit, st.ballot.value), "CONFIRM")
      [] st.type = "EXTERNALIZE" ->
            restored(n, st, SCPBallot(UINT32_MAX, st.commit.value),
                     SCPBallot(UINT32_MAX, st.commit.value), NullBallot,
                     SCPBallot(st.nH, st.commit.value),
                     st.commit, "EXTERNALIZE")

(* The effect of a handler of node n that ends in state w.  A handler that *)
(* externalizes closes the ledger before it persists and emits its         *)
(* EXTERNALIZE envelope: the process may end between the two.              *)
Finish(n, w) ==
    \/ /\ node' = [node EXCEPT ![n] = End(w)]
       /\ sent' = sent \cup w.out
    \/ /\ n \in MayRestart
       /\ w.ext # {}
       /\ node' = [node EXCEPT ![n] =
                     End(Abort([w EXCEPT !.emit = node[n].emit], "crash"))]
       /\ UNCHANGED sent

Init ==
    /\ node = [n \in Node |-> InitialState(n)]
    /\ sent = {}

(* A stale statement is ignored.                                           *)
Receive(n, st) ==
    /\ Up(node[n])
    /\ isNews(node[n], st)
    /\ Finish(n, processEnvelope(node[n], st, FALSE, 0))

TimerExpired(n) ==
    /\ Up(node[n])
    /\ node[n].timer
    /\ node[n].b.counter < MaxCounter[n] \/ node[n].b.counter = UINT32_MAX
    /\ Finish(n, ballotProtocolTimerExpired(node[n]))

(* Nomination runs until the slot externalizes (stopNomination), is not    *)
(* started for a slot whose ledger is closed, and its candidates only grow *)
NewCandidates(n, C) ==
    /\ Up(node[n])
    /\ ~node[n].closed
    /\ node[n].cands \subseteq C
    /\ node[n].cands # C
    /\ Finish(n, updatedCandidateValue(node[n], C))

(* The process ends at any time, or has ended, and is started again.       *)
Restart(n) ==
    /\ n \in MayRestart
    /\ node' = [node EXCEPT ![n] =
                    [setStateFromEnvelope(n, node[n].emit) EXCEPT
                        !.closed = node[n].closed,
                        !.timer = @ /\ ~node[n].closed]]
    /\ UNCHANGED sent

Next ==
    \E n \in Node :
        \/ \E st \in sent : Receive(n, st)
        \/ TimerExpired(n)
        \/ \E C \in CandidateSets[n] : NewCandidates(n, C)
        \/ Restart(n)

Spec == Init /\ [][Next]_vars

(* Weak fairness, with the enabling conditions written out: the overlay    *)
(* delivers, and the herder rebroadcasts, the latest envelopes until they  *)
(* arrive; an armed timer expires.                                         *)
CanReceive(n) ==
    /\ Up(node[n])
    /\ \E st \in sent :
        /\ isNews(node[n], st)
        /\ processEnvelope(node[n], st, FALSE, 0) # node[n]

CanExpire(n) ==
    /\ Up(node[n]) /\ node[n].timer /\ node[n].heard
    /\ node[n].b.counter < MaxCounter[n]

Fairness ==
    \A n \in Node :
        /\ <>[]CanReceive(n) => []<><<\E st \in sent : Receive(n, st)>>_vars
        /\ <>[]CanExpire(n) => []<><<TimerExpired(n)>>_vars

-----------------------------------------------------------------------------
(* Properties.                                                             *)

(* The assertions of the attempt... and set... functions hold whatever the *)
(* statements received, advanceSlot never nests as deep as                 *)
(* MAX_ADVANCE_SLOT_RECURSION, and createStatement finds the ballots that  *)
(* it dereferences.                                                        *)
AssertionsHold ==
    \A n \in Node :
        node[n].fault \notin {"createStatement", "bumpToBallot",
                              "setPreparedAccept", "attemptPreparedAccept",
                              "setPreparedConfirmed", "advanceSlot"}

(* What a node last emitted, and so persisted, is its whole state: a       *)
(* process that restarts from it (setStateFromEnvelope) has the ballots    *)
(* and the phase that it had, except for the value of h while nothing is   *)
(* voted committed.  No pledge stays behind in mLastEnvelope.              *)
RestartRestores ==
    \A n \in Node :
        LET w == node[n]
            r == setStateFromEnvelope(n, w.emit)
        IN  Up(w) /\ w.b # NullBallot /\ w.validated =>
                /\ <<w.phase, w.c, w.h.counter>> = <<r.phase, r.c, r.h.counter>>
                /\ w.phase # "EXTERNALIZE" =>
                        <<w.b, w.p, w.pp>> = <<r.b, r.p, r.pp>>

(* A node that is not done, although every envelope was delivered to it or *)
(* would be ignored, is not left behind by a node that externalized.       *)
DecisionReachesAll ==
    /\ \A n \in Node : Up(node[n])
    /\ \A n \in Node : node[n].phase = "EXTERNALIZE" \/ ~CanReceive(n)
    => \A n, m \in Node :
            node[n].phase = "EXTERNALIZE" => node[m].phase = "EXTERNALIZE"

(* When envelopes arrive and timers expire, every node externalizes,       *)
(* whatever values the nodes started with.                                 *)
Termination == <>(\A n \in Node : node[n].phase = "EXTERNALIZE")

(* A node never emits a statement that its peers would take for an old     *)
(* one: every statement is newer than all those it ever emitted.           *)
EmissionsIncrease ==
    [][\A st \in sent' \ sent : \A x \in sent :
            x.node = st.node => isNewerStatement(x, st)]_vars
=============================================================================
