---------------------------- MODULE LedgerSync ----------------------------
(***************************************************************************)
(* How one node keeps its ledger in step with the network: the part of     *)
(* herder/HerderImpl that tracks consensus and takes positions, the part   *)
(* of ledger/LedgerManagerImpl that applies, buffers or catches up, and    *)
(* the catchup works of history/HistoryWork.                               *)
(*                                                                         *)
(* There is one history (what the network externalizes), so a ledger is    *)
(* its sequence number and 0 stands for "none".  Archives are honest.  The *)
(* process has one thread.  A slot that externalizes may externalize the   *)
(* next one from inside ledgerClosed: the nest is taken one slot at a time *)
(* (closing), with no other handler in between.  Of the works below the    *)
(* catchup works only the outcome is kept: a download or an application    *)
(* succeeds, or fails so that the work around it starts over or gives up.  *)
(***************************************************************************)
EXTENDS Integers, FiniteSetsExt

CONSTANTS
    Freq,           \* HistoryManager::getCheckpointFrequency
    MaxSlots,       \* Herder::MAX_SLOTS_TO_REMEMBER, of the peers
    Bracket,        \* Herder::LEDGER_VALIDITY_BRACKET
    Configs,        \* the settings [complete, recent] a node may have:
                    \* CATCHUP_COMPLETE and CATCHUP_RECENT
    FirstLedger,    \* the last closed ledger when the node starts
    MaxLedger       \* bound on the ledgers the network closes

ASSUME SyncAssumption ==
    /\ Freq \in Nat \ {0}
    /\ MaxSlots \in Nat \ {0}
    /\ Bracket \in Nat
    /\ Configs \subseteq [complete : BOOLEAN, recent : Nat]
    /\ FirstLedger \in Nat \ {0}
    /\ MaxLedger \in Nat

VARIABLES
    net,            \* the last ledger the network has externalized
    config,         \* the settings, which never change
    state,          \* mState of the ledger manager
    lcl,            \* mLastClosedLedger
    syncing,        \* mSyncingLedgers, a vector in ascending order
    catchup,        \* the catchup work that runs
    mixed,          \* the ledger whose state is written to the database, 0
                    \* when a whole state is in it
    tracking,       \* mTrackingSCP
    lastTracking,   \* mLastTrackingSCP
    trigger,        \* the ledger that mTriggerTimer is armed for
    nominating,     \* mLedgerSeqNominating, 0 when mCurrentValue is empty
    ready,          \* slots whose queued statements make SCP externalize
    closing,        \* valueExternalized is running
    stopped         \* an exception has ended the process

vars == <<net, config, state, lcl, syncing, catchup, mixed, tracking,
          lastTracking, trigger, nominating, ready, closing, stopped>>

-----------------------------------------------------------------------------
(* Checkpoints and catchup works.                                          *)

nextCheckpointLedger(ledger) ==
    IF ledger = 0 THEN Freq ELSE ((ledger + Freq - 1) \div Freq) * Freq

(* mode is what the ledger manager was promised, work is the catchup work  *)
(* that does it now (CATCHUP_RECENT is a minimal, then a complete one),    *)
(* from is the ledger a complete work started at, verified mLastVerified.  *)
NoCatchup ==
    [mode |-> "NONE", work |-> "NONE", init |-> 0, from |-> 0,
     step |-> "NONE", verified |-> 0]

MinimalWork(mode, init) ==
    [mode |-> mode, work |-> "MINIMAL", init |-> init, from |-> 0,
     step |-> "VERIFY", verified |-> 0]

CompleteWork(mode, init, ledger) ==
    [mode |-> mode, work |-> "COMPLETE", init |-> init, from |-> ledger,
     step |-> "VERIFY", verified |-> ledger]

lastCheckpointSeq(init) == nextCheckpointLedger(init) - 1

minimalFirstCheckpointSeq(init) ==
    nextCheckpointLedger(IF init > config.recent
                         THEN init - config.recent ELSE 0) - 1

firstCheckpointSeq(c) ==
    IF c.work = "MINIMAL" THEN minimalFirstCheckpointSeq(c.init)
    ELSE nextCheckpointLedger(c.from) - 1

getCatchupMode ==
    IF config.complete THEN "COMPLETE"
    ELSE IF config.recent = 0 THEN "MINIMAL" ELSE "RECENT"

(* The work that catchupHistory adds when the last closed ledger is l.     *)
catchupHistory(init, l) ==
    LET close == init > l /\ init - l <= config.recent
        mode  == IF getCatchupMode = "RECENT" /\ close
                 THEN "COMPLETE" ELSE getCatchupMode
    IN  IF mode = "COMPLETE" THEN CompleteWork(mode, init, l)
        ELSE MinimalWork(mode, init)

-----------------------------------------------------------------------------
(* The ledger manager.                                                     *)

startCatchUp(init, l) ==
    /\ state' = "CATCHING_UP"
    /\ catchup' = catchupHistory(init, l)

LostSync(seq) ==
    /\ syncing' = syncing \cup {seq}
    /\ startCatchUp(seq, lcl)
    /\ UNCHANGED lcl

Close(seq) ==
    /\ lcl' = seq
    /\ state' = "SYNCED"
    /\ UNCHANGED <<syncing, catchup>>

(* A ledger that does not follow the last one buffered is dropped.         *)
Buffer(seq) ==
    /\ syncing' = IF syncing = {} \/ seq = Max(syncing) + 1
                  THEN syncing \cup {seq} ELSE syncing
    /\ UNCHANGED <<lcl, state, catchup>>

externalizeValue(seq) ==
    IF state = "CATCHING_UP" THEN Buffer(seq)
    ELSE IF seq = lcl + 1 THEN Close(seq)
    ELSE IF seq > lcl + 1 THEN LostSync(seq)
    ELSE UNCHANGED <<lcl, state, syncing, catchup>>

(* Mutant: a ledger whose hash is unknown is accepted.                     *)
verifyCatchupCandidate_unknown(seq) == seq >= lcl

(* What verifyCatchupCandidate answers: the hash of a ledger is known from *)
(* the last closed ledger or from the successor, closed or buffered.       *)
verifyCatchupCandidate(seq) ==
    \/ lcl \in {seq, seq + 1}
    \/ seq + 1 \in syncing

(* The ledger that the replay of the buffer reaches from ledger l on.      *)
Replayed(l) ==
    CHOOSE r \in {l} \cup syncing :
        /\ r >= l
        /\ \A s \in (l + 1)..r : s \in syncing
        /\ r + 1 \notin syncing

Overshoots(l) == \E s \in syncing : s > Replayed(l) + 1

(* Mutant: the buffer is dropped without a replay.                         *)
CaughtUp_unreplayed(l) ==
    /\ lcl' = l
    /\ syncing' = {}
    /\ state' = "SYNCED"
    /\ catchup' = NoCatchup

(* historyCaughtup with ledger l deposited: the buffer is replayed.        *)
CaughtUp(l) ==
    /\ lcl' = Replayed(l)
    /\ syncing' = {}
    /\ IF Overshoots(l) THEN startCatchUp(Max(syncing), Replayed(l))
       ELSE state' = "SYNCED" /\ catchup' = NoCatchup

(* Mutant: the buffer survives a failed catchup.                           *)
CaughtUpError_kept ==
    /\ state' = "BOOTING"
    /\ catchup' = NoCatchup
    /\ UNCHANGED <<lcl, syncing>>

(* historyCaughtup with an error.                                          *)
CaughtUpError ==
    /\ state' = "BOOTING"
    /\ syncing' = {}
    /\ catchup' = NoCatchup
    /\ UNCHANGED lcl

-----------------------------------------------------------------------------
(* The herder.                                                             *)

getCurrentLedgerSeq == Max({lcl, tracking, lastTracking})

nextConsensusLedgerIndex == tracking + 1

(* Slot s, later than the current ledger, externalizes; last is the        *)
(* mLastTrackingSCP of that moment and queue the slots that are ready.     *)
valueExternalized(s, last, queue) ==
    /\ nominating' = 0
    /\ tracking' = s
    /\ lastTracking' = IF last = 0 THEN s ELSE last
    /\ trigger' = 0
    /\ externalizeValue(s)
    /\ ready' = {r \in queue : r > s}
    /\ closing' = TRUE
    /\ UNCHANGED <<net, config, mixed, stopped>>

(* The smallest slot of the queue externalizes.                            *)
ExternalizeSmallest(last, queue) ==
    \E s \in queue :
        /\ \A r \in queue : s <= r
        /\ valueExternalized(s, last, queue)

Idle == ~closing /\ ~stopped

(* Statements of slot s arrive that, with those before, make SCP           *)
(* externalize it: recvSCPEnvelope, then processSCPQueue.  Old slots       *)
(* change nothing.                                                         *)
recvSCPEnvelope(s) ==
    LET queue == {r \in ready \cup {s} : r > getCurrentLedgerSeq} IN
    /\ Idle
    /\ s \notin ready
    /\ s > getCurrentLedgerSeq
    /\ tracking # 0 => s <= nextConsensusLedgerIndex + Bracket
    /\ IF tracking = 0 THEN ExternalizeSmallest(lastTracking, queue)
       ELSE IF nextConsensusLedgerIndex \in queue
       THEN valueExternalized(nextConsensusLedgerIndex, lastTracking, queue)
       ELSE /\ ready' = queue
            /\ UNCHANGED <<net, config, state, lcl, syncing, catchup, mixed,
                           tracking, lastTracking, trigger, nominating, closing,
                           stopped>>

(* The network externalizes a ledger, and peers remember MaxSlots of them. *)
NetworkCloses ==
    /\ net < MaxLedger
    /\ net' = net + 1
    /\ UNCHANGED <<config, state, lcl, syncing, catchup, mixed, tracking,
                   lastTracking, trigger, nominating, ready, closing, stopped>>

Hears(s) ==
    /\ s > net - MaxSlots
    /\ recvSCPEnvelope(s)

(* The statements that wait for the next slot make it externalize too.     *)
ExternalizeNext ==
    /\ closing
    /\ nextConsensusLedgerIndex \in ready
    /\ valueExternalized(nextConsensusLedgerIndex, lastTracking, ready)

(* Mutant: the trigger is armed whatever the state of the ledger manager.  *)
ledgerClosed_unsynced ==
    /\ closing
    /\ nextConsensusLedgerIndex \notin ready
    /\ closing' = FALSE
    /\ trigger' = nextConsensusLedgerIndex
    /\ UNCHANGED <<net, config, state, lcl, syncing, catchup, mixed, tracking,
                   lastTracking, nominating, ready, stopped>>

(* The end of ledgerClosed in the innermost valueExternalized.             *)
ledgerClosed ==
    /\ closing
    /\ nextConsensusLedgerIndex \notin ready
    /\ closing' = FALSE
    /\ trigger' = IF state = "SYNCED" THEN nextConsensusLedgerIndex ELSE 0
    /\ UNCHANGED <<net, config, state, lcl, syncing, catchup, mixed, tracking,
                   lastTracking, nominating, ready, stopped>>

triggerNextLedger ==
    /\ Idle
    /\ trigger # 0
    /\ trigger' = 0
    /\ nominating' = IF tracking # 0 /\ state = "SYNCED" /\ trigger = lcl + 1
                     THEN trigger ELSE nominating
    /\ UNCHANGED <<net, config, state, lcl, syncing, catchup, mixed, tracking,
                   lastTracking, ready, closing, stopped>>

(* Mutant: the queue is not processed when track is lost.                  *)
herderOutOfSync_waits ==
    /\ Idle
    /\ tracking # 0
    /\ lastTracking' = tracking
    /\ tracking' = 0
    /\ UNCHANGED <<net, config, state, lcl, syncing, catchup, mixed, trigger,
                   nominating, ready, closing, stopped>>

(* The tracking timer expires: what is ready beyond the current ledger is  *)
(* tried from the smallest slot on.                                        *)
herderOutOfSync ==
    LET queue == {r \in ready : r > getCurrentLedgerSeq} IN
    /\ Idle
    /\ tracking # 0
    /\ IF queue # {} THEN ExternalizeSmallest(tracking, queue)
       ELSE /\ lastTracking' = tracking
            /\ tracking' = 0
            /\ ready' = {}
            /\ UNCHANGED <<net, config, state, lcl, syncing, catchup, mixed,
                           trigger, nominating, closing, stopped>>

-----------------------------------------------------------------------------
(* The catchup works.                                                      *)

UnchangedHerder ==
    UNCHANGED <<net, config, tracking, lastTracking, trigger, nominating,
                ready, closing, stopped>>

(* The archive has the last checkpoint, and the chain of headers links up  *)
(* with mLastVerified (anything does when there is none): the first file   *)
(* starts at or before its successor.                                      *)
VerifyLedgerChain ==
    /\ Idle
    /\ catchup.step = "VERIFY"
    /\ lastCheckpointSeq(catchup.init) <= net
    /\ \/ catchup.verified = 0
       \/ firstCheckpointSeq(catchup) <= catchup.verified + Freq

Verified ==
    /\ VerifyLedgerChain
    /\ verifyCatchupCandidate(lastCheckpointSeq(catchup.init))
    /\ catchup' = [catchup EXCEPT !.step = "APPLY",
                                  !.verified = lastCheckpointSeq(catchup.init)]
    /\ UNCHANGED <<state, lcl, syncing, mixed>>
    /\ UnchangedHerder

(* The answer is "unknown": the verification is retried, and onReset puts  *)
(* the last closed ledger in place of what was verified.                   *)
Inconclusive ==
    /\ VerifyLedgerChain
    /\ ~verifyCatchupCandidate(lastCheckpointSeq(catchup.init))
    /\ catchup' =
        [catchup EXCEPT !.verified =
            IF \/ catchup.verified # 0
               \/ firstCheckpointSeq(catchup) < lastCheckpointSeq(catchup.init)
            THEN lcl ELSE 0]
    /\ UNCHANGED <<state, lcl, syncing, mixed>>
    /\ UnchangedHerder

(* ApplyBucketsWork starts to write the state of the first checkpoint.     *)
ApplyBuckets ==
    /\ Idle
    /\ catchup.work = "MINIMAL"
    /\ catchup.step = "APPLY"
    /\ firstCheckpointSeq(catchup) >= lcl
    /\ mixed' = firstCheckpointSeq(catchup)
    /\ catchup' = [catchup EXCEPT !.step = "APPLYING"]
    /\ UNCHANGED <<state, lcl, syncing>>
    /\ UnchangedHerder

(* It throws if that is earlier than the last closed ledger; nothing       *)
(* catches the exception.                                                  *)
ApplyBucketsThrows ==
    /\ Idle
    /\ catchup.work = "MINIMAL"
    /\ catchup.step = "APPLY"
    /\ firstCheckpointSeq(catchup) < lcl
    /\ stopped' = TRUE
    /\ UNCHANGED <<net, config, state, lcl, syncing, catchup, mixed, tracking,
                   lastTracking, trigger, nominating, ready, closing>>

(* It is done: CATCHUP_MINIMAL ends, CATCHUP_RECENT deposits the ledger    *)
(* and goes on with a complete work.                                       *)
ApplyBucketsDone ==
    /\ Idle
    /\ catchup.step = "APPLYING"
    /\ mixed' = 0
    /\ LET first == firstCheckpointSeq(catchup) IN
       IF catchup.mode = "MINIMAL" THEN CaughtUp(first)
       ELSE /\ lcl' = first
            /\ catchup' = CompleteWork("RECENT", catchup.init, first)
            /\ UNCHANGED <<state, syncing>>
    /\ UnchangedHerder

ApplyLedger ==
    /\ Idle
    /\ catchup.work = "COMPLETE"
    /\ catchup.step = "APPLY"
    /\ lcl < lastCheckpointSeq(catchup.init)
    /\ lcl' = lcl + 1
    /\ UNCHANGED <<state, syncing, catchup, mixed>>
    /\ UnchangedHerder

ApplyLedgersDone ==
    /\ Idle
    /\ catchup.work = "COMPLETE"
    /\ catchup.step = "APPLY"
    /\ lcl >= lastCheckpointSeq(catchup.init)
    /\ CaughtUp(lcl)
    /\ UNCHANGED mixed
    /\ UnchangedHerder

(* A child has failed: the minimal or complete work starts over.           *)
RetryWork ==
    /\ Idle
    /\ catchup.work # "NONE"
    /\ catchup' = [catchup EXCEPT
                    !.step = "VERIFY",
                    !.verified = IF catchup.verified = 0 THEN 0 ELSE lcl]
    /\ UNCHANGED <<state, lcl, syncing, mixed>>
    /\ UnchangedHerder

(* Mutant: a retry resumes with the complete work.                         *)
RetryRecent_resumes ==
    /\ Idle
    /\ catchup.mode = "RECENT"
    /\ catchup' = CompleteWork("RECENT", catchup.init, lcl)
    /\ UNCHANGED <<state, lcl, syncing, mixed>>
    /\ UnchangedHerder

(* The inner work has failed for good: CATCHUP_RECENT starts over.         *)
RetryRecent ==
    /\ Idle
    /\ catchup.mode = "RECENT"
    /\ catchup' = MinimalWork("RECENT", catchup.init)
    /\ UNCHANGED <<state, lcl, syncing, mixed>>
    /\ UnchangedHerder

(* All retries are used up.                                                *)
CatchupFails ==
    /\ Idle
    /\ catchup.work # "NONE"
    /\ CaughtUpError
    /\ UNCHANGED mixed
    /\ UnchangedHerder

-----------------------------------------------------------------------------
(* A node starts from its database (restoreSCPState); with FORCE_SCP it    *)
(* takes part at once (bootstrap).                                         *)
Init ==
    /\ net = FirstLedger
    /\ config \in Configs
    /\ lcl = FirstLedger
    /\ syncing = {}
    /\ catchup = NoCatchup
    /\ mixed = 0
    /\ tracking = FirstLedger
    /\ lastTracking = 0
    /\ nominating = 0
    /\ ready = {}
    /\ closing = FALSE
    /\ stopped = FALSE
    /\ \/ state = "BOOTING" /\ trigger = 0
       \/ state = "SYNCED" /\ trigger = FirstLedger + 1

Next ==
    \/ NetworkCloses
    \/ \E s \in 1..net : Hears(s)
    \/ ExternalizeNext
    \/ ledgerClosed
    \/ triggerNextLedger
    \/ herderOutOfSync
    \/ Verified
    \/ Inconclusive
    \/ ApplyBuckets
    \/ ApplyBucketsThrows
    \/ ApplyBucketsDone
    \/ ApplyLedger
    \/ ApplyLedgersDone
    \/ RetryWork
    \/ RetryRecent
    \/ CatchupFails

Spec == Init /\ [][Next]_vars

(* The network goes on, peers send the slots they remember until they are  *)
(* heard, a handler runs to its end and an armed timer expires.  Nothing   *)
(* is assumed of catchup.                                                  *)
FairSpec ==
    /\ Spec
    /\ WF_vars(NetworkCloses)
    /\ WF_vars(\E s \in 1..net : Hears(s))
    /\ WF_vars(ExternalizeNext)
    /\ WF_vars(ledgerClosed)
    /\ WF_vars(herderOutOfSync)

-----------------------------------------------------------------------------
CatchupRecord ==
    [mode : {"MINIMAL", "RECENT"}, work : {"MINIMAL"}, init : Nat, from : {0},
     step : {"VERIFY", "APPLY", "APPLYING"}, verified : Nat]
    \cup
    [mode : {"COMPLETE", "RECENT"}, work : {"COMPLETE"}, init : Nat, from : Nat,
     step : {"VERIFY", "APPLY"}, verified : Nat]
    \cup {NoCatchup}

(* Ledgers are sequence numbers.  Only a minimal work applies buckets, and *)
(* a work only does the steps of its kind.                                 *)
TypeOK ==
    /\ net \in Nat
    /\ config \in Configs
    /\ state \in {"BOOTING", "SYNCED", "CATCHING_UP"}
    /\ lcl \in Nat \ {0}
    /\ syncing \in SUBSET Nat
    /\ catchup \in CatchupRecord
    /\ mixed \in Nat
    /\ tracking \in Nat
    /\ lastTracking \in Nat
    /\ trigger \in Nat
    /\ nominating \in Nat
    /\ ready \in SUBSET Nat
    /\ closing \in BOOLEAN
    /\ stopped \in BOOLEAN

(* A catchup work runs exactly while the ledger manager is catching up     *)
(* (catchupHistory never throws "Catchup already in progress"), the buffer *)
(* is empty otherwise (the assert of externalizeValue), and it holds the   *)
(* ledger that started the catchup and those after it without a gap.       *)
BufferMatchesCatchup ==
    /\ state = "CATCHING_UP" <=> catchup # NoCatchup
    /\ IF state = "CATCHING_UP"
       THEN \E last \in syncing : syncing = catchup.init..last
       ELSE syncing = {}

(* No ledger is closed, from history or from the buffer, that consensus    *)
(* has not reached: what verifyCatchupCandidate is there for.              *)
LedgerBehindConsensus == lcl <= Max({tracking, lastTracking})

(* A node that nominates, or is about to, does so for the ledger after the *)
(* last one it closed, which is also the one after the last one it saw     *)
(* externalize: whatever ends a round disarms the trigger and stops the    *)
(* nomination, and catchup starts neither.                                 *)
PositionIsCurrent ==
    \A p \in {trigger, nominating} \ {0} :
        /\ state = "SYNCED"
        /\ p = lcl + 1
        /\ p = getCurrentLedgerSeq + 1

(* A catchup that ends well has closed every ledger that was buffered:     *)
(* history overlaps with the buffer and the "overshoot" branch of          *)
(* historyCaughtup, which flushes the buffer and starts over, is dead.     *)
CatchupReachesBuffer ==
    [][ /\ state = "CATCHING_UP"
        /\ syncing' = {}
        => \/ state' = "BOOTING"
           \/ state' = "SYNCED" /\ lcl' >= Max(syncing)]_vars

(* After ApplyBucketsWork has stopped half-way through a newer state, no   *)
(* ledger is closed and the node is not in sync until a catchup has        *)
(* written the whole of a state.                                           *)
HalfAppliedUnused ==
    [][mixed > lcl /\ mixed' # 0 => lcl' = lcl /\ state' # "SYNCED"]_vars

(* The ledger the herder takes as current, below which slots are ignored   *)
(* and timers refused, never goes back: not when the node loses track, and *)
(* not when a catchup starts over from an earlier ledger.                  *)
CurrentNeverDecreases ==
    [][getCurrentLedgerSeq' >= getCurrentLedgerSeq]_vars

(* A node that has missed slots, so many that peers no longer have them,   *)
(* still gets to the slot the network is in, unless it stops.              *)
EventuallyFollows == <>[](stopped \/ getCurrentLedgerSeq = MaxLedger)

=============================================================================
