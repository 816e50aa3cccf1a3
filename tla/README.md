# SwarmCore: specifications, model checking and proofs

TLA+ modules that follow the C++ sources under `src/src/`, TLC configurations
that check them on small instances, and proofs checked by TLAPS for every
instance. `PROJECT.json` lists the components, the runs, the mutants that show
that each property notices a plausible bug, the source lines behind every
definition, the hazards, the findings and the theorems.

## The system

SwarmCore is a replicated ledger. Each node runs one process; almost
everything happens on one thread, driven by an event loop.

| part | state | operations | module |
|---|---|---|---|
| **SCP** (`scp/`), per slot | ballots `b, p, p', h, c`, phase, latest statement of every node; votes, accepted values, candidates | envelope received, timer expired, nominate, restore | `BallotProtocol`, `Nomination`, `QuorumSets` |
| **Pending envelopes, item fetcher** | envelopes waiting for items, trackers per item | envelope, item or "don't have" received, ask the next peer, slot closed | `EnvelopeFetching` |
| **Herder** (`herder/`) | tracking or not, trigger, timers, persisted SCP state, transaction queue | envelope or transaction received, ledger triggered, value externalized, out of sync | `LedgerSync`, `TransactionQueue`, and the parts next to SCP in the modules above |
| **Ledger manager** (`ledger/`) | last closed ledger; booting, synced, catching up; buffered ledgers | externalize, close, catchup finished | `LedgerSync`, `LedgerClose` |
| **History** (`history/`) | catchup works | verify, apply, retry, fail | `LedgerSync` |
| **Ledger deltas, entries** | nested deltas, rows, entry cache, headers | load, add, change, delete, commit, roll back | `LedgerDelta`, `LedgerClose` |
| **Transactions** (`transactions/`) | rows of `txtiming` | check, apply every operation or none | `LedgerClose`, `TransactionQueue` |
| **Bucket list** (`bucket/`) | levels with `curr`, `snap` and a future merge; files | add batch, spill, merge on a worker thread, store, restart, delete files | `BucketList` |

SCP decides the value of a slot; the herder hands it to the ledger manager,
which closes the ledger (transactions over deltas, one batch for the bucket
list, one SQL commit) or, when slots were missed, buffers it and lets history
catch up.

What is hard here: SCP handlers re-enter themselves; statements arrive late,
in any order and more than once; timers race messages; a process can end
between any two of the steps that make a ledger durable; scopes of the ledger
are undone by errors and exceptions at four depths; catchup works are retried
after they have done a part. `hazards` in `PROJECT.json` has each of these at
its line.

## Modules

    Ballots            ballots, statements and predicates on them
    QuorumSets         the recursive functions of LocalNode.cpp
    BallotProtocol     one slot on all nodes of a network  (EXTENDS both)
      MCBallotProtocol                         instances for TLC
    FederatedBallots   abstract: what each node voted for and accepted
      FederatedVotingProofs, MCFederatedBallots
    BallotRefinement   BallotProtocol implements FederatedBallots
      MCBallotRefinement
    QuorumLoop         the fixpoint loop of isQuorum
    NodeSearch         the search of isNodeInQuorum
    LocalNodeLoops     both, on the same nodes  (instances of them)
      FederatedVotingProofs, MCLocalNode
    Nomination         NominationProtocol of one slot on all nodes
      NominationProofs, MCNomination
    EnvelopeFetching   PendingEnvelopes with ItemFetcher, on one node
      EnvelopeFetchingProofs, MCEnvelopeFetching
    BucketList         the bucket list of one node, its merges and files
      BucketListProofs, MCBucketList
    LedgerSync         tracking consensus, closing, buffering, catching up
      LedgerSyncProofs, MCLedgerSync
    LedgerDelta        operators: the functions of LedgerDelta.cpp
    LedgerClose        closing a ledger: scopes, rows, cache  (EXTENDS it)
      LedgerDeltaProofs, LedgerCloseProofs, MCLedgerClose
    TransactionQueue   transactions from reception to a ledger, on all nodes
      TransactionQueueProofs, MCTransactionQueue

### BallotProtocol

`node[n]` is the `BallotProtocol` object of node `n`, one field per member
(`b` = `mCurrentBallot`, `p` = `mPrepared`, `pp` = `mPreparedPrime`, `h` =
`mHighBallot`, `c` = `mCommit`, `M` = `mLatestEnvelopes`, `heard` =
`mHeardFromQuorum`, `last` and `emit` = `mLastEnvelope` and
`mLastEnvelopeEmit`), and what it depends on: the ballot timer,
`mFullyValidated` of the slot, nomination's candidates, and whether the slot's
ledger is closed. `sent` is the set of all envelopes ever emitted: any of them
may be delivered at any time, again, or never.

A handler runs to completion on the one thread, so it is one action:
`Receive`, `TimerExpired`, `NewCandidates` (nomination's call of `bumpState`)
and `Restart`. Inside, the operators have the names of the functions and pass
the node's state along; `advanceSlot` is recursive as in the code, with
`lvl` for `mCurrentMessageLevel`. A failed `dbgAssert` (enabled in the default
build) or an exception ends the process: `fault` names the check and only what
was persisted survives. The last statement is persisted when it is emitted;
the ledger is closed before that, so a handler that externalizes may also end
in between (`Finish`). A process that restarts for a slot whose ledger is
closed gets no timer (`HerderImpl::setupTimer`) and finds every value only
"maybe valid" (`validateValueHelper`).

A value is a number, ordered like the byte strings; a quorum set is identified
with its node, never changes and is always known; signatures are correct and
every node follows the code. `combineCandidates` is the maximum.

`FederatedBallots` has no messages: for every node the ballots that it voted
to prepare, accepted as prepared, voted to commit and accepted as committed,
and the values that it externalized. `BallotRefinement` adds these pledges to
the protocol as history, counts every statement that a node makes (a handler
may make several, one nested in another) and checks that each is an abstract
step.

### Quorum sets

`QuorumSets` translates the recursive functions of `LocalNode.cpp`, which
`MCLocalNode` checks against the definition of slices. The two loops are
state machines of their own, so that they could be proved.

### Nomination

`votes`, `accepted`, `candidates` and `latest` are the members of every node's
`NominationProtocol`, `last` its `mLastEnvelope`, which is also what is
persisted, `composite` the candidates that `bumpState` was last given. A
handler that made a statement processes it itself, and this may make another:
every level of the nest is a step (`own[n]` says that one is under way), so
that a crash may hit between any two of them. `bad` collects the nodes that
refused a statement of their own. Which node leads a round is a constant (the
election hashes node identifiers) and rounds repeat with `Period`; a round has
one leader or none. The slot is taken to be fully validated, as on a node in
sync; a node that is not emits nothing.

As in the code, a timeout adds votes also when there are candidates already;
statements recorded before nomination starts are promoted only with the next
statement; and `bumpState` at a deeper level precedes persisting the statement
of the outer one.

### EnvelopeFetching

One node: `fetching`, `processed` and `pending` are the sets of
`PendingEnvelopes` for every slot, `tracked`, `waiting`, `lastAsked`, `toAsk`
and `timer` the trackers of `ItemFetcher`, `cache` the items that it has.
`recvItem` notifies the waiting envelopes one by one (`Notify`,
`NotifyDone`), each of which may be given to SCP, which may close the slot;
the clean-up that closing posts to the event loop runs later, in order
(`posted`). Peers connect, leave, answer, refuse late, or stay silent.

Two fetchers (transaction sets, quorum sets) clean up in one action; in which
order peers are asked is open. An envelope goes through the filter of
`HerderImpl::recvSCPEnvelope` when it comes and again when an item of it
arrives. A node that is out of sync has no upper bound (`inBracket`), one that
tracks has: an envelope that was accepted before can be turned away with all
its items, at `HerderImpl.cpp:1013`. It stays in `mFetchingEnvelopes` without a
tracker until it is sent again; `dropped` is a history of those. One situation
is assumed away by `FetchingAssumption`: the first `MAX_SLOTS_TO_REMEMBER`
ledgers after genesis, where the code takes the current ledger itself as the
oldest slot to accept. Senders are assumed to be in the quorum. Eviction from the LRU caches is left
out: an item that is evicted while a second one is awaited is not asked for
again on behalf of this envelope (`startFetch` is for new ones), which waits
until another envelope brings the item back or its slot is over.

### BucketList

`levels` is the list (`curr`, `snap`, `next` with the states of
`FutureBucket`), `stored` what the last SQL commit and `HistoryArchiveState`
hold, `files` and `shared` the directory and the bucket manager's map,
`retained` the buckets with `mRetain`. `addBatch` spills and prepares merges;
a merge ends at any time (`MergeDone`) or is waited for. Closing is three
steps (change, commit, forget), with a kill possible in between. `peer` is the
list of a node that never restarts. A bucket is a function from keys to
entries or `DEAD`; entries of a key are versions.

`mKeepDeadEntries` of a restarted merge is uninitialised in the code, so it is
an arbitrary Boolean here, and `undefined` records that it differed from the
intended one. `StopsEarly` says whether the process may be stopped regularly
before its first garbage collection. The publish queue's references
(`BucketManagerImpl.cpp:232-243`) and downloads of missing buckets are left
out. `BucketList.h:73` says that a snap is empty or covers exactly `size(i)/2`
ledgers; the first spill of each level is shorter, here as in the code.

### LedgerSync

One node and the network's last ledger `net`. `state`, `lcl` and `syncing`
are the ledger manager's; `tracking`, `lastTracking`, `trigger` and
`nominating` the herder's; `ready` the slots for which envelopes are in the
queue; `catchup` the work that runs (mode, kind, `initLedger`, step, what it
verified) and `mixed` the checkpoint whose buckets are partly in the database.
A slot that externalizes calls `ledgerClosed`, which processes the queue and
may externalize the next slot: one slot is a step and `closing` keeps other
handlers out. The works below the catchup works are kept by their outcomes:
success, a retry after a reset, failure for good. How often a work is retried
is left open.

There is one history: archives are honest. The node is a validator (a watcher
differs in never arming the trigger). The manual `catchup` command, a process
that restarts in the middle (a restart is an initial state), and a kill while
buckets are applied are outside: after such a kill the database is partly new
while `kLastClosedLedger` is old, and `HalfAppliedUnused` says nothing of it.
The transaction set that `triggerNextLedger` gives to itself equals one
received just before.

### LedgerDelta and LedgerClose

`LedgerDelta` has one operator per function of the class on records of the
sets `mNew`, `mMod`, `mDelete` and `mPrevious` and the header. What
`mergeEntries` does key by key, each of them does for a whole set of keys: a
call changes nothing but what the delta holds of its key, so their order does
not matter. `LedgerClose` stacks them: the ledger's, `applyTransactions`', the transaction's, the
operation's and the nested one of a review request. `saved` are the SQL
savepoints of the scopes that have one (SOCI is external), `sql` what SQL
shows, `cache` the entry cache with absent entries, `buckets` what the bucket
list would give. An operation is any sequence of loads, adds, changes and
deletes that the helpers allow: delete only what exists, add only what does
not. It succeeds, fails or throws; a failed operation's delta is committed and
the remaining operations run, as in `applyTx`. An operation first loads its
source account, which goes through the cache and is recorded in its delta,
except when it is the transaction's source: then it uses the transaction's own
copy (`signingAccount`, `TransactionFrame::loadAccount`). Transactions are of
the accounts `Signer`, operations of the accounts `Account`. The cache may evict anything
at any time, which also stands for the entry types that are never cached. A
kill loses all but the last SQL commit.

Left out: the log `mAllChanges`, `checkAgainstDatabase` (a check that the
configuration may switch on), upgrades of the header. Signers are part of the
account. There is one generator of identifiers. The deltas of fees are empty
in this fork, and the one scope without a savepoint (`SetFees`) is rolled back
only before it stores anything.

### TransactionQueue

All nodes: `pending[n]` are the generations of `mPendingTransactions`,
`txtiming[n]` the rows that remember applied transactions, `lcl` and `tracking`
the node's ledger and the herder's. `chain` is what was externalized,
`proposals` what nodes nominated for its next ledger. `Tx` are envelopes: the
queue, and sets, tell them apart by `getFullHash`, signatures included. Time
bounds and rows of `txtiming` belong to the contents (`getContentsHash`), and
several envelopes may have the same contents.

Consensus is external: it takes a proposal, or the combination of some, that
every node of some quorum, at the head of the chain, finds valid. Quorums
intersect. `TxSetFrame::checkValid` lets equal neighbours in a set pass
(`getFullHash() < lastHash`), so that a set could list an envelope twice; the
queue holds an envelope once, every set of the model is built by it, and so
sets are sets here.

A node that lags catches up in one of two ways, at any time. It closes the
missed ledgers (`replayLedger`: from the buffer, with `CATCHUP_COMPLETE`, and
in the last part of `CATCHUP_RECENT`), or it takes the state of a later one
from buckets (`historyCaughtup`: `CATCHUP_MINIMAL`, which is the default,
`Config.cpp:42-43`). The second writes no rows of `txtiming`, and the history
`missed` has the ledgers whose rows a node does not have. Catchup of its own
accord ends below a ledger that consensus has reached. Operators of the nodes
`Manual` can do more: the `catchup` command adopts any ledger
(`manualCatchup`), and `--newdb` loses all rows (`initializeDatabase`).
Maintenance may delete expired rows at any time. `storeTransactionTiming`
throws when there is a row already; the ledger is rolled back and the process
ends, so closing has the contrary as a guard and `restart` is always possible.
Which of too many transactions surge pricing drops depends on fees and salts
and is left open.

What a node lacks matters to it and to others: until every transaction of the
ledgers it missed has expired (`CaughtUp`), it accepts and may propose what
others refuse. `SameVerdict` and `ProposalsAreValid` say so in their premises.
`AppliedOnce` needs no such premise: unless an operator intervenes, a ledger is
missed only by a node that knows of a later one, which was agreed on by a
quorum of nodes that had closed it.

## Runs

| run | instance | checks |
|---|---|---|
| `BallotFollower` | 2 deciding nodes with different first values, a third that only listens and may restart | `RestartRestores`, `DecisionReachesAll` |
| `BallotLiveness` | 2 nodes, any first values, counters up to 4 | `Termination` |
| `BallotRefinement` | 2 nodes, growing candidates, timeouts up to counter 2, `n1` may crash at any time and any number of times | `AssertionsHold`, `EmissionsIncrease`, `ImplementsFederatedBallots` |
| `MCFederatedBallots` | 3 nodes, majorities, 2 values, 1 counter | `Agreement` |
| `MCLocalNode` | every quorum set of up to 3 levels over 4 validators (at most 2 validators and 2 inner sets per level); the loops on 3 nodes, every monotone quorum set, every graph | `BlockingMeetsSlices`, `NormalizePreserves`, `ClosestIsSmallest`, `Correct`, `SearchCorrect`, `Terminates` |
| `MCNomination` | 2 nodes that need each other and lead in turn, 3 values of which one is valid at one node only, one crash, both may stop nominating | `NeverBad`, `CandidatesBacked`, `CompositeIsCurrent`, `StatementsGrow`, `Convergence` |
| `MCEnvelopeFetching` | 2 envelopes that share an item, of the next slot and of one beyond the bracket, 2 items, 2 peers, 1 slot remembered, bracket 1 | `NobodyForgotten`, `GivenOnce`, `EventuallyDecided` |
| `MCBucketList` | 1 key, 3 levels, 17 ledgers of which 3 change something, 1 restart | `DefinedLedgerKept`, `SameListAsPeers`, `BottomHasNoDead`, `StoredBucketsExist` |
| `BucketRestart` | the same | `LedgerKept`, violated (see Findings) |
| `MCLedgerSync` | a node with each kind of catchup (complete; minimal; the 3 most recent ledgers complete), checkpoints every 3 ledgers, 10 ledgers, peers remember 2 slots, bracket 2 | `BufferMatchesCatchup`, `LedgerBehindConsensus`, `PositionIsCurrent`, `CatchupReachesBuffer`, `HalfAppliedUnused`, `EventuallyFollows` |
| `MCLedgerClose` | the account of transactions, another one that comes later and operations may be of, a generated identifier, 2 contents, a cache of 2, 2 ledgers after the genesis ledger, 4 accesses | `DeltasAccountForRows`, `CacheIsConsistentWithDatabase`, `AssertsHold`, `PublishedStateIsOfLastLedger`, `GeneratedIdsAreFresh` |
| `MCTransactionQueue` | 3 nodes, any 2 a quorum, the operator of one may intervene, 2 envelopes with the same contents, expiration period 2, 3 ledgers | `AppliedOnce`, `SameVerdict`, `ProposalsAreValid`, `NextLedgerCloses` |

Proved but in no run: the type invariants of `FederatedBallots`, `Nomination`,
`EnvelopeFetching`, `LedgerSync` and the two loops, which are part of the
inductive invariants below, `AcceptedBacked` of `Nomination` and
`CurrentNeverDecreases` of `LedgerSync`.

All runs say `CHECK_DEADLOCK FALSE`: a slot that externalized, and a bound
that is reached, have no next step, and the algorithms end.

### Bounds

- Ballots: `UINT32_MAX` is 3 to 5, above every counter that timers reach, so
  that the special counter of externalized nodes stays distinct; `MaxCounter`
  stops a node's timer. Two values and two counters give every kind of
  conflict between ballots. Two nodes that need each other make every quorum
  contain both; the runs with three have v-blocking sets that are not quorums.
- Nomination: three nodes exceed the time of a run; with two, each statement
  of one can be missing, late or old at the other. The proofs have no bound.
- Envelopes: one envelope waits for both items, the other shares one. The one
  slot closes while the other waits; the other is within the bracket only when
  the node is out of sync or has moved on, so that its envelope may be accepted
  and turned away later, and sent again and accepted.
- Buckets: the third level is the last, where dead entries are dropped; 17
  ledgers let a spill reach it and be merged there. Keys do not interact.
- Catchup: 10 ledgers hold three checkpoints: one is behind, one is being
  applied, and one is reached while the node catches up.
- Closing: `MaxAccess` bounds the loads and stores of the whole behaviour. Four
  are enough for create, change, delete and re-create of one entry in four
  scopes, or for two entries over two transactions. The values of an entry are
  only copied and compared, so they are symmetric.
- Transactions: two ledgers close within the bounds of the contents and the
  third after them, so that rows are needed, missing, and expire. The node
  whose operator intervenes receives no envelopes, only the sets of others;
  the other two are symmetric. At most two values are nominated for a ledger,
  two generations of the queue stand for four, and both envelopes fit into a
  set: that surge pricing leaves a valid set is shown by the proof only.

**Views.** A node that externalized only records statements; `View` leaves out
what it recorded, statements that nobody can take as news any more, and
`mHeardFromQuorum` of a node whose timer the bound has stopped. None of the
properties of runs with a view reads these. The runs with liveness have none.

### Fairness

- `BallotLiveness`: `Fairness` is weak fairness of deliveries and timers with
  the enabling conditions written out. The overlay floods envelopes and the
  herder rebroadcasts its latest ones until the slot is closed; an armed timer
  expires. That alone does not decide a slot (timers could always outrun
  messages), so `PatientNext` adds what `computeTimeout` is for: timeouts grow
  with the counter, and from counter 3 on a timer expires only when nothing is
  left to deliver. Nomination has converged.
- `MCNomination`: every node starts, its timer expires again and again, it
  finishes its handlers, and the last statement of a node is rebroadcast until
  it arrives. `Convergence` speaks of nodes that do not stop nominating.
- `MCEnvelopeFetching`: the event loop runs what is due; one peer connects
  again and again, has the items, and answers. Strong fairness is needed for
  it, because other peers and timers disable these steps in between.
- `MCLedgerSync`: the network goes on, peers send the slots that they remember
  until they are heard, handlers end, an armed consensus timer expires. Nothing
  is assumed of catchup, which may fail for ever: the property is about what
  the herder takes as current.
- `MCLocalNode`: the loops take their steps.

## Findings

`BucketRestart` must end in a counterexample. `FutureBucket.h:23-25` says that
merges in progress survive serialisation and are restarted. A restarted merge
reads `mKeepDeadEntries`, which the constructor used for deserialisation leaves
uninitialised and `makeLive` does not set. When it happens to be false at a
level that has to keep dead entries, the record that an entry was deleted is
dropped, and the older entry below shows again. `DefinedLedgerKept` is what
holds otherwise.

### Observations

These were met while modelling. The models contain the behaviour; no run of
the project exhibits it, and the properties are stated so that they do not
claim the contrary.

- `BallotProtocol.cpp:923-932`: the scan for the commit ballot takes candidates
  of any value, so `c` may be incompatible with `h`, and `checkInvariants`
  (line 615) aborts. It needs three nodes with majorities, a timeout and two
  values. The pledges remain those of federated voting.
- A nested bump can make a node produce a statement that is not newer than its
  last one; `emitCurrentStateStatement` throws "moved to a bad state".
  `AssertionsHold` leaves out this check and the previous one.
- `BallotProtocol.cpp:1319`: `attemptBump` breaks out of an ascending scan at
  the first counter below its own, so a node with a peer behind it does not
  find the v-blocking set ahead that the comment at 1311 speaks of.
- `BallotProtocol.cpp:1884`: in `validateValues` a later "maybe valid"
  overwrites an earlier "invalid".
- `BallotProtocol.cpp:326`: `counter + 1` wraps at `UINT32_MAX`, a counter that
  externalized nodes use.
- `HerderImpl.cpp:212-214`: after a crash between closing the ledger and
  emitting EXTERNALIZE, the restarted node does not emit it for that slot.
- `Bucket.cpp:89`: a bucket found by its hash after a start has `mRetain` unset
  until the next `forgetUnreferencedBuckets`, which is skipped while catching
  up. A regular stop before that deletes files that the stored state names
  (`StopsEarly = TRUE`); the comment at `LedgerManagerImpl.cpp:934` wants to
  "re-attach to the buckets".
- `HistoryWork.cpp:762-769`: when `CATCHUP_RECENT` starts over after its
  complete part has closed ledgers, the new minimal part is behind the node's
  ledger and `ApplyBucketsWork` throws, which ends the process.
  `EventuallyFollows` allows for it (`stopped`).
- `HerderImpl.cpp:1013`: an envelope accepted out of sync may be turned away
  when its last item arrives, while the node tracks an earlier slot. Nothing
  takes it up again but its being sent once more (see `dropped`).
- `TxSetFrame.cpp:275` and `TransactionFrame.cpp:327` check the transactions of
  a set one by one: two envelopes with the same contents are both valid, and
  both inserts (`TransactionFrame.cpp:537`) into `txtiming`, whose key is the hash of the contents
  (`TransactionFrame.cpp:804`), belong to one ledger. The second throws, on
  every node. `NextLedgerCloses` excepts it (`SameContents`).
- `LedgerManagerImpl.cpp:554`: catchup from buckets leaves `txtiming` without
  rows. Such a node accepts and proposes transactions that the others refuse
  until these expire.
- `LedgerManagerImpl.cpp:452` warns after a gap that "this round of catchup
  will fail and restart"; the value is only dropped, and catchup may succeed.
- `LedgerManagerImpl.cpp:620-633`: the overshoot branch of `historyCaughtup`
  uses a reference into a vector that it has cleared. `CatchupReachesBuffer`
  shows that the branch is dead.
- A verification that ends "unknown" in a minimal catchup over several
  checkpoints is retried from the last closed ledger, where it ends as a bad
  hash until the outer work starts over.

## Proofs

Each module of proofs extends its component. What the properties need is an
inductive invariant, `IInv` (`Inv` in the two loops), and one step of the proof
per action.

- `FederatedVotingProofs`: `TypeCorrect`, `Invariance`, `AgreementTheorem`,
  for any nodes, values and largest counter. Assumed of the constants: every
  node has a slice and `{}` is none (`SaneSlices`: what `isQuorumSetSane`
  guarantees), and any two quorums intersect (`QuorumIntersection`: the
  configuration, not the code). Call a ballot chosen when a whole quorum voted
  to commit it. `IInv` says: whoever voted to commit a ballot voted against it
  only after accepting its abort (`VotesConsistent`), and the ballot is
  accepted as prepared somewhere (`CommitVotesPrepared`); behind every accepted
  commit is a chosen ballot of its value at or below it (`CommitsChosen`), and
  behind every externalized value an accepted commit
  (`ExternalizedCommitted`); no ballot accepted as prepared is above a chosen
  one of another value (`ChosenNotAborted`). The last is kept because of
  `AcceptedAborts`: whoever accepts a ballot as prepared does so when, for
  every lower ballot of another value, either a quorum refuses it for good or a
  still lower, incompatible ballot is chosen. Quorum intersection is used
  whenever a quorum that refuses meets one that chose.
- `FederatedVotingProofs` also has the loops of `LocalNode.cpp`: `LoopCorrect`, for any finite set of nodes and any monotone
  quorum sets. No node of a self-sufficient set is ever dropped; the test
  compares sizes, which is enough because the nodes left are a subset.
  `SearchIsCorrect`: `Inv` of the search relates the visited nodes and the
  backlog to the sets closed under "is in the quorum set of".
- `FederatedVotingProofs` ends with the operators of `Ballots`, on any set of
  statements whose fields have their types. `attemptPreparedAccept`,
  `attemptPreparedConfirmed`, `attemptAcceptCommit` and `attemptConfirmCommit`
  only look at a few ballots and counters, taken from statements;
  `CandidatesMissNoVote`, `CandidatesMissNoAcceptance`, `BoundariesMissNoVote`
  and `BoundariesMissNoInterval` say that nothing is lost by it (they do not
  say which of the intervals `findExtendedInterval` picks). The witness is the
  lowest candidate from the ballot on (`LowestCandidate`), or the boundaries
  next to the interval: a statement that stopped upholding in between would
  itself have contributed a candidate or a boundary there.
  `NewerIsStrictOrder` is about the order in which statements replace each
  other. These are about the operators, not about `BallotProtocol`'s steps, and
  no run states them.
- `NominationProofs`: `OwnStatementsValid`, `AllCandidatesCombined`,
  `CandidatesAreAccepted`, `AcceptedHaveVotes`, `NothingTakenBack`, for any
  nodes, slices, validity, leaders and crashes. The properties speak of what
  nodes hold now, which a crash may forget; `IInv` says that what others count
  on was in a statement that was persisted (`CandidatesSent`, `AcceptedSent`,
  `Heard`), that a node's sets include its last statement (`Growing`), and that
  a handler under way still has to hand over what it found (`HandedOver`).
- `EnvelopeFetchingProofs`: `NeverForgotten`, `NeverGivenTwice`, for envelopes
  of any slots, also beyond the bracket. `IInv` follows
  an envelope through a notification under way (`Awaiting`), a tracker from its
  question to its timer (`Asking`), and says that what was given is remembered
  as long as its slot is (`Remembered`), with the clean-ups still posted.
- `BucketListProofs`: `BucketsHoldLedger`, `SameBucketsEverywhere`,
  `DeadEntriesExpire`, and, when the process is not stopped early,
  `RestartFindsBuckets`, for any keys and levels. `IInv` has the form of live and stored lists (`Shape`); that a list,
  and the list that a start would make of the stored one, gives the same
  buckets as the peer's once its merges are resolved (`PeersAgree`); which
  files the list in memory and the stored one need in each phase of a close
  (`FilesKept`: between the commit and the collection what was stored is in
  use, after it is retained); and that the last level, live or stored, has no
  dead entries and no snap (`Clean`). `BucketsHoldLedger` needs more. As the
  list has the peer's buckets, it is enough to follow the peer's, which only
  `addBatch` changes. `EntriesKept` says, of the list now and of the stored
  one, that it has the ledger's entries and that every pending merge is
  `Prepared`: it merges the snap of the level above into curr, or into nothing
  when curr will have been moved to snap by the time that the merge is taken,
  and every key of its shadows is still held by a younger bucket then (`Newer`),
  so that leaving it out loses nothing. The youngest bucket that has a key then
  moves on with its value, or holds a dead entry that expires at the last level
  (`CurrGoes`, `SnapGoes`). When levels spill rests on `levelHalf` of a level
  being a multiple of that of the level above; the provers know nothing of
  powers, so `PowersOfTwo` gets this from the number of subsets of `1..n`.
- `LedgerSyncProofs`: `BufferMatches`, `BehindConsensus`, `PositionCurrent`,
  `ReachesBuffer`, `HalfApplied`, `CurrentGrows`, for any checkpoint
  frequency, brackets and settings. `Tracks` relates all that the herder and
  the ledger manager hold to the last slot seen; `Works` says that a checkpoint
  is applied only when consensus has reached it, and that the settings fit the
  work; `FarAhead` says that while the database is half new, consensus is too
  far ahead for anything that closes a ledger to start. The last two depend on
  each other, and on the rounding to checkpoints (`nextCheckpointLedger`).
- `TransactionQueueProofs`: `NeverAppliedTwice`, `VerdictsAgree`,
  `ProposalsStayValid`, `LedgersClose`, for any nodes, intersecting quorums
  (the configuration, not the code), any finite set of envelopes, any contents
  and time bounds, and any expiration period. `AppliedOnceByDefault` is what
  remains of the first when no operator intervenes (`Manual = {}`): no contents
  are in two ledgers, however nodes catch up. `IInv` says that close times grow
  along the chain (`CloseTimesIncrease`), that a node has closed a prefix of it
  (`BehindChain`), that what is in a ledger was within its time bounds, and so
  expires within the period (`AppliedInTime`); that a row is of a ledger up to
  the node's last one, and that no row is lacking but of ledgers that it missed
  and of contents that expired (`TimingKept`); that for every ledger but the
  last some quorum closed it and, operators aside, has its rows
  (`ClosedByQuorum`); and that a proposal is valid but for what its proposer
  missed (`ProposalsKept`). A set with contents of an earlier ledger would need
  a quorum that finds it valid, which meets the quorum that has the rows. Two
  nodes that have caught up lack only expired rows, so their `checkValid` is
  the same.
- `LedgerCloseProofs`: `BucketsFollowDatabase`, `CacheFollowsDatabase`,
  `AssertsNeverFail`, `PublishedStateIsRight`, `IdsAreNeverReused`, for any
  entries, contents, cache size and bounds, when no name of an entry is a
  generated identifier (`BoundsAssumption`: keys of different types differ).
  The properties speak of the state now, but a rollback brings back rows that
  nothing but the savepoints remember. `IInv` therefore says that there is a
  sequence `B` of rows, one for every scope from the bucket list's (`B[0]`) to
  SQL's (`B[Depth]`), such that each open delta is exactly the step between two
  of them (`Layer`), fits what it changes (`Fits`: it creates what was absent,
  and changes and deletes what was there), has records and entries that are as
  old as the bucket list's or of this ledger (`Recent`), and leaves the
  identifiers above its header's pool unused (`Fresh`); and that every SQL
  savepoint holds the rows of its scope (`SavedRows`). The lemmas of
  `LedgerDeltaProofs`, which it extends, say what `addEntry`, `modEntry`, `deleteEntry`, `mergeEntries`
  and `commit` do to `Layer` and `Fits`; those on stacks say that pushing,
  committing, replacing and popping a delta keep such a sequence. Each action
  is then one of these, and rolling back to a savepoint is popping.

`AgreementTheorem` and `ImplementsFederatedBallots`, which TLC checks on small
instances, are together the reason that nodes agree on a slot.

Only model-checked: all liveness (`Termination`, `Convergence`,
`EventuallyDecided`, `EventuallyFollows`, `Terminates`), which is outside
TLAPS as used here; and `BallotProtocol`, its refinement and `QuorumSets`,
whose operators are recursive (`advanceSlot` calls itself for each statement
that the node makes).

## Not modelled

- **What operations do** (payments, offers, sales, limits, reviews): about a
  hundred classes that load, compute and store entries. `LedgerClose` has any
  sequence of loads and stores in their place. The arithmetic they rely on has
  its edges at 64 bits, and the order book rounds products of such numbers:
  beyond what TLC enumerates, and nonlinear for SMT. `BalanceFrame::tryLock`
  (line 128) changes the amount before it finds an overflow; its callers fail
  without storing the frame.
- **Leaders' weights** (`getNodeWeight`, hashes of nomination): cryptographic
  hashes scaled to 64 bits.
- **Overlay** (connections, handshake, flooding, bans, load): I/O and
  cryptography. The modules assume of it that what goes on being sent arrives.
- **Publishing history, repairing buckets, the works that copy, compress and
  download files, and the generic `Work`, processes and timers**: their clients
  here see that something succeeds, fails, or is tried again, and a timer is
  armed or not.
- **Upgrades of the ledger header**, information for operators, and SCP history
  for archives.
- **Database, cryptography, the HTTP interface, configuration, invariant
  checks, simulation**, but for the tables, commands and settings named above:
  I/O, pure functions of libraries, or nothing that
  changes the state of the system.
