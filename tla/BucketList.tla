----------------------------- MODULE BucketList -----------------------------
(***************************************************************************)
(* The bucket list (bucket/BucketList.cpp), the merges that run on worker  *)
(* threads (FutureBucket.cpp), the bucket files (BucketManagerImpl.cpp)    *)
(* and what closing a ledger stores of them (LedgerManagerImpl.cpp).       *)
(*                                                                         *)
(* A bucket is a function from the keys it holds to the version that the   *)
(* entry was given, or DEAD; it stands for its hash and its file too.      *)
(* Versions count the changes, so that no two live entries are the same.   *)
(***************************************************************************)
EXTENDS Naturals, FiniteSets

CONSTANTS
    Key,            \* the keys of ledger entries
    kNumLevels,     \* the number of levels
    MaxLedger,      \* bound: the last ledger that is closed; a spill has to
                    \* reach the last level, and its merge to be taken
    MaxChanges,     \* bound: the number of versions given to entries
    MaxStarts,      \* bound: how often the process is started again
    StopsEarly      \* whether the process may be stopped before it closed a
                    \* ledger and collected the unreferenced buckets

ASSUME LevelsAssumption == kNumLevels \in Nat \ {0, 1}

VARIABLES
    levels,         \* BucketList::mLevels: curr, snap and next of every level
    entries,        \* the entries in the database, as seen by the process
    ledger,         \* the last ledger closed by the process
    phase,          \* the step of closeLedger that comes next, or "idle"
    catchingUp,     \* the ledger manager is in LM_CATCHING_UP_STATE
    stored,         \* what the database has committed
    shared,         \* BucketManagerImpl::mSharedBuckets
    retained,       \* the buckets of these with mRetain
    files,          \* the buckets that have a file
    changes,        \* the versions given so far
    starts,         \* how often the process was started again
    collected,      \* the last ledger was closed with unreferenced buckets
                    \* collected, since the process was started
    undefined,      \* a merge read mKeepDeadEntries and found it wrong
    peer            \* the levels of a node that closes the same ledgers and
                    \* never stops

vars == <<levels, entries, ledger, phase, catchingUp, stored, shared, retained,
          files, changes, starts, collected, undefined, peer>>

list == <<levels, entries, ledger, changes, peer, undefined>>

-----------------------------------------------------------------------------
(* Buckets.                                                                *)

DEAD == 0
EmptyBucket == [k \in {} |-> DEAD]
Level == 0..(kNumLevels - 1)
Last == kNumLevels - 1

(* The entries of newB win; what a shadow holds is left out.               *)
merge(oldB, newB, shadows, keepDeadEntries) ==
    LET latest(k) == IF k \in DOMAIN newB THEN newB[k] ELSE oldB[k]
        kept == {k \in DOMAIN oldB \cup DOMAIN newB :
                    /\ \A s \in shadows : k \notin DOMAIN s
                    /\ keepDeadEntries \/ latest(k) # DEAD}
    IN  [k \in kept |-> latest(k)]

liveBucket(liveEntries, v) == [k \in liveEntries |-> v]
deadBucket(deadEntries) == [k \in deadEntries |-> DEAD]

fresh(liveEntries, v, deadEntries) ==
    merge(liveBucket(liveEntries, v), deadBucket(deadEntries), {}, TRUE)

levelSize(i) == 2^(2 * (i + 1))
levelHalf(i) == levelSize(i) \div 2

levelShouldSpill(l, i) ==
    /\ i # Last
    /\ l % levelHalf(i) = 0 \/ l % levelSize(i) = 0

(* FutureBucket: in memory its state is CLEAR, LIVE_INPUTS or LIVE_OUTPUT; *)
(* as stored, HASH_INPUTS or HASH_OUTPUT in place of the latter two.       *)
NoNext == [state |-> "CLEAR"]

liveInputs(curr, snap, shadows, keepDeadEntries) ==
    [state |-> "LIVE_INPUTS", curr |-> curr, snap |-> snap,
     shadows |-> shadows, keepDeadEntries |-> keepDeadEntries, done |-> FALSE]

isLive(n) == n.state \in {"LIVE_INPUTS", "LIVE_OUTPUT"}

resolve(n) == IF n.state = "LIVE_OUTPUT" THEN n.output
              ELSE merge(n.curr, n.snap, n.shadows, n.keepDeadEntries)

getHashes(n) ==
    CASE n.state = "CLEAR" -> {}
      [] n.state \in {"LIVE_OUTPUT", "HASH_OUTPUT"} -> {n.output}
      [] n.state \in {"LIVE_INPUTS", "HASH_INPUTS"} ->
            {n.curr, n.snap} \cup n.shadows

(* The buckets that a list in memory, or as stored, refers to.             *)
referenced(L) ==
    (UNION {{L[i].curr, L[i].snap} \cup getHashes(L[i].next) : i \in Level})
        \ {EmptyBucket}

-----------------------------------------------------------------------------
(* addBatch goes from the last level to the first: level i - 1 moves its   *)
(* curr to snap, level i takes the merge that was prepared and starts to   *)
(* merge that snap.  What it reads of lower levels is what they held       *)
(* before, so that every level can be stated by itself.                    *)

spilled(L, l, i) ==
    IF levelShouldSpill(l, i)
    THEN [L[i] EXCEPT !.snap = L[i].curr, !.curr = EmptyBucket] ELSE L[i]

commit(b) ==
    IF isLive(b.next)
    THEN [b EXCEPT !.curr = resolve(b.next), !.next = NoNext] ELSE b

(* The level that is merged shadows itself.                                *)
shadowsOf_self(L, i) ==
    UNION {{L[j].curr, L[j].snap} : j \in {x \in Level : x + 1 <= i}}

shadowsOf(L, i) ==
    UNION {{L[j].curr, L[j].snap} : j \in {x \in Level : x + 2 <= i}}

(* A curr that is moved away when this merge is taken is not merged.       *)
prepare_keep(b, l, i, snap, shadows) ==
    [b EXCEPT !.next =
        liveInputs(IF i > 0 /\ levelShouldSpill(l + levelHalf(i - 1), i)
                   THEN EmptyBucket ELSE b.curr,
                   snap, shadows, TRUE)]

prepare(b, l, i, snap, shadows) ==
    [b EXCEPT !.next =
        liveInputs(IF i > 0 /\ levelShouldSpill(l + levelHalf(i - 1), i)
                   THEN EmptyBucket ELSE b.curr,
                   snap, shadows, i < Last)]

newLevel(L, l, i, batch) ==
    IF i = 0 THEN commit(prepare(spilled(L, l, 0), l, 0, batch, {}))
    ELSE IF levelShouldSpill(l, i - 1)
    THEN prepare(commit(spilled(L, l, i)), l, i, L[i - 1].curr, shadowsOf(L, i))
    ELSE spilled(L, l, i)

addBatch(L, l, batch) == [i \in Level |-> newLevel(L, l, i, batch)]

(* The levels that take a merge, and wait for it if need be.               *)
takes(L, l, i) ==
    i = 0 \/ (levelShouldSpill(l, i - 1) /\ isLive(L[i].next))

outputs(L, l) == {resolve(L[i].next) : i \in {x \in Level \ {0} : takes(L, l, x)}}

(* mRetain: setCurr clears the flag of the bucket that it replaces and     *)
(* sets the one of the new bucket; startMerge sets those of all its        *)
(* inputs.  Levels above 0 start a merge after they take one.              *)
releases(L, l, i) == IF takes(L, l, i) THEN {spilled(L, l, i).curr} ELSE {}

retains(L, N, l, i, batch) ==
    IF i = 0 THEN {N[0].curr} \cup ({batch} \ {spilled(L, l, 0).curr})
    ELSE IF levelShouldSpill(l, i - 1)
    THEN (IF takes(L, l, i) THEN {N[i].curr} ELSE {}) \cup getHashes(N[i].next)
    ELSE {}

retainedAfter(R, L, N, l, batch) ==
    {b \in R : \A i \in Level : b \notin releases(L, l, i)} \cup
    UNION {{b \in retains(L, N, l, i, batch) :
                \A j \in 0..(i - 1) : b \notin releases(L, l, j)} : i \in Level}

Adopted(B) == B \ {EmptyBucket}

-----------------------------------------------------------------------------
(* Closing a ledger.                                                       *)

(* The entries after a change; only entries that exist are deleted.        *)
Changed(e, live, v, dead) ==
    [k \in (DOMAIN e \cup live) \ dead |-> IF k \in live THEN v ELSE e[k]]

(* A merge on a worker thread ends: its output gets a file.                *)
MergeDone(i) ==
    /\ levels[i].next.state = "LIVE_INPUTS"
    /\ ~levels[i].next.done
    /\ levels' = [levels EXCEPT ![i].next.done = TRUE]
    /\ shared' = shared \cup Adopted({resolve(levels[i].next)})
    /\ files' = files \cup Adopted({resolve(levels[i].next)})
    /\ UNCHANGED <<entries, ledger, changes, phase, catchingUp, stored,
                   retained, starts, collected, undefined, peer>>

Added(live, v, dead, batch, N) ==
    /\ levels' = N
    /\ shared' = shared \cup Adopted({liveBucket(live, v), deadBucket(dead),
                                      batch, N[0].curr} \cup outputs(levels, ledger + 1))
    /\ files' = files \cup (shared' \ shared)
    /\ retained' = Adopted(retainedAfter(retained, levels, N, ledger + 1, batch))

(* closeLedger up to addBatch: every change is in the open transaction.    *)
AddBatch(live, dead) ==
    /\ phase = "idle"
    /\ ledger < MaxLedger
    /\ live \cup dead # {} => changes < MaxChanges
    /\ dead \subseteq DOMAIN entries
    /\ live \cap dead = {}
    /\ changes' = IF live \cup dead = {} THEN changes ELSE changes + 1
    /\ entries' = Changed(entries, live, changes', dead)
    /\ ledger' = ledger + 1
    /\ LET batch == fresh(live, changes', dead)
       IN  /\ Added(live, changes', dead, batch, addBatch(levels, ledger + 1, batch))
           /\ peer' = addBatch(peer, ledger + 1, batch)
    /\ phase' = "commit"
    /\ UNCHANGED <<catchingUp, stored, starts, collected, undefined>>

(* HistoryArchiveState(seq, bucketList) and resolveAnyReadyFutures.        *)
serialized(n) ==
    CASE n.state = "CLEAR" -> n
      [] n.state = "LIVE_OUTPUT" -> [state |-> "HASH_OUTPUT", output |-> n.output]
      [] n.state = "LIVE_INPUTS" ->
            IF n.done THEN [state |-> "HASH_OUTPUT", output |-> resolve(n)]
            ELSE [state |-> "HASH_INPUTS", curr |-> n.curr, snap |-> n.snap,
                  shadows |-> n.shadows]

Commit ==
    /\ phase = "commit"
    /\ stored' = [ledger |-> ledger, entries |-> entries, changes |-> changes,
                  undefined |-> undefined, peer |-> peer,
                  levels |-> [i \in Level |->
                        [levels[i] EXCEPT !.next = serialized(levels[i].next)]]]
    /\ phase' = IF catchingUp THEN "idle" ELSE "forget"
    /\ collected' = (collected /\ ~catchingUp)
    /\ UNCHANGED <<list, catchingUp, shared, retained, files, starts>>

(* The merges in progress are overlooked.                                  *)
inUse_settled ==
    Adopted(UNION {{levels[i].curr, levels[i].snap} : i \in Level})

(* The buckets that something besides mSharedBuckets points to: the list,  *)
(* and the outputs of merges, which only their futures know.               *)
inUse ==
    referenced(levels) \cup
        {resolve(levels[i].next) : i \in {x \in Level :
            levels[x].next.state = "LIVE_INPUTS" /\ levels[x].next.done}}

Dropped == {b \in shared : b \notin inUse}

forgetUnreferencedBuckets ==
    /\ phase = "forget"
    /\ shared' = shared \ Dropped
    /\ retained' = shared \ Dropped
    /\ files' = files \ Dropped
    /\ phase' = "idle"
    /\ collected' = TRUE
    /\ UNCHANGED <<list, catchingUp, stored, starts>>

(* The ledger manager catches up, and is done.  Bound: it does so before   *)
(* it closed a ledger in any other state.                                  *)
SwitchMode ==
    /\ phase = "idle"
    /\ ~collected
    /\ catchingUp' = ~catchingUp
    /\ UNCHANGED <<list, phase, stored, shared, retained, files, starts, collected>>

-----------------------------------------------------------------------------
(* The process ends and is started again.  assumeState restarts the merges *)
(* that were stored as inputs; mKeepDeadEntries is not stored, and is read *)
(* without being set: the merge may see either value.                      *)
madeLive_shadowless(n, keep) ==
    CASE n.state = "CLEAR" -> n
      [] n.state = "HASH_OUTPUT" -> [state |-> "LIVE_OUTPUT", output |-> n.output]
      [] n.state = "HASH_INPUTS" -> liveInputs(n.curr, n.snap, {}, keep)

madeLive(n, keep) ==
    CASE n.state = "CLEAR" -> n
      [] n.state = "HASH_OUTPUT" -> [state |-> "LIVE_OUTPUT", output |-> n.output]
      [] n.state = "HASH_INPUTS" -> liveInputs(n.curr, n.snap, n.shadows, keep)

Unfinished == {i \in Level : stored.levels[i].next.state = "HASH_INPUTS"}

assumeState(keep) ==
    /\ levels' = [i \in Level |->
                    [stored.levels[i] EXCEPT !.next = madeLive(@, keep[i])]]
    /\ shared' = referenced(stored.levels)
    /\ retained' = Adopted(UNION
            {{levels'[i].curr, levels'[i].snap} \cup
             (IF i \in Unfinished THEN getHashes(levels'[i].next) ELSE {}) :
             i \in Level})
    /\ undefined' = (stored.undefined \/ \E i \in Unfinished : keep[i] # (i < Last))

Start(keep) ==
    /\ starts < MaxStarts
    /\ starts' = starts + 1
    /\ referenced(stored.levels) \subseteq files'
    /\ entries' = stored.entries
    /\ ledger' = stored.ledger
    /\ changes' = stored.changes
    /\ peer' = stored.peer
    /\ phase' = "idle"
    /\ catchingUp' = FALSE
    /\ collected' = FALSE
    /\ assumeState(keep)
    /\ UNCHANGED stored

(* Killed at any time: the files stay as they are.                         *)
Kill(keep) == files' = files /\ Start(keep)

(* Stopped between two ledgers: the worker threads finish their merges,    *)
(* and the destructor of every bucket without mRetain removes its file.    *)
AfterStop ==
    files \ ((shared \cup {resolve(levels[i].next) : i \in
                {x \in Level : levels[x].next.state = "LIVE_INPUTS"}}) \ retained)

Stop(keep) ==
    /\ phase = "idle"
    /\ collected \/ StopsEarly
    /\ files' = AfterStop
    /\ Start(keep)

KeepFlags == {keep \in [Level -> BOOLEAN] :
                \A i \in Level \ Unfinished : keep[i] = (i < Last)}

-----------------------------------------------------------------------------
(* The database after the genesis ledger, and a process that loaded it.    *)
Genesis(first) ==
    [i \in Level |-> [curr |-> IF i = 0 THEN first ELSE EmptyBucket,
                      snap |-> EmptyBucket, next |-> NoNext]]

Init ==
    \E K \in SUBSET Key :
        /\ entries = [k \in K |-> 1]
        /\ levels = Genesis(fresh(K, 1, {}))
        /\ ledger = 1
        /\ changes = 1
        /\ phase = "idle"
        /\ catchingUp = FALSE
        /\ stored = [ledger |-> 1, entries |-> entries, changes |-> 1,
                     undefined |-> FALSE, peer |-> levels, levels |-> levels]
        /\ peer = levels
        /\ shared = Adopted({fresh(K, 1, {})})
        /\ retained = shared
        /\ files = shared
        /\ starts = 0
        /\ collected = FALSE
        /\ undefined = FALSE

Next ==
    \/ \E live, dead \in SUBSET Key : AddBatch(live, dead)
    \/ \E i \in Level : MergeDone(i)
    \/ Commit
    \/ forgetUnreferencedBuckets
    \/ SwitchMode
    \/ \E keep \in KeepFlags : Kill(keep) \/ Stop(keep)

Spec == Init /\ [][Next]_vars

-----------------------------------------------------------------------------
(* Properties.                                                             *)

(* What applying the buckets gives, from the last level to the first and   *)
(* snap before curr: the youngest bucket that holds a key decides.         *)
Buckets(L, k) ==
    {p \in Level \X {0, 1} :
        k \in DOMAIN (IF p[2] = 0 THEN L[p[1]].curr ELSE L[p[1]].snap)}

Youngest(L, k) ==
    LET p == CHOOSE p \in Buckets(L, k) : \A q \in Buckets(L, k) :
                2 * p[1] + p[2] <= 2 * q[1] + q[2]
    IN  IF p[2] = 0 THEN L[p[1]].curr[k] ELSE L[p[1]].snap[k]

applied(L) ==
    LET alive == {k \in Key : Buckets(L, k) # {} /\ Youngest(L, k) # DEAD}
    IN  [k \in alive |-> Youngest(L, k)]

(* The buckets, applied in the order of their age, give the entries of the *)
(* database, whatever was merged, shadowed or restarted meanwhile.         *)
LedgerKept == applied(levels) = entries

(* The same, as long as no merge that was started again from its stored    *)
(* inputs found another value in mKeepDeadEntries than it was given first. *)
DefinedLedgerKept == ~undefined => LedgerKept

(* Nodes that closed the same ledgers have the same bucketListHash, though *)
(* their merges ended at other times and one of them was started again     *)
(* in the middle of merges.                                                *)
SameListAsPeers ==
    ~undefined => \A i \in Level : /\ levels[i].curr = peer[i].curr
                                   /\ levels[i].snap = peer[i].snap

(* Dead entries expire at the last level.                                  *)
BottomHasNoDead ==
    ~undefined => \A b \in {levels[Last].curr, levels[Last].snap} :
        \A k \in DOMAIN b : b[k] # DEAD

(* closeLedgerHelper stores the list "so we can survive a restart and      *)
(* re-attach to the buckets": every bucket that the committed state names  *)
(* has its file, at every point where the process may end.                 *)
StoredBucketsExist ==
    /\ referenced(stored.levels) \subseteq files
    /\ phase = "idle" /\ (collected \/ StopsEarly) =>
            referenced(stored.levels) \subseteq AfterStop
=============================================================================
