-------------------------- MODULE TransactionQueue --------------------------
(***************************************************************************)
(* The life of a transaction: HerderImpl keeps received transactions in    *)
(* mPendingTransactions, triggerNextLedger proposes them, TxSetFrame and   *)
(* TransactionFrame decide whether a set is valid, consensus picks a set   *)
(* for the next ledger, and closing it stores each transaction in the      *)
(* txtiming table, from which maintenance deletes the expired ones.        *)
(* Transactions carry no sequence numbers here: txtiming and the time      *)
(* bounds are all that keeps one from being applied twice.                 *)
(*                                                                         *)
(* A transaction is an envelope, told from others by the hash of all of    *)
(* it; envelopes with different signatures may have the same contents, and *)
(* time bounds and txtiming are those of the contents.                     *)
(*                                                                         *)
(* Nodes run the same code with queues and tables of their own.  A node    *)
(* may miss ledgers.  It then replays them, which fills txtiming, or it    *)
(* takes the state from buckets, as it does by default, which does not.    *)
(* Consensus is external: a set that all nodes of a quorum, at the head of *)
(* the chain, find valid.  All sets are put together by the code below, so *)
(* none lists an envelope twice.                                           *)
(***************************************************************************)
EXTENDS SequencesExt

CONSTANTS Node,
          Quorum,            \* the sets of nodes that can agree
          Manual,            \* nodes whose operators use the catchup command
                             \* or give them a new database
          Tx,                \* transaction envelopes
          Contents,          \* what their signatures are made for
          ContentsOf,        \* the contents of each envelope
          MinTime, MaxTime,  \* the time bounds in the contents
          ExpirationPeriod,  \* the header's txExpirationPeriod
          MaxTxSetSize,      \* the header's maxTxSetSize
          Reaches,           \* the envelopes that are brought to each node
          Levels,            \* generations of mPendingTransactions (4)
          LastTime,          \* bound on close times
          MaxProposals       \* bound on the values nominated for a ledger

ASSUME TransactionsAssumption ==
    /\ Manual \subseteq Node
    /\ Quorum \subseteq SUBSET Node
    /\ \A Q, R \in Quorum : Q \cap R # {}
    /\ ContentsOf \in [Tx -> Contents] /\ Reaches \in [Node -> SUBSET Tx]
    /\ MinTime \in [Contents -> Nat] /\ MaxTime \in [Contents -> Nat]
    /\ ExpirationPeriod \in Nat /\ MaxTxSetSize \in Nat
    /\ Levels \in Nat \ {0} /\ LastTime \in Nat /\ MaxProposals \in Nat
    /\ IsFiniteSet(Tx)

VARIABLES chain,      \* the values consensus agreed on, one per ledger
          proposals,  \* the values nominated for the next ledger
          lcl,        \* each node's last closed ledger
          tracking,   \* the last ledger each node knows the value of
          txtiming,   \* each node's txtiming table
          pending,    \* each node's mPendingTransactions
          missed      \* the ledgers whose transactions a node did not
                      \* store or has lost; no variable of the code

vars == <<chain, proposals, lcl, tracking, txtiming, pending, missed>>

closeTimeAt(i) == IF i = 0 THEN 0 ELSE chain[i].closeTime

contents(txs) == {ContentsOf[tx] : tx \in txs}

(* LedgerManagerImpl::getCloseTime: that of the last closed ledger.        *)
getCloseTime(n) == closeTimeAt(lcl[n])

isSynced(n) == lcl[n] = tracking[n]

Pending(n) == UNION Range(pending[n])

-----------------------------------------------------------------------------
(* Validity.                                                               *)

commonValid(c, closeTime) ==
    /\ MinTime[c] <= closeTime
    /\ MaxTime[c] >= closeTime
    /\ MaxTime[c] - closeTime <= ExpirationPeriod

timingExists(n, c) == c \in txtiming[n]

checkValid(n, tx) ==
    /\ commonValid(ContentsOf[tx], getCloseTime(n))
    /\ ~timingExists(n, ContentsOf[tx])

(* TxSetFrame::checkValid, for a set built on the last closed ledger.      *)
txSetValid(n, txs) ==
    /\ Cardinality(txs) <= MaxTxSetSize
    /\ \A tx \in txs : checkValid(n, tx)

trimInvalid_timely(n, txs) ==
    {tx \in txs : commonValid(ContentsOf[tx], getCloseTime(n))}

trimInvalid(n, txs) == {tx \in txs : checkValid(n, tx)}

(* The sets of MaxTxSetSize transactions surge pricing can leave, by fees  *)
(* and salts that are left open.                                           *)
surgePricingFilter(txs) ==
    IF Cardinality(txs) > MaxTxSetSize
    THEN kSubset(MaxTxSetSize, txs)
    ELSE {txs}

-----------------------------------------------------------------------------
(* The queue.                                                              *)

(* The queue has an envelope once; another one with the same contents is   *)
(* welcome.                                                                *)
recvTransaction(n, tx) ==
    /\ tx \notin Pending(n)
    /\ checkValid(n, tx)
    /\ pending' = [pending EXCEPT ![n][1] = @ \cup {tx}]
    /\ UNCHANGED <<chain, proposals, lcl, tracking, txtiming, missed>>

removeReceivedTxs(queue, txs) == [i \in 1..Levels |-> queue[i] \ txs]

(* Applied transactions leave the queue; the rest age by one generation    *)
(* and the oldest is dropped.                                              *)
updatePendingTransactions(queue, applied) ==
    LET left == removeReceivedTxs(queue, applied)
    IN  [i \in 1..Levels |-> IF i = 1 THEN {} ELSE left[i - 1]]

(* Nomination for the ledger after the last closed one.  A node that is    *)
(* not at the head of the chain nominates for a ledger that is decided.    *)
triggerNextLedger(n) ==
    /\ isSynced(n)
    /\ LET valid == trimInvalid(n, Pending(n))
       IN  /\ pending' = [pending EXCEPT ![n] =
                              removeReceivedTxs(@, Pending(n) \ valid)]
           /\ \E txs \in surgePricingFilter(valid),
                 closeTime \in getCloseTime(n) + 1..LastTime :
                  proposals' = IF /\ lcl[n] = Len(chain)
                                  /\ Cardinality(proposals) < MaxProposals
                               THEN proposals \cup
                                    {[txs |-> txs, closeTime |-> closeTime,
                                      by |-> n]}
                               ELSE proposals
    /\ UNCHANGED <<chain, lcl, tracking, txtiming, missed>>

-----------------------------------------------------------------------------
(* Consensus.                                                              *)

(* The latest close time of the candidates and the largest of their sets,  *)
(* trimmed once more by the node that combines them.                       *)
combineCandidates(n, candidates) ==
    LET sizes == {Cardinality(c.txs) : c \in candidates}
    IN  {[txs |-> trimInvalid(n, c.txs),
          closeTime |-> Max({d.closeTime : d \in candidates})] :
            c \in {d \in candidates : Cardinality(d.txs) = Max(sizes)}}

(* A node that finds a value invalid, or is not at the head, sends no      *)
(* statement for it.                                                       *)
Agreed(n, Q, value) ==
    /\ \A m \in Q \cup {n} : lcl[m] = Len(chain) /\ isSynced(m)
    /\ \A m \in Q : txSetValid(m, value.txs)
    /\ chain' = Append(chain, value)
    /\ proposals' = {}
    /\ UNCHANGED <<lcl, tracking, txtiming, pending, missed>>

-----------------------------------------------------------------------------
(* Closing ledgers.                                                        *)

SameContents(txs) ==
    \E tx, other \in txs : tx # other /\ ContentsOf[tx] = ContentsOf[other]

(* txtiming has one row per contents: the second INSERT throws.            *)
storeTransactionTimingThrows(n, txs) ==
    SameContents(txs) \/ \E tx \in txs : timingExists(n, ContentsOf[tx])

(* closeLedger on the next value of the chain; processFeesSeqNums stores   *)
(* the timing of every transaction of the set, whether or not it applies.  *)
(* When it throws, the ledger is rolled back and the process ends: see     *)
(* restart.                                                                *)
closeLedger_timeless(n) ==
    /\ lcl' = [lcl EXCEPT ![n] = @ + 1]
    /\ UNCHANGED <<txtiming, missed>>

closeLedger(n) ==
    LET txs == chain[lcl[n] + 1].txs
    IN  /\ ~storeTransactionTimingThrows(n, txs)
        /\ lcl' = [lcl EXCEPT ![n] = @ + 1]
        /\ txtiming' = [txtiming EXCEPT ![n] = @ \cup contents(txs)]
        /\ UNCHANGED missed

(* The node learns the value of ledger i.  It closes the ledger when it is *)
(* next and the node is synced, and it only learns the value then if it    *)
(* finds it valid; otherwise it buffers it and catches up.                 *)
valueExternalized(n, i) ==
    /\ i \in tracking[n] + 1..Len(chain)
    /\ tracking' = [tracking EXCEPT ![n] = i]
    /\ IF isSynced(n) /\ i = lcl[n] + 1
       THEN txSetValid(n, chain[i].txs) /\ closeLedger(n)
       ELSE UNCHANGED <<lcl, txtiming, missed>>
    /\ pending' = [pending EXCEPT ![n] =
                       updatePendingTransactions(@, chain[i].txs)]
    /\ UNCHANGED <<chain, proposals>>

(* Catchup replays the next ledger: out of the buffer, or out of history   *)
(* with CATCHUP_COMPLETE and in the second part of CATCHUP_RECENT.         *)
replayLedger(n) ==
    /\ lcl[n] < tracking[n]
    /\ closeLedger(n)
    /\ UNCHANGED <<chain, proposals, tracking, pending>>

(* With CATCHUP_MINIMAL, the default, and in the first part of             *)
(* CATCHUP_RECENT, the state of ledger i, which somebody published, comes  *)
(* from buckets.  No transaction is applied.                               *)
adoptLedger(n, i) ==
    /\ \E m \in Node : lcl[m] >= i
    /\ lcl' = [lcl EXCEPT ![n] = i]
    /\ missed' = [missed EXCEPT ![n] = @ \cup (lcl[n] + 1..i)]
    /\ UNCHANGED <<chain, proposals, txtiming, pending>>

(* verifyCatchupCandidate trusts a ledger that comes before a buffered one.*)
historyCaughtup(n, i) ==
    /\ i \in lcl[n] + 1..tracking[n] - 1
    /\ adoptLedger(n, i)
    /\ UNCHANGED tracking

(* The catchup command trusts any ledger.                                  *)
manualCatchup(n, i) ==
    /\ n \in Manual /\ isSynced(n)
    /\ i \in lcl[n] + 1..Len(chain)
    /\ adoptLedger(n, i)
    /\ tracking' = [tracking EXCEPT ![n] = i]

(* The maintenance command.                                                *)
deleteOldEntries_inclusive(n) ==
    /\ txtiming' = [txtiming EXCEPT ![n] =
                        {c \in @ : MaxTime[c] > getCloseTime(n)}]
    /\ UNCHANGED <<chain, proposals, lcl, tracking, pending, missed>>

deleteOldEntries(n) ==
    /\ txtiming' = [txtiming EXCEPT ![n] =
                        {c \in @ : MaxTime[c] >= getCloseTime(n)}]
    /\ UNCHANGED <<chain, proposals, lcl, tracking, pending, missed>>

(* The process ends, stopped or by an exception, and is started again.  It *)
(* keeps the database and loses the queue.                                 *)
restart(n) ==
    /\ tracking' = [tracking EXCEPT ![n] = lcl[n]]
    /\ pending' = [pending EXCEPT ![n] = [i \in 1..Levels |-> {}]]
    /\ UNCHANGED <<chain, proposals, lcl, txtiming, missed>>

(* A start with --newdb.                                                   *)
initializeDatabase_keeping(n) ==
    /\ n \in Manual
    /\ lcl' = [lcl EXCEPT ![n] = 0]
    /\ tracking' = [tracking EXCEPT ![n] = 0]
    /\ pending' = [pending EXCEPT ![n] = [i \in 1..Levels |-> {}]]
    /\ missed' = [missed EXCEPT ![n] = @ \cup (1..lcl[n])]
    /\ UNCHANGED <<chain, proposals, txtiming>>

initializeDatabase(n) ==
    /\ n \in Manual
    /\ lcl' = [lcl EXCEPT ![n] = 0]
    /\ tracking' = [tracking EXCEPT ![n] = 0]
    /\ txtiming' = [txtiming EXCEPT ![n] = {}]
    /\ pending' = [pending EXCEPT ![n] = [i \in 1..Levels |-> {}]]
    /\ missed' = [missed EXCEPT ![n] = @ \cup (1..lcl[n])]
    /\ UNCHANGED <<chain, proposals>>

-----------------------------------------------------------------------------
Init ==
    /\ chain = <<>> /\ proposals = {}
    /\ lcl = [n \in Node |-> 0]
    /\ tracking = [n \in Node |-> 0]
    /\ txtiming = [n \in Node |-> {}]
    /\ pending = [n \in Node |-> [i \in 1..Levels |-> {}]]
    /\ missed = [n \in Node |-> {}]

Next ==
    \E n \in Node :
        \/ \E tx \in Reaches[n] : recvTransaction(n, tx)
        \/ triggerNextLedger(n)
        \/ \E candidates \in (SUBSET proposals) \ {{}}, Q \in Quorum :
               \E value \in combineCandidates(n, candidates) :
                   Agreed(n, Q, value)
        \/ \E i \in 1..LastTime : valueExternalized(n, i)
        \/ replayLedger(n)
        \/ \E i \in 1..LastTime : historyCaughtup(n, i)
        \/ \E i \in 1..LastTime : manualCatchup(n, i)
        \/ deleteOldEntries(n)
        \/ restart(n)
        \/ initializeDatabase(n)

Spec == Init /\ [][Next]_vars

-----------------------------------------------------------------------------
(* All nodes of a quorum lack ledger i, one of them by what its operator   *)
(* did.                                                                    *)
ForgottenByQuorum(i) ==
    \E Q \in Quorum : Q \cap Manual # {} /\ \A n \in Q : i \in missed[n]

(* What a node lacks stops mattering when every transaction of the ledgers *)
(* it missed has expired.                                                  *)
CaughtUp(n) ==
    \A i \in missed[n] :
        closeTimeAt(i - 1) + ExpirationPeriod < getCloseTime(n)

(* No contents are in two ledgers, although the queues keep offering them, *)
(* nodes that lag accept them again, maintenance forgets them as soon as   *)
(* they expired and catchup from buckets never stores them                 *)
(* (TransactionFrame::checkValid, deleteOldEntries, historyCaughtup): a    *)
(* ledger is only skipped once the next one is agreed on, by nodes that    *)
(* closed it.  Only when operators made a quorum forget may it happen.     *)
AppliedOnce ==
    \A i, j \in 1..Len(chain) :
        /\ i < j
        /\ contents(chain[i].txs) \cap contents(chain[j].txs) # {}
        => ForgottenByQuorum(i)

(* Nodes with the same last closed ledger give the same verdict on a       *)
(* transaction, whenever each of them ran maintenance, restarted, replayed *)
(* or skipped ledgers, as long as the expiration period has passed since   *)
(* the ledgers they skipped (TransactionFrame::checkValid).                *)
SameVerdict ==
    \A n, m \in Node : lcl[n] = lcl[m] /\ CaughtUp(n) /\ CaughtUp(m) =>
        \A tx \in Tx : checkValid(n, tx) <=> checkValid(m, tx)

(* What triggerNextLedger nominates stays valid for the node itself (the   *)
(* exception "wanting to emit an invalid txSet", HerderImpl.cpp:1315, is   *)
(* not raised), and when the node has caught up, for every node whose last *)
(* closed ledger it builds on, also one that has not.                      *)
ProposalsAreValid ==
    \A p \in proposals : \A n \in Node :
        /\ lcl[n] = Len(chain)
        /\ CaughtUp(p.by) \/ (n = p.by /\ n \notin Manual)
        => txSetValid(n, p.txs) /\ p.closeTime > getCloseTime(n)

(* A node closes the ledger that comes next in the chain without a row of  *)
(* txtiming getting in the way (storeTransactionTiming throws), unless two *)
(* envelopes of the set have the same contents or a quorum has forgotten.  *)
(* Nothing in the code rules out the former.                               *)
NextLedgerCloses ==
    \A n \in Node : lcl[n] < Len(chain) =>
        LET txs == chain[lcl[n] + 1].txs
        IN  storeTransactionTimingThrows(n, txs) =>
                \/ SameContents(txs)
                \/ \E i \in 1..lcl[n] : ForgottenByQuorum(i)
=============================================================================
