----------------------------- MODULE LedgerClose -----------------------------
(***************************************************************************)
(* Closing a ledger: LedgerManagerImpl::closeLedger applies the agreed     *)
(* transactions, each of them a list of operations, and an operation may   *)
(* approve a review request on the way.  Every scope has a LedgerDelta;    *)
(* the ledger, the transaction and the review also have an SQL             *)
(* transaction.  Entries are read through the entry cache of               *)
(* ledger/EntryHelper.cpp.  Scopes end by committing, by failing, by an    *)
(* exception or by a crash of the process.                                 *)
(*                                                                         *)
(* deltas[1] is closeLedger's ledgerDelta, deltas[2] applyTransactions'    *)
(* delta, deltas[3] applyTx's thisTxDelta, deltas[4] its opDelta and       *)
(* deltas[5] the reviewRequestDelta of ReviewRequestHelper.  saved holds   *)
(* what SQL would roll back to: at the start of the ledger, of the         *)
(* transaction and of the review.                                          *)
(***************************************************************************)
EXTENDS Integers, Sequences, FiniteSets, LedgerDelta

CONSTANTS Named,      \* the keys an operation names (accounts, assets, ...)
          MaxId,      \* bound on the generated identifiers
          Account,    \* the accounts that operations are of
          Signer,     \* the accounts that transactions are of
          Genesis,    \* the named entries of the genesis ledger
          Value,      \* the contents of an entry
          CacheSize,  \* the capacity of the entry cache
          MaxLedger,  \* bound on the ledgers that are closed
          MaxAccess,  \* bound on what operations load and store
          Null        \* "no such entry", which the cache remembers too

ASSUME BoundsAssumption ==
    /\ MaxId \in Nat /\ CacheSize \in Nat \ {0}
    /\ MaxLedger \in Nat /\ MaxAccess \in Nat
    /\ Genesis \subseteq Named /\ Account \subseteq Named
    /\ Signer \subseteq Account
    /\ \A id \in 1..MaxId : id \notin Named

VARIABLES sql,        \* what the SQL session sees: entry rows, the header of
                      \* the last closed ledger, its HistoryArchiveState
          cache,      \* Database::mEntryCache
          deltas,     \* the open deltas, outermost first
          saved,      \* the open SQL transactions, outermost first
          current,    \* mCurrentLedger's header
          buckets,    \* what the bucket list holds
          failed,     \* applyTx's errorEncountered
          accesses    \* what operations loaded and stored so far

vars == <<sql, cache, deltas, saved, current, buckets, failed, accesses>>

Key == Named \cup 1..MaxId

(* The innermost of the scopes s, and the scopes around it.                *)
Last(s) == s[Len(s)]

Front(s) == SubSeq(s, 1, Len(s) - 1)

Top == Last(deltas)

Depth == Len(deltas)

Push(d) == Append(deltas, d)

(* commit() of the innermost delta into the one around it.                 *)
Committed(ds) ==
    Append(Front(Front(ds)), commit(Last(Front(ds)), Last(ds)))

-----------------------------------------------------------------------------
(* The entry cache.                                                        *)

flushCachedEntry(keys) == Without(cache, keys)

(* The caches a put can leave: past its capacity the cache drops another   *)
(* entry (the least recently used one; the order is left open).            *)
putCachedEntry(k, e) ==
    LET c == Over(Single(k, e), cache)
    IN  IF Cardinality(DOMAIN c) <= CacheSize
        THEN {c}
        ELSE {Without(c, {other}) : other \in DOMAIN c \ {k}}

Stored(k) == IF k \in DOMAIN sql.rows THEN sql.rows[k] ELSE Null

loadAccount(k) == IF k \in DOMAIN cache THEN cache[k] ELSE Stored(k)

CachedByLoad(k) ==
    IF k \in DOMAIN cache THEN {cache} ELSE putCachedEntry(k, Stored(k))

(* What a load given a delta adds to it.                                   *)
Recorded(d, k) ==
    IF loadAccount(k) = Null THEN d
    ELSE recordEntry(d, Single(k, loadAccount(k)))

-----------------------------------------------------------------------------
(* Scopes.                                                                 *)

(* closeLedger up to applyTransactions; processFeesSeqNums charges nothing *)
(* and its deltas are empty.                                               *)
closeLedger ==
    /\ deltas = <<>> /\ saved = <<>>
    /\ current.ledgerSeq <= MaxLedger
    /\ deltas' = <<Open(current)>>
    /\ saved' = <<sql>>
    /\ UNCHANGED <<sql, cache, current, buckets, failed, accesses>>

(* applyTx past commonValid, which loads the source account.               *)
applyTx(source) ==
    /\ Depth = 1
    /\ loadAccount(source) # Null
    /\ deltas' = Append(Push(Recorded(Open(Top.header), source)),
                        Open(Top.header))
    /\ saved' = Append(saved, sql)
    /\ cache' \in CachedByLoad(source)
    /\ failed' = FALSE
    /\ UNCHANGED <<sql, current, buckets, accesses>>

(* applyTx returns from commonValid: no account, or a bad signature.       *)
commonValidFails(source) ==
    /\ Depth = 1
    /\ cache' \in CachedByLoad(source)
    /\ UNCHANGED <<sql, deltas, saved, current, buckets, failed, accesses>>

(* The account that commonValid loaded for the open transaction.           *)
signingAccount == DOMAIN deltas[2].previous

(* The next operation; OperationFrame::checkValid loads its source, unless *)
(* that is the transaction's.                                              *)
applyOperation(source) ==
    /\ Depth = 3
    /\ \/ /\ source \in signingAccount
          /\ deltas' = Push(Open(Top.header))
          /\ UNCHANGED cache
       \/ /\ source \notin signingAccount
          /\ deltas' = Push(Recorded(Open(Top.header), source))
          /\ cache' \in CachedByLoad(source)
    /\ UNCHANGED <<sql, saved, current, buckets, failed, accesses>>

(* The operation returns; its delta is committed whatever the result.      *)
operationEnds(result) ==
    /\ Depth = 4
    /\ deltas' = Committed(deltas)
    /\ failed' = (failed \/ ~result)
    /\ UNCHANGED <<sql, cache, saved, current, buckets, accesses>>

tryApproveRequest ==
    /\ Depth = 4
    /\ deltas' = Push(Open(Top.header))
    /\ saved' = Append(saved, sql)
    /\ UNCHANGED <<sql, cache, current, buckets, failed, accesses>>

requestApproved ==
    /\ Depth = 5
    /\ deltas' = Committed(deltas)
    /\ saved' = Front(saved)
    /\ UNCHANGED <<sql, cache, current, buckets, failed, accesses>>

(* Leaving scopes without a commit: from the innermost to the one at depth *)
(* n + 1 each delta's rollback() flushes the keys it touched, and SQL goes *)
(* back to its m-th savepoint.                                             *)
rollbackTo_uncached(n, m) ==
    /\ deltas' = SubSeq(deltas, 1, n)
    /\ saved' = SubSeq(saved, 1, m - 1)
    /\ sql' = saved[m]
    /\ UNCHANGED <<cache, current, buckets, failed, accesses>>

rollbackTo(n, m) ==
    /\ deltas' = SubSeq(deltas, 1, n)
    /\ saved' = SubSeq(saved, 1, m - 1)
    /\ sql' = saved[m]
    /\ cache' = flushCachedEntry(UNION {Touched(deltas[i]) :
                                            i \in n + 1..Depth})
    /\ UNCHANGED <<current, buckets, failed, accesses>>

requestRefused == Depth = 5 /\ rollbackTo(4, 3)

(* All operations went well and every signature was used: thisTxDelta is   *)
(* committed, then applyTransactions commits its own delta.                *)
transactionSucceeds ==
    /\ Depth = 3 /\ ~failed
    /\ deltas' = Committed(Committed(deltas))
    /\ saved' = Front(saved)
    /\ UNCHANGED <<sql, cache, current, buckets, failed, accesses>>

(* An operation failed, or checkAllSignaturesUsed did.                     *)
transactionFails == Depth = 3 /\ rollbackTo(1, 2)

(* An exception out of an operation, caught in applyTransactions.          *)
transactionThrows == Depth \in {4, 5} /\ rollbackTo(1, 2)

-----------------------------------------------------------------------------
(* What operations do to entries, through the entry helpers.               *)

Operating == Depth \in {4, 5} /\ accesses < MaxAccess

load(k, record) ==
    /\ Operating
    /\ cache' \in CachedByLoad(k)
    /\ deltas' = IF record THEN Append(Front(deltas), Recorded(Top, k)) ELSE deltas
    /\ UNCHANGED <<sql, saved, current, buckets, failed>>
    /\ accesses' = accesses + 1

(* A store touches the entry, flushes it from the cache, writes the row    *)
(* and notes the change in the delta.                                      *)
Touch(v) == [val |-> v, lastModified |-> Top.header.ledgerSeq]

storeUpdate(rows, d, k) ==
    /\ sql' = [sql EXCEPT !.rows = rows]
    /\ deltas' = Append(Front(deltas), d)
    /\ cache' = flushCachedEntry({k})
    /\ UNCHANGED <<saved, current, buckets, failed>>
    /\ accesses' = accesses + 1

(* Inserting a row that exists, or updating one that does not, throws.     *)
storeAdd(k, v) ==
    /\ Operating
    /\ k \in Named \ DOMAIN sql.rows
    /\ storeUpdate(Over(Single(k, Touch(v)), sql.rows),
                   addEntry(Top, Single(k, Touch(v))), k)

storeChange_untouched(k, v) ==
    /\ Operating
    /\ k \in DOMAIN sql.rows
    /\ LET new == Single(k, [sql.rows[k] EXCEPT !.val = v])
       IN  storeUpdate(Over(new, sql.rows), modEntry(Top, new), k)

storeChange(k, v) ==
    /\ Operating
    /\ k \in DOMAIN sql.rows
    /\ storeUpdate(Over(Single(k, Touch(v)), sql.rows),
                   modEntry(Top, Single(k, Touch(v))), k)

storeDelete(k) ==
    /\ Operating
    /\ k \in DOMAIN sql.rows
    /\ storeUpdate(Without(sql.rows, {k}), deleteEntry(Top, {k}), k)

(* An entry whose key LedgerHeaderFrame::generateID takes from the delta's *)
(* header: requests, offers, sales, payment requests.                      *)
generateID_ledger(id, v) ==
    /\ Operating
    /\ id = deltas[1].header.idPool + 1 /\ id <= MaxId
    /\ sql' = [sql EXCEPT !.rows = Over(Single(id, Touch(v)), @)]
    /\ deltas' = [deltas EXCEPT ![Depth] = addEntry(@, Single(id, Touch(v))),
                                ![1].header.idPool = id]
    /\ cache' = flushCachedEntry({id})
    /\ accesses' = accesses + 1
    /\ UNCHANGED <<saved, current, buckets, failed>>

generateID(id, v) ==
    /\ Operating
    /\ id = Top.header.idPool + 1 /\ id <= MaxId
    /\ storeUpdate(Over(Single(id, Touch(v)), sql.rows),
                   [addEntry(Top, Single(id, Touch(v)))
                        EXCEPT !.header.idPool = id],
                   id)

-----------------------------------------------------------------------------
(* The end of the ledger.                                                  *)

NextHeader(header) == [header EXCEPT !.ledgerSeq = @ + 1]

(* The rows after the changes of a delta; also what the bucket list holds  *)
(* once it was given them.                                                 *)
addBatch(rows, live, dead) == Over(live, Without(rows, dead))

(* ledgerDelta.commit() and closeLedgerHelper: the batch goes to the       *)
(* bucket list, the header and the archive state to SQL, and the ledger    *)
(* pointers advance.                                                       *)
closeLedgerHelper ==
    /\ Depth = 1
    /\ buckets' = addBatch(buckets, getLiveEntries(Top), getDeadEntries(Top))
    /\ sql' = [sql EXCEPT !.lcl = Top.header, !.has = buckets']
    /\ current' = NextHeader(Top.header)
    /\ deltas' = <<>>
    /\ UNCHANGED <<cache, saved, failed, accesses>>

commitLedger ==
    /\ Depth = 0 /\ saved # <<>>
    /\ saved' = <<>>
    /\ UNCHANGED <<sql, cache, deltas, current, buckets, failed, accesses>>

(* The process dies and restarts with loadLastKnownLedger.                 *)
loadLastKnownLedger ==
    LET known == IF saved = <<>> THEN sql ELSE Head(saved)
    IN  /\ sql' = known
        /\ current' = NextHeader(known.lcl)
        /\ buckets' = known.has
        /\ cache' = Empty /\ deltas' = <<>> /\ saved' = <<>>
        /\ failed' = FALSE
        /\ UNCHANGED accesses

-----------------------------------------------------------------------------
(* startNewLedger: the system accounts of the genesis ledger.              *)
Init ==
    /\ \E v \in Value :
           buckets = [k \in Genesis |-> [val |-> v, lastModified |-> 1]]
    /\ sql = [rows |-> buckets, has |-> buckets,
              lcl |-> [ledgerSeq |-> 1, idPool |-> 0]]
    /\ current = NextHeader(sql.lcl)
    /\ cache = Empty /\ deltas = <<>> /\ saved = <<>>
    /\ failed = FALSE /\ accesses = 0

Storing ==
    \/ \E k \in Key, record \in BOOLEAN : load(k, record)
    \/ \E k \in Key, v \in Value :
           storeAdd(k, v) \/ storeChange(k, v) \/ generateID(k, v)
    \/ \E k \in Key : storeDelete(k)

Next ==
    \/ closeLedger
    \/ \E source \in Signer : applyTx(source) \/ commonValidFails(source)
    \/ \E source \in Account : applyOperation(source)
    \/ Storing
    \/ \E result \in BOOLEAN : operationEnds(result)
    \/ tryApproveRequest \/ requestApproved \/ requestRefused
    \/ transactionSucceeds \/ transactionFails \/ transactionThrows
    \/ closeLedgerHelper \/ commitLedger
    \/ loadLastKnownLedger

Spec == Init /\ [][Next]_vars

-----------------------------------------------------------------------------
(* The entry that rows hold under a key, if any.                           *)
Held(rows, k) == IF k \in DOMAIN rows THEN {rows[k]} ELSE {}

(* The row SQL shows for a key is the one that the innermost delta that    *)
(* touched it says, and the one that the bucket list holds if none did: so *)
(* the batch closeLedgerHelper gives to the bucket list makes it equal to  *)
(* the database, whatever scopes were committed, rolled back or thrown out *)
(* of before (LedgerDelta::mergeEntries, closeLedgerHelper).               *)
DeltasAccountForRows ==
    \A k \in Key :
        LET touching == {i \in 1..Depth : k \in Touched(deltas[i])}
        IN  /\ touching = {} => Held(sql.rows, k) = Held(buckets, k)
            /\ \A i \in touching :
                   (\A j \in touching : j <= i) =>
                       Held(sql.rows, k) = Held(getLiveEntries(deltas[i]), k)

(* An entry the cache holds is the row SQL shows, and an entry it knows to *)
(* be missing has no row: flushing on stores and in rollback() is enough   *)
(* (what invariant/CacheIsConsistentWithDatabase.cpp looks for).           *)
CacheIsConsistentWithDatabase ==
    \A k \in DOMAIN cache : cache[k] = Stored(k)

(* No assert of addEntry or modEntry and no "unexpected header state" can  *)
(* fail, in the operation that stores next or in any commit to come, and   *)
(* a transaction that fails has left applyTransactions' delta and header   *)
(* as they were (the asserts at LedgerManagerImpl.cpp:901).                *)
AssertsHold ==
    /\ Depth > 0 =>
           \A k \in Key : IF k \in DOMAIN sql.rows
                          THEN ModAllowed(Top, k)
                          ELSE AddAllowed(Top, k)
    /\ \A i \in 2..Depth : CommitAllowed(deltas[i - 1], deltas[i])
    /\ Depth > 1 => /\ Touched(deltas[2]) = {}
                    /\ deltas[2].header = deltas[1].header

(* The older version of an entry that a delta publishes (addCurrentMeta)   *)
(* is the entry as the last closed ledger had it, never one of a           *)
(* transaction that was rolled back or of an earlier step of this ledger.  *)
PublishedStateIsOfLastLedger ==
    \A i \in 1..Depth : \A k \in DOMAIN deltas[i].mod \cup deltas[i].del :
        \A e \in addCurrentMeta(deltas[i], k) :
            k \in DOMAIN buckets /\ e = buckets[k]

(* The identifiers a header can still generate are those of no row: a      *)
(* rolled back scope gives its identifiers back only with its entries      *)
(* (LedgerHeaderFrame::generateID, LedgerDelta::commit).                   *)
GeneratedIdsAreFresh ==
    LET header == IF Depth = 0 THEN current ELSE Top.header
    IN  \A id \in header.idPool + 1..MaxId : id \notin DOMAIN sql.rows
=============================================================================
