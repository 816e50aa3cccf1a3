----------------------- MODULE TransactionQueueProofs -----------------------
(***************************************************************************)
(* The safety of the transaction queue, for every set of nodes, system of  *)
(* intersecting quorums, finite set of envelopes, contents, time bounds,   *)
(* period of expiration and size of a set.                                 *)
(*                                                                         *)
(* The inductive invariant says what a node's txtiming table amounts to:   *)
(* it holds nothing but contents of the ledgers up to the node's last one, *)
(* and lacks only those of ledgers it missed and those that expired before *)
(* its last ledger.  Two facts about the ledgers a node may miss make this *)
(* enough.  A transaction expires within a fixed time of the ledger it is  *)
(* in, so a row that a node lacks matters for that long only.  And those   *)
(* who agreed on the ledger after one had closed it themselves, so that,   *)
(* where operators do not interfere, each quorum has a node with its rows. *)
(***************************************************************************)
EXTENDS TransactionQueue, FiniteSetTheorems, SequenceTheorems, TLAPS

LedgerValue == [txs : SUBSET Tx, closeTime : 0..LastTime]

Proposal == [txs : SUBSET Tx, closeTime : 0..LastTime, by : Node]

Queue == [1..Levels -> SUBSET Tx]

InLedger(c, i) == c \in contents(chain[i].txs)

TypeOK ==
    /\ chain \in Seq(LedgerValue)
    /\ proposals \in SUBSET Proposal
    /\ lcl \in [Node -> Nat]
    /\ tracking \in [Node -> Nat]
    /\ txtiming \in [Node -> SUBSET Contents]
    /\ pending \in [Node -> Queue]
    /\ missed \in [Node -> SUBSET Nat]

(* A node knows the ledgers it closed, and only ledgers of the chain.      *)
BehindChain == \A n \in Node : lcl[n] <= tracking[n] /\ tracking[n] <= Len(chain)

CloseTimesIncrease ==
    \A i, j \in 1..Len(chain) : i < j => chain[i].closeTime < chain[j].closeTime

(* Whatever is in a ledger was valid after the ledger before.              *)
AppliedInTime ==
    \A i \in 1..Len(chain) : \A c \in Contents :
        InLedger(c, i) => commonValid(c, closeTimeAt(i - 1))

(* The rows T of a node at ledger l that missed the ledgers M: it has seen *)
(* what it remembers, and remembers what it stored and did not expire.     *)
TableRight(n, l, T, M) ==
    /\ \A c \in T : \E i \in 1..l : InLedger(c, i) /\ (i \in M => n \in Manual)
    /\ \A i \in 1..l : \A c \in Contents :
           InLedger(c, i) /\ i \notin M /\ MaxTime[c] >= closeTimeAt(l) => c \in T

(* The last ledger of the chain is not missed, but by an operator.         *)
MissedRight(n, l, M) ==
    /\ M \subseteq 1..Len(chain)
    /\ n \notin Manual => M \subseteq 1..l /\ Len(chain) \notin M

TimingKept ==
    \A n \in Node : /\ TableRight(n, lcl[n], txtiming[n], missed[n])
                    /\ MissedRight(n, lcl[n], missed[n])

(* Who agreed on the ledger after i had closed i.                          *)
ClosedByQuorum ==
    \A i \in 1..Len(chain) - 1 : \E Q \in Quorum :
        \A n \in Q \ Manual : i <= lcl[n] /\ i \notin missed[n]

(* A proposal is valid, but for what its proposer missed.                  *)
ProposalKept(p) ==
    /\ p.closeTime > closeTimeAt(Len(chain))
    /\ Cardinality(p.txs) <= MaxTxSetSize
    /\ \A tx \in p.txs :
           /\ commonValid(ContentsOf[tx], closeTimeAt(Len(chain)))
           /\ \A i \in 1..Len(chain) :
                  InLedger(ContentsOf[tx], i) => i \in missed[p.by]

ProposalsKept == \A p \in proposals : ProposalKept(p)

IInv ==
    /\ TypeOK
    /\ BehindChain
    /\ CloseTimesIncrease
    /\ AppliedInTime
    /\ TimingKept
    /\ ClosedByQuorum
    /\ ProposalsKept
    /\ AppliedOnce

-----------------------------------------------------------------------------
(* What the invariant says of verdicts.                                    *)

LEMMA CloseTimeType ==
    ASSUME TypeOK, NEW i \in 0..Len(chain)
    PROVE  closeTimeAt(i) \in 0..LastTime
  <1>1. CASE i = 0
    BY <1>1, TransactionsAssumption DEF closeTimeAt
  <1>2. CASE i # 0
    <2>1. chain[i] \in LedgerValue
      BY <1>2 DEF TypeOK
    <2> QED
      BY <1>2, <2>1 DEF LedgerValue, closeTimeAt
  <1> QED
    BY <1>1, <1>2

(* A later ledger has a later close time.                                  *)
LEMMA CloseTimesGrow ==
    ASSUME IInv, NEW i \in 0..Len(chain), NEW j \in 0..Len(chain), i <= j
    PROVE  closeTimeAt(i) <= closeTimeAt(j)
<1>1. closeTimeAt(i) \in Nat /\ closeTimeAt(j) \in Nat
  BY CloseTimeType DEF IInv
<1>2. Len(chain) \in Nat
  BY DEF IInv, TypeOK
<1> QED
  BY <1>1, <1>2 DEF IInv, CloseTimesIncrease, closeTimeAt

LEMMA LclType ==
    ASSUME IInv, NEW n \in Node
    PROVE  /\ Len(chain) \in Nat /\ lcl[n] \in 0..Len(chain)
           /\ getCloseTime(n) = closeTimeAt(lcl[n]) /\ getCloseTime(n) \in Nat
  <1>1. Len(chain) \in Nat /\ lcl[n] \in 0..Len(chain)
    BY DEF IInv, TypeOK, BehindChain
  <1> QED
    BY <1>1, CloseTimeType DEF getCloseTime, IInv

LEMMA ContentsType ==
    ASSUME NEW txs \in SUBSET Tx
    PROVE  contents(txs) \in SUBSET Contents
  BY TransactionsAssumption DEF contents

(* By the time a node has caught up with a ledger it missed, all that was  *)
(* in the ledger has expired.                                              *)
LEMMA Expired ==
    ASSUME IInv, NEW n \in Node, CaughtUp(n), NEW i \in missed[n],
           NEW c \in Contents, InLedger(c, i),
           NEW l \in 0..Len(chain), lcl[n] <= l
    PROVE  ~commonValid(c, closeTimeAt(l))
<1>1. i \in 1..Len(chain) /\ i - 1 \in 0..Len(chain)
  BY DEF IInv, TimingKept, MissedRight
<1>2. commonValid(c, closeTimeAt(i - 1))
  BY <1>1 DEF IInv, AppliedInTime
<1>3. closeTimeAt(i - 1) + ExpirationPeriod < closeTimeAt(lcl[n])
  BY LclType DEF CaughtUp
<1>4. closeTimeAt(lcl[n]) <= closeTimeAt(l)
  BY LclType, CloseTimesGrow
<1>5. /\ closeTimeAt(i - 1) \in Nat /\ closeTimeAt(l) \in Nat
      /\ closeTimeAt(lcl[n]) \in Nat /\ MaxTime[c] \in Nat
      /\ ExpirationPeriod \in Nat
  BY <1>1, LclType, CloseTimeType, TransactionsAssumption DEF IInv
<1> QED
  BY <1>2, <1>3, <1>4, <1>5 DEF commonValid

(* What a node finds valid is in no ledger but those it missed.            *)
LEMMA ValidNotStored ==
    ASSUME IInv, NEW n \in Node, NEW tx \in Tx, checkValid(n, tx),
           NEW i \in 1..lcl[n], InLedger(ContentsOf[tx], i)
    PROVE  i \in missed[n]
<1>1. ContentsOf[tx] \in Contents
  BY TransactionsAssumption
<1>2. MaxTime[ContentsOf[tx]] >= closeTimeAt(lcl[n])
  BY LclType DEF checkValid, commonValid
<1>3. ContentsOf[tx] \notin txtiming[n]
  BY DEF checkValid, timingExists
<1>4. TableRight(n, lcl[n], txtiming[n], missed[n])
  BY DEF IInv, TimingKept
<1> QED
  BY <1>1, <1>2, <1>3, <1>4 DEF TableRight

(* The verdict of a node that has caught up is a matter of the chain.      *)
LEMMA Verdict ==
    ASSUME IInv, NEW n \in Node, CaughtUp(n), NEW tx \in Tx
    PROVE  checkValid(n, tx) <=>
               /\ commonValid(ContentsOf[tx], closeTimeAt(lcl[n]))
               /\ \A i \in 1..lcl[n] : ~InLedger(ContentsOf[tx], i)
<1> DEFINE c == ContentsOf[tx]
<1>1. c \in Contents /\ lcl[n] \in 0..Len(chain)
  BY LclType, TransactionsAssumption
<1>2. ASSUME checkValid(n, tx), NEW i \in 1..lcl[n], InLedger(c, i)
      PROVE  FALSE
  <2>1. i \in missed[n]
    BY <1>2, ValidNotStored
  <2>2. commonValid(c, closeTimeAt(lcl[n]))
    BY <1>2, LclType DEF checkValid
  <2> QED
    BY <1>1, <1>2, <2>1, <2>2, Expired
<1>3. ASSUME \A i \in 1..lcl[n] : ~InLedger(c, i)
      PROVE  c \notin txtiming[n]
  BY <1>3 DEF IInv, TimingKept, TableRight
<1> QED
  BY <1>2, <1>3, LclType DEF checkValid, timingExists

LEMMA InvImpliesSameVerdict == IInv => SameVerdict
  <1> SUFFICES ASSUME IInv, NEW n \in Node, NEW m \in Node, lcl[n] = lcl[m],
                      CaughtUp(n), CaughtUp(m), NEW tx \in Tx
               PROVE  checkValid(n, tx) <=> checkValid(m, tx)
    BY DEF SameVerdict
  <1>1. checkValid(n, tx) <=>
            /\ commonValid(ContentsOf[tx], closeTimeAt(lcl[n]))
            /\ \A i \in 1..lcl[n] : ~InLedger(ContentsOf[tx], i)
    BY Verdict, Zenon
  <1>2. checkValid(m, tx) <=>
            /\ commonValid(ContentsOf[tx], closeTimeAt(lcl[m]))
            /\ \A i \in 1..lcl[m] : ~InLedger(ContentsOf[tx], i)
    BY Verdict, Zenon
  <1> QED
    BY <1>1, <1>2

LEMMA InvImpliesProposalsAreValid == IInv => ProposalsAreValid
  <1> SUFFICES ASSUME IInv, NEW p \in proposals, NEW n \in Node,
                      lcl[n] = Len(chain),
                      CaughtUp(p.by) \/ (n = p.by /\ n \notin Manual)
               PROVE  txSetValid(n, p.txs) /\ p.closeTime > getCloseTime(n)
    BY DEF ProposalsAreValid
  <1>1. p.txs \in SUBSET Tx /\ p.by \in Node /\ ProposalKept(p)
    BY DEF IInv, TypeOK, Proposal, ProposalsKept
  <1>2. ASSUME NEW tx \in p.txs, ContentsOf[tx] \in txtiming[n] PROVE FALSE
    <2>1. PICK i \in 1..lcl[n] : /\ InLedger(ContentsOf[tx], i)
                                 /\ i \in missed[n] => n \in Manual
      BY <1>2 DEF IInv, TimingKept, TableRight
    <2>2. i \in missed[p.by] /\ commonValid(ContentsOf[tx], closeTimeAt(Len(chain)))
      BY <1>1, <2>1 DEF ProposalKept
    <2>3. CASE CaughtUp(p.by)
      <3>1. ContentsOf[tx] \in Contents
        BY <1>1, TransactionsAssumption
      <3>2. Len(chain) \in 0..Len(chain) /\ lcl[p.by] <= Len(chain)
        BY <1>1, LclType
      <3> QED
        BY <1>1, <2>1, <2>2, <2>3, <3>1, <3>2, Expired
    <2> QED
      BY <2>1, <2>2, <2>3
  <1>3. \A tx \in p.txs : checkValid(n, tx)
    BY <1>1, <1>2, LclType DEF ProposalKept, checkValid, timingExists
  <1> QED
    BY <1>1, <1>3, LclType DEF ProposalKept, txSetValid

LEMMA InvImpliesNextLedgerCloses == IInv => NextLedgerCloses
  <1> SUFFICES ASSUME IInv, NEW n \in Node, lcl[n] < Len(chain),
                      NEW tx \in chain[lcl[n] + 1].txs,
                      ContentsOf[tx] \in txtiming[n]
               PROVE  \E i \in 1..lcl[n] : ForgottenByQuorum(i)
    BY DEF NextLedgerCloses, storeTransactionTimingThrows, timingExists
  <1>1. PICK i \in 1..lcl[n] : InLedger(ContentsOf[tx], i)
    BY DEF IInv, TimingKept, TableRight
  <1>2. ContentsOf[tx] \in contents(chain[lcl[n] + 1].txs)
    BY DEF contents
  <1>3. i \in 1..Len(chain) /\ lcl[n] + 1 \in 1..Len(chain) /\ i < lcl[n] + 1
    BY LclType
  <1> QED
    BY <1>1, <1>2, <1>3, Zenon DEF IInv, AppliedOnce, InLedger

-----------------------------------------------------------------------------
(* The initial state.                                                      *)

LEMMA InitInv == Init => IInv
  <1> SUFFICES ASSUME Init PROVE IInv
    OBVIOUS
  <1>1. TypeOK /\ Len(chain) = 0
    BY DEF Init, TypeOK, Queue
  <1>2. TimingKept
    BY <1>1 DEF Init, TimingKept, TableRight, MissedRight
  <1> QED
    BY <1>1, <1>2 DEF Init, IInv, BehindChain, CloseTimesIncrease,
       AppliedInTime, ClosedByQuorum, ProposalsKept, AppliedOnce

-----------------------------------------------------------------------------
(* Steps that leave the chain alone.                                       *)

LEMMA ExceptAt ==
    ASSUME NEW R, NEW f \in [Node -> R], NEW n \in Node, NEW v \in R,
           NEW g, g = [f EXCEPT ![n] = v]
    PROVE  /\ g \in [Node -> R]
           /\ \A m \in Node : g[m] = IF m = n THEN v ELSE f[m]
  OBVIOUS

(* The state of node n moves to ledger l, table T and missed ledgers M.    *)
LEMMA NodeStep ==
    ASSUME IInv, NEW n \in Node, chain' = chain,
           NEW l \in 0..Len(chain), lcl' = [lcl EXCEPT ![n] = l],
           NEW T \in SUBSET Contents, txtiming' = [txtiming EXCEPT ![n] = T],
           NEW M \in SUBSET Nat, missed' = [missed EXCEPT ![n] = M],
           missed[n] \subseteq M,
           TableRight(n, l, T, M), MissedRight(n, l, M),
           n \notin Manual => /\ lcl[n] <= l
                              /\ \A i \in M : i <= lcl[n] => i \in missed[n],
           pending' \in [Node -> Queue],
           tracking' \in [Node -> Nat],
           \A m \in Node : lcl'[m] <= tracking'[m] /\ tracking'[m] <= Len(chain),
           proposals' \in SUBSET Proposal,
           \A p \in proposals' : p \in proposals \/ ProposalKept(p)
    PROVE  IInv'
<1>0. Len(chain) \in Nat
  BY DEF IInv, TypeOK
<1>f. /\ /\ lcl' \in [Node -> Nat]
         /\ \A m \in Node : lcl'[m] = IF m = n THEN l ELSE lcl[m]
      /\ /\ txtiming' \in [Node -> SUBSET Contents]
         /\ \A m \in Node : txtiming'[m] = IF m = n THEN T ELSE txtiming[m]
      /\ /\ missed' \in [Node -> SUBSET Nat]
         /\ \A m \in Node : missed'[m] = IF m = n THEN M ELSE missed[m]
  <2>1. /\ lcl \in [Node -> Nat] /\ txtiming \in [Node -> SUBSET Contents]
        /\ missed \in [Node -> SUBSET Nat]
    BY Zenon DEF IInv, TypeOK
  <2>2. l \in Nat
    BY <1>0
  <2> QED
    BY <2>1, <2>2, ExceptAt, Zenon
<1>1. \A m \in Node : /\ lcl'[m] = IF m = n THEN l ELSE lcl[m]
                      /\ txtiming'[m] = IF m = n THEN T ELSE txtiming[m]
                      /\ missed'[m] = IF m = n THEN M ELSE missed[m]
  BY <1>f, Zenon
<1>2. \A m \in Node : missed[m] \subseteq missed'[m]
  BY <1>1
<1>3. TypeOK' /\ BehindChain'
  BY <1>f, Zenon DEF IInv, TypeOK, BehindChain
<1>4. CloseTimesIncrease' /\ AppliedInTime'
  BY ZenonT(30) DEF IInv, CloseTimesIncrease, AppliedInTime, InLedger, closeTimeAt,
         commonValid
<1>5. TimingKept'
  <2> SUFFICES ASSUME NEW m \in Node
               PROVE  /\ TableRight(m, lcl[m], txtiming[m], missed[m])'
                      /\ MissedRight(m, lcl[m], missed[m])'
    BY Zenon DEF TimingKept
  <2>1. /\ TableRight(m, lcl'[m], txtiming'[m], missed'[m])
        /\ MissedRight(m, lcl'[m], missed'[m])
    <3>1. CASE m = n
      BY <1>1, <3>1, Zenon
    <3>2. CASE m # n
      <4>1. lcl'[m] = lcl[m] /\ txtiming'[m] = txtiming[m] /\ missed'[m] = missed[m]
        BY <1>1, <3>2, Zenon
      <4> QED
        BY <4>1, Zenon DEF IInv, TimingKept
    <3> QED
      BY <3>1, <3>2
  <2>2. \A c, i : InLedger(c, i)' <=> InLedger(c, i)
    BY DEF InLedger
  <2>3. \A i : closeTimeAt(i)' = closeTimeAt(i)
    BY DEF closeTimeAt
  <2> QED
    BY <2>1, <2>2, <2>3 DEF TableRight, MissedRight
<1>6. ClosedByQuorum'
  <2> SUFFICES ASSUME NEW i \in 1..Len(chain) - 1
               PROVE  \E Q \in Quorum : \A m \in Q \ Manual :
                          i <= lcl'[m] /\ i \notin missed'[m]
    BY ZenonT(30) DEF ClosedByQuorum
  <2>1. PICK Q \in Quorum : \A m \in Q \ Manual :
                                i <= lcl[m] /\ i \notin missed[m]
    BY DEF IInv, ClosedByQuorum
  <2>2. ASSUME NEW m \in Q \ Manual
        PROVE  i <= lcl'[m] /\ i \notin missed'[m]
    <3>1. m \in Node /\ lcl[m] \in Nat /\ i \in Nat /\ l \in Nat
      BY <1>0, TransactionsAssumption DEF IInv, TypeOK
    <3>2. i <= lcl[m] /\ i \notin missed[m]
      BY <2>1, <2>2
    <3>3. CASE m # n
      BY <1>1, <3>1, <3>2, <3>3
    <3>4. CASE m = n
      <4>1. lcl'[m] = l /\ missed'[m] = M
        BY <1>1, <3>4, Zenon
      <4>2. n \notin Manual /\ i <= lcl[n] /\ i \notin missed[n]
        BY <2>2, <3>2, <3>4, Zenon
      <4>3. lcl[n] <= l
        BY <4>2, Zenon
      <4>4. i \notin M
        BY <4>2, Zenon
      <4> QED
        BY <3>1, <3>4, <4>1, <4>2, <4>3, <4>4
    <3> QED
      BY <3>3, <3>4
  <2> QED
    BY <2>2
<1>7. ProposalsKept'
  <2> SUFFICES ASSUME NEW p \in proposals' PROVE ProposalKept(p)'
    BY DEF ProposalsKept
  <2>1. ProposalKept(p) /\ p.by \in Node
    BY DEF IInv, ProposalsKept, Proposal
  <2>2. \A i \in missed[p.by] : i \in missed'[p.by]
    BY <1>2, <2>1
  <2> QED
    BY <2>1, <2>2 DEF ProposalKept, InLedger, closeTimeAt, commonValid
<1>8. AppliedOnce'
  <2>1. \A i : ForgottenByQuorum(i) => ForgottenByQuorum(i)'
    BY <1>2, TransactionsAssumption, ZenonT(30) DEF ForgottenByQuorum
  <2> QED
    BY <2>1, ZenonT(30) DEF IInv, AppliedOnce
<1> QED
  BY <1>3, <1>4, <1>5, <1>6, <1>7, <1>8 DEF IInv

(* Steps that leave the ledgers and the tables alone, too.                 *)
LEMMA QueueStep ==
    ASSUME IInv, NEW n \in Node, UNCHANGED <<chain, lcl, txtiming, missed>>,
           pending' \in [Node -> Queue],
           tracking' \in [Node -> Nat],
           \A m \in Node : lcl[m] <= tracking'[m] /\ tracking'[m] <= Len(chain),
           proposals' \in SUBSET Proposal,
           \A p \in proposals' : p \in proposals \/ ProposalKept(p)
    PROVE  IInv'
<1>1. /\ lcl[n] \in 0..Len(chain) /\ lcl[n] \in Nat
      /\ txtiming[n] \in SUBSET Contents /\ missed[n] \in SUBSET Nat
  BY LclType DEF IInv, TypeOK
<1>2. /\ lcl' = [lcl EXCEPT ![n] = lcl[n]]
      /\ txtiming' = [txtiming EXCEPT ![n] = txtiming[n]]
      /\ missed' = [missed EXCEPT ![n] = missed[n]]
  BY DEF IInv, TypeOK
<1>3. /\ TableRight(n, lcl[n], txtiming[n], missed[n])
      /\ MissedRight(n, lcl[n], missed[n])
  BY DEF IInv, TimingKept
<1>4. chain' = chain /\ lcl[n] <= lcl[n] /\ lcl' = lcl
  BY <1>1
<1> QED
  BY <1>1, <1>2, <1>3, <1>4, NodeStep, ZenonT(30)

LEMMA RecvTransactionStep ==
    ASSUME IInv, NEW n \in Node, NEW tx \in Tx, recvTransaction(n, tx)
    PROVE  IInv'
  <1>1. pending' \in [Node -> Queue]
    BY TransactionsAssumption DEF IInv, TypeOK, recvTransaction, Queue
  <1> QED
    BY <1>1, QueueStep, ZenonT(30) DEF recvTransaction, IInv, TypeOK, BehindChain

LEMMA RestartStep ==
    ASSUME IInv, NEW n \in Node, restart(n)
    PROVE  IInv'
  <1>1. pending' \in [Node -> Queue]
    BY DEF IInv, TypeOK, restart, Queue
  <1>2. /\ tracking' \in [Node -> Nat]
        /\ \A m \in Node : lcl[m] <= tracking'[m] /\ tracking'[m] <= Len(chain)
    BY DEF IInv, TypeOK, BehindChain, restart
  <1> QED
    BY <1>1, <1>2, QueueStep, ZenonT(30) DEF restart, IInv, TypeOK

(* The queue holds transactions, and surge pricing leaves few enough.      *)
LEMMA PendingType ==
    ASSUME TypeOK, NEW n \in Node
    PROVE  Pending(n) \in SUBSET Tx
  <1>1. pending[n] \in [1..Levels -> SUBSET Tx]
    BY DEF TypeOK, Queue
  <1>2. ASSUME NEW S \in Range(pending[n]) PROVE S \in SUBSET Tx
    BY <1>1, <1>2, Zenon DEF Range
  <1> QED
    BY <1>2 DEF Pending

LEMMA SurgePricing ==
    ASSUME NEW S \in SUBSET Tx, NEW txs \in surgePricingFilter(S)
    PROVE  txs \in SUBSET S /\ Cardinality(txs) <= MaxTxSetSize
  <1>1. Cardinality(S) \in Nat
    BY TransactionsAssumption, FS_Subset, FS_CardinalityType
  <1> QED
    BY <1>1, TransactionsAssumption DEF surgePricingFilter, kSubset

LEMMA TriggerStep ==
    ASSUME IInv, NEW n \in Node, triggerNextLedger(n)
    PROVE  IInv'
<1> DEFINE valid == trimInvalid(n, Pending(n))
<1>1. valid \in SUBSET Tx /\ \A tx \in valid : checkValid(n, tx)
  BY PendingType DEF IInv, trimInvalid
<1>2. pending' \in [Node -> Queue]
  BY ZenonT(30) DEF IInv, TypeOK, triggerNextLedger, removeReceivedTxs, Queue
<1>3. PICK txs \in surgePricingFilter(valid),
           closeTime \in getCloseTime(n) + 1..LastTime :
              proposals' = IF /\ lcl[n] = Len(chain)
                              /\ Cardinality(proposals) < MaxProposals
                           THEN proposals \cup
                                {[txs |-> txs, closeTime |-> closeTime,
                                  by |-> n]}
                           ELSE proposals
  BY ZenonT(30) DEF triggerNextLedger
<1>4. txs \in SUBSET valid /\ Cardinality(txs) <= MaxTxSetSize
  BY <1>1, SurgePricing
<1>5. closeTime \in 0..LastTime /\ closeTime > closeTimeAt(lcl[n])
  BY LclType, TransactionsAssumption
<1>6. ASSUME NEW tx \in txs
      PROVE  /\ commonValid(ContentsOf[tx], closeTimeAt(lcl[n]))
             /\ \A i \in 1..lcl[n] :
                    InLedger(ContentsOf[tx], i) => i \in missed[n]
  <2>1. tx \in Tx /\ checkValid(n, tx)
    BY <1>1, <1>4
  <2>2. commonValid(ContentsOf[tx], closeTimeAt(lcl[n]))
    BY <2>1, LclType DEF checkValid
  <2> QED
    BY <2>1, <2>2, ValidNotStored
<1> DEFINE new == [txs |-> txs, closeTime |-> closeTime, by |-> n]
<1>7. new \in Proposal
  BY <1>1, <1>4, <1>5 DEF Proposal
<1>8. lcl[n] = Len(chain) => ProposalKept(new)
  <2> SUFFICES ASSUME lcl[n] = Len(chain) PROVE ProposalKept(new)
    OBVIOUS
  <2>1. new.txs = txs /\ new.closeTime = closeTime /\ new.by = n
    OBVIOUS
  <2> HIDE DEF new
  <2> QED
    BY <1>4, <1>5, <1>6, <2>1 DEF ProposalKept
<1>9. /\ proposals' \in SUBSET Proposal
      /\ \A p \in proposals' : p \in proposals \/ ProposalKept(p)
  <2>1. proposals \in SUBSET Proposal
    BY DEF IInv, TypeOK
  <2>2. proposals' = proposals \/
            (lcl[n] = Len(chain) /\ proposals' = proposals \cup {new})
    BY <1>3
  <2> HIDE DEF new
  <2> QED
    BY <1>7, <1>8, <2>1, <2>2
<1> QED
  BY <1>2, <1>9, QueueStep, ZenonT(30) DEF triggerNextLedger, IInv, TypeOK, BehindChain

-----------------------------------------------------------------------------
(* Consensus.                                                              *)

(* A set of numbers up to a bound has a largest one.                       *)
LEMMA MaxExists ==
    ASSUME NEW N \in Nat, NEW S \in SUBSET (0..N), S # {}
    PROVE  Max(S) \in S
<1> DEFINE Gap == {N - x : x \in S}
           Less == {ss \in Nat \X Nat : ss[1] < ss[2]}
<1>1. IsWellFoundedOn(Less, Nat)
  BY NatLessThanWellFounded DEF OpToRel
<1>2. Gap \subseteq Nat /\ Gap # {}
  <2>1. \A x \in S : N - x \in Nat
    OBVIOUS
  <2>2. PICK x \in S : TRUE
    BY ZenonT(30)
  <2>3. N - x \in Gap
    BY Zenon
  <2> QED
    BY <2>1, <2>3
<1>3. PICK g \in Gap : \A y \in Gap : ~(<<y, g>> \in Less)
  <2> HIDE DEF Gap, Less
  <2> QED
    BY <1>1, <1>2, WFMin, ZenonT(30)
<1>4. PICK x \in S : g = N - x
  OBVIOUS
<1>5. ASSUME NEW y \in S PROVE x >= y
  <2>1. ~(<<N - y, g>> \in Less)
    BY <1>3
  <2>2. N - y \in Nat /\ g \in Nat
    OBVIOUS
  <2>3. ~(N - y < g)
    BY <2>1, <2>2
  <2> QED
    BY <1>4, <2>3
<1> QED
  BY <1>5, ZenonT(30) DEF Max

(* What combineCandidates makes of proposals is later than the last ledger. *)
LEMMA CombinedValue ==
    ASSUME IInv, NEW n \in Node, NEW candidates \in SUBSET proposals,
           candidates # {}, NEW value \in combineCandidates(n, candidates)
    PROVE  /\ value \in LedgerValue
           /\ value.closeTime > closeTimeAt(Len(chain))
<1> DEFINE times == {d.closeTime : d \in candidates}
<1>1. \A d \in candidates : d \in Proposal
  BY DEF IInv, TypeOK
<1>2. times \in SUBSET (0..LastTime) /\ times # {}
  BY <1>1 DEF Proposal
<1>3. Max(times) \in times
  BY <1>2, MaxExists, TransactionsAssumption, ZenonT(30)
<1>4. Max(times) \in 0..LastTime /\ Max(times) > closeTimeAt(Len(chain))
  BY <1>2, <1>3 DEF IInv, ProposalsKept, ProposalKept
<1>5. PICK c \in candidates : value = [txs |-> trimInvalid(n, c.txs),
                                       closeTime |-> Max(times)]
  BY ZenonT(30) DEF combineCandidates
<1>6. trimInvalid(n, c.txs) \in SUBSET Tx
  BY <1>1 DEF trimInvalid, Proposal
<1> QED
  BY <1>4, <1>5, <1>6 DEF LedgerValue

(* A quorum that agrees on contents of ledger i lacks that ledger, and one *)
(* of its nodes lacks it by what an operator did.                          *)
LEMMA AgreedTwice ==
    ASSUME IInv, NEW n \in Node, NEW Q \in Quorum, NEW value \in LedgerValue,
           Agreed(n, Q, value), NEW i \in 1..Len(chain), NEW tx \in value.txs,
           InLedger(ContentsOf[tx], i)
    PROVE  ForgottenByQuorum(i)
<1>1. Q \in SUBSET Node /\ tx \in Tx /\ Len(chain) \in Nat
  BY TransactionsAssumption DEF LedgerValue, IInv, TypeOK
<1>2. ASSUME NEW m \in Q PROVE i \in missed[m]
  <2>1. m \in Node /\ lcl[m] = Len(chain) /\ checkValid(m, tx)
    BY <1>1 DEF Agreed, txSetValid
  <2> QED
    BY <1>1, <2>1, ValidNotStored
<1>3. Q \cap Manual # {}
  <2>1. CASE i = Len(chain)
    <3>1. PICK m \in Q : TRUE
      BY TransactionsAssumption
    <3>2. MissedRight(m, lcl[m], missed[m])
      BY <1>1 DEF IInv, TimingKept
    <3> QED
      BY <1>2, <2>1, <3>1, <3>2 DEF MissedRight
  <2>2. CASE i # Len(chain)
    <3>1. i \in 1..Len(chain) - 1
      BY <1>1, <2>2
    <3>2. PICK R \in Quorum : \A m \in R \ Manual : i \notin missed[m]
      BY <3>1 DEF IInv, ClosedByQuorum
    <3>3. PICK m \in Q \cap R : TRUE
      BY TransactionsAssumption
    <3> QED
      BY <1>2, <3>2, <3>3
  <2> QED
    BY <2>1, <2>2
<1> QED
  BY <1>2, <1>3 DEF ForgottenByQuorum

LEMMA AgreedStep ==
    ASSUME IInv, NEW n \in Node, NEW Q \in Quorum, NEW value \in LedgerValue,
           value.closeTime > closeTimeAt(Len(chain)), Agreed(n, Q, value)
    PROVE  IInv'
<1> DEFINE last == Len(chain)
<1>1. last \in Nat /\ chain \in Seq(LedgerValue)
  BY DEF IInv, TypeOK
<1>2. /\ chain' \in Seq(LedgerValue) /\ Len(chain') = last + 1
      /\ \A i \in 1..last : chain'[i] = chain[i]
      /\ chain'[last + 1] = value
  BY <1>1 DEF Agreed
<1>3. UNCHANGED <<lcl, tracking, txtiming, pending, missed>> /\ proposals' = {}
  BY DEF Agreed
<1>4. TypeOK' /\ BehindChain' /\ ProposalsKept'
  BY <1>1, <1>2, <1>3 DEF IInv, TypeOK, BehindChain, ProposalsKept
<1>5. CloseTimesIncrease'
  <2> SUFFICES ASSUME NEW i \in 1..(last + 1), NEW j \in 1..(last + 1), i < j
               PROVE  chain'[i].closeTime < chain'[j].closeTime
    BY <1>2 DEF CloseTimesIncrease
  <2>1. CASE j \in 1..last
    BY <1>1, <1>2, <2>1 DEF IInv, CloseTimesIncrease
  <2>2. CASE j = last + 1
    <3>1. i \in 1..last /\ last \in 1..last
      BY <1>1, <2>2
    <3>2. /\ closeTimeAt(i) = chain[i].closeTime
          /\ closeTimeAt(i) <= closeTimeAt(last)
          /\ closeTimeAt(i) \in Nat /\ closeTimeAt(last) \in Nat
      BY <1>1, <3>1, CloseTimesGrow, CloseTimeType DEF IInv, closeTimeAt
    <3>3. value.closeTime \in Nat /\ value.closeTime > closeTimeAt(last)
      BY DEF LedgerValue
    <3>4. chain'[i].closeTime = closeTimeAt(i) /\ chain'[j].closeTime = value.closeTime
      BY <1>2, <2>2, <3>1, <3>2
    <3> QED
      BY <3>2, <3>3, <3>4
  <2> QED
    BY <1>1, <2>1, <2>2
<1>6. \A i \in 1..last : \A c : InLedger(c, i)' <=> InLedger(c, i)
  BY <1>2 DEF InLedger
<1>7. \A i \in 0..last : closeTimeAt(i)' = closeTimeAt(i)
  BY <1>1, <1>2 DEF closeTimeAt
<1>8. AppliedInTime'
  <2> SUFFICES ASSUME NEW i \in 1..last + 1, NEW c \in Contents, InLedger(c, i)'
               PROVE  commonValid(c, closeTimeAt(i - 1)')
    BY <1>2 DEF AppliedInTime, commonValid
  <2>1. closeTimeAt(i - 1)' = closeTimeAt(i - 1)
    BY <1>1, <1>7
  <2>2. CASE i \in 1..last
    BY <1>6, <2>1, <2>2 DEF IInv, AppliedInTime
  <2>3. CASE i = last + 1
    <3>1. PICK tx \in value.txs : c = ContentsOf[tx]
      BY <1>2, <2>3 DEF InLedger, contents
    <3>2. PICK m \in Q : TRUE
      BY TransactionsAssumption
    <3>3. m \in Node /\ lcl[m] = last /\ checkValid(m, tx)
      BY TransactionsAssumption DEF Agreed, txSetValid
    <3>4. commonValid(c, closeTimeAt(last))
      BY <3>1, <3>3, LclType DEF checkValid
    <3> QED
      BY <1>1, <2>1, <2>3, <3>4
  <2> QED
    BY <1>1, <2>2, <2>3
<1>9. TimingKept'
  <2> SUFFICES ASSUME NEW m \in Node
               PROVE  /\ TableRight(m, lcl[m], txtiming[m], missed[m])'
                      /\ MissedRight(m, lcl[m], missed[m])'
    BY Zenon DEF TimingKept
  <2>1. /\ lcl[m] \in 0..last
        /\ TableRight(m, lcl[m], txtiming[m], missed[m])
        /\ MissedRight(m, lcl[m], missed[m])
    BY LclType DEF IInv, TimingKept
  <2>2. \A i \in 1..lcl[m] : i \in 1..last
    BY <1>1, <2>1
  <2>3. TableRight(m, lcl[m], txtiming[m], missed[m])'
    BY <1>3, <1>6, <1>7, <2>1, <2>2, Zenon DEF TableRight
  <2>4. MissedRight(m, lcl[m], missed[m])'
    BY <1>1, <1>2, <1>3, <2>1 DEF MissedRight
  <2> QED
    BY <2>3, <2>4
<1>10. ClosedByQuorum'
  <2> SUFFICES ASSUME NEW i \in 1..last
               PROVE  \E R \in Quorum : \A m \in R \ Manual :
                          i <= lcl[m] /\ i \notin missed[m]
    BY <1>1, <1>2, <1>3 DEF ClosedByQuorum
  <2>1. CASE i \in 1..last - 1
    BY <2>1 DEF IInv, ClosedByQuorum
  <2>2. CASE i = last
    <3>1. ASSUME NEW m \in Q \ Manual
          PROVE  i <= lcl[m] /\ i \notin missed[m]
      <4>1. m \in Node /\ lcl[m] = last
        BY TransactionsAssumption DEF Agreed
      <4>2. MissedRight(m, lcl[m], missed[m])
        BY <4>1 DEF IInv, TimingKept
      <4> QED
        BY <1>1, <2>2, <3>1, <4>1, <4>2 DEF MissedRight
    <3> QED
      BY <3>1
  <2> QED
    BY <1>1, <2>1, <2>2
<1>11. AppliedOnce'
  <2> SUFFICES ASSUME NEW i \in 1..last + 1, NEW j \in 1..last + 1, i < j,
                      NEW c, InLedger(c, i)', InLedger(c, j)'
               PROVE  ForgottenByQuorum(i)
    BY <1>2, <1>3, ZenonT(30) DEF AppliedOnce, ForgottenByQuorum, InLedger
  <2>1. i \in 1..last /\ InLedger(c, i)
    BY <1>1, <1>6
  <2>2. CASE j \in 1..last
    BY <1>6, <2>1, <2>2 DEF IInv, AppliedOnce, InLedger
  <2>3. CASE j = last + 1
    <3>1. PICK tx \in value.txs : c = ContentsOf[tx]
      BY <1>2, <2>3 DEF InLedger, contents
    <3> QED
      BY <2>1, <3>1, AgreedTwice
  <2> QED
    BY <1>1, <2>2, <2>3
<1> QED
  BY <1>4, <1>5, <1>8, <1>9, <1>10, <1>11 DEF IInv

-----------------------------------------------------------------------------
(* Closing and skipping ledgers, maintenance and new databases.            *)

(* A row that is needed at a later ledger was needed before.               *)
LEMMA NeededLater ==
    ASSUME IInv, NEW k \in 0..Len(chain), NEW l \in 0..Len(chain), k <= l,
           NEW c \in Contents, MaxTime[c] >= closeTimeAt(l)
    PROVE  MaxTime[c] >= closeTimeAt(k)
  <1>1. closeTimeAt(k) <= closeTimeAt(l)
    BY CloseTimesGrow
  <1>2. closeTimeAt(l) \in Nat /\ closeTimeAt(k) \in Nat
    BY CloseTimeType DEF IInv
  <1>3. MaxTime[c] \in Nat
    BY TransactionsAssumption
  <1> QED
    BY <1>1, <1>2, <1>3

LEMMA DeleteOldEntriesStep ==
    ASSUME IInv, NEW n \in Node, deleteOldEntries(n)
    PROVE  IInv'
<1> DEFINE T == {c \in txtiming[n] : MaxTime[c] >= getCloseTime(n)}
<1>1. /\ lcl[n] \in 0..Len(chain) /\ lcl[n] <= lcl[n]
      /\ lcl' = [lcl EXCEPT ![n] = lcl[n]]
  BY LclType DEF IInv, TypeOK, deleteOldEntries
<1>2. T \in SUBSET Contents /\ txtiming' = [txtiming EXCEPT ![n] = T]
  BY DEF IInv, TypeOK, deleteOldEntries
<1>3. missed[n] \in SUBSET Nat /\ missed' = [missed EXCEPT ![n] = missed[n]]
  BY DEF IInv, TypeOK, deleteOldEntries
<1>4. /\ TableRight(n, lcl[n], T, missed[n])
      /\ MissedRight(n, lcl[n], missed[n])
  <2>1. /\ TableRight(n, lcl[n], txtiming[n], missed[n])
        /\ MissedRight(n, lcl[n], missed[n])
    BY DEF IInv, TimingKept
  <2>2. getCloseTime(n) = closeTimeAt(lcl[n])
    BY LclType
  <2> QED
    BY <2>1, <2>2 DEF TableRight
<1>5. /\ UNCHANGED <<chain, proposals, pending, tracking>>
      /\ pending' \in [Node -> Queue]
      /\ tracking' \in [Node -> Nat]
      /\ proposals' \in SUBSET Proposal
      /\ \A m \in Node : lcl'[m] <= tracking'[m] /\ tracking'[m] <= Len(chain)
  BY DEF IInv, TypeOK, BehindChain, deleteOldEntries
<1> HIDE DEF T
<1> QED
  BY <1>1, <1>2, <1>3, <1>4, <1>5, NodeStep, Zenon

(* Closing the next ledger keeps the table right, because whoever did not  *)
(* expire by the new close time had not expired by the old one.            *)
LEMMA CloseLedgerStep ==
    ASSUME IInv, NEW n \in Node, lcl[n] < Len(chain), closeLedger(n),
           UNCHANGED <<chain, proposals>>,
           pending' \in [Node -> Queue],
           tracking' \in [Node -> Nat],
           \A m \in Node : lcl'[m] <= tracking'[m] /\ tracking'[m] <= Len(chain)
    PROVE  IInv'
<1> DEFINE l == lcl[n] + 1
           T == txtiming[n] \cup contents(chain[l].txs)
<1>1. /\ lcl[n] \in 0..Len(chain) /\ l \in 1..Len(chain) /\ Len(chain) \in Nat
      /\ l \in 0..Len(chain) /\ lcl[n] <= l
  BY LclType
<1>2. contents(chain[l].txs) \in SUBSET Contents
  <2>1. chain[l] \in LedgerValue
    BY <1>1 DEF IInv, TypeOK
  <2> QED
    BY <2>1, ContentsType DEF LedgerValue
<1>3. T \in SUBSET Contents
  BY <1>2 DEF IInv, TypeOK
<1>4. /\ lcl' = [lcl EXCEPT ![n] = l] /\ txtiming' = [txtiming EXCEPT ![n] = T]
      /\ missed' = [missed EXCEPT ![n] = missed[n]]
  BY DEF closeLedger, IInv, TypeOK
<1>5. /\ TableRight(n, lcl[n], txtiming[n], missed[n])
      /\ MissedRight(n, lcl[n], missed[n]) /\ missed[n] \in SUBSET Nat
  BY DEF IInv, TimingKept, TypeOK
<1>6. \A i \in 1..l : i \in 1..lcl[n] \/ i = l
  BY <1>1
<1>7. TableRight(n, l, T, missed[n])
  <2>1. ASSUME NEW c \in T
        PROVE  \E i \in 1..l : InLedger(c, i) /\ (i \in missed[n] => n \in Manual)
    <3>1. CASE c \in txtiming[n]
      BY <1>1, <1>5, <3>1 DEF TableRight
    <3>2. CASE c \in contents(chain[l].txs)
      <4>1. l \in 1..l /\ InLedger(c, l)
        BY <1>1, <3>2 DEF InLedger
      <4>2. l \in missed[n] => n \in Manual
        BY <1>1, <1>5 DEF MissedRight
      <4> QED
        BY <4>1, <4>2, Zenon
    <3> QED
      BY <2>1, <3>1, <3>2
  <2>2. ASSUME NEW i \in 1..l, NEW c \in Contents, InLedger(c, i),
               i \notin missed[n], MaxTime[c] >= closeTimeAt(l)
        PROVE  c \in T
    <3>1. CASE i = l
      BY <2>2, <3>1 DEF InLedger
    <3>2. CASE i \in 1..lcl[n]
      <4>1. MaxTime[c] >= closeTimeAt(lcl[n])
        BY <1>1, <2>2, NeededLater
      <4> QED
        BY <1>5, <2>2, <3>2, <4>1 DEF TableRight
    <3> QED
      BY <1>6, <3>1, <3>2
  <2> HIDE DEF l, T
  <2> QED
    BY <2>1, <2>2, Zenon DEF TableRight
<1>8. MissedRight(n, l, missed[n])
  BY <1>1, <1>5 DEF MissedRight
<1>9. proposals' \in SUBSET Proposal /\ proposals' = proposals /\ chain' = chain
  BY DEF IInv, TypeOK
<1> HIDE DEF l, T
<1> QED
  BY <1>1, <1>3, <1>4, <1>5, <1>7, <1>8, <1>9, NodeStep, Zenon

LEMMA ReplayLedgerStep ==
    ASSUME IInv, NEW n \in Node, replayLedger(n)
    PROVE  IInv'
<1>1. lcl[n] \in Nat /\ lcl[n] + 1 <= tracking[n] /\ lcl[n] < Len(chain)
  BY DEF IInv, TypeOK, BehindChain, replayLedger
<1>2. \A m \in Node : lcl'[m] <= tracking'[m] /\ tracking'[m] <= Len(chain)
  BY <1>1 DEF IInv, TypeOK, BehindChain, replayLedger, closeLedger
<1> QED
  BY <1>1, <1>2, CloseLedgerStep, Zenon DEF IInv, TypeOK, replayLedger

LEMMA ValueExternalizedStep ==
    ASSUME IInv, NEW n \in Node, NEW i \in Nat, valueExternalized(n, i)
    PROVE  IInv'
<1>1. /\ i \in tracking[n] + 1..Len(chain) /\ tracking[n] \in Nat
      /\ lcl[n] \in Nat /\ lcl[n] <= tracking[n] /\ Len(chain) \in Nat
  BY DEF IInv, TypeOK, BehindChain, valueExternalized
<1>2. tracking' = [tracking EXCEPT ![n] = i] /\ tracking' \in [Node -> Nat]
  BY DEF IInv, TypeOK, valueExternalized
<1>3. pending' \in [Node -> Queue]
  <2>1. updatePendingTransactions(pending[n], chain[i].txs) \in Queue
    BY TransactionsAssumption DEF IInv, TypeOK, updatePendingTransactions,
       removeReceivedTxs, Queue
  <2> QED
    BY <2>1 DEF IInv, TypeOK, valueExternalized
<1>4. CASE isSynced(n) /\ i = lcl[n] + 1
  <2>1. closeLedger(n)
    BY <1>4 DEF valueExternalized
  <2>2. \A m \in Node : lcl'[m] <= tracking'[m] /\ tracking'[m] <= Len(chain)
    BY <1>1, <1>2, <1>4, <2>1 DEF IInv, TypeOK, BehindChain, closeLedger
  <2>3. lcl[n] < Len(chain)
    BY <1>1, <1>4
  <2> QED
    BY <1>2, <1>3, <2>1, <2>2, <2>3, CloseLedgerStep, Zenon DEF valueExternalized
<1>5. CASE ~(isSynced(n) /\ i = lcl[n] + 1)
  <2>1. UNCHANGED <<chain, proposals, lcl, txtiming, missed>>
    BY <1>5 DEF valueExternalized
  <2>2. \A m \in Node : lcl[m] <= tracking'[m] /\ tracking'[m] <= Len(chain)
    BY <1>1, <1>2 DEF IInv, TypeOK, BehindChain
  <2> QED
    BY <1>2, <1>3, <2>1, <2>2, QueueStep, Zenon DEF IInv, TypeOK
<1> QED
  BY <1>4, <1>5

(* A ledger that is adopted adds to what is missed, not to the table.      *)
LEMMA AdoptLedgerStep ==
    ASSUME IInv, NEW n \in Node, NEW l \in 0..Len(chain), lcl[n] < l,
           adoptLedger(n, l), n \notin Manual => l < Len(chain),
           tracking' \in [Node -> Nat],
           \A m \in Node : lcl'[m] <= tracking'[m] /\ tracking'[m] <= Len(chain)
    PROVE  IInv'
<1> DEFINE M == missed[n] \cup (lcl[n] + 1..l)
<1>1. /\ lcl[n] \in 0..Len(chain) /\ Len(chain) \in Nat /\ lcl[n] <= l
      /\ lcl[n] \in Nat /\ l \in Nat
  BY LclType
<1>2. /\ TableRight(n, lcl[n], txtiming[n], missed[n])
      /\ MissedRight(n, lcl[n], missed[n])
      /\ missed[n] \in SUBSET Nat /\ txtiming[n] \in SUBSET Contents
  BY DEF IInv, TimingKept, TypeOK
<1>3. M \in SUBSET Nat
  BY <1>1, <1>2
<1>4. /\ lcl' = [lcl EXCEPT ![n] = l]
      /\ txtiming' = [txtiming EXCEPT ![n] = txtiming[n]]
      /\ missed' = [missed EXCEPT ![n] = M]
  BY DEF adoptLedger, IInv, TypeOK
<1>5. TableRight(n, l, txtiming[n], M)
  <2>1. ASSUME NEW c \in txtiming[n]
        PROVE  \E i \in 1..l : InLedger(c, i) /\ (i \in M => n \in Manual)
    <3>1. PICK i \in 1..lcl[n] : InLedger(c, i) /\ (i \in missed[n] => n \in Manual)
      BY <1>2, <2>1 DEF TableRight
    <3>2. i \in 1..l /\ i \notin lcl[n] + 1..l
      BY <1>1
    <3> QED
      BY <3>1, <3>2, Zenon
  <2>2. ASSUME NEW i \in 1..l, NEW c \in Contents, InLedger(c, i),
               i \notin M, MaxTime[c] >= closeTimeAt(l)
        PROVE  c \in txtiming[n]
    <3>1. i \in 1..lcl[n] /\ i \notin missed[n]
      BY <1>1, <2>2
    <3>2. MaxTime[c] >= closeTimeAt(lcl[n])
      BY <1>1, <2>2, NeededLater
    <3> QED
      BY <1>2, <2>2, <3>1, <3>2 DEF TableRight
  <2> HIDE DEF M
  <2> QED
    BY <2>1, <2>2, Zenon DEF TableRight
<1>6. MissedRight(n, l, M)
  BY <1>1, <1>2 DEF MissedRight
<1>7. \A i \in M : i <= lcl[n] => i \in missed[n]
  BY <1>1
<1>8. /\ UNCHANGED <<chain, proposals>> /\ proposals' \in SUBSET Proposal
      /\ pending' \in [Node -> Queue]
  BY DEF IInv, TypeOK, adoptLedger
<1>9. missed[n] \subseteq M
  OBVIOUS
<1> HIDE DEF M
<1> QED
  BY <1>1, <1>2, <1>3, <1>4, <1>5, <1>6, <1>7, <1>8, <1>9, NodeStep, ZenonT(30)

LEMMA HistoryCaughtupStep ==
    ASSUME IInv, NEW n \in Node, NEW i \in Nat, historyCaughtup(n, i)
    PROVE  IInv'
<1>1. /\ lcl[n] \in Nat /\ tracking[n] \in Nat /\ Len(chain) \in Nat
      /\ tracking[n] <= Len(chain) /\ i \in lcl[n] + 1..tracking[n] - 1
      /\ adoptLedger(n, i) /\ tracking' = tracking
  BY DEF IInv, TypeOK, BehindChain, historyCaughtup
<1>2. i \in 0..Len(chain) /\ lcl[n] < i /\ i < Len(chain) /\ i <= tracking[n]
  BY <1>1
<1>3. \A m \in Node : lcl'[m] <= tracking'[m] /\ tracking'[m] <= Len(chain)
  BY <1>1, <1>2 DEF IInv, TypeOK, BehindChain, adoptLedger
<1> QED
  BY <1>1, <1>2, <1>3, AdoptLedgerStep DEF IInv, TypeOK

LEMMA ManualCatchupStep ==
    ASSUME IInv, NEW n \in Node, NEW i \in Nat, manualCatchup(n, i)
    PROVE  IInv'
<1>1. /\ lcl[n] \in Nat /\ Len(chain) \in Nat /\ n \in Manual
      /\ i \in lcl[n] + 1..Len(chain)
      /\ adoptLedger(n, i) /\ tracking' = [tracking EXCEPT ![n] = i]
  BY DEF IInv, TypeOK, BehindChain, manualCatchup
<1>2. i \in 0..Len(chain) /\ lcl[n] < i
  BY <1>1
<1>3. tracking' \in [Node -> Nat]
  BY <1>1 DEF IInv, TypeOK
<1>4. \A m \in Node : lcl'[m] <= tracking'[m] /\ tracking'[m] <= Len(chain)
  BY <1>1, <1>2 DEF IInv, TypeOK, BehindChain, adoptLedger
<1> QED
  BY <1>1, <1>2, <1>3, <1>4, AdoptLedgerStep

LEMMA InitializeDatabaseStep ==
    ASSUME IInv, NEW n \in Node, initializeDatabase(n)
    PROVE  IInv'
<1> DEFINE M == missed[n] \cup (1..lcl[n])
<1>1. /\ lcl[n] \in 0..Len(chain) /\ Len(chain) \in Nat /\ n \in Manual
      /\ 0 \in 0..Len(chain)
  BY LclType DEF initializeDatabase
<1>2. MissedRight(n, lcl[n], missed[n]) /\ missed[n] \in SUBSET Nat
  BY DEF IInv, TimingKept, TypeOK
<1>3. M \in SUBSET Nat /\ missed[n] \subseteq M
  BY <1>1, <1>2
<1>4. /\ lcl' = [lcl EXCEPT ![n] = 0]
      /\ txtiming' = [txtiming EXCEPT ![n] = {}]
      /\ missed' = [missed EXCEPT ![n] = M]
  BY DEF initializeDatabase
<1>5. TableRight(n, 0, {}, M)
  BY DEF TableRight
<1>6. MissedRight(n, 0, M)
  BY <1>1, <1>2 DEF MissedRight
<1>7. /\ UNCHANGED <<chain, proposals>> /\ proposals' \in SUBSET Proposal
      /\ pending' \in [Node -> Queue] /\ tracking' \in [Node -> Nat]
  BY DEF IInv, TypeOK, initializeDatabase, Queue
<1>8. \A m \in Node : lcl'[m] <= tracking'[m] /\ tracking'[m] <= Len(chain)
  BY <1>1 DEF IInv, TypeOK, BehindChain, initializeDatabase
<1>9. {} \in SUBSET Contents
  OBVIOUS
<1> HIDE DEF M
<1> QED
  BY <1>1, <1>3, <1>4, <1>5, <1>6, <1>7, <1>8, <1>9, NodeStep, Zenon

-----------------------------------------------------------------------------
(* Every step preserves the invariant.                                     *)

LEMMA NextInv == IInv /\ [Next]_vars => IInv'
<1> SUFFICES ASSUME IInv, [Next]_vars PROVE IInv'
  OBVIOUS
<1>1. CASE UNCHANGED vars
  BY <1>1, ZenonT(30) DEF vars, IInv, TypeOK, BehindChain, CloseTimesIncrease,
     AppliedInTime, TimingKept, ClosedByQuorum, ProposalsKept, AppliedOnce,
     TableRight, MissedRight, ProposalKept, ForgottenByQuorum, InLedger,
     closeTimeAt, commonValid
<1>2. ASSUME NEW n \in Node, NEW candidates \in (SUBSET proposals) \ {{}},
             NEW Q \in Quorum,
             NEW value \in combineCandidates(n, candidates),
             Agreed(n, Q, value)
      PROVE  IInv'
  <2>1. candidates \in SUBSET proposals /\ candidates # {}
    OBVIOUS
  <2>2. value \in LedgerValue /\ value.closeTime > closeTimeAt(Len(chain))
    BY <2>1, CombinedValue, Zenon
  <2> QED
    BY <1>2, <2>2, AgreedStep, Zenon
<1>3. ASSUME NEW n \in Node, NEW i \in 1..LastTime,
             \/ valueExternalized(n, i)
             \/ historyCaughtup(n, i)
             \/ manualCatchup(n, i)
      PROVE  IInv'
  <2>1. i \in Nat
    BY TransactionsAssumption
  <2> QED
    BY <1>3, <2>1, ValueExternalizedStep, HistoryCaughtupStep, ManualCatchupStep,
       Zenon
<1>4. ASSUME NEW n \in Node, NEW tx \in Reaches[n], recvTransaction(n, tx)
      PROVE  IInv'
  <2>1. tx \in Tx
    BY TransactionsAssumption
  <2> QED
    BY <1>4, <2>1, RecvTransactionStep
<1> QED
  BY <1>1, <1>2, <1>3, <1>4, TriggerStep, ReplayLedgerStep,
     DeleteOldEntriesStep, RestartStep, InitializeDatabaseStep DEF Next

LEMMA Invariance == Spec => []IInv
  BY InitInv, NextInv, PTL DEF Spec

(* No contents are in two ledgers, unless operators made a quorum forget   *)
(* the first one, for any intersecting quorums, time bounds and period of  *)
(* expiration, although maintenance deletes what expired, nodes that lag   *)
(* offer it again and catchup from buckets leaves no rows                  *)
(* (TransactionFrame::checkValid, deleteOldEntries, historyCaughtup).      *)
THEOREM NeverAppliedTwice == Spec => []AppliedOnce
  BY Invariance, PTL DEF IInv

(* With no operator that interferes, no contents are in two ledgers at     *)
(* all, whichever nodes catch up from buckets.                             *)
THEOREM AppliedOnceByDefault ==
    ASSUME Manual = {}
    PROVE  Spec => [](\A i, j \in 1..Len(chain) : i < j =>
               contents(chain[i].txs) \cap contents(chain[j].txs) = {})
<1>1. AppliedOnce => (\A i, j \in 1..Len(chain) : i < j =>
                          contents(chain[i].txs) \cap contents(chain[j].txs) = {})
  BY DEF AppliedOnce, ForgottenByQuorum
<1> QED
  BY <1>1, NeverAppliedTwice, PTL

(* Nodes with the same last closed ledger, for which the expiration period *)
(* has passed since the ledgers they skipped, agree on which transactions  *)
(* are valid, whenever they ran maintenance, restarted or replayed         *)
(* (TransactionFrame::commonValid, checkValid).                            *)
THEOREM VerdictsAgree == Spec => []SameVerdict
  BY Invariance, InvImpliesSameVerdict, PTL

(* What a node nominates stays valid for itself and, when it has caught    *)
(* up, for every node at the head of the chain until the ledger is decided *)
(* (HerderImpl::triggerNextLedger).                                        *)
THEOREM ProposalsStayValid == Spec => []ProposalsAreValid
  BY Invariance, InvImpliesProposalsAreValid, PTL

(* Closing the next ledger fails for a row of txtiming only when its set   *)
(* has contents twice or a quorum has forgotten                            *)
(* (TransactionFrame::storeTransactionTiming).                             *)
THEOREM LedgersClose == Spec => []NextLedgerCloses
  BY Invariance, InvImpliesNextLedgerCloses, PTL
=============================================================================
