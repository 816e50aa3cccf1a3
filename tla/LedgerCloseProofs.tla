-------------------------- MODULE LedgerCloseProofs --------------------------
(***************************************************************************)
(* The safety of closing ledgers, for every set of keys, values, cache     *)
(* size and number of ledgers.                                             *)
(*                                                                         *)
(* The inductive invariant gives every open scope the rows that it started *)
(* from and the rows it has led to: B[i - 1] and B[i] for deltas[i].  The  *)
(* first are those of the bucket list and the last those SQL shows, and    *)
(* each savepoint holds the rows of the scope it belongs to.  A scope that *)
(* ends drops out of the chain, from its end or from within, and the chain *)
(* remains one.                                                            *)
(***************************************************************************)
EXTENDS LedgerDeltaProofs

(* The scopes with a savepoint: the ledger, the transaction, the review.   *)
ScopeOf(m) == IF m = 1 THEN 0 ELSE IF m = 2 THEN 1 ELSE 4

Savepoints(depth) ==
    IF depth = 0 THEN {0, 1}
    ELSE IF depth = 1 THEN {1}
    ELSE IF depth = 5 THEN {3} ELSE {2}

TypeOK ==
    /\ sql \in Database
    /\ saved \in Seq(Database)
    /\ buckets \in Rows
    /\ Depth \in {0, 1, 3, 4, 5}
    /\ Len(saved) \in Savepoints(Depth)

(* applyTransactions' delta stays as it was opened.                        *)
TransactionApart ==
    Depth > 1 => Touched(deltas[2]) = {} /\ deltas[2].header = deltas[1].header

(* What is committed, if the process dies now, is a ledger.                *)
Recoverable ==
    LET known == IF saved = <<>> THEN sql ELSE saved[1]
    IN  known.rows = known.has /\ Fresh(known.rows, known.lcl)

(* What the scopes started from.                                           *)
SavedRows(B) ==
    \A m \in 1..Len(saved) :
        /\ saved[m].rows = B[ScopeOf(m)]
        /\ saved[m].has = buckets
        /\ saved[m].lcl = sql.lcl

Scoped(B) ==
    /\ Stack(deltas, B, buckets, current)
    /\ sql.rows = B[Depth]
    /\ Depth > 0 => SavedRows(B)

Inv ==
    /\ TypeOK
    /\ current = NextHeader(sql.lcl)
    /\ sql.has = buckets
    /\ Depth = 0 => Fresh(sql.rows, sql.lcl)
    /\ TransactionApart
    /\ Recoverable
    /\ CacheIsConsistentWithDatabase

IInv == Inv /\ \E B : Scoped(B)

-----------------------------------------------------------------------------
(* The invariant is kept by every action.                                  *)

LEMMA InnermostScope ==
    ASSUME Inv, NEW B, Scoped(B)
    PROVE  /\ Depth \in 0..5 /\ deltas \in Seq(Delta)
           /\ \A i \in 0..Depth : B[i] \in Rows
           /\ sql.rows \in Rows /\ current \in Header
           /\ Recent(sql.rows, buckets, current.ledgerSeq)
<1>1. /\ Depth \in {0, 1, 3, 4, 5} /\ Stack(deltas, B, buckets, current)
      /\ sql.rows = B[Depth]
  BY DEF Inv, TypeOK, Scoped
<1>2. /\ deltas \in Seq(Delta) /\ \A i \in 0..Depth : B[i] \in Rows
      /\ current \in Header
  BY <1>1, StackTypes DEF Depth, Stack
<1>3. Depth \in 0..Len(deltas)
  BY <1>1 DEF Depth
<1>4. Recent(B[Depth], buckets, current.ledgerSeq)
  BY <1>1, <1>3, StackRecent
<1>5. Depth \in 0..5 /\ B[Depth] \in Rows
  BY <1>1, <1>2
<1>. QED BY <1>1, <1>2, <1>4, <1>5

LEMMA TopScope ==
    ASSUME Inv, NEW B, Scoped(B), Depth > 0
    PROVE  /\ Top = deltas[Depth] /\ Top \in Delta /\ Top.header \in Header
           /\ B[Depth - 1] \in Rows
           /\ Scope(B[Depth - 1], sql.rows, Top, buckets, current)
           /\ Around(deltas, Depth + 1, current) = Top.header
           /\ Fresh(sql.rows, Top.header)
           /\ Top.header.ledgerSeq = current.ledgerSeq
<1>1. /\ Depth \in 0..5 /\ \A i \in 0..Depth : B[i] \in Rows
      /\ deltas \in Seq(Delta)
  BY InnermostScope
<1>2. Depth \in 1..Len(deltas) /\ Depth - 1 \in 0..Depth
  BY <1>1 DEF Depth
<1>3. Top = deltas[Depth] /\ Top \in Delta
  BY <1>1, <1>2 DEF Top, Last, Depth
<1>4. Scope(B[Depth - 1], sql.rows, Top, buckets, current)
  BY <1>2, <1>3 DEF Scoped, Stack
<1>5. Top.header \in Header
  BY <1>3, DeltaFields
<1>6. Around(deltas, Depth + 1, current) = Top.header
  BY <1>1, <1>2, <1>3 DEF Around
<1>7. Fresh(sql.rows, Top.header) /\ Top.header.ledgerSeq = current.ledgerSeq
  BY <1>4 DEF Scope
<1>. QED BY <1>1, <1>2, <1>3, <1>4, <1>5, <1>6, <1>7

(* A step within a ledger.                                                 *)
LEMMA StepInLedger ==
    ASSUME Inv, NEW B, Scoped(B), Depth > 0,
           NEW C, Stack(deltas', C, buckets', current'),
           Depth' \in {1, 3, 4, 5}, sql'.rows = C[Depth'],
           sql' \in Database, sql'.has = sql.has, sql'.lcl = sql.lcl,
           buckets' = buckets, current' = current,
           saved' \in Seq(Database), Len(saved') \in Savepoints(Depth'),
           saved'[1] = saved[1], SavedRows(C)',
           TransactionApart', CacheIsConsistentWithDatabase'
    PROVE  IInv'
<1>1. TypeOK'
  BY DEF Inv, TypeOK
<1>2. current' = NextHeader(sql'.lcl) /\ sql'.has = buckets'
  BY DEF Inv, NextHeader
<1>3. Depth' # 0 /\ saved' # <<>> /\ saved # <<>>
  BY DEF Savepoints, Inv, TypeOK
<1>4. Recoverable'
  BY <1>3 DEF Inv, Recoverable, Fresh
<1>5. Inv'
  BY <1>1, <1>2, <1>3, <1>4 DEF Inv
<1>6. Scoped(C)'
  BY DEF Scoped
<1>. QED BY <1>5, <1>6 DEF IInv

LEMMA SavepointsKept ==
    ASSUME Inv, NEW B, Scoped(B), Depth > 0
    PROVE  /\ saved \in Seq(Database) /\ Len(saved) \in Savepoints(Depth)
           /\ sql \in Database /\ sql.has = buckets
           /\ \A m \in 1..Len(saved) :
                  /\ saved[m] \in Database
                  /\ saved[m].rows = B[ScopeOf(m)]
                  /\ saved[m].has = buckets /\ saved[m].lcl = sql.lcl
<1>1. /\ saved \in Seq(Database) /\ Len(saved) \in Savepoints(Depth)
      /\ sql \in Database /\ sql.has = buckets
  BY DEF Inv, TypeOK
<1>2. \A m \in 1..Len(saved) : saved[m] \in Database
  BY <1>1
<1>. QED BY <1>1, <1>2 DEF Scoped, SavedRows

LEMMA CloseLedgerStep ==
    ASSUME Inv, NEW B, Scoped(B), closeLedger
    PROVE  IInv'
<1>1. /\ deltas' = <<Open(current)>> /\ saved' = <<sql>> /\ deltas = <<>>
      /\ saved = <<>> /\ Depth = 0
      /\ UNCHANGED <<sql, cache, current, buckets, failed, accesses>>
  BY DEF closeLedger, Depth
<1>2. /\ sql.rows \in Rows /\ current \in Header /\ deltas \in Seq(Delta)
      /\ \A i \in 0..0 : B[i] \in Rows
  BY <1>1, InnermostScope
<1>3. /\ sql \in Database /\ current = NextHeader(sql.lcl) /\ sql.has = buckets
      /\ Fresh(sql.rows, sql.lcl) /\ Recoverable /\ buckets \in Rows
  BY <1>1 DEF Inv, TypeOK
<1>4. Fresh(sql.rows, current)
  <2>1. current.idPool = sql.lcl.idPool
    BY <1>3 DEF NextHeader, Database, Header
  <2>. QED BY <1>3, <2>1 DEF Fresh
<1>5. PICK C : /\ Stack(Append(deltas, Open(current)), C, buckets, current)
               /\ C[Len(deltas) + 1] = B[Len(deltas)]
               /\ \A i \in 0..Len(deltas) : C[i] = B[i]
  <2>. DEFINE d == Open(current)
  <2>1. /\ d \in Delta /\ Touched(d) = {} /\ d.header = current
        /\ d.outer = current /\ Recent(d.previous, buckets, current.ledgerSeq)
    BY <1>2, OpenDelta, ZenonT(30)
  <2>. HIDE DEF d
  <2>2. Len(deltas) = 0 /\ sql.rows = B[Len(deltas)]
    BY <1>1 DEF Depth, Scoped
  <2>3. d.header = Around(deltas, Len(deltas) + 1, current)
    BY <2>1, <2>2 DEF Around
  <2>4. Stack(deltas, B, buckets, current) /\ Fresh(B[Len(deltas)], d.header)
    BY <1>4, <2>1, <2>2 DEF Scoped
  <2>5. d.outer = d.header
    BY <2>1
  <2>6. Restacked(Append(deltas, d), Len(deltas) + 1, B[Len(deltas)],
                  Len(deltas), B, buckets, current)
    BY <2>1, <2>3, <2>4, <2>5, PushStack, Zenon
  <2>. QED BY <2>6 DEF d, Restacked
<1>6. deltas' = Append(deltas, Open(current)) /\ Depth' = 1
  BY <1>1 DEF Depth
<1>7. C[0] = sql.rows /\ C[1] = sql.rows
  BY <1>1, <1>5 DEF Scoped, Depth
<1>8. sql.rows = sql.has
  BY <1>1, <1>3 DEF Recoverable
<1>9. SavedRows(C)'
  <2>1. SUFFICES ASSUME NEW m \in 1..Len(saved')
                 PROVE  /\ saved'[m].rows = C[ScopeOf(m)]
                        /\ saved'[m].has = buckets' /\ saved'[m].lcl = sql'.lcl
    BY DEF SavedRows
  <2>2. m = 1 /\ saved'[m] = sql
    BY <1>1, <2>1
  <2>. QED BY <2>2, <1>1, <1>3, <1>7 DEF ScopeOf
<1>10. Scoped(C)'
  BY <1>1, <1>5, <1>6, <1>7, <1>9 DEF Scoped
<1>11. TypeOK'
  <2>1. saved' \in Seq(Database) /\ Len(saved') = 1
    BY <1>1, <1>3
  <2>. QED BY <1>1, <1>3, <1>6, <2>1 DEF TypeOK, Savepoints
<1>12. Recoverable'
  <2>1. saved' # <<>> /\ saved'[1] = sql
    BY <1>1
  <2>. QED BY <2>1, <1>3, <1>8 DEF Recoverable, Fresh
<1>13. TransactionApart' /\ Depth' # 0
  BY <1>6 DEF TransactionApart
<1>14. CacheIsConsistentWithDatabase'
  BY <1>1 DEF Inv, CacheIsConsistentWithDatabase, Stored
<1>15. Inv'
  BY <1>1, <1>3, <1>11, <1>12, <1>13, <1>14 DEF Inv, NextHeader
<1>. QED BY <1>10, <1>15 DEF IInv

LEMMA ApartKept ==
    ASSUME Inv, Depth > 1, deltas'[1] = deltas[1], deltas'[2] = deltas[2]
    PROVE  TransactionApart'
BY DEF Inv, TransactionApart

LEMMA FewerSavepoints ==
    ASSUME Inv, NEW B, Scoped(B), Depth > 0, NEW C,
           saved' \in Seq(Database), Len(saved') <= Len(saved),
           \A m \in 1..Len(saved') : /\ saved'[m] = saved[m]
                                     /\ C[ScopeOf(m)] = B[ScopeOf(m)],
           buckets' = buckets, sql'.lcl = sql.lcl
    PROVE  SavedRows(C)'
<1>1. SUFFICES ASSUME NEW m \in 1..Len(saved')
               PROVE  /\ saved'[m].rows = C[ScopeOf(m)]
                      /\ saved'[m].has = buckets' /\ saved'[m].lcl = sql'.lcl
  BY DEF SavedRows
<1>2. m \in 1..Len(saved)
  <2>1. Len(saved) \in Nat /\ Len(saved') \in Nat
    BY SavepointsKept
  <2>. QED BY <1>1, <2>1
<1>3. /\ saved[m].rows = B[ScopeOf(m)]
      /\ saved[m].has = buckets /\ saved[m].lcl = sql.lcl
  BY <1>2, SavepointsKept
<1>. QED BY <1>1, <1>3

LEMMA NewSavepoint ==
    ASSUME Inv, NEW B, Scoped(B), Depth > 0, NEW C,
           saved' = Append(saved, sql),
           \A m \in 1..Len(saved) : C[ScopeOf(m)] = B[ScopeOf(m)],
           C[ScopeOf(Len(saved) + 1)] = sql.rows,
           buckets' = buckets, sql' = sql
    PROVE  /\ SavedRows(C)' /\ saved' \in Seq(Database)
           /\ Len(saved') = Len(saved) + 1 /\ saved'[1] = saved[1]
<1>1. /\ saved \in Seq(Database) /\ sql \in Database /\ sql.has = buckets
      /\ Len(saved) \in Nat /\ Len(saved) > 0
  <2>1. Len(saved) \in Savepoints(Depth) /\ saved \in Seq(Database)
    BY SavepointsKept
  <2>2. Depth \in {1, 3, 4, 5}
    BY DEF Inv, TypeOK
  <2>3. Len(saved) \in Nat /\ Len(saved) > 0
    BY <2>1, <2>2 DEF Savepoints
  <2>. QED BY <2>3, SavepointsKept
<1>2. /\ saved' \in Seq(Database) /\ Len(saved') = Len(saved) + 1
      /\ \A m \in 1..Len(saved) : saved'[m] = saved[m]
      /\ saved'[Len(saved) + 1] = sql
  BY <1>1
<1>3. ASSUME NEW m \in 1..Len(saved')
      PROVE  /\ saved'[m].rows = C[ScopeOf(m)]
             /\ saved'[m].has = buckets' /\ saved'[m].lcl = sql'.lcl
  <2>1. CASE m = Len(saved) + 1
    BY <2>1, <1>1, <1>2
  <2>2. CASE m \in 1..Len(saved)
    <3>1. /\ saved[m].rows = B[ScopeOf(m)]
          /\ saved[m].has = buckets /\ saved[m].lcl = sql.lcl
      BY <2>2, SavepointsKept
    <3>. QED BY <2>2, <3>1, <1>2
  <2>. QED BY <1>1, <1>2, <2>1, <2>2
<1>4. SavedRows(C)'
  BY <1>3 DEF SavedRows
<1>. QED BY <1>1, <1>2, <1>4

(* A scope that is entered.                                                *)
LEMMA EnterScope ==
    ASSUME Inv, NEW B, Scoped(B), Depth > 0,
           NEW d \in Delta, Touched(d) = {}, d.header = Top.header,
           d.outer = Top.header,
           Recent(d.previous, buckets, current.ledgerSeq)
    PROVE  \E C : /\ Stack(Append(deltas, d), C, buckets, current)
                  /\ C[Depth + 1] = sql.rows
                  /\ \A i \in 0..Depth : C[i] = B[i]
<1>1. /\ Around(deltas, Depth + 1, current) = Top.header
      /\ Fresh(sql.rows, Top.header)
  BY TopScope
<1>2. Stack(deltas, B, buckets, current)
  BY DEF Scoped
<1>0. sql.rows = B[Len(deltas)]
  BY DEF Scoped, Depth
<1>3. d.header = Around(deltas, Len(deltas) + 1, current)
  BY <1>1 DEF Depth
<1>4. Fresh(B[Len(deltas)], d.header) /\ d.outer = d.header
  BY <1>0, <1>1
<1>5. Restacked(Append(deltas, d), Len(deltas) + 1, B[Len(deltas)],
                Len(deltas), B, buckets, current)
  BY <1>2, <1>3, <1>4, PushStack, Zenon
<1>. QED BY <1>0, <1>5 DEF Depth, Restacked

LEMMA AppendIs ==
    ASSUME NEW S, NEW s \in Seq(S), NEW a \in S
    PROVE  /\ Append(s, a) \in Seq(S) /\ Len(Append(s, a)) = Len(s) + 1
           /\ Append(s, a)[Len(s) + 1] = a
           /\ \A i \in 1..Len(s) : Append(s, a)[i] = s[i]
OBVIOUS

LEMMA ApplyTxStep ==
    ASSUME Inv, NEW B, Scoped(B), NEW source \in Account, applyTx(source)
    PROVE  IInv'
<1>. DEFINE d == Recorded(Open(Top.header), source)
            e == Open(Top.header)
            ds == Append(deltas, d)
<1>1. /\ Depth = 1 /\ Depth > 0 /\ saved' = Append(saved, sql)
      /\ deltas' = Append(ds, e) /\ cache' \in CachedByLoad(source)
      /\ sql' = sql /\ current' = current /\ buckets' = buckets
  BY DEF applyTx, Push
<1>2. /\ Top \in Delta /\ Top.header \in Header /\ Top = deltas[Depth]
      /\ Around(deltas, Depth + 1, current) = Top.header
      /\ Fresh(sql.rows, Top.header)
  BY <1>1, TopScope, ZenonT(30)
<1>3. /\ sql.rows \in Rows /\ deltas \in Seq(Delta)
      /\ Recent(sql.rows, buckets, current.ledgerSeq)
  BY InnermostScope
<1>4. source \in Key /\ CacheIsConsistentWithDatabase
  BY BoundsAssumption DEF Key, Inv
<1>5. /\ e \in Delta /\ Touched(e) = {} /\ e.header = Top.header
      /\ e.outer = Top.header /\ Recent(e.previous, buckets, current.ledgerSeq)
  BY <1>2, OpenDelta, ZenonT(30)
<1>6. /\ d \in Delta /\ Touched(d) = {} /\ d.header = Top.header
      /\ d.outer = Top.header /\ Recent(d.previous, buckets, current.ledgerSeq)
  <2>. HIDE DEF e
  <2>1. d = Recorded(e, source)
    BY DEF e
  <2>. HIDE DEF d
  <2>2. /\ d \in Delta /\ Touched(d) = Touched(e) /\ d.header = e.header
        /\ d.outer = e.outer /\ Recent(d.previous, buckets, current.ledgerSeq)
    BY <2>1, <1>3, <1>4, <1>5, RecordedDelta, ZenonT(30)
  <2>. QED BY <2>2, <1>5
<1>. HIDE DEF d, e
<1>7. PICK A : /\ Stack(ds, A, buckets, current)
               /\ A[Depth + 1] = sql.rows
               /\ \A i \in 0..Depth : A[i] = B[i]
  BY <1>1, <1>6, EnterScope, Zenon
<1>8. /\ Len(ds) = 2 /\ ds[1] = deltas[1] /\ ds[2] = d
      /\ deltas' = Append(ds, e) /\ ds \in Seq(Delta)
  <2>1. Len(deltas) = 1
    BY <1>1 DEF Depth
  <2>2. /\ ds \in Seq(Delta) /\ Len(ds) = Len(deltas) + 1
        /\ ds[Len(deltas) + 1] = d
        /\ \A i \in 1..Len(deltas) : ds[i] = deltas[i]
    BY <1>3, <1>6, AppendIs
  <2>. HIDE DEF ds
  <2>. QED BY <1>1, <2>1, <2>2
<1>9. PICK C : /\ Stack(Append(ds, e), C, buckets, current)
               /\ C[Len(ds) + 1] = A[Len(ds)]
               /\ \A i \in 0..Len(ds) : C[i] = A[i]
  <2>1. e.header = Around(ds, Len(ds) + 1, current)
    BY <1>5, <1>6, <1>8 DEF Around
  <2>2. A[Len(ds)] = sql.rows
    BY <1>1, <1>7, <1>8
  <2>3. Fresh(A[Len(ds)], e.header) /\ e.outer = e.header
    BY <2>2, <1>2, <1>5
  <2>. HIDE DEF ds
  <2>4. Restacked(Append(ds, e), Len(ds) + 1, A[Len(ds)],
                  Len(ds), A, buckets, current)
    BY <2>1, <2>3, <1>5, <1>7, PushStack, Zenon
  <2>. QED BY <2>4 DEF Restacked
<1>10. /\ C[3] = sql.rows /\ C[0] = B[0] /\ C[1] = B[1] /\ B[1] = sql.rows
  <2>1. C[3] = A[2] /\ C[0] = A[0] /\ C[1] = A[1]
    BY <1>8, <1>9
  <2>2. A[2] = sql.rows /\ A[0] = B[0] /\ A[1] = B[1]
    BY <1>1, <1>7
  <2>3. B[1] = sql.rows
    BY <1>1 DEF Scoped
  <2>. QED BY <2>1, <2>2, <2>3
<1>11. Depth' = 3 /\ deltas'[1] = deltas[1] /\ deltas'[2] = d
  <2>. HIDE DEF ds
  <2>1. /\ Append(ds, e)[1] = ds[1] /\ Append(ds, e)[2] = ds[2]
        /\ Len(Append(ds, e)) = 3
    <3>1. ds \in Seq(Delta) /\ e \in Delta
      BY <1>5, <1>8
    <3>2. /\ Len(Append(ds, e)) = Len(ds) + 1
          /\ \A i \in 1..Len(ds) : Append(ds, e)[i] = ds[i]
      BY <3>1, AppendIs
    <3>. QED BY <3>2, <1>8
  <2>. QED BY <2>1, <1>8 DEF Depth
<1>12. TransactionApart'
  BY <1>1, <1>2, <1>6, <1>11 DEF TransactionApart
<1>13. CacheIsConsistentWithDatabase'
  BY <1>1, <1>4, LoadKeepsCache
<1>14. /\ Len(saved) = 1 /\ ScopeOf(1) = 0 /\ ScopeOf(2) = 1
  BY <1>1 DEF Inv, TypeOK, Savepoints, ScopeOf
<1>15. /\ SavedRows(C)' /\ saved' \in Seq(Database)
       /\ Len(saved') = Len(saved) + 1 /\ saved'[1] = saved[1]
  <2>1. /\ \A m \in 1..Len(saved) : C[ScopeOf(m)] = B[ScopeOf(m)]
        /\ C[ScopeOf(Len(saved) + 1)] = sql.rows
    BY <1>10, <1>14
  <2>2. /\ saved' = Append(saved, sql) /\ Depth > 0
        /\ buckets' = buckets /\ sql' = sql
    BY <1>1, Zenon
  <2>. QED BY <2>1, <2>2, NewSavepoint
<1>16. /\ Len(saved') \in Savepoints(Depth') /\ Depth' \in {1, 3, 4, 5}
       /\ sql'.rows = C[Depth'] /\ sql' \in Database
       /\ sql'.has = sql.has /\ sql'.lcl = sql.lcl
  BY <1>1, <1>10, <1>11, <1>14, <1>15 DEF Savepoints, Inv, TypeOK
<1>17. Stack(deltas', C, buckets', current')
  BY <1>1, <1>8, <1>9, ZenonT(30)
<1>. QED BY <1>1, <1>12, <1>13, <1>15, <1>16, <1>17, StepInLedger, Zenon

LEMMA CommonValidFailsStep ==
    ASSUME Inv, NEW B, Scoped(B), NEW source \in Account,
           commonValidFails(source)
    PROVE  IInv'
<1>1. /\ Depth = 1 /\ cache' \in CachedByLoad(source)
      /\ UNCHANGED <<sql, deltas, saved, current, buckets, failed, accesses>>
  BY DEF commonValidFails
<1>2. CacheIsConsistentWithDatabase'
  BY <1>1, LoadKeepsCache DEF Inv
<1>3. Inv'
  BY <1>1, <1>2, Zenon DEF Inv, TypeOK, Depth, Fresh, TransactionApart, Recoverable
<1>4. Scoped(B)'
  BY <1>1, ZenonT(30) DEF Scoped, Depth, SavedRows
<1>. QED BY <1>3, <1>4 DEF IInv

LEMMA PushedDeltas ==
    ASSUME Depth > 1, deltas \in Seq(Delta), NEW d \in Delta,
           deltas' = Append(deltas, d)
    PROVE  /\ Depth' = Depth + 1
           /\ deltas'[1] = deltas[1] /\ deltas'[2] = deltas[2]
<1>1. /\ Len(deltas') = Len(deltas) + 1
      /\ \A i \in 1..Len(deltas) : deltas'[i] = deltas[i]
  BY AppendIs
<1>2. 1 \in 1..Len(deltas) /\ 2 \in 1..Len(deltas)
  BY DEF Depth
<1>. QED BY <1>1, <1>2 DEF Depth

LEMMA ApplyOperationStep ==
    ASSUME Inv, NEW B, Scoped(B), NEW source \in Account,
           applyOperation(source)
    PROVE  IInv'
<1>. DEFINE e == Open(Top.header)
            d == IF source \in signingAccount THEN e ELSE Recorded(e, source)
<1>1. /\ Depth = 3 /\ Depth > 0 /\ Depth > 1 /\ deltas' = Append(deltas, d)
      /\ cache' = cache \/ cache' \in CachedByLoad(source)
      /\ sql' = sql /\ saved' = saved /\ current' = current
      /\ buckets' = buckets
  BY DEF applyOperation, Push
<1>2. Top.header \in Header
  BY <1>1, TopScope
<1>3. /\ sql.rows \in Rows /\ deltas \in Seq(Delta)
      /\ Recent(sql.rows, buckets, current.ledgerSeq)
  BY InnermostScope
<1>4. source \in Key /\ CacheIsConsistentWithDatabase
  BY BoundsAssumption DEF Key, Inv
<1>5. /\ e \in Delta /\ Touched(e) = {} /\ e.header = Top.header
      /\ e.outer = Top.header /\ Recent(e.previous, buckets, current.ledgerSeq)
  BY <1>2, OpenDelta, ZenonT(30)
<1>. HIDE DEF e
<1>6. /\ d \in Delta /\ Touched(d) = {} /\ d.header = Top.header
      /\ d.outer = Top.header /\ Recent(d.previous, buckets, current.ledgerSeq)
  <2>. DEFINE r == Recorded(e, source)
  <2>1. /\ r \in Delta /\ Touched(r) = Touched(e) /\ r.header = e.header
        /\ r.outer = e.outer /\ Recent(r.previous, buckets, current.ledgerSeq)
    BY <1>3, <1>4, <1>5, RecordedDelta, ZenonT(30)
  <2>. HIDE DEF r
  <2>2. d = e \/ d = r
    BY DEF r
  <2>. HIDE DEF d
  <2>. QED BY <2>1, <2>2, <1>5, Zenon
<1>. HIDE DEF d
<1>7. PICK C : /\ Stack(Append(deltas, d), C, buckets, current)
               /\ C[Depth + 1] = sql.rows
               /\ \A i \in 0..Depth : C[i] = B[i]
  BY <1>1, <1>6, EnterScope, ZenonT(30)
<1>8. Depth' = 4 /\ deltas'[1] = deltas[1] /\ deltas'[2] = deltas[2]
  <2>1. /\ Depth' = Depth + 1
        /\ deltas'[1] = deltas[1] /\ deltas'[2] = deltas[2]
    BY <1>1, <1>3, <1>6, PushedDeltas, Zenon
  <2>2. Depth = 3
    BY <1>1, Zenon
  <2>. QED BY <2>1, <2>2
<1>9. TransactionApart'
  BY <1>1, <1>8, ApartKept
<1>10. CacheIsConsistentWithDatabase'
  <2>1. CASE cache' = cache
    BY <1>1, <1>4, <2>1 DEF CacheIsConsistentWithDatabase, Stored
  <2>2. CASE cache' \in CachedByLoad(source)
    BY <1>1, <1>4, <2>2, LoadKeepsCache
  <2>. QED BY <1>1, <2>1, <2>2, Zenon
<1>11. saved \in Seq(Database) /\ Len(saved) = 2 /\ sql \in Database
  BY <1>1 DEF Inv, TypeOK, Savepoints
<1>12. SavedRows(C)'
  <2>0. Depth = 3 /\ Len(saved') = 2
    BY <1>1, <1>11, Zenon
  <2>1. \A m \in 1..Len(saved') : C[ScopeOf(m)] = B[ScopeOf(m)]
    BY <2>0, <1>7 DEF ScopeOf
  <2>2. /\ saved' \in Seq(Database) /\ Len(saved') <= Len(saved)
        /\ \A m \in 1..Len(saved') : /\ saved'[m] = saved[m]
                                     /\ C[ScopeOf(m)] = B[ScopeOf(m)]
        /\ buckets' = buckets /\ sql'.lcl = sql.lcl /\ Depth > 0
    BY <2>1, <1>1, <1>11
  <2>. QED BY <2>2, FewerSavepoints, ZenonT(30)
<1>13. /\ Len(saved') \in Savepoints(Depth') /\ Depth' \in {1, 3, 4, 5}
       /\ sql'.rows = C[Depth']
  BY <1>1, <1>7, <1>8, <1>11 DEF Savepoints
<1>14. Stack(deltas', C, buckets', current')
  BY <1>1, <1>7
<1>. QED BY <1>1, <1>9, <1>10, <1>11, <1>12, <1>13, <1>14, StepInLedger

LEMMA TryApproveRequestStep ==
    ASSUME Inv, NEW B, Scoped(B), tryApproveRequest
    PROVE  IInv'
<1>. DEFINE d == Open(Top.header)
<1>1. /\ Depth = 4 /\ Depth > 0 /\ Depth > 1 /\ deltas' = Append(deltas, d)
      /\ sql' = sql /\ saved' = Append(saved, sql) /\ current' = current
      /\ buckets' = buckets /\ cache' = cache
  BY DEF tryApproveRequest, Push
<1>2. Top.header \in Header
  BY <1>1, TopScope
<1>3. deltas \in Seq(Delta)
  BY InnermostScope
<1>4. /\ d \in Delta /\ Touched(d) = {} /\ d.header = Top.header
      /\ d.outer = Top.header /\ Recent(d.previous, buckets, current.ledgerSeq)
  BY <1>2, OpenDelta, Zenon
<1>. HIDE DEF d
<1>5. PICK C : /\ Stack(Append(deltas, d), C, buckets, current)
               /\ C[Depth + 1] = sql.rows
               /\ \A i \in 0..Depth : C[i] = B[i]
  BY <1>1, <1>4, EnterScope
<1>6. Depth' = 5 /\ deltas'[1] = deltas[1] /\ deltas'[2] = deltas[2]
  <2>1. /\ Depth' = Depth + 1
        /\ deltas'[1] = deltas[1] /\ deltas'[2] = deltas[2]
    BY <1>1, <1>3, <1>4, PushedDeltas, Zenon
  <2>. QED BY <2>1, <1>1
<1>7. TransactionApart'
  BY <1>1, <1>6, ApartKept
<1>8. CacheIsConsistentWithDatabase'
  BY <1>1 DEF Inv, CacheIsConsistentWithDatabase, Stored
<1>9. saved \in Seq(Database) /\ Len(saved) = 2 /\ sql \in Database
  BY <1>1 DEF Inv, TypeOK, Savepoints
<1>10. /\ SavedRows(C)' /\ saved' \in Seq(Database)
       /\ Len(saved') = Len(saved) + 1 /\ saved'[1] = saved[1]
  <2>1. B[4] = sql.rows /\ C[4] = B[4]
    BY <1>1, <1>5 DEF Scoped
  <2>2. /\ \A m \in 1..Len(saved) : C[ScopeOf(m)] = B[ScopeOf(m)]
        /\ C[ScopeOf(Len(saved) + 1)] = sql.rows
    BY <1>1, <1>5, <1>9, <2>1 DEF ScopeOf
  <2>. QED BY <2>2, <1>1, NewSavepoint
<1>11. /\ Len(saved') \in Savepoints(Depth') /\ Depth' \in {1, 3, 4, 5}
       /\ sql'.rows = C[Depth']
  BY <1>1, <1>5, <1>6, <1>9, <1>10 DEF Savepoints
<1>12. Stack(deltas', C, buckets', current')
  BY <1>1, <1>5
<1>. QED BY <1>1, <1>7, <1>8, <1>9, <1>10, <1>11, <1>12, StepInLedger

(* A scope that commits.                                                   *)
LEMMA LeaveScope ==
    ASSUME Inv, NEW B, Scoped(B), Depth > 1
    PROVE  /\ Len(Committed(deltas)) = Depth - 1
           /\ \A i \in 1..Depth - 2 : Committed(deltas)[i] = deltas[i]
           /\ \E C : /\ Stack(Committed(deltas), C, buckets, current)
                     /\ C[Depth - 1] = sql.rows
                     /\ \A i \in 0..Depth - 2 : C[i] = B[i]
<1>1. Stack(deltas, B, buckets, current) /\ Len(deltas) > 1
  BY DEF Scoped, Depth
<1>2. /\ Len(Committed(deltas)) = Len(deltas) - 1
      /\ \A i \in 1..Len(deltas) - 2 : Committed(deltas)[i] = deltas[i]
      /\ Restacked(Committed(deltas), Len(deltas) - 1, B[Len(deltas)],
                   Len(deltas) - 2, B, buckets, current)
  BY <1>1, CommitStack, Zenon
<1>3. sql.rows = B[Len(deltas)]
  BY DEF Scoped, Depth
<1>. QED BY <1>2, <1>3 DEF Depth, Restacked

LEMMA OperationEndsStep ==
    ASSUME Inv, NEW B, Scoped(B), NEW result, operationEnds(result)
    PROVE  IInv'
<1>1. /\ Depth = 4 /\ Depth > 0 /\ Depth > 1 /\ deltas' = Committed(deltas)
      /\ sql' = sql /\ saved' = saved /\ current' = current
      /\ buckets' = buckets /\ cache' = cache
  BY DEF operationEnds
<1>2. /\ Len(Committed(deltas)) = Depth - 1
      /\ \A i \in 1..Depth - 2 : Committed(deltas)[i] = deltas[i]
  BY <1>1, LeaveScope
<1>3. PICK C : /\ Stack(Committed(deltas), C, buckets, current)
               /\ C[Depth - 1] = sql.rows
               /\ \A i \in 0..Depth - 2 : C[i] = B[i]
  BY <1>1, LeaveScope
<1>4. Depth' = 3 /\ deltas'[1] = deltas[1] /\ deltas'[2] = deltas[2]
  BY <1>1, <1>2 DEF Depth
<1>5. TransactionApart'
  BY <1>1, <1>4, ApartKept
<1>6. CacheIsConsistentWithDatabase'
  BY <1>1 DEF Inv, CacheIsConsistentWithDatabase, Stored
<1>7. saved \in Seq(Database) /\ Len(saved) = 2 /\ sql \in Database
  BY <1>1 DEF Inv, TypeOK, Savepoints
<1>8. SavedRows(C)'
  <2>1. \A m \in 1..Len(saved') : C[ScopeOf(m)] = B[ScopeOf(m)]
    BY <1>1, <1>3, <1>7 DEF ScopeOf
  <2>. QED BY <2>1, <1>1, <1>7, FewerSavepoints
<1>9. /\ Len(saved') \in Savepoints(Depth') /\ Depth' \in {1, 3, 4, 5}
      /\ sql'.rows = C[Depth']
  BY <1>1, <1>3, <1>4, <1>7 DEF Savepoints
<1>10. Stack(deltas', C, buckets', current')
  BY <1>1, <1>3
<1>. QED BY <1>1, <1>5, <1>6, <1>7, <1>8, <1>9, <1>10, StepInLedger

LEMMA RequestApprovedStep ==
    ASSUME Inv, NEW B, Scoped(B), requestApproved
    PROVE  IInv'
<1>1. /\ Depth = 5 /\ Depth > 0 /\ Depth > 1 /\ deltas' = Committed(deltas)
      /\ sql' = sql /\ saved' = Front(saved) /\ current' = current
      /\ buckets' = buckets /\ cache' = cache
  BY DEF requestApproved
<1>2. /\ Len(Committed(deltas)) = Depth - 1
      /\ \A i \in 1..Depth - 2 : Committed(deltas)[i] = deltas[i]
  BY <1>1, LeaveScope
<1>3. PICK C : /\ Stack(Committed(deltas), C, buckets, current)
               /\ C[Depth - 1] = sql.rows
               /\ \A i \in 0..Depth - 2 : C[i] = B[i]
  BY <1>1, LeaveScope
<1>4. Depth' = 4 /\ deltas'[1] = deltas[1] /\ deltas'[2] = deltas[2]
  BY <1>1, <1>2 DEF Depth
<1>5. TransactionApart'
  BY <1>1, <1>4, ApartKept
<1>6. CacheIsConsistentWithDatabase'
  BY <1>1 DEF Inv, CacheIsConsistentWithDatabase, Stored
<1>7. /\ saved' \in Seq(Database) /\ Len(saved) = 3 /\ Len(saved') = 2
      /\ saved'[1] = saved[1] /\ saved'[2] = saved[2] /\ sql \in Database
  <2>1. saved \in Seq(Database) /\ Len(saved) = 3 /\ sql \in Database
    BY <1>1 DEF Inv, TypeOK, Savepoints
  <2>2. saved \in Seq(Database) /\ Len(saved) > 0
    BY <2>1
  <2>3. /\ Front(saved) \in Seq(Database) /\ Len(Front(saved)) = Len(saved) - 1
        /\ \A i \in 1..Len(saved) - 1 : Front(saved)[i] = saved[i]
    BY <2>2, FrontIs, Zenon
  <2>. QED BY <2>1, <2>3, <1>1
<1>8. SavedRows(C)'
  <2>1. /\ \A m \in 1..Len(saved') : /\ saved'[m] = saved[m]
                                     /\ C[ScopeOf(m)] = B[ScopeOf(m)]
        /\ Len(saved') <= Len(saved)
    BY <1>1, <1>3, <1>7 DEF ScopeOf
  <2>2. saved' \in Seq(Database) /\ buckets' = buckets /\ sql'.lcl = sql.lcl
    BY <1>1, <1>7
  <2>. QED BY <2>1, <2>2, <1>1, FewerSavepoints
<1>9. /\ Len(saved') \in Savepoints(Depth') /\ Depth' \in {1, 3, 4, 5}
      /\ sql'.rows = C[Depth']
  BY <1>1, <1>3, <1>4, <1>7 DEF Savepoints
<1>10. Stack(deltas', C, buckets', current')
  BY <1>1, <1>3
<1>. QED BY <1>1, <1>5, <1>6, <1>7, <1>8, <1>9, <1>10, StepInLedger

LEMMA TransactionSucceedsStep ==
    ASSUME Inv, NEW B, Scoped(B), transactionSucceeds
    PROVE  IInv'
<1>. DEFINE ds == Committed(deltas)
<1>1. /\ Depth = 3 /\ Depth > 0 /\ Depth > 1 /\ deltas' = Committed(ds)
      /\ sql' = sql /\ saved' = Front(saved) /\ current' = current
      /\ buckets' = buckets /\ cache' = cache
  BY DEF transactionSucceeds
<1>2. Len(ds) = 2
  BY <1>1, LeaveScope
<1>3. PICK A : /\ Stack(ds, A, buckets, current)
               /\ A[Depth - 1] = sql.rows
               /\ \A i \in 0..Depth - 2 : A[i] = B[i]
  BY <1>1, LeaveScope
<1>. HIDE DEF ds
<1>4. /\ Len(Committed(ds)) = Len(ds) - 1
      /\ Restacked(Committed(ds), Len(ds) - 1, A[Len(ds)],
                   Len(ds) - 2, A, buckets, current)
  <2>1. Len(ds) > 1 /\ Stack(ds, A, buckets, current)
    BY <1>2, <1>3
  <2>. QED BY <2>1, CommitStack, Zenon
<1>5. PICK C : /\ Stack(Committed(ds), C, buckets, current)
               /\ C[Len(ds) - 1] = A[Len(ds)]
               /\ \A i \in 0..Len(ds) - 2 : C[i] = A[i]
  BY <1>4 DEF Restacked
<1>6. C[1] = sql.rows /\ C[0] = B[0]
  <2>1. C[1] = A[2] /\ C[0] = A[0]
    BY <1>2, <1>5
  <2>2. A[2] = sql.rows /\ A[0] = B[0]
    BY <1>1, <1>3
  <2>. QED BY <2>1, <2>2
<1>7. Depth' = 1 /\ TransactionApart'
  BY <1>1, <1>2, <1>4 DEF Depth, TransactionApart
<1>8. CacheIsConsistentWithDatabase'
  BY <1>1 DEF Inv, CacheIsConsistentWithDatabase, Stored
<1>9. /\ saved' \in Seq(Database) /\ Len(saved) = 2 /\ Len(saved') = 1
      /\ saved'[1] = saved[1] /\ sql \in Database
  <2>1. saved \in Seq(Database) /\ Len(saved) = 2 /\ sql \in Database
    BY <1>1 DEF Inv, TypeOK, Savepoints
  <2>2. saved \in Seq(Database) /\ Len(saved) > 0
    BY <2>1
  <2>3. /\ Front(saved) \in Seq(Database) /\ Len(Front(saved)) = Len(saved) - 1
        /\ \A i \in 1..Len(saved) - 1 : Front(saved)[i] = saved[i]
    BY <2>2, FrontIs, Zenon
  <2>4. saved' = Front(saved)
    BY <1>1, Zenon
  <2>. QED BY <2>1, <2>3, <2>4
<1>10. SavedRows(C)'
  <2>1. /\ \A m \in 1..Len(saved') : /\ saved'[m] = saved[m]
                                     /\ C[ScopeOf(m)] = B[ScopeOf(m)]
        /\ Len(saved') <= Len(saved)
    BY <1>6, <1>9 DEF ScopeOf
  <2>2. saved' \in Seq(Database) /\ buckets' = buckets /\ sql'.lcl = sql.lcl
    BY <1>1, <1>9
  <2>. QED BY <2>1, <2>2, <1>1, FewerSavepoints
<1>11. /\ Len(saved') \in Savepoints(Depth') /\ Depth' \in {1, 3, 4, 5}
       /\ sql'.rows = C[Depth']
  BY <1>1, <1>6, <1>7, <1>9 DEF Savepoints
<1>12. Stack(deltas', C, buckets', current')
  BY <1>1, <1>5
<1>. QED BY <1>1, <1>7, <1>8, <1>9, <1>10, <1>11, <1>12, StepInLedger, ZenonT(30)

LEMMA ScopesOpen ==
    ASSUME NEW x \in {3, 4, 5}
    PROVE  x \in 0..5 /\ x > 0 /\ x > 1
<1>1. x = 3 \/ x = 4 \/ x = 5
  OBVIOUS
<1>. QED BY <1>1

(* Scopes that are left without a commit.                                  *)
LEMMA RollbackStep ==
    ASSUME Inv, NEW B, Scoped(B), NEW n \in {1, 4}, NEW m \in {2, 3},
           n = 1 => m = 2 /\ Depth \in {3, 4, 5},
           n = 4 => m = 3 /\ Depth = 5,
           rollbackTo(n, m)
    PROVE  IInv'
<1>. DEFINE keys == UNION {Touched(deltas[i]) : i \in n + 1..Depth}
<1>1. /\ deltas' = SubSeq(deltas, 1, n) /\ saved' = SubSeq(saved, 1, m - 1)
      /\ sql' = saved[m] /\ cache' = flushCachedEntry(keys)
      /\ buckets' = buckets /\ current' = current
  BY DEF rollbackTo
<1>2. /\ Depth > 0 /\ n \in {1, 4} /\ n \in 0..Depth /\ n < Depth
      /\ Depth \in 0..5 /\ Depth = Len(deltas)
  <2>1. Depth = Len(deltas)
    BY DEF Depth
  <2>2. CASE n = 1
    <3>1. Depth \in {3, 4, 5}
      BY <2>2
    <3>2. Depth \in 0..5 /\ Depth > 1
      BY <3>1, ScopesOpen
    <3>. QED BY <2>1, <2>2, <3>2
  <2>3. CASE n = 4
    BY <2>1, <2>3
  <2>. QED BY <2>2, <2>3
<1>3. saved \in Seq(Database) /\ Len(saved) \in {2, 3} /\ m \in 1..Len(saved)
  <2>1. saved \in Seq(Database) /\ Len(saved) \in Savepoints(Depth)
    BY DEF Inv, TypeOK
  <2>2. CASE n = 1
    <3>1. m = 2 /\ Depth \in {3, 4, 5}
      BY <2>2
    <3>2. Len(saved) \in {2, 3}
      BY <2>1, <3>1 DEF Savepoints
    <3>3. CASE Len(saved) = 2
      BY <2>1, <3>1, <3>3
    <3>4. CASE Len(saved) = 3
      BY <2>1, <3>1, <3>4
    <3>. QED BY <3>2, <3>3, <3>4
  <2>3. CASE n = 4
    BY <2>1, <2>3 DEF Savepoints
  <2>. QED BY <2>2, <2>3
<1>4. /\ sql' \in Database /\ sql'.rows = B[n]
      /\ sql'.has = buckets /\ sql'.lcl = sql.lcl /\ sql.has = buckets
  <2>1. ScopeOf(m) = n
    BY DEF ScopeOf
  <2>2. /\ saved[m] \in Database /\ saved[m].rows = B[ScopeOf(m)]
        /\ saved[m].has = buckets /\ saved[m].lcl = sql.lcl /\ sql.has = buckets
    BY <1>2, <1>3, SavepointsKept
  <2>. QED BY <1>1, <2>1, <2>2
<1>5. Stack(deltas, B, buckets, current) /\ sql.rows = B[Len(deltas)]
  BY ZenonT(30) DEF Scoped, Depth
<1>6. PICK C : /\ Stack(SubSeq(deltas, 1, n), C, buckets, current)
               /\ \A i \in 0..n : C[i] = B[i]
  <2>1. n \in 0..Len(deltas)
    BY <1>2
  <2>. QED BY <2>1, <1>5, PopStack
<1>7. Depth' = n /\ \A i \in 1..n : deltas'[i] = deltas[i]
  <2>1. n \in 0..Len(deltas) /\ deltas \in Seq(Delta)
    BY <1>2, InnermostScope
  <2>. QED BY <1>1, <2>1, PrefixIs DEF Depth
<1>8. TransactionApart'
  <2>1. CASE n = 1
    BY <1>7, <2>1 DEF TransactionApart
  <2>2. CASE n = 4
    <3>1. Depth > 1 /\ deltas'[1] = deltas[1] /\ deltas'[2] = deltas[2]
      BY <1>2, <1>7, <2>2
    <3>. QED BY <3>1, ApartKept
  <2>. QED BY <1>2, <2>1, <2>2
<1>9. CacheIsConsistentWithDatabase'
  <2>0. Inherits(deltas, B)
    <3>1. Stack(deltas, B, buckets, current) /\ Len(deltas) \in 0..5
      BY <1>2, <1>5, Zenon
    <3>. QED BY <3>1, UntouchedAbove, Zenon
  <2>1. ASSUME NEW k, k \notin keys PROVE Held(sql'.rows, k) = Held(sql.rows, k)
    <3>1. \A i \in 1..Len(deltas) : i > n => k \notin Touched(deltas[i])
      BY <1>2, <2>1
    <3>2. n \in 0..Len(deltas)
      BY <1>2
    <3>3. Held(B[Len(deltas)], k) = Held(B[n], k)
      BY <3>1, <3>2, <2>0 DEF Inherits
    <3>. QED BY <3>3, <1>4, <1>5
  <2>. HIDE DEF keys
  <2>2. CacheIsConsistentWithDatabase
    BY DEF Inv
  <2>. QED BY <2>1, <2>2, <1>1, FlushKeepsCache
<1>10. /\ saved' \in Seq(Database) /\ Len(saved') = m - 1
       /\ \A i \in 1..m - 1 : saved'[i] = saved[i]
  <2>1. m - 1 \in 0..Len(saved)
    BY <1>3
  <2>. QED BY <2>1, <1>1, <1>3, PrefixIs, ZenonT(30)
<1>11. m \in {2, 3} /\ saved'[1] = saved[1] /\ Len(saved') <= Len(saved)
  BY <1>3, <1>10
<1>12. SavedRows(C)'
  <2>1. ASSUME NEW i \in 1..Len(saved')
        PROVE  saved'[i] = saved[i] /\ C[ScopeOf(i)] = B[ScopeOf(i)]
    <3>1. ScopeOf(i) \in 0..n
      BY <1>2, <1>10, <1>11 DEF ScopeOf
    <3>. QED BY <3>1, <1>6, <1>10
  <2>. QED BY <2>1, <1>1, <1>2, <1>4, <1>10, <1>11, FewerSavepoints, Zenon
<1>13. /\ Len(saved') \in Savepoints(Depth') /\ Depth' \in {1, 3, 4, 5}
       /\ sql'.rows = C[Depth']
  <2>1. n \in 0..n /\ C[n] = B[n]
    BY <1>2, <1>6
  <2>. QED BY <1>2, <1>4, <1>7, <1>10, <2>1 DEF Savepoints
<1>14. Stack(deltas', C, buckets', current')
  BY <1>1, <1>6
<1>. QED BY <1>1, <1>2, <1>4, <1>8, <1>9, <1>10, <1>11, <1>12, <1>13, <1>14, StepInLedger, ZenonT(30)

(* What an operation loads and stores.                                     *)
LEMMA StepInOperation ==
    ASSUME Inv, NEW B, Scoped(B), Depth \in {4, 5},
           NEW d \in Delta, NEW rows \in Rows,
           Scope(B[Depth - 1], rows, d, buckets, current),
           d.outer = Top.outer,
           deltas' = Append(Front(deltas), d),
           sql' \in Database, sql'.rows = rows, sql'.has = sql.has,
           sql'.lcl = sql.lcl,
           saved' = saved, current' = current, buckets' = buckets,
           CacheIsConsistentWithDatabase'
    PROVE  IInv'
<1>1. /\ Depth > 0 /\ Depth > 1 /\ Depth = Len(deltas) /\ Depth \in 0..5
  <2>1. Depth \in {3, 4, 5}
    OBVIOUS
  <2>2. Depth = Len(deltas)
    BY DEF Depth
  <2>. QED BY <2>1, <2>2, ScopesOpen, ZenonT(30)
<1>2. deltas \in Seq(Delta) /\ Top = deltas[Depth]
  BY <1>1, InnermostScope, TopScope, ZenonT(30)
<1>3. PICK C : /\ Stack(Append(Front(deltas), d), C, buckets, current)
               /\ C[Len(deltas)] = rows
               /\ \A i \in 0..Len(deltas) - 1 : C[i] = B[i]
  <2>1. Stack(deltas, B, buckets, current)
    BY ZenonT(30) DEF Scoped
  <2>2. /\ Scope(B[Len(deltas) - 1], rows, d, buckets, current)
        /\ d.outer = deltas[Len(deltas)].outer /\ Len(deltas) > 0
    BY <1>1, <1>2
  <2>3. Restacked(Append(Front(deltas), d), Len(deltas), rows,
                  Len(deltas) - 1, B, buckets, current)
    BY <2>1, <2>2, ReplaceTop, Zenon
  <2>. QED BY <2>3, Zenon DEF Restacked
<1>4. Depth' = Depth /\ deltas'[1] = deltas[1] /\ deltas'[2] = deltas[2]
  <2>. DEFINE fs == Front(deltas)
  <2>1. /\ fs \in Seq(Delta) /\ Len(fs) = Len(deltas) - 1
        /\ \A i \in 1..Len(deltas) - 1 : fs[i] = deltas[i]
    BY <1>1, <1>2, FrontIs, Zenon
  <2>. HIDE DEF fs
  <2>2. /\ Len(Append(fs, d)) = Len(fs) + 1
        /\ \A i \in 1..Len(fs) : Append(fs, d)[i] = fs[i]
    BY <2>1, AppendIs
  <2>3. deltas' = Append(fs, d)
    BY DEF fs
  <2>. QED BY <1>1, <2>1, <2>2, <2>3 DEF Depth
<1>5. TransactionApart'
  BY <1>1, <1>4, ApartKept
<1>6. /\ saved \in Seq(Database) /\ sql \in Database
      /\ Len(saved) \in Savepoints(Depth)
      /\ Len(saved) = 2 \/ (Len(saved) = 3 /\ Depth = 5)
  BY DEF Inv, TypeOK, Savepoints
<1>7. SavedRows(C)'
  <2>1. ASSUME NEW m \in 1..Len(saved')
        PROVE  saved'[m] = saved[m] /\ C[ScopeOf(m)] = B[ScopeOf(m)]
    <3>1. m \in 1..3 /\ (m = 3 => Depth = 5)
      <4>1. m \in 1..Len(saved)
        OBVIOUS
      <4>2. CASE Len(saved) = 2
        BY <4>1, <4>2
      <4>3. CASE Len(saved) = 3 /\ Depth = 5
        BY <4>1, <4>3
      <4>. QED BY <1>6, <4>2, <4>3, ZenonT(30)
    <3>2. ScopeOf(m) \in 0..Len(deltas) - 1
      BY <3>1, <1>1 DEF ScopeOf
    <3>. QED BY <3>2, <1>3, ZenonT(30)
  <2>2. /\ saved' \in Seq(Database) /\ Len(saved') <= Len(saved)
        /\ \A m \in 1..Len(saved') : /\ saved'[m] = saved[m]
                                     /\ C[ScopeOf(m)] = B[ScopeOf(m)]
        /\ buckets' = buckets /\ sql'.lcl = sql.lcl /\ Depth > 0
    BY <2>1, <1>1, <1>6
  <2>. QED BY <2>2, FewerSavepoints, ZenonT(30)
<1>8. /\ Len(saved') \in Savepoints(Depth') /\ Depth' \in {1, 3, 4, 5}
      /\ sql'.rows = C[Depth']
  BY <1>1, <1>3, <1>4, <1>6, ZenonT(30)
<1>9. Stack(deltas', C, buckets', current')
  BY <1>3
<1>. QED BY <1>1, <1>5, <1>6, <1>7, <1>8, <1>9, StepInLedger, ZenonT(30)

LEMMA LoadStep ==
    ASSUME Inv, NEW B, Scoped(B), NEW k \in Key, NEW record \in BOOLEAN,
           load(k, record)
    PROVE  IInv'
<1>1. /\ Depth \in {4, 5} /\ cache' \in CachedByLoad(k)
      /\ sql' = sql /\ saved' = saved /\ current' = current
      /\ buckets' = buckets
      /\ deltas' = IF record THEN Append(Front(deltas), Recorded(Top, k))
                   ELSE deltas
  BY DEF load, Operating
<1>2. CacheIsConsistentWithDatabase /\ CacheIsConsistentWithDatabase'
  BY <1>1, LoadKeepsCache DEF Inv
<1>3. CASE ~record
  <2>1. deltas' = deltas
    BY <1>1, <1>3
  <2>2. Inv'
    BY <1>1, <1>2, <2>1, ZenonT(30)
       DEF Inv, TypeOK, Depth, Fresh, TransactionApart, Recoverable
  <2>3. Scoped(B)'
    BY <1>1, <2>1, Zenon DEF Scoped, Depth, SavedRows
  <2>. QED BY <2>2, <2>3 DEF IInv
<1>4. CASE record
  <2>. DEFINE d == Recorded(Top, k)
  <2>1. Depth > 0 /\ Depth > 1 /\ Depth = Len(deltas)
    <3>1. Depth \in {3, 4, 5}
      BY <1>1
    <3>. QED BY <3>1, ScopesOpen DEF Depth
  <2>2. /\ sql.rows \in Rows /\ deltas \in Seq(Delta)
        /\ Recent(sql.rows, buckets, current.ledgerSeq)
    BY InnermostScope
  <2>3. Top \in Delta /\ Scope(B[Depth - 1], sql.rows, Top, buckets, current)
    BY <2>1, TopScope, ZenonT(30)
  <2>4. Recent(Top.previous, buckets, current.ledgerSeq)
    BY <2>3 DEF Scope
  <2>5. /\ d \in Delta
        /\ \A rows : /\ Fits(rows, Top) => Fits(rows, d)
                     /\ Layer(rows, d) = Layer(rows, Top)
        /\ d.header = Top.header /\ d.outer = Top.outer
        /\ Recent(d.previous, buckets, current.ledgerSeq)
    BY <1>2, <2>2, <2>3, <2>4, RecordedDelta, ZenonT(30)
  <2>. HIDE DEF d
  <2>6. Scope(B[Depth - 1], sql.rows, d, buckets, current)
    BY <2>3, <2>5, Zenon DEF Scope
  <2>7. deltas' = Append(Front(deltas), d)
    BY <1>1, <1>4 DEF d
  <2>8. sql' \in Database
    BY <1>1 DEF Inv, TypeOK
  <2>. QED BY <1>1, <1>2, <2>2, <2>5, <2>6, <2>7, <2>8, StepInOperation, ZenonT(30)
<1>. QED BY <1>3, <1>4

LEMMA StoreStep ==
    ASSUME Inv, NEW B, Scoped(B), Operating,
           NEW rows \in Rows, NEW d \in Delta, NEW k,
           Fits(B[Depth - 1], d), Layer(B[Depth - 1], d) = rows,
           d.previous = Top.previous, d.outer = Top.outer,
           d.header.ledgerSeq = Top.header.ledgerSeq,
           Fresh(rows, d.header), Recent(rows, buckets, current.ledgerSeq),
           \A x : x # k => Held(rows, x) = Held(sql.rows, x),
           storeUpdate(rows, d, k)
    PROVE  IInv'
<1>1. /\ Depth \in {4, 5} /\ sql' = [sql EXCEPT !.rows = rows]
      /\ deltas' = Append(Front(deltas), d) /\ cache' = flushCachedEntry({k})
      /\ saved' = saved /\ current' = current /\ buckets' = buckets
  BY DEF Operating, storeUpdate
<1>2. Depth > 0
  BY <1>1
<1>3. Scope(B[Depth - 1], sql.rows, Top, buckets, current)
  BY <1>2, TopScope, ZenonT(30)
<1>4. Scope(B[Depth - 1], rows, d, buckets, current)
  BY <1>3, ZenonT(30) DEF Scope
<1>5. sql \in Database /\ CacheIsConsistentWithDatabase
  BY Zenon DEF Inv, TypeOK
<1>6. /\ sql' \in Database /\ sql'.rows = rows
      /\ sql'.has = sql.has /\ sql'.lcl = sql.lcl
  BY <1>1, <1>5 DEF Database
<1>7. CacheIsConsistentWithDatabase'
  <2>1. \A x : x \notin {k} => Held(sql'.rows, x) = Held(sql.rows, x)
    BY <1>6, ZenonT(30)
  <2>. QED BY <2>1, <1>1, <1>5, FlushKeepsCache
<1>. QED BY <1>1, <1>4, <1>6, <1>7, StepInOperation

LEMMA HeldOver ==
    ASSUME NEW rows \in Rows, NEW k \in Key, NEW e \in Entry
    PROVE  /\ Over(Single(k, e), rows) \in Rows
           /\ DOMAIN Over(Single(k, e), rows) = {k} \cup DOMAIN rows
           /\ \A x : x # k => Held(Over(Single(k, e), rows), x) = Held(rows, x)
<1>. DEFINE s == Single(k, e)
            o == Over(s, rows)
<1>1. s \in Rows /\ DOMAIN s = {k}
  BY SingleRows
<1>. HIDE DEF s
<1>2. /\ o \in Rows /\ DOMAIN o = DOMAIN s \cup DOMAIN rows
      /\ \A x \in DOMAIN rows : x \notin DOMAIN s => o[x] = rows[x]
  BY <1>1, OverRows, ZenonT(30)
<1>. HIDE DEF o
<1>3. ASSUME NEW x, x # k PROVE Held(o, x) = Held(rows, x)
  <2>1. /\ x \in DOMAIN o <=> x \in DOMAIN rows
        /\ x \in DOMAIN rows => o[x] = rows[x]
    BY <1>1, <1>2, <1>3
  <2>. QED BY <2>1 DEF Held
<1>. QED BY <1>1, <1>2, <1>3 DEF s, o

LEMMA TouchEntry ==
    ASSUME Inv, NEW B, Scoped(B), Depth > 0, NEW v \in Value, NEW k \in Key
    PROVE  /\ Touch(v) \in Entry
           /\ Single(k, Touch(v)) \in Rows
           /\ DOMAIN Single(k, Touch(v)) = {k}
           /\ Recent(Over(Single(k, Touch(v)), sql.rows),
                     buckets, current.ledgerSeq)
<1>1. Top.header \in Header /\ Top.header.ledgerSeq = current.ledgerSeq
  BY TopScope, Zenon
<1>2. Touch(v) \in Entry /\ Touch(v).lastModified = current.ledgerSeq
  BY <1>1 DEF Touch, Entry, Header
<1>3. /\ Single(k, Touch(v)) \in Rows /\ DOMAIN Single(k, Touch(v)) = {k}
      /\ Single(k, Touch(v))[k] = Touch(v)
  BY <1>2, SingleRows, ZenonT(30)
<1>4. Recent(Single(k, Touch(v)), buckets, current.ledgerSeq)
  BY <1>2, <1>3 DEF Recent
<1>5. sql.rows \in Rows /\ Recent(sql.rows, buckets, current.ledgerSeq)
  BY InnermostScope
<1>. QED BY <1>2, <1>3, <1>4, <1>5, RecentOver, Zenon

(* The delta and the rows an operation starts from when it stores.         *)
LEMMA Storable ==
    ASSUME Inv, NEW B, Scoped(B), Operating
    PROVE  /\ Depth > 0 /\ sql.rows \in Rows
           /\ Top \in Delta /\ Top.header \in Header
           /\ B[Depth - 1] \in Rows /\ Fits(B[Depth - 1], Top)
           /\ Layer(B[Depth - 1], Top) = sql.rows
           /\ Fresh(sql.rows, Top.header)
<1>1. Depth > 0
  <2>1. Depth \in {3, 4, 5}
    BY DEF Operating
  <2>. QED BY <2>1, ScopesOpen
<1>2. /\ Top \in Delta /\ Top.header \in Header /\ B[Depth - 1] \in Rows
      /\ Scope(B[Depth - 1], sql.rows, Top, buckets, current)
  BY <1>1, TopScope, ZenonT(30)
<1>3. sql.rows \in Rows
  BY InnermostScope
<1>. QED BY <1>1, <1>2, <1>3, Zenon DEF Scope

LEMMA StoreAddStep ==
    ASSUME Inv, NEW B, Scoped(B), NEW k \in Key, NEW v \in Value,
           storeAdd(k, v)
    PROVE  IInv'
<1>. DEFINE s == Single(k, Touch(v))
            rows == Over(s, sql.rows)
            d == addEntry(Top, s)
<1>1. /\ Operating /\ k \in Named /\ k \notin DOMAIN sql.rows
      /\ storeUpdate(rows, d, k)
  BY DEF storeAdd
<1>2. /\ Depth > 0 /\ sql.rows \in Rows /\ Top \in Delta
      /\ Top.header \in Header
      /\ B[Depth - 1] \in Rows /\ Fits(B[Depth - 1], Top)
      /\ Layer(B[Depth - 1], Top) = sql.rows
      /\ Fresh(sql.rows, Top.header)
  BY <1>1, Storable, ZenonT(30)
<1>3. /\ s \in Rows /\ DOMAIN s = {k} /\ Touch(v) \in Entry
      /\ Recent(rows, buckets, current.ledgerSeq)
  BY <1>2, TouchEntry, ZenonT(30)
<1>4. /\ rows \in Rows /\ DOMAIN rows = {k} \cup DOMAIN sql.rows
      /\ \A x : x # k => Held(rows, x) = Held(sql.rows, x)
  BY <1>2, <1>3, HeldOver, ZenonT(30)
<1>. HIDE DEF s
<1>5. /\ d \in Delta /\ Fits(B[Depth - 1], d) /\ Layer(B[Depth - 1], d) = rows
      /\ d.previous = Top.previous /\ d.header = Top.header
      /\ d.outer = Top.outer
  <2>1. \A x \in DOMAIN s : x \notin DOMAIN Layer(B[Depth - 1], Top)
    BY <1>1, <1>2, <1>3, Zenon
  <2>2. /\ d \in Delta /\ Fits(B[Depth - 1], d)
        /\ Layer(B[Depth - 1], d) = Over(s, Layer(B[Depth - 1], Top))
        /\ d.previous = Top.previous /\ d.header = Top.header
        /\ d.outer = Top.outer
    BY <2>1, <1>2, <1>3, AddEntry, Zenon
  <2>. QED BY <2>2, <1>2, ZenonT(30)
<1>. HIDE DEF rows, d
<1>6. Fresh(rows, d.header)
  <2>1. Top.header.idPool \in Nat
    BY <1>2, ZenonT(30) DEF Header
  <2>2. ASSUME NEW id \in Top.header.idPool + 1..MaxId PROVE id # k
    <3>0. MaxId \in Nat
      BY BoundsAssumption, Zenon
    <3>1. id \in 1..MaxId
      BY <2>1, <3>0
    <3>. QED BY <3>1, <1>1, BoundsAssumption, ZenonT(30)
  <2>. QED BY <2>2, <1>2, <1>4, <1>5, ZenonT(30) DEF Fresh
<1>7. d.header.ledgerSeq = Top.header.ledgerSeq
  BY <1>5, Zenon
<1>. QED BY <1>1, <1>3, <1>4, <1>5, <1>6, <1>7, StoreStep, ZenonT(30)

LEMMA StoreChangeStep ==
    ASSUME Inv, NEW B, Scoped(B), NEW k \in Key, NEW v \in Value,
           storeChange(k, v)
    PROVE  IInv'
<1>. DEFINE s == Single(k, Touch(v))
            rows == Over(s, sql.rows)
            d == modEntry(Top, s)
<1>1. /\ Operating /\ k \in DOMAIN sql.rows
      /\ storeUpdate(rows, d, k)
  BY DEF storeChange
<1>2. /\ Depth > 0 /\ sql.rows \in Rows /\ Top \in Delta
      /\ B[Depth - 1] \in Rows /\ Fits(B[Depth - 1], Top)
      /\ Layer(B[Depth - 1], Top) = sql.rows
      /\ Fresh(sql.rows, Top.header)
  BY <1>1, Storable, ZenonT(30)
<1>3. /\ s \in Rows /\ DOMAIN s = {k} /\ Touch(v) \in Entry
      /\ Recent(rows, buckets, current.ledgerSeq)
  BY <1>2, TouchEntry, ZenonT(30)
<1>4. /\ rows \in Rows /\ DOMAIN rows = {k} \cup DOMAIN sql.rows
      /\ \A x : x # k => Held(rows, x) = Held(sql.rows, x)
  BY <1>2, <1>3, HeldOver, ZenonT(30)
<1>. HIDE DEF s
<1>5. /\ d \in Delta /\ Fits(B[Depth - 1], d) /\ Layer(B[Depth - 1], d) = rows
      /\ d.previous = Top.previous /\ d.header = Top.header
      /\ d.outer = Top.outer
  <2>1. DOMAIN s \subseteq DOMAIN Layer(B[Depth - 1], Top)
    BY <1>1, <1>2, <1>3, Zenon
  <2>2. /\ d \in Delta /\ Fits(B[Depth - 1], d)
        /\ Layer(B[Depth - 1], d) = Over(s, Layer(B[Depth - 1], Top))
        /\ d.previous = Top.previous /\ d.header = Top.header
        /\ d.outer = Top.outer
    BY <2>1, <1>2, <1>3, ModEntry, Zenon
  <2>. QED BY <2>2, <1>2, ZenonT(30)
<1>. HIDE DEF rows, d
<1>6. Fresh(rows, d.header)
  BY <1>1, <1>2, <1>4, <1>5, ZenonT(30) DEF Fresh
<1>7. d.header.ledgerSeq = Top.header.ledgerSeq
  BY <1>5, ZenonT(30)
<1>. QED BY <1>1, <1>3, <1>4, <1>5, <1>6, <1>7, StoreStep, ZenonT(30)

LEMMA StoreDeleteStep ==
    ASSUME Inv, NEW B, Scoped(B), NEW k \in Key, storeDelete(k)
    PROVE  IInv'
<1>. DEFINE rows == Without(sql.rows, {k})
            d == deleteEntry(Top, {k})
<1>1. /\ Operating /\ k \in DOMAIN sql.rows
      /\ storeUpdate(rows, d, k)
  BY DEF storeDelete
<1>2. /\ Depth > 0 /\ sql.rows \in Rows /\ Top \in Delta
      /\ B[Depth - 1] \in Rows /\ Fits(B[Depth - 1], Top)
      /\ Layer(B[Depth - 1], Top) = sql.rows
      /\ Fresh(sql.rows, Top.header)
  BY <1>1, Storable, ZenonT(30)
<1>3. /\ rows \in Rows /\ DOMAIN rows = DOMAIN sql.rows \ {k}
      /\ \A x \in DOMAIN sql.rows \ {k} : rows[x] = sql.rows[x]
  BY <1>2, WithoutRows, ZenonT(30)
<1>4. Recent(rows, buckets, current.ledgerSeq)
  BY <1>2, InnermostScope, RecentWithout, Zenon
<1>5. /\ d \in Delta /\ Fits(B[Depth - 1], d) /\ Layer(B[Depth - 1], d) = rows
      /\ d.previous = Top.previous /\ d.header = Top.header
      /\ d.outer = Top.outer
  <2>1. {k} \subseteq DOMAIN Layer(B[Depth - 1], Top) /\ {k} \in SUBSET Key
    BY <1>1, <1>2, Zenon
  <2>2. /\ d \in Delta /\ Fits(B[Depth - 1], d)
        /\ Layer(B[Depth - 1], d) = Without(Layer(B[Depth - 1], Top), {k})
        /\ d.previous = Top.previous /\ d.header = Top.header
        /\ d.outer = Top.outer
    BY <2>1, <1>2, DeleteEntry, Zenon
  <2>. QED BY <2>2, <1>2, ZenonT(30)
<1>. HIDE DEF rows, d
<1>6. ASSUME NEW x, x # k PROVE Held(rows, x) = Held(sql.rows, x)
  <2>1. /\ x \in DOMAIN rows <=> x \in DOMAIN sql.rows
        /\ x \in DOMAIN sql.rows => rows[x] = sql.rows[x]
    BY <1>3, <1>6
  <2>. QED BY <2>1 DEF Held
<1>7. Fresh(rows, d.header)
  BY <1>2, <1>3, <1>5 DEF Fresh
<1>8. d.header.ledgerSeq = Top.header.ledgerSeq
  BY <1>5
<1>. QED BY <1>1, <1>3, <1>4, <1>5, <1>6, <1>7, <1>8, StoreStep, ZenonT(30)

LEMMA GenerateIDStep ==
    ASSUME Inv, NEW B, Scoped(B), NEW id \in Key, NEW v \in Value,
           generateID(id, v)
    PROVE  IInv'
<1>. DEFINE s == Single(id, Touch(v))
            rows == Over(s, sql.rows)
            c == addEntry(Top, s)
            d == [c EXCEPT !.header.idPool = id]
<1>1. /\ Operating /\ id = Top.header.idPool + 1 /\ id <= MaxId
      /\ storeUpdate(rows, d, id)
  BY DEF generateID
<1>2. /\ Depth > 0 /\ sql.rows \in Rows /\ Top \in Delta
      /\ Top.header \in Header
      /\ B[Depth - 1] \in Rows /\ Fits(B[Depth - 1], Top)
      /\ Layer(B[Depth - 1], Top) = sql.rows
      /\ Fresh(sql.rows, Top.header)
  BY <1>1, Storable
<1>3. /\ s \in Rows /\ DOMAIN s = {id} /\ Touch(v) \in Entry
      /\ Recent(rows, buckets, current.ledgerSeq)
  BY <1>2, TouchEntry, ZenonT(30)
<1>4. /\ rows \in Rows /\ DOMAIN rows = {id} \cup DOMAIN sql.rows
      /\ \A x : x # id => Held(rows, x) = Held(sql.rows, x)
  BY <1>2, <1>3, HeldOver, ZenonT(30)
<1>5. Top.header.idPool \in Nat /\ MaxId \in Nat
  BY <1>2, BoundsAssumption, Zenon DEF Header
<1>6. id \notin DOMAIN sql.rows
  BY <1>1, <1>2, <1>5 DEF Fresh
<1>. HIDE DEF s
<1>7. /\ c \in Delta /\ Fits(B[Depth - 1], c) /\ Layer(B[Depth - 1], c) = rows
      /\ c.previous = Top.previous /\ c.header = Top.header
      /\ c.outer = Top.outer
  <2>1. \A x \in DOMAIN s : x \notin DOMAIN Layer(B[Depth - 1], Top)
    BY <1>2, <1>3, <1>6, ZenonT(30)
  <2>2. /\ c \in Delta /\ Fits(B[Depth - 1], c)
        /\ Layer(B[Depth - 1], c) = Over(s, Layer(B[Depth - 1], Top))
        /\ c.previous = Top.previous /\ c.header = Top.header
        /\ c.outer = Top.outer
    BY <2>1, <1>2, <1>3, AddEntry, Zenon
  <2>. QED BY <2>2, <1>2, ZenonT(30)
<1>. HIDE DEF rows, c
<1>8. /\ d.new = c.new /\ d.mod = c.mod /\ d.del = c.del
      /\ d.previous = c.previous /\ d.outer = c.outer
      /\ d.header = [c.header EXCEPT !.idPool = id]
  BY <1>7 DEF Delta
<1>9. d.header \in Header /\ d.header.ledgerSeq = Top.header.ledgerSeq
      /\ d.header.idPool = id
  BY <1>1, <1>2, <1>5, <1>7, <1>8 DEF Header
<1>10. d \in Delta
  BY <1>7, <1>9 DEF Delta
<1>. HIDE DEF d
<1>11. Fits(B[Depth - 1], d) /\ Layer(B[Depth - 1], d) = rows
  BY <1>7, <1>8 DEF Fits, Layer, getLiveEntries, getDeadEntries
<1>12. Fresh(rows, d.header)
  BY <1>1, <1>2, <1>4, <1>5, <1>9 DEF Fresh
<1>13. d.previous = Top.previous /\ d.outer = Top.outer
  BY <1>7, <1>8
<1>. QED BY <1>1, <1>3, <1>4, <1>9, <1>10, <1>11, <1>12, <1>13, StoreStep, ZenonT(30)

(* Between two ledgers.                                                    *)
LEMMA BetweenLedgers ==
    ASSUME sql' \in Database, saved' \in Seq(Database), Len(saved') \in {0, 1},
           deltas' = <<>>, buckets' = sql'.has, sql'.rows = sql'.has,
           current' = NextHeader(sql'.lcl), Fresh(sql'.rows, sql'.lcl),
           Recoverable', CacheIsConsistentWithDatabase'
    PROVE  IInv'
<1>1. Depth' = 0
  BY DEF Depth
<1>2. sql'.rows \in Rows /\ sql'.has \in Rows /\ sql'.lcl \in Header
  BY DEF Database
<1>3. TypeOK'
  BY <1>1, <1>2 DEF TypeOK, Savepoints
<1>4. Inv'
  BY <1>1, <1>3 DEF Inv, TransactionApart, Fresh
<1>5. current' \in Header
  BY <1>2 DEF NextHeader, Header
<1>6. PICK C : C = [i \in {0} |-> sql'.rows]
  BY ZenonT(30)
<1>7. deltas' \in Seq(Delta) /\ Len(deltas') = 0
  OBVIOUS
<1>8. C \in [0..0 -> Rows] /\ C[0] = sql'.rows
  BY <1>2, <1>6
<1>9. Stack(deltas', C, buckets', current')
  BY <1>5, <1>7, <1>8 DEF Stack
<1>10. Scoped(C)'
  BY <1>1, <1>8, <1>9 DEF Scoped
<1>. QED BY <1>4, <1>10 DEF IInv

LEMMA CloseLedgerHelperStep ==
    ASSUME Inv, NEW B, Scoped(B), closeLedgerHelper
    PROVE  IInv'
<1>1. /\ Depth = 1 /\ Depth > 0
      /\ buckets' = addBatch(buckets, getLiveEntries(Top), getDeadEntries(Top))
      /\ sql' = [sql EXCEPT !.lcl = Top.header, !.has = buckets']
      /\ current' = NextHeader(Top.header)
      /\ deltas' = <<>> /\ cache' = cache /\ saved' = saved
  BY DEF closeLedgerHelper
<1>2. /\ Top \in Delta /\ Top.header \in Header
      /\ Scope(B[Depth - 1], sql.rows, Top, buckets, current)
      /\ Fresh(sql.rows, Top.header)
  BY <1>1, TopScope
<1>3. B[Depth - 1] = buckets /\ sql.rows \in Rows
  <2>1. B[0] = buckets
    BY DEF Scoped, Stack
  <2>. QED BY <1>1, <2>1, InnermostScope
<1>4. buckets' = sql.rows
  BY <1>1, <1>2, <1>3 DEF Scope, Layer
<1>5. /\ sql \in Database /\ saved \in Seq(Database) /\ Len(saved) = 1
      /\ Recoverable /\ CacheIsConsistentWithDatabase
  BY <1>1 DEF Inv, TypeOK, Savepoints
<1>6. /\ sql'.rows = sql.rows /\ sql'.has = sql.rows /\ sql'.lcl = Top.header
      /\ sql' \in Database
  BY <1>1, <1>2, <1>3, <1>4, <1>5, ZenonT(30) DEF Database
<1>7. Recoverable'
  <2>0. saved' = saved /\ Len(saved) = 1
    BY <1>1, <1>5
  <2>1. saved # <<>> /\ saved' # <<>>
    BY <2>0
  <2>. QED BY <2>1, <1>1, <1>5 DEF Recoverable, Fresh
<1>8. CacheIsConsistentWithDatabase'
  BY <1>1, <1>5, <1>6 DEF CacheIsConsistentWithDatabase, Stored
<1>9. Fresh(sql'.rows, sql'.lcl)
  BY <1>2, <1>6
<1>10. saved' \in Seq(Database) /\ Len(saved') \in {0, 1}
  BY <1>1, <1>5
<1>. QED BY <1>1, <1>4, <1>6, <1>7, <1>8, <1>9, <1>10, BetweenLedgers

LEMMA CommitLedgerStep ==
    ASSUME Inv, NEW B, Scoped(B), commitLedger
    PROVE  IInv'
<1>1. /\ Depth = 0 /\ saved' = <<>> /\ sql' = sql /\ cache' = cache
      /\ deltas' = deltas /\ current' = current /\ buckets' = buckets
  BY DEF commitLedger
<1>2. /\ sql \in Database /\ deltas \in Seq(Delta) /\ Len(deltas) = 0
      /\ current = NextHeader(sql.lcl) /\ sql.has = buckets
      /\ Fresh(sql.rows, sql.lcl) /\ CacheIsConsistentWithDatabase
  BY <1>1, InnermostScope DEF Inv, TypeOK, Depth
<1>3. sql.rows = sql.has /\ deltas = <<>>
  <2>1. sql.rows = B[0] /\ B[0] = buckets
    BY <1>1 DEF Scoped, Stack
  <2>. QED BY <2>1, <1>2
<1>4. Recoverable'
  BY <1>1, <1>2, <1>3 DEF Recoverable, Fresh
<1>5. CacheIsConsistentWithDatabase'
  BY <1>1, <1>2 DEF CacheIsConsistentWithDatabase, Stored
<1>6. saved' \in Seq(Database) /\ Len(saved') \in {0, 1}
  BY <1>1
<1>7. Fresh(sql'.rows, sql'.lcl)
  BY <1>1, <1>2
<1>. QED BY <1>1, <1>2, <1>3, <1>4, <1>5, <1>6, <1>7, BetweenLedgers

LEMMA LoadLastKnownLedgerStep ==
    ASSUME Inv, NEW B, Scoped(B), loadLastKnownLedger
    PROVE  IInv'
<1>. DEFINE known == IF saved = <<>> THEN sql ELSE saved[1]
<1>1. sql \in Database /\ saved \in Seq(Database) /\ Recoverable
  BY DEF Inv, TypeOK
<1>2. known = IF saved = <<>> THEN sql ELSE Head(saved)
  BY <1>1
<1>3. /\ sql' = known /\ current' = NextHeader(known.lcl)
      /\ buckets' = known.has /\ cache' = Empty /\ deltas' = <<>>
      /\ saved' = <<>>
  BY <1>2 DEF loadLastKnownLedger
<1>4. known \in Database
  <2>1. saved # <<>> => 1 \in 1..Len(saved)
    BY <1>1
  <2>. QED BY <1>1, <2>1
<1>5. known.rows = known.has /\ Fresh(known.rows, known.lcl)
  BY <1>1 DEF Recoverable
<1>. HIDE DEF known
<1>6. Recoverable'
  BY <1>3, <1>5 DEF Recoverable, Fresh
<1>7. CacheIsConsistentWithDatabase'
  BY <1>3 DEF CacheIsConsistentWithDatabase, Empty
<1>8. saved' \in Seq(Database) /\ Len(saved') \in {0, 1}
  BY <1>3
<1>9. Fresh(sql'.rows, sql'.lcl)
  BY <1>3, <1>5
<1>. QED BY <1>3, <1>4, <1>5, <1>6, <1>7, <1>8, <1>9, BetweenLedgers

LEMMA InitInvariant == Init => IInv
<1>. SUFFICES ASSUME Init PROVE IInv
  OBVIOUS
<1>1. PICK v \in Value :
          buckets = [k \in Genesis |-> [val |-> v, lastModified |-> 1]]
  BY DEF Init
<1>2. /\ sql = [rows |-> buckets, has |-> buckets,
                lcl |-> [ledgerSeq |-> 1, idPool |-> 0]]
      /\ current = NextHeader(sql.lcl) /\ cache = Empty /\ deltas = <<>>
      /\ saved = <<>>
  BY DEF Init
<1>3. buckets \in Rows /\ DOMAIN buckets = Genesis
  <2>1. Genesis \in SUBSET Key
    BY BoundsAssumption DEF Key
  <2>2. buckets \in [Genesis -> Entry]
    BY <1>1 DEF Entry
  <2>. QED BY <2>1, <2>2, RowsIntro
<1>4. /\ sql \in Database /\ sql.rows = buckets /\ sql.has = buckets
      /\ sql.lcl = [ledgerSeq |-> 1, idPool |-> 0]
  BY <1>2, <1>3 DEF Database, Header
<1>5. Fresh(sql.rows, sql.lcl)
  <2>1. \A id \in 0 + 1..MaxId : id \notin Genesis
    BY BoundsAssumption
  <2>. QED BY <2>1, <1>3, <1>4 DEF Fresh
<1>6. Depth = 0 /\ saved \in Seq(Database) /\ Len(saved) = 0
  BY <1>2 DEF Depth
<1>7. TypeOK
  BY <1>3, <1>4, <1>6, ZenonT(30) DEF TypeOK, Savepoints
<1>8. Recoverable
  BY <1>2, <1>4, <1>5 DEF Recoverable
<1>9. CacheIsConsistentWithDatabase
  BY <1>2 DEF CacheIsConsistentWithDatabase, Empty
<1>10. Inv
  BY <1>2, <1>4, <1>5, <1>6, <1>7, <1>8, <1>9 DEF Inv, TransactionApart
<1>11. current \in Header
  BY <1>2, <1>4 DEF NextHeader, Header
<1>12. PICK C : C = [i \in {0} |-> buckets]
  BY ZenonT(30)
<1>13. C \in [0..0 -> Rows] /\ C[0] = buckets
  BY <1>3, <1>12
<1>14. deltas \in Seq(Delta) /\ Len(deltas) = 0
  BY <1>2
<1>15. Scoped(C)
  BY <1>4, <1>6, <1>11, <1>13, <1>14 DEF Scoped, Stack
<1>. QED BY <1>10, <1>15 DEF IInv

LEMMA NextInvariant == IInv /\ [Next]_vars => IInv'
<1>. SUFFICES ASSUME IInv, [Next]_vars PROVE IInv'
  OBVIOUS
<1>1. Inv
  BY DEF IInv
<1>2. PICK B : Scoped(B)
  BY DEF IInv
<1>3. CASE UNCHANGED vars
  <2>1. Inv'
    BY <1>1, <1>3
       DEF vars, Inv, TypeOK, Depth, Fresh, TransactionApart, Recoverable,
           CacheIsConsistentWithDatabase, Stored
  <2>2. Scoped(B)'
    BY <1>2, <1>3, Zenon DEF vars, Scoped, Depth, SavedRows
  <2>. QED BY <2>1, <2>2 DEF IInv
<1>4. CASE closeLedger
  BY <1>1, <1>2, <1>4, CloseLedgerStep
<1>5. ASSUME NEW source \in Signer, applyTx(source) PROVE IInv'
  BY <1>1, <1>2, <1>5, ApplyTxStep, BoundsAssumption
<1>6. ASSUME NEW source \in Signer, commonValidFails(source) PROVE IInv'
  BY <1>1, <1>2, <1>6, CommonValidFailsStep, BoundsAssumption
<1>7. ASSUME NEW source \in Account, applyOperation(source) PROVE IInv'
  BY <1>1, <1>2, <1>7, ApplyOperationStep
<1>8. ASSUME NEW k \in Key, NEW record \in BOOLEAN, load(k, record)
      PROVE  IInv'
  BY <1>1, <1>2, <1>8, LoadStep
<1>9. ASSUME NEW k \in Key, NEW v \in Value,
             storeAdd(k, v) \/ storeChange(k, v) \/ generateID(k, v)
      PROVE  IInv'
  BY <1>1, <1>2, <1>9, StoreAddStep, StoreChangeStep, GenerateIDStep
<1>10. ASSUME NEW k \in Key, storeDelete(k) PROVE IInv'
  BY <1>1, <1>2, <1>10, StoreDeleteStep
<1>11. ASSUME NEW result \in BOOLEAN, operationEnds(result) PROVE IInv'
  BY <1>1, <1>2, <1>11, OperationEndsStep
<1>12. CASE tryApproveRequest
  BY <1>1, <1>2, <1>12, TryApproveRequestStep
<1>13. CASE requestApproved
  BY <1>1, <1>2, <1>13, RequestApprovedStep
<1>14. CASE requestRefused
  <2>1. Depth = 5 /\ rollbackTo(4, 3)
    BY <1>14 DEF requestRefused
  <2>. QED BY <1>1, <1>2, <2>1, RollbackStep
<1>15. CASE transactionSucceeds
  BY <1>1, <1>2, <1>15, TransactionSucceedsStep
<1>16. CASE transactionFails \/ transactionThrows
  <2>1. Depth \in {3, 4, 5} /\ rollbackTo(1, 2)
    BY <1>16 DEF transactionFails, transactionThrows
  <2>. QED BY <1>1, <1>2, <2>1, RollbackStep
<1>17. CASE closeLedgerHelper
  BY <1>1, <1>2, <1>17, CloseLedgerHelperStep
<1>18. CASE commitLedger
  BY <1>1, <1>2, <1>18, CommitLedgerStep
<1>19. CASE loadLastKnownLedger
  BY <1>1, <1>2, <1>19, LoadLastKnownLedgerStep
<1>. QED
  BY <1>3, <1>4, <1>5, <1>6, <1>7, <1>8, <1>9, <1>10, <1>11, <1>12, <1>13,
     <1>14, <1>15, <1>16, <1>17, <1>18, <1>19
     DEF Next, Storing

LEMMA Invariance == Spec => []IInv
BY InitInvariant, NextInvariant, PTL DEF Spec

-----------------------------------------------------------------------------
(* What follows from the invariant.                                        *)

LEMMA RowsAccountedFor == IInv => DeltasAccountForRows
<1>. SUFFICES ASSUME IInv, NEW k \in Key
              PROVE  LET touching == {i \in 1..Depth : k \in Touched(deltas[i])}
                     IN  /\ touching = {} => Held(sql.rows, k) = Held(buckets, k)
                         /\ \A i \in touching :
                                (\A j \in touching : j <= i) =>
                                    Held(sql.rows, k) =
                                        Held(getLiveEntries(deltas[i]), k)
  BY DEF DeltasAccountForRows
<1>. DEFINE touching == {i \in 1..Depth : k \in Touched(deltas[i])}
<1>1. PICK B : Inv /\ Scoped(B)
  BY DEF IInv
<1>2. /\ Stack(deltas, B, buckets, current) /\ B[0] = buckets
      /\ sql.rows = B[Len(deltas)] /\ Len(deltas) = Depth
  BY <1>1 DEF Scoped, Stack, Depth
<1>3. /\ Len(deltas) \in 0..5 /\ deltas \in Seq(Delta)
      /\ \A i \in 0..Len(deltas) : B[i] \in Rows
  BY <1>1, <1>2, InnermostScope, Zenon
<1>4. Inherits(deltas, B)
  <2>1. Stack(deltas, B, buckets, current) /\ Len(deltas) \in 0..5
    BY <1>2, <1>3, ZenonT(30)
  <2>. QED BY <2>1, UntouchedAbove, Zenon
<1>5. ASSUME touching = {} PROVE Held(sql.rows, k) = Held(buckets, k)
  <2>1. \A i \in 1..Len(deltas) : i > 0 => k \notin Touched(deltas[i])
    BY <1>2, <1>3, <1>5
  <2>2. 0 \in 0..Len(deltas)
    BY <1>3
  <2>3. Held(B[Len(deltas)], k) = Held(B[0], k)
    BY <1>4, <2>1, <2>2 DEF Inherits
  <2>. QED BY <1>2, <1>5, <2>3
<1>6. ASSUME NEW m \in touching, \A i \in touching : i <= m
      PROVE  Held(sql.rows, k) = Held(getLiveEntries(deltas[m]), k)
  <2>1. m \in 1..Len(deltas) /\ k \in Touched(deltas[m])
    BY <1>2
  <2>2. \A i \in 1..Len(deltas) : i > m => k \notin Touched(deltas[i])
    BY <1>2, <1>3, <1>6, <2>1
  <2>3. m \in 0..Len(deltas) /\ m - 1 \in 0..Len(deltas)
    BY <1>3, <2>1
  <2>4. Held(B[Len(deltas)], k) = Held(B[m], k)
    BY <1>4, <2>2, <2>3 DEF Inherits
  <2>5. B[m] = Layer(B[m - 1], deltas[m]) /\ Fits(B[m - 1], deltas[m])
    BY <1>2, <2>1, ZenonT(30) DEF Stack, Scope
  <2>6. Held(B[m], k) = Held(getLiveEntries(deltas[m]), k)
    BY <1>3, <2>1, <2>3, <2>5, HeldTouched
  <2>. QED BY <1>2, <2>4, <2>6
<1>. QED BY <1>5, <1>6

(* A delta accepts what its rows allow.                                    *)
LEMMA Allowed ==
    ASSUME NEW rows \in Rows, NEW d \in Delta, Fits(rows, d), NEW k
    PROVE  /\ k \in DOMAIN Layer(rows, d) => ModAllowed(d, k)
           /\ k \notin DOMAIN Layer(rows, d) => AddAllowed(d, k)
<1>1. DOMAIN Layer(rows, d)
          = DOMAIN d.new \cup DOMAIN d.mod \cup (DOMAIN rows \ d.del)
  BY LayerRows, Zenon
<1>. QED BY <1>1 DEF ModAllowed, AddAllowed

LEMMA NoAssertFails == IInv => AssertsHold
<1>. SUFFICES ASSUME IInv PROVE AssertsHold
  OBVIOUS
<1>1. PICK B : Inv /\ Scoped(B)
  BY DEF IInv
<1>2. /\ Depth = Len(deltas) /\ Depth \in 0..5
      /\ \A i \in 0..Depth : B[i] \in Rows
      /\ \A i \in 1..Depth : deltas[i] \in Delta
      /\ Stack(deltas, B, buckets, current)
  <2>1. Stack(deltas, B, buckets, current)
    BY <1>1 DEF Scoped
  <2>. QED BY <1>1, <2>1, InnermostScope, StackTypes DEF Depth
<1>3. ASSUME Depth > 0, NEW k \in Key
      PROVE  IF k \in DOMAIN sql.rows THEN ModAllowed(Top, k)
             ELSE AddAllowed(Top, k)
  <2>1. /\ Top \in Delta /\ B[Depth - 1] \in Rows
        /\ Scope(B[Depth - 1], sql.rows, Top, buckets, current)
    BY <1>1, <1>3, TopScope
  <2>2. /\ k \in DOMAIN Layer(B[Depth - 1], Top) => ModAllowed(Top, k)
        /\ k \notin DOMAIN Layer(B[Depth - 1], Top) => AddAllowed(Top, k)
    BY <2>1, Allowed, ZenonT(30) DEF Scope
  <2>3. Layer(B[Depth - 1], Top) = sql.rows
    BY <2>1, Zenon DEF Scope
  <2>. QED BY <2>2, <2>3
<1>4. ASSUME NEW i \in 2..Depth PROVE CommitAllowed(deltas[i - 1], deltas[i])
  <2>. DEFINE d == deltas[i - 1]
              o == deltas[i]
  <2>1. i \in 1..Depth /\ i - 1 \in 1..Depth /\ i - 2 \in 0..Depth
        /\ (i - 1) - 1 = i - 2 /\ i # 1
    BY <1>2
  <2>2. /\ Scope(B[i - 1], B[i], o, buckets, current)
        /\ o.outer = d.header
    BY <1>2, <2>1, ZenonT(30) DEF Stack, Around
  <2>3. Scope(B[i - 2], B[i - 1], d, buckets, current)
    BY <1>2, <2>1 DEF Stack
  <2>4. B[i - 2] \in Rows /\ d \in Delta
    BY <1>2, <2>1
  <2>. HIDE DEF d, o
  <2>5. B[i - 1] = Layer(B[i - 2], d) /\ Fits(B[i - 2], d)
    BY <2>3 DEF Scope
  <2>6. \A k : /\ k \in DOMAIN B[i - 1] => ModAllowed(d, k)
               /\ k \notin DOMAIN B[i - 1] => AddAllowed(d, k)
    BY <2>4, <2>5, Allowed
  <2>7. CommitAllowed(d, o)
    BY <2>2, <2>6, ZenonT(30) DEF Scope, Fits, CommitAllowed
  <2>. QED BY <2>7 DEF d, o
<1>5. Depth > 1 => Touched(deltas[2]) = {} /\ deltas[2].header = deltas[1].header
  BY <1>1 DEF Inv, TransactionApart
<1>. QED BY <1>3, <1>4, <1>5 DEF AssertsHold

LEMMA PublishedIsLast == IInv => PublishedStateIsOfLastLedger
<1>. SUFFICES ASSUME IInv, NEW i \in 1..Depth,
                     NEW k \in DOMAIN deltas[i].mod \cup deltas[i].del,
                     NEW e \in addCurrentMeta(deltas[i], k)
              PROVE  k \in DOMAIN buckets /\ e = buckets[k]
  BY DEF PublishedStateIsOfLastLedger
<1>1. PICK B : Inv /\ Scoped(B)
  BY DEF IInv
<1>2. Scope(B[i - 1], B[i], deltas[i], buckets, current)
  BY <1>1 DEF Scoped, Stack, Depth
<1>3. /\ k \in DOMAIN deltas[i].previous
      /\ deltas[i].previous[k].lastModified # deltas[i].header.ledgerSeq
      /\ e = deltas[i].previous[k]
  BY DEF addCurrentMeta
<1>. QED BY <1>2, <1>3, ZenonT(30) DEF Scope, Recent

LEMMA IdsAreFresh == IInv => GeneratedIdsAreFresh
<1>. SUFFICES ASSUME IInv PROVE GeneratedIdsAreFresh
  OBVIOUS
<1>1. PICK B : Inv /\ Scoped(B)
  BY DEF IInv
<1>2. CASE Depth = 0
  <2>1. /\ Fresh(sql.rows, sql.lcl) /\ current = NextHeader(sql.lcl)
        /\ sql \in Database
    BY <1>1, <1>2 DEF Inv, TypeOK
  <2>2. current.idPool = sql.lcl.idPool
    BY <2>1 DEF NextHeader, Database, Header
  <2>. QED BY <1>2, <2>1, <2>2 DEF Fresh, GeneratedIdsAreFresh
<1>3. CASE Depth # 0
  <2>1. Depth > 0
    BY <1>1, <1>3, InnermostScope
  <2>2. Fresh(sql.rows, Top.header)
    BY <1>1, <2>1, TopScope, Zenon
  <2>. QED BY <1>3, <2>2 DEF Fresh, GeneratedIdsAreFresh
<1>. QED BY <1>2, <1>3

-----------------------------------------------------------------------------
(* Whatever scopes were committed, rolled back or thrown out of, the open  *)
(* deltas say of every key what SQL shows: the batch that the close of the *)
(* ledger gives to the bucket list makes it equal to the database          *)
(* (LedgerDelta::mergeEntries, closeLedgerHelper).                         *)
THEOREM BucketsFollowDatabase == Spec => []DeltasAccountForRows
BY Invariance, RowsAccountedFor, PTL

(* The entry cache shows what SQL does, after every store, load, rollback  *)
(* and restart (EntryHelper, LedgerDelta::rollback).                       *)
THEOREM CacheFollowsDatabase == Spec => []CacheIsConsistentWithDatabase
<1>1. IInv => CacheIsConsistentWithDatabase
  BY DEF IInv, Inv
<1>. QED BY <1>1, Invariance, PTL

(* No assert of LedgerDelta and none of applyTransactions can fail.        *)
THEOREM AssertsNeverFail == Spec => []AssertsHold
BY Invariance, NoAssertFails, PTL

(* The older state that the published changes carry is the one that the    *)
(* last closed ledger left (LedgerDelta::addCurrentMeta).                  *)
THEOREM PublishedStateIsRight == Spec => []PublishedStateIsOfLastLedger
BY Invariance, PublishedIsLast, PTL

(* LedgerHeaderFrame::generateID never gives out the identifier of an      *)
(* entry that exists.                                                      *)
THEOREM IdsAreNeverReused == Spec => []GeneratedIdsAreFresh
BY Invariance, IdsAreFresh, PTL
=============================================================================
