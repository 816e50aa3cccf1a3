------------------------- MODULE LedgerSyncProofs -------------------------
(***************************************************************************)
(* Proofs of the safety properties of LedgerSync, for any checkpoint       *)
(* frequency, brackets, settings of catchup and number of ledgers.         *)
(***************************************************************************)
EXTENDS LedgerSync, TLAPS

(* The last slot that the node has seen externalize.                       *)
Seen == IF tracking # 0 THEN tracking ELSE lastTracking

first == minimalFirstCheckpointSeq(catchup.init)
last == lastCheckpointSeq(catchup.init)

(* What the herder holds: a slot is lost track of only for an earlier one, *)
(* nothing closed or buffered is later than what was seen, and a position  *)
(* is one on the ledger after it.                                          *)
Tracks ==
    /\ tracking # 0 => lastTracking <= tracking
    /\ Seen # 0
    /\ lcl <= Seen
    /\ \A s \in syncing : s <= Seen
    /\ \A p \in {trigger, nominating} \ {0} :
            state = "SYNCED" /\ p = lcl + 1 /\ lcl = Seen
    /\ closing => /\ tracking # 0 /\ state # "BOOTING"
                  /\ state = "SYNCED" => lcl = tracking
                  /\ trigger = 0 /\ nominating = 0

(* What the works hold: a checkpoint is applied when consensus has reached *)
(* it, the mode fits the settings, and CATCHUP_RECENT only runs for what   *)
(* was far away, or has deposited its first checkpoint.                    *)
Works ==
    /\ catchup.step \in {"APPLY", "APPLYING"} => last <= Seen
    /\ catchup.step = "APPLYING" => lcl <= first
    /\ catchup.mode = "MINIMAL" => config.recent = 0
    /\ catchup.work = "MINIMAL" =>
            /\ ~config.complete
            /\ catchup.init - lcl > config.recent \/ first <= lcl
    /\ catchup.work = "COMPLETE" /\ catchup.mode = "RECENT" =>
            /\ ~config.complete
            /\ first <= lcl

(* While the database holds a part of a newer state, nothing that closes   *)
(* a ledger can start: consensus is too far ahead.                         *)
FarAhead ==
    /\ mixed # 0 => ~config.complete
    /\ mixed > lcl => /\ state # "SYNCED"
                      /\ catchup.work # "COMPLETE"
                      /\ Seen - lcl > config.recent

IInv == TypeOK /\ BufferMatchesCatchup /\ Tracks /\ Works /\ FarAhead

(* What every step keeps and does.                                         *)
GoodStep ==
    /\ IInv'
    /\ Seen' >= Seen
    /\ mixed > lcl /\ mixed' # 0 => lcl' = lcl /\ state' # "SYNCED"
    /\ state = "CATCHING_UP" /\ syncing' = {} =>
            state' = "BOOTING" \/ (state' = "SYNCED" /\ lcl' >= Max(syncing))

-----------------------------------------------------------------------------
(* Checkpoints: rounding up gives a positive ledger, not an earlier one,   *)
(* and keeps the order.                                                    *)
LEMMA Quotient ==
    ASSUME NEW x \in Nat, NEW f \in Nat \ {0}
    PROVE  /\ x \div f \in Nat
           /\ f * (x \div f) <= x
           /\ x < f * (x \div f) + f
  OBVIOUS

LEMMA QuotientMonotone ==
    ASSUME NEW x \in Nat, NEW y \in Nat, NEW f \in Nat \ {0}, x <= y
    PROVE  x \div f <= y \div f
  <1> DEFINE p == x \div f
             q == y \div f
  <1>1. /\ p \in Nat /\ q \in Nat /\ f * p <= x /\ y < f * q + f
    BY Quotient
  <1> HIDE DEF p, q
  <1>2. SUFFICES ASSUME q + 1 <= p PROVE FALSE
    BY <1>1 DEF p, q
  <1>3. f * (q + 1) <= f * p
    BY <1>1, <1>2
  <1>4. f * (q + 1) = f * q + f
    BY <1>1
  <1> QED
    BY <1>1, <1>3, <1>4

LEMMA Checkpoint ==
    ASSUME NEW l \in Nat
    PROVE  /\ nextCheckpointLedger(l) \in Nat \ {0}
           /\ nextCheckpointLedger(l) >= l
  <1> DEFINE q == (l + Freq - 1) \div Freq
  <1>1. l + Freq - 1 \in Nat
    BY SyncAssumption
  <1>2. /\ q \in Nat /\ l + Freq - 1 < Freq * q + Freq
    BY <1>1, Quotient, SyncAssumption
  <1> HIDE DEF q
  <1>3. q * Freq = Freq * q /\ Freq * q \in Nat
    BY <1>2, SyncAssumption
  <1> QED
    BY <1>2, <1>3, SyncAssumption DEF nextCheckpointLedger, q

LEMMA CheckpointMonotone ==
    ASSUME NEW k \in Nat, NEW l \in Nat, k <= l
    PROVE  nextCheckpointLedger(k) <= nextCheckpointLedger(l)
  <1> DEFINE x == k + Freq - 1
             y == l + Freq - 1
             p == x \div Freq
             q == y \div Freq
  <1>1. x \in Nat /\ y \in Nat /\ x <= y
    BY SyncAssumption
  <1>2. p \in Nat /\ q \in Nat /\ p <= q
    BY <1>1, Quotient, QuotientMonotone, SyncAssumption
  <1>3. y < Freq * q + Freq
    BY <1>1, Quotient, SyncAssumption
  <1> HIDE DEF p, q
  <1>4. p * Freq <= q * Freq
    BY <1>2, SyncAssumption
  <1>5. CASE k = 0
    <2>1. l # 0 => q >= 1
      BY <1>2, <1>3, SyncAssumption
    <2>2. q >= 1 => Freq <= q * Freq
      BY <1>2, SyncAssumption
    <2> QED
      BY <1>5, <2>1, <2>2, SyncAssumption DEF nextCheckpointLedger, q
  <1>6. CASE k # 0
    BY <1>4, <1>6 DEF nextCheckpointLedger, p, q
  <1> QED
    BY <1>5, <1>6

LEMMA Rounded ==
    ASSUME TypeOK
    PROVE  /\ first \in Nat /\ last \in Nat
           /\ first <= last
           /\ last >= catchup.init - 1
           /\ config.recent = 0 => first = last
           /\ catchup.work = "MINIMAL" => firstCheckpointSeq(catchup) = first
  <1> DEFINE i == catchup.init
             r == config.recent
             k == IF i > r THEN i - r ELSE 0
  <1>1. i \in Nat /\ r \in Nat
    BY SyncAssumption DEF TypeOK, CatchupRecord, NoCatchup
  <1>2. k \in Nat /\ k <= i /\ (r = 0 => k = i)
    BY <1>1
  <1>3. /\ first = nextCheckpointLedger(k) - 1
        /\ last = nextCheckpointLedger(i) - 1
    BY DEF first, last, minimalFirstCheckpointSeq, lastCheckpointSeq
  <1> HIDE DEF i, r, k
  <1>4. /\ nextCheckpointLedger(k) \in Nat \ {0}
        /\ nextCheckpointLedger(i) \in Nat \ {0}
        /\ nextCheckpointLedger(i) >= i
        /\ nextCheckpointLedger(k) <= nextCheckpointLedger(i)
    BY <1>1, <1>2, Checkpoint, CheckpointMonotone
  <1>5. catchup.work = "MINIMAL" => firstCheckpointSeq(catchup) = first
    BY DEF firstCheckpointSeq, first
  <1> QED
    BY <1>1, <1>2, <1>3, <1>4, <1>5 DEF i, r

-----------------------------------------------------------------------------
(* The largest elements that the code takes.                               *)
LEMMA LargestBuffered ==
    ASSUME NEW a \in Nat, NEW b \in Nat, a <= b
    PROVE  Max(a..b) = b
  BY DEF Max

LEMMA LargestOfTwo ==
    ASSUME NEW a \in Nat, NEW b \in Nat
    PROVE  Max({a, b}) = IF a >= b THEN a ELSE b
  BY DEF Max

LEMMA LargestOfThree ==
    ASSUME NEW a \in Nat, NEW b \in Nat, NEW c \in Nat, NEW m \in {a, b, c},
           m >= a, m >= b, m >= c
    PROVE  Max({a, b, c}) = m
  BY DEF Max

LEMMA CurrentIsSeen ==
    ASSUME IInv
    PROVE  getCurrentLedgerSeq = Seen
  <1>1. /\ lcl \in Nat /\ tracking \in Nat /\ lastTracking \in Nat
        /\ Seen \in {lcl, tracking, lastTracking}
        /\ Seen >= lcl /\ Seen >= tracking /\ Seen >= lastTracking
    BY DEF IInv, TypeOK, Tracks, Seen
  <1> QED
    BY <1>1, LargestOfThree DEF getCurrentLedgerSeq

(* The replay of a buffer that history overlaps with closes all of it.     *)
LEMMA ReplayAll ==
    ASSUME NEW l \in Nat, NEW i \in Nat, NEW m \in Nat,
           syncing = i..m, i <= m, l >= i - 1
    PROVE  /\ Replayed(l) = (IF l >= m THEN l ELSE m)
           /\ ~Overshoots(l)
  <1> DEFINE t == IF l >= m THEN l ELSE m
             P(r) == /\ r >= l
                     /\ \A s \in (l + 1)..r : s \in syncing
                     /\ r + 1 \notin syncing
  <1>1. t \in {l} \cup syncing /\ P(t)
    OBVIOUS
  <1>2. ASSUME NEW r \in {l} \cup syncing, P(r)
        PROVE  r = t
    BY <1>2
  <1>3. Replayed(l) = t
    BY <1>1, <1>2 DEF Replayed
  <1> QED
    BY <1>3 DEF Overshoots

-----------------------------------------------------------------------------
(* The invariant holds at the start.                                       *)
LEMMA Initially == Init => IInv
  <1> SUFFICES ASSUME Init PROVE IInv
    OBVIOUS
  <1>1. TypeOK
    <2>1. NoCatchup \in CatchupRecord
      BY Zenon DEF CatchupRecord
    <2>2. /\ closing \in BOOLEAN /\ stopped \in BOOLEAN
          /\ config \in Configs /\ catchup \in CatchupRecord
      BY <2>1, Zenon DEF Init
    <2>3. /\ net \in Nat /\ lcl \in Nat \ {0} /\ mixed \in Nat
          /\ tracking \in Nat /\ lastTracking \in Nat /\ trigger \in Nat
          /\ nominating \in Nat /\ syncing \in SUBSET Nat
          /\ ready \in SUBSET Nat
          /\ state \in {"BOOTING", "SYNCED", "CATCHING_UP"}
      BY SyncAssumption DEF Init
    <2> QED
      BY <2>2, <2>3, Zenon DEF TypeOK
  <1>2. BufferMatchesCatchup
    BY DEF Init, BufferMatchesCatchup
  <1>3. Tracks
    BY SyncAssumption DEF Init, Tracks, Seen
  <1>4. Works /\ FarAhead
    BY SyncAssumption DEF Init, Works, FarAhead, NoCatchup
  <1> QED
    BY <1>1, <1>2, <1>3, <1>4 DEF IInv

(* A slot later than all seen externalizes, from whatever handler.  If the *)
(* database holds a part of a newer state, no ledger is closed.            *)
LEMMA Externalizes ==
    ASSUME IInv, NEW s \in Nat, s > Seen, NEW p \in Nat, p <= Seen,
           NEW queue \in SUBSET Nat, valueExternalized(s, p, queue)
    PROVE  /\ IInv'
           /\ Seen' >= Seen
           /\ mixed > lcl => lcl' = lcl /\ state' # "SYNCED"
           /\ state = "CATCHING_UP" => syncing' # {}
  <1>0. /\ tracking' = s /\ lastTracking' \in Nat /\ lastTracking' <= s
        /\ nominating' = 0 /\ trigger' = 0 /\ ready' \in SUBSET Nat
        /\ closing' = TRUE /\ UNCHANGED <<net, config, mixed, stopped>>
        /\ Seen' = s /\ s # 0 /\ Seen \in Nat
    <2>1. Seen \in Nat /\ s # 0
      BY DEF IInv, TypeOK, Seen
    <2>2. /\ tracking' = s /\ lastTracking' = (IF p = 0 THEN s ELSE p)
          /\ nominating' = 0 /\ trigger' = 0
          /\ ready' = {x \in queue : x > s}
          /\ closing' = TRUE /\ UNCHANGED <<net, config, mixed, stopped>>
      BY Zenon DEF valueExternalized
    <2>3. lastTracking' \in Nat /\ lastTracking' <= s
      BY <2>1, <2>2
    <2>4. ready' \in SUBSET Nat
      BY <2>2
    <2>5. Seen' = s
      BY <2>1, <2>2 DEF Seen
    <2> QED
      BY <2>1, <2>2, <2>3, <2>4, <2>5, Zenon
  <1>1. /\ TypeOK /\ lcl <= Seen /\ lcl \in Nat \ {0}
        /\ \A x \in syncing : x <= Seen
        /\ config.recent \in Nat
    BY SyncAssumption DEF IInv, Tracks, TypeOK
  <1>2. externalizeValue(s)
    BY DEF valueExternalized
  <1>3. CASE state = "CATCHING_UP"
    <2>1. Buffer(s)
      BY <1>2, <1>3 DEF externalizeValue
    <2>2. PICK m \in syncing : syncing = catchup.init..m
      BY <1>3 DEF IInv, BufferMatchesCatchup
    <2>3. catchup.init \in Nat /\ m \in Nat /\ catchup.init <= m
      BY <1>1, <2>2 DEF TypeOK, CatchupRecord, NoCatchup
    <2>4. Max(syncing) = m
      BY <2>2, <2>3, LargestBuffered
    <2>5. syncing' = IF s = m + 1 THEN catchup.init..(m + 1) ELSE syncing
      <3>1. syncing' = IF s = m + 1 THEN syncing \cup {s} ELSE syncing
        BY <2>1, <2>2, <2>4 DEF Buffer
      <3>2. (catchup.init..m) \cup {m + 1} = catchup.init..(m + 1)
        BY <2>3
      <3> QED
        BY <2>2, <3>1, <3>2
    <2>6. UNCHANGED <<lcl, state, catchup>>
      BY <2>1 DEF Buffer
    <2>7. TypeOK'
      BY <1>0, <1>1, <2>3, <2>5, <2>6 DEF TypeOK
    <2>8. BufferMatchesCatchup' /\ syncing' # {}
      BY <1>3, <2>2, <2>3, <2>5, <2>6 DEF IInv, BufferMatchesCatchup
    <2>9. Tracks'
      BY <1>0, <1>1, <1>3, <2>3, <2>5, <2>6 DEF Tracks
    <2>10. first' = first /\ last' = last /\ last \in Nat
      BY <1>0, <1>1, <2>6, Rounded DEF first, last, minimalFirstCheckpointSeq, lastCheckpointSeq
    <2>11. Works' /\ FarAhead'
      BY <1>0, <1>1, <2>6, <2>10 DEF IInv, Works, FarAhead
    <2> QED
      BY <1>0, <1>3, <2>6, <2>7, <2>8, <2>9, <2>11 DEF IInv
  <1>4. CASE state # "CATCHING_UP" /\ s = lcl + 1
    <2>1. Close(s)
      BY <1>2, <1>4 DEF externalizeValue
    <2>2. lcl' = s /\ state' = "SYNCED" /\ UNCHANGED <<syncing, catchup>>
      BY <2>1 DEF Close
    <2>3. lcl = Seen /\ ~(mixed > lcl)
      BY <1>0, <1>1, <1>4 DEF IInv, FarAhead
    <2>4. state = "SYNCED" \/ state = "BOOTING"
      BY <1>1, <1>4 DEF TypeOK
    <2>5. catchup = NoCatchup /\ syncing = {}
      BY <1>4, <2>4 DEF IInv, BufferMatchesCatchup
    <2>6. TypeOK'
      BY <1>0, <1>1, <2>2 DEF TypeOK
    <2>7. BufferMatchesCatchup'
      BY <2>2, <2>5 DEF BufferMatchesCatchup
    <2>8. Tracks'
      BY <1>0, <1>1, <2>2, <2>5 DEF Tracks
    <2>9. Works'
      BY <2>2, <2>5 DEF Works, NoCatchup
    <2>10. mixed \in Nat /\ ~(mixed' > lcl')
      BY <1>0, <1>1, <1>4, <2>2, <2>3 DEF TypeOK
    <2>11. FarAhead'
      BY <1>0, <2>10 DEF IInv, FarAhead
    <2> QED
      BY <1>0, <1>4, <2>3, <2>6, <2>7, <2>8, <2>9, <2>11 DEF IInv
  <1>5. CASE state # "CATCHING_UP" /\ s # lcl + 1
    <2>1. LostSync(s)
      BY <1>0, <1>1, <1>2, <1>5 DEF externalizeValue
    <2>2. /\ syncing' = syncing \cup {s} /\ lcl' = lcl
          /\ state' = "CATCHING_UP" /\ catchup' = catchupHistory(s, lcl)
      BY <2>1 DEF LostSync, startCatchUp
    <2>3. syncing = {} /\ syncing' = s..s /\ catchup = NoCatchup
      BY <1>5, <2>2 DEF IInv, BufferMatchesCatchup
    <2>4. \/ /\ catchup' = CompleteWork("COMPLETE", s, lcl)
             /\ config.complete \/ s - lcl <= config.recent
          \/ /\ catchup' = MinimalWork("MINIMAL", s)
             /\ ~config.complete /\ config.recent = 0
          \/ /\ catchup' = MinimalWork("RECENT", s)
             /\ ~config.complete /\ s - lcl > config.recent
      BY <1>0, <1>1, <2>2 DEF catchupHistory, getCatchupMode
    <2>5. TypeOK'
      BY <1>0, <1>1, <2>2, <2>3, <2>4 DEF TypeOK, CatchupRecord, CompleteWork, MinimalWork
    <2>6. catchup'.init = s /\ catchup' # NoCatchup
      BY <2>4, <1>0 DEF CompleteWork, MinimalWork, NoCatchup
    <2>7. BufferMatchesCatchup'
      BY <2>2, <2>3, <2>6 DEF BufferMatchesCatchup
    <2>8. Tracks'
      BY <1>0, <1>1, <2>2, <2>3 DEF Tracks
    <2>9. Works'
      BY <1>0, <1>1, <2>2, <2>4 DEF Works, CompleteWork, MinimalWork
    <2>10. FarAhead'
      BY <1>0, <1>1, <2>2, <2>4 DEF IInv, FarAhead, CompleteWork, MinimalWork
    <2> QED
      BY <1>0, <1>5, <2>2, <2>5, <2>7, <2>8, <2>9, <2>10 DEF IInv
  <1> QED
    BY <1>3, <1>4, <1>5

(* The herder's other steps leave the ledger manager alone.                *)
LEMMA HerderStep ==
    ASSUME IInv, UNCHANGED <<config, state, lcl, syncing, catchup, mixed>>,
           net' \in Nat, trigger' \in Nat, nominating' \in Nat,
           ready' \in SUBSET Nat, closing' \in BOOLEAN, stopped' \in BOOLEAN,
           tracking' \in Nat, lastTracking' \in Nat,
           Seen' = Seen, Tracks'
    PROVE  GoodStep
  <1>1. TypeOK'
    BY DEF IInv, TypeOK
  <1>2. BufferMatchesCatchup'
    BY DEF IInv, BufferMatchesCatchup
  <1>3. first' = first /\ last' = last
    BY DEF first, last, minimalFirstCheckpointSeq, lastCheckpointSeq
  <1>4. Works' /\ FarAhead'
    BY <1>3 DEF IInv, Works, FarAhead
  <1>5. Seen \in Nat
    BY DEF IInv, TypeOK, Seen
  <1>6. state = "CATCHING_UP" => syncing # {}
    BY DEF IInv, BufferMatchesCatchup
  <1>7. mixed > lcl => state # "SYNCED"
    BY DEF IInv, FarAhead
  <1> QED
    BY <1>1, <1>2, <1>4, <1>5, <1>6, <1>7 DEF IInv, GoodStep

LEMMA Hearing ==
    ASSUME IInv, NEW s \in 1..net, Hears(s)
    PROVE  GoodStep
  <1> DEFINE queue == {r \in ready \cup {s} : r > getCurrentLedgerSeq}
  <1>1. /\ Idle /\ s > getCurrentLedgerSeq
        /\ IF tracking = 0 THEN ExternalizeSmallest(lastTracking, queue)
           ELSE IF tracking + 1 \in queue
           THEN valueExternalized(tracking + 1, lastTracking, queue)
           ELSE /\ ready' = queue
                /\ UNCHANGED <<net, config, state, lcl, syncing, catchup, mixed,
                               tracking, lastTracking, trigger, nominating,
                               closing, stopped>>
    BY DEF Hears, recvSCPEnvelope, nextConsensusLedgerIndex
  <1>2. /\ getCurrentLedgerSeq = Seen /\ Seen \in Nat /\ queue \in SUBSET Nat
        /\ \A r \in queue : r > Seen
        /\ lastTracking \in Nat /\ lastTracking <= Seen
    <2>1. getCurrentLedgerSeq = Seen
      BY CurrentIsSeen
    <2>2. /\ tracking \in Nat /\ lastTracking \in Nat /\ ready \in SUBSET Nat
          /\ net \in Nat /\ (tracking # 0 => lastTracking <= tracking)
      BY DEF IInv, TypeOK, Tracks
    <2>3. s \in Nat /\ Seen \in Nat /\ lastTracking <= Seen
      BY <2>2 DEF Seen
    <2>4. \A r \in queue : r \in ready \cup {s} /\ r > Seen
      BY <2>1, Zenon
    <2>5. queue \in SUBSET Nat
      BY <2>2, <2>3, <2>4, Zenon
    <2> QED
      BY <2>1, <2>2, <2>3, <2>4, <2>5, Zenon
  <1> HIDE DEF queue
  <1>3. ASSUME NEW x \in queue, valueExternalized(x, lastTracking, queue)
        PROVE  GoodStep
    BY <1>2, <1>3, Externalizes DEF GoodStep
  <1>4. CASE tracking = 0
    BY <1>1, <1>3, <1>4 DEF ExternalizeSmallest
  <1>5. CASE tracking # 0 /\ tracking + 1 \in queue
    BY <1>1, <1>3, <1>5
  <1>6. CASE tracking # 0 /\ tracking + 1 \notin queue
    <2>1. /\ ready' = queue
          /\ UNCHANGED <<net, config, state, lcl, syncing, catchup, mixed,
                         tracking, lastTracking, trigger, nominating,
                         closing, stopped>>
      BY <1>1, <1>6
    <2>2. Seen' = Seen
      BY <2>1 DEF Seen
    <2>3. Tracks'
      BY <2>1, <2>2 DEF IInv, Tracks
    <2> QED
      BY <1>2, <2>1, <2>2, <2>3, HerderStep DEF IInv, TypeOK
  <1> QED
    BY <1>4, <1>5, <1>6

LEMMA Continuing ==
    ASSUME IInv, ExternalizeNext
    PROVE  GoodStep
  <1>1. /\ tracking \in Nat /\ Seen = tracking /\ lastTracking \in Nat
        /\ lastTracking <= Seen /\ ready \in SUBSET Nat
    BY DEF IInv, TypeOK, Tracks, Seen, ExternalizeNext
  <1>2. valueExternalized(tracking + 1, lastTracking, ready)
    BY DEF ExternalizeNext, nextConsensusLedgerIndex
  <1>3. tracking + 1 > Seen
    BY <1>1
  <1> QED
    BY <1>1, <1>2, <1>3, Externalizes DEF GoodStep

LEMMA LosingTrack ==
    ASSUME IInv, herderOutOfSync
    PROVE  GoodStep
  <1> DEFINE queue == {r \in ready : r > getCurrentLedgerSeq}
  <1>1. /\ Idle /\ tracking # 0
        /\ IF queue # {} THEN ExternalizeSmallest(tracking, queue)
           ELSE /\ lastTracking' = tracking /\ tracking' = 0 /\ ready' = {}
                /\ UNCHANGED <<net, config, state, lcl, syncing, catchup, mixed,
                               trigger, nominating, closing, stopped>>
    BY DEF herderOutOfSync
  <1>2. /\ getCurrentLedgerSeq = Seen /\ Seen \in Nat /\ queue \in SUBSET Nat
        /\ \A r \in queue : r > Seen
        /\ tracking \in Nat /\ tracking <= Seen
    <2>1. getCurrentLedgerSeq = Seen
      BY CurrentIsSeen
    <2>2. tracking \in Nat /\ ready \in SUBSET Nat
      BY DEF IInv, TypeOK
    <2>3. Seen = tracking /\ tracking <= Seen
      BY <1>1, <2>2 DEF Seen
    <2>4. \A r \in queue : r \in ready /\ r > Seen
      BY <2>1, Zenon
    <2> QED
      BY <2>1, <2>2, <2>3, <2>4, Zenon
  <1> HIDE DEF queue
  <1>3. CASE queue # {}
    <2>1. PICK x \in queue : valueExternalized(x, tracking, queue)
      BY <1>1, <1>3 DEF ExternalizeSmallest
    <2> QED
      BY <1>2, <2>1, Externalizes DEF GoodStep
  <1>4. CASE queue = {}
    <2>1. /\ lastTracking' = tracking /\ tracking' = 0 /\ ready' = {}
          /\ UNCHANGED <<net, config, state, lcl, syncing, catchup, mixed,
                         trigger, nominating, closing, stopped>>
      BY <1>1, <1>4
    <2>2. Seen' = Seen
      BY <1>1, <2>1 DEF Seen
    <2>3. Tracks'
      BY <1>1, <2>1, <2>2 DEF IInv, Tracks, Idle
    <2> QED
      BY <1>2, <2>1, <2>2, <2>3, HerderStep DEF IInv, TypeOK
  <1> QED
    BY <1>3, <1>4

LEMMA OtherHerderSteps ==
    ASSUME IInv, NetworkCloses \/ ledgerClosed \/ triggerNextLedger \/ ApplyBucketsThrows
    PROVE  GoodStep
  <1>0. TypeOK /\ Tracks
    BY DEF IInv
  <1>1. CASE NetworkCloses
    <2>1. /\ net' = net + 1
          /\ UNCHANGED <<config, state, lcl, syncing, catchup, mixed, tracking,
                         lastTracking, trigger, nominating, ready, closing, stopped>>
      BY <1>1 DEF NetworkCloses
    <2>2. Seen' = Seen
      BY <2>1 DEF Seen
    <2>3. Tracks'
      BY <1>0, <2>1, <2>2 DEF Tracks
    <2> QED
      BY <1>0, <2>1, <2>2, <2>3, HerderStep DEF TypeOK
  <1>2. CASE ledgerClosed
    <2>1. /\ closing /\ closing' = FALSE
          /\ trigger' = IF state = "SYNCED" THEN tracking + 1 ELSE 0
          /\ UNCHANGED <<net, config, state, lcl, syncing, catchup, mixed, tracking,
                         lastTracking, nominating, ready, stopped>>
      BY <1>2 DEF ledgerClosed, nextConsensusLedgerIndex
    <2>2. Seen' = Seen
      BY <2>1 DEF Seen
    <2>3. /\ state' = state /\ lcl' = lcl /\ tracking' = tracking /\ syncing' = syncing
          /\ lastTracking' = lastTracking /\ nominating' = nominating /\ closing' = FALSE
      BY <2>1, Zenon
    <2>4. /\ nominating = 0 /\ Seen = tracking /\ tracking \in Nat
          /\ state = "SYNCED" => lcl = tracking
      BY <1>0, <2>1 DEF Tracks, Seen, TypeOK
    <2>5. \A p \in {trigger', nominating'} \ {0} :
              state' = "SYNCED" /\ p = lcl' + 1 /\ lcl' = Seen'
      BY <2>1, <2>2, <2>3, <2>4
    <2>6. Tracks'
      BY <1>0, <2>2, <2>3, <2>5 DEF Tracks
    <2>7. trigger' \in Nat
      BY <2>1, <2>4
    <2> QED
      BY <1>0, <2>1, <2>2, <2>6, <2>7, HerderStep DEF TypeOK
  <1>3. CASE triggerNextLedger
    <2>1. /\ Idle /\ trigger # 0 /\ trigger' = 0
          /\ nominating' \in {trigger, nominating}
          /\ UNCHANGED <<net, config, state, lcl, syncing, catchup, mixed, tracking,
                         lastTracking, ready, closing, stopped>>
      BY <1>3 DEF triggerNextLedger
    <2>2. Seen' = Seen
      BY <2>1 DEF Seen
    <2>3. Tracks'
      BY <1>0, <2>1, <2>2 DEF Tracks, Idle
    <2> QED
      BY <1>0, <2>1, <2>2, <2>3, HerderStep DEF TypeOK
  <1>4. CASE ApplyBucketsThrows
    <2>1. /\ stopped' = TRUE
          /\ UNCHANGED <<net, config, state, lcl, syncing, catchup, mixed, tracking,
                         lastTracking, trigger, nominating, ready, closing>>
      BY <1>4 DEF ApplyBucketsThrows
    <2>2. Seen' = Seen
      BY <2>1 DEF Seen
    <2>3. Tracks'
      BY <1>0, <2>1, <2>2 DEF Tracks
    <2> QED
      BY <1>0, <2>1, <2>2, <2>3, HerderStep DEF TypeOK
  <1> QED
    BY <1>1, <1>2, <1>3, <1>4

-----------------------------------------------------------------------------
(* The steps of catchup.                                                   *)
LEMMA Catching ==
    ASSUME IInv, catchup.step # "NONE" \/ catchup.work # "NONE" \/ catchup.mode # "NONE"
    PROVE  /\ state = "CATCHING_UP" /\ catchup # NoCatchup
           /\ trigger = 0 /\ nominating = 0
           /\ catchup.init \in Nat /\ catchup.init <= Seen
           /\ \E m \in Nat : syncing = catchup.init..m /\ catchup.init <= m /\ m <= Seen
           /\ lcl \in Nat \ {0} /\ Seen \in Nat /\ mixed \in Nat /\ config.recent \in Nat
  <1>1. catchup # NoCatchup
    BY DEF NoCatchup
  <1>2. state = "CATCHING_UP"
    BY <1>1 DEF IInv, BufferMatchesCatchup
  <1>3. /\ catchup.init \in Nat /\ syncing \in SUBSET Nat /\ lcl \in Nat \ {0}
        /\ Seen \in Nat /\ mixed \in Nat /\ config.recent \in Nat
    BY SyncAssumption DEF IInv, TypeOK, CatchupRecord, NoCatchup, Seen
  <1>4. PICK m \in syncing : syncing = catchup.init..m
    BY <1>2 DEF IInv, BufferMatchesCatchup
  <1>5. m \in Nat /\ catchup.init <= m
    BY <1>3, <1>4
  <1>6. m <= Seen
    BY <1>4 DEF IInv, Tracks
  <1>7. trigger = 0 /\ nominating = 0
    BY <1>2 DEF IInv, Tracks
  <1> QED
    BY <1>1, <1>2, <1>3, <1>4, <1>5, <1>6, <1>7

(* A step of a work that leaves the ledger manager alone.                  *)
LEMMA WorkStep ==
    ASSUME IInv, state = "CATCHING_UP", UNCHANGED <<state, lcl, syncing>>, UnchangedHerder,
           catchup' \in CatchupRecord \ {NoCatchup}, catchup'.init = catchup.init,
           mixed' \in Nat, Works', FarAhead'
    PROVE  GoodStep
  <1>1. UNCHANGED <<net, config, tracking, lastTracking, trigger, nominating,
                    ready, closing, stopped>>
    BY DEF UnchangedHerder
  <1>2. TypeOK'
    BY <1>1 DEF IInv, TypeOK
  <1>3. syncing' # {} /\ BufferMatchesCatchup'
    BY DEF IInv, BufferMatchesCatchup
  <1>4. Seen' = Seen /\ Seen \in Nat
    BY <1>1 DEF Seen, IInv, TypeOK
  <1>5. Tracks'
    BY <1>1, <1>4 DEF IInv, Tracks
  <1> QED
    BY <1>2, <1>3, <1>4, <1>5 DEF IInv, GoodStep

LEMMA WorksStep ==
    ASSUME IInv,
           Verified \/ Inconclusive \/ ApplyBuckets \/ RetryWork \/ RetryRecent
    PROVE  GoodStep
  <1>0. /\ state = "CATCHING_UP" /\ catchup # NoCatchup
        /\ catchup.init \in Nat /\ catchup.init <= Seen
        /\ lcl \in Nat \ {0} /\ Seen \in Nat /\ mixed \in Nat /\ config.recent \in Nat
    BY Catching DEF Verified, Inconclusive, VerifyLedgerChain, ApplyBuckets,
                    RetryWork, RetryRecent
  <1>1. /\ UNCHANGED <<state, lcl, syncing>> /\ UnchangedHerder
    BY DEF Verified, Inconclusive, ApplyBuckets, RetryWork, RetryRecent
  <1>2. config' = config /\ Seen' = Seen
    BY <1>1 DEF UnchangedHerder, Seen
  <1>3. /\ TypeOK /\ first \in Nat /\ last \in Nat
        /\ catchup.work = "MINIMAL" => firstCheckpointSeq(catchup) = first
    BY Rounded DEF IInv
  <1>4. catchup \in CatchupRecord \ {NoCatchup}
    BY <1>0, <1>3 DEF TypeOK
  <1>5. ASSUME catchup'.init = catchup.init
        PROVE  first' = first /\ last' = last
    BY <1>2, <1>5 DEF first, last, minimalFirstCheckpointSeq, lastCheckpointSeq
  <1>6. CASE Verified
    <2>1. /\ catchup' = [catchup EXCEPT !.step = "APPLY", !.verified = last]
          /\ mixed' = mixed /\ verifyCatchupCandidate(last)
      BY <1>6 DEF Verified, last
    <2>2. /\ catchup' \in CatchupRecord \ {NoCatchup} /\ catchup'.init = catchup.init
          /\ catchup'.step = "APPLY" /\ catchup'.mode = catchup.mode
          /\ catchup'.work = catchup.work
      BY <1>3, <1>4, <2>1 DEF CatchupRecord, NoCatchup
    <2>3. last <= Seen
      BY <1>0, <1>3, <2>1 DEF verifyCatchupCandidate, IInv, Tracks
    <2>4. Works' /\ FarAhead'
      BY <1>1, <1>2, <1>5, <2>1, <2>2, <2>3 DEF IInv, Works, FarAhead
    <2> QED
      BY <1>0, <1>1, <2>1, <2>2, <2>4, WorkStep
  <1>7. CASE Inconclusive \/ RetryWork
    <2>1. \E v \in {0, lcl} :
              catchup' = [catchup EXCEPT !.step = "VERIFY", !.verified = v]
      <3>1. CASE RetryWork
        BY <3>1 DEF RetryWork
      <3>2. CASE Inconclusive
        <4>1. PICK v \in {0, lcl} : catchup' = [catchup EXCEPT !.verified = v]
          BY <3>2 DEF Inconclusive
        <4>2. catchup.step = "VERIFY"
          BY <3>2 DEF Inconclusive, VerifyLedgerChain
        <4>3. [catchup EXCEPT !.verified = v]
                = [catchup EXCEPT !.step = "VERIFY", !.verified = v]
          BY <1>4, <4>2 DEF CatchupRecord
        <4> QED
          BY <4>1, <4>3
      <3> QED
        BY <1>7, <3>1, <3>2
    <2>2. /\ catchup' \in CatchupRecord \ {NoCatchup} /\ catchup'.init = catchup.init
          /\ catchup'.step = "VERIFY" /\ catchup'.mode = catchup.mode
          /\ catchup'.work = catchup.work
      <3>1. PICK v \in {0, lcl} :
                catchup' = [catchup EXCEPT !.step = "VERIFY", !.verified = v]
        BY <2>1
      <3>2. v \in Nat
        BY <1>0
      <3> QED
        BY <1>4, <3>1, <3>2 DEF CatchupRecord, NoCatchup
    <2>3. mixed' = mixed
      BY <1>7 DEF Inconclusive, RetryWork
    <2>4. Works' /\ FarAhead'
      BY <1>1, <1>2, <1>5, <2>2, <2>3 DEF IInv, Works, FarAhead
    <2> QED
      BY <1>0, <1>1, <2>2, <2>3, <2>4, WorkStep
  <1>8. CASE ApplyBuckets
    <2>1. /\ catchup' = [catchup EXCEPT !.step = "APPLYING"] /\ catchup.work = "MINIMAL"
          /\ mixed' = first /\ first >= lcl /\ catchup.step = "APPLY"
      BY <1>3, <1>8 DEF ApplyBuckets
    <2>2. /\ catchup' \in CatchupRecord \ {NoCatchup} /\ catchup'.init = catchup.init
          /\ catchup'.step = "APPLYING" /\ catchup'.mode = catchup.mode
          /\ catchup'.work = catchup.work
      BY <1>4, <2>1 DEF CatchupRecord, NoCatchup
    <2>3. Works'
      BY <1>1, <1>2, <1>5, <2>1, <2>2 DEF IInv, Works
    <2>4. first > lcl => Seen - lcl > config.recent
      BY <1>0, <1>3, <2>1 DEF IInv, Works
    <2>5. FarAhead'
      BY <1>0, <1>1, <1>2, <2>1, <2>2, <2>4 DEF IInv, Works, FarAhead
    <2> QED
      BY <1>0, <1>1, <1>3, <2>1, <2>2, <2>3, <2>5, WorkStep
  <1>9. CASE RetryRecent
    <2>1. /\ catchup' = MinimalWork("RECENT", catchup.init)
          /\ catchup.mode = "RECENT" /\ mixed' = mixed
      BY <1>9 DEF RetryRecent
    <2>2. /\ catchup' \in CatchupRecord \ {NoCatchup} /\ catchup'.init = catchup.init
          /\ catchup'.step = "VERIFY" /\ catchup'.mode = "RECENT"
          /\ catchup'.work = "MINIMAL"
      BY <1>0, <2>1 DEF CatchupRecord, NoCatchup, MinimalWork
    <2>3. catchup.work \in {"MINIMAL", "COMPLETE"}
      BY <1>4 DEF CatchupRecord
    <2>4. Works' /\ FarAhead'
      BY <1>1, <1>2, <1>5, <2>1, <2>2, <2>3 DEF IInv, Works, FarAhead
    <2> QED
      BY <1>0, <1>1, <2>1, <2>2, <2>4, WorkStep
  <1> QED
    BY <1>6, <1>7, <1>8, <1>9

LEMMA Failing ==
    ASSUME IInv, CatchupFails
    PROVE  GoodStep
  <1>0. /\ trigger = 0 /\ nominating = 0 /\ Seen \in Nat
    BY Catching DEF CatchupFails
  <1>1. /\ state' = "BOOTING" /\ syncing' = {} /\ catchup' = NoCatchup
        /\ lcl' = lcl /\ mixed' = mixed /\ ~closing
    BY DEF CatchupFails, CaughtUpError, Idle
  <1>2. UNCHANGED <<net, config, tracking, lastTracking, trigger, nominating,
                    ready, closing, stopped>>
    BY DEF CatchupFails, UnchangedHerder
  <1>3. TypeOK'
    <2>1. NoCatchup \in CatchupRecord
      BY Zenon DEF CatchupRecord
    <2> QED
      BY <1>1, <1>2, <2>1 DEF IInv, TypeOK
  <1>4. BufferMatchesCatchup'
    BY <1>1 DEF BufferMatchesCatchup
  <1>5. Seen' = Seen
    BY <1>2 DEF Seen
  <1>6. Tracks'
    BY <1>0, <1>1, <1>2, <1>5 DEF IInv, Tracks
  <1>7. Works' /\ FarAhead'
    BY <1>1, <1>2, <1>5 DEF IInv, Works, FarAhead, NoCatchup
  <1> QED
    BY <1>0, <1>1, <1>3, <1>4, <1>5, <1>6, <1>7 DEF IInv, GoodStep

(* Ledger l, next to the buffer or in it, is deposited.                    *)
LEMMA Ending ==
    ASSUME IInv, Idle, catchup.step # "NONE", UnchangedHerder,
           NEW l \in Nat \ {0}, l >= catchup.init - 1, l <= Seen, CaughtUp(l),
           mixed' = 0 \/ (mixed' = mixed /\ mixed <= lcl /\ lcl <= l)
    PROVE  GoodStep
  <1>0. /\ state = "CATCHING_UP" /\ trigger = 0 /\ nominating = 0
        /\ catchup.init \in Nat /\ lcl \in Nat /\ Seen \in Nat /\ mixed \in Nat
    BY Catching
  <1>1. PICK m \in Nat : /\ syncing = catchup.init..m /\ catchup.init <= m /\ m <= Seen
    BY Catching
  <1>2. Replayed(l) = (IF l >= m THEN l ELSE m) /\ ~Overshoots(l)
    BY <1>0, <1>1, ReplayAll
  <1>3. /\ lcl' = (IF l >= m THEN l ELSE m) /\ syncing' = {}
        /\ state' = "SYNCED" /\ catchup' = NoCatchup
    BY <1>2 DEF CaughtUp
  <1>4. Max(syncing) = m
    BY <1>0, <1>1, LargestBuffered
  <1>5. UNCHANGED <<net, config, tracking, lastTracking, trigger, nominating,
                    ready, closing, stopped>> /\ ~closing
    BY DEF UnchangedHerder, Idle
  <1>6. /\ lcl' \in Nat \ {0} /\ lcl' >= l /\ lcl' >= m /\ lcl' <= Seen
        /\ mixed' \in Nat /\ ~(mixed' > lcl')
    BY <1>0, <1>1, <1>3
  <1>7. TypeOK'
    <2>1. NoCatchup \in CatchupRecord
      BY Zenon DEF CatchupRecord
    <2> QED
      BY <1>3, <1>5, <1>6, <2>1 DEF IInv, TypeOK
  <1>8. BufferMatchesCatchup'
    BY <1>3 DEF BufferMatchesCatchup
  <1>9. Seen' = Seen
    BY <1>5 DEF Seen
  <1>10. Tracks'
    BY <1>0, <1>3, <1>5, <1>6, <1>9 DEF IInv, Tracks
  <1>11. Works'
    BY <1>3 DEF Works, NoCatchup
  <1>12. FarAhead'
    BY <1>5, <1>6 DEF IInv, FarAhead
  <1>13. mixed > lcl => mixed' = 0
    BY <1>0
  <1> QED
    BY <1>0, <1>3, <1>4, <1>6, <1>7, <1>8, <1>9, <1>10, <1>11, <1>12, <1>13
       DEF IInv, GoodStep

(* A ledger of the work is deposited or replayed, and the work goes on.    *)
LEMMA Advancing ==
    ASSUME IInv, Idle, catchup.step # "NONE", UnchangedHerder,
           UNCHANGED <<state, syncing>>,
           lcl' \in Nat \ {0}, lcl' <= Seen,
           catchup' \in CatchupRecord \ {NoCatchup}, catchup'.init = catchup.init,
           mixed' = 0 \/ (mixed' = mixed /\ mixed <= lcl /\ lcl <= lcl'),
           Works'
    PROVE  GoodStep
  <1>0. /\ state = "CATCHING_UP" /\ trigger = 0 /\ nominating = 0
        /\ lcl \in Nat /\ Seen \in Nat /\ mixed \in Nat
    BY Catching
  <1>1. UNCHANGED <<net, config, tracking, lastTracking, trigger, nominating,
                    ready, closing, stopped>> /\ ~closing
    BY DEF UnchangedHerder, Idle
  <1>2. mixed' \in Nat /\ ~(mixed' > lcl') /\ (mixed > lcl => mixed' = 0)
    BY <1>0
  <1>3. TypeOK'
    BY <1>1, <1>2 DEF IInv, TypeOK
  <1>4. BufferMatchesCatchup' /\ syncing' # {}
    BY <1>0 DEF IInv, BufferMatchesCatchup
  <1>5. Seen' = Seen
    BY <1>1 DEF Seen
  <1>6. Tracks'
    BY <1>0, <1>1, <1>5 DEF IInv, Tracks
  <1>7. FarAhead'
    BY <1>1, <1>2 DEF IInv, FarAhead
  <1> QED
    BY <1>0, <1>2, <1>3, <1>4, <1>5, <1>6, <1>7 DEF IInv, GoodStep

LEMMA Applying ==
    ASSUME IInv, ApplyBucketsDone \/ ApplyLedger \/ ApplyLedgersDone
    PROVE  GoodStep
  <1>0. /\ Idle /\ catchup.step \in {"APPLY", "APPLYING"} /\ UnchangedHerder
    BY DEF ApplyBucketsDone, ApplyLedger, ApplyLedgersDone
  <1>1. /\ catchup # NoCatchup /\ lcl \in Nat \ {0} /\ Seen \in Nat
        /\ mixed \in Nat /\ catchup.init \in Nat
    BY <1>0, Catching
  <1>2. /\ TypeOK /\ first \in Nat /\ last \in Nat /\ first <= last
        /\ last >= catchup.init - 1 /\ (config.recent = 0 => first = last)
        /\ catchup.work = "MINIMAL" => firstCheckpointSeq(catchup) = first
    BY Rounded DEF IInv
  <1>3. last <= Seen /\ lcl <= Seen
    BY <1>0 DEF IInv, Works, Tracks
  <1>4. CASE ApplyBucketsDone
    <2>1. /\ catchup.step = "APPLYING" /\ mixed' = 0
          /\ IF catchup.mode = "MINIMAL" THEN CaughtUp(firstCheckpointSeq(catchup))
             ELSE /\ lcl' = firstCheckpointSeq(catchup)
                  /\ catchup' = CompleteWork("RECENT", catchup.init,
                                             firstCheckpointSeq(catchup))
                  /\ UNCHANGED <<state, syncing>>
      BY <1>4 DEF ApplyBucketsDone
    <2>2. catchup.work = "MINIMAL" /\ catchup.mode \in {"MINIMAL", "RECENT"}
      BY <1>2, <2>1 DEF TypeOK, CatchupRecord, NoCatchup
    <2>3. firstCheckpointSeq(catchup) = first /\ first \in Nat \ {0}
      BY <1>1, <1>2, <2>1, <2>2 DEF IInv, Works
    <2>4. CASE catchup.mode = "MINIMAL"
      <3>1. first = last
        BY <1>2, <2>4 DEF IInv, Works
      <3> QED
        BY <1>0, <1>2, <1>3, <2>1, <2>3, <2>4, <3>1, Ending
    <2>5. CASE catchup.mode = "RECENT"
      <3>1. /\ lcl' = first /\ UNCHANGED <<state, syncing>>
            /\ catchup' = CompleteWork("RECENT", catchup.init, first)
        BY <2>1, <2>3, <2>5
      <3>2. /\ catchup' \in CatchupRecord \ {NoCatchup} /\ catchup'.init = catchup.init
            /\ catchup'.work = "COMPLETE" /\ catchup'.mode = "RECENT"
            /\ catchup'.step = "VERIFY"
        BY <1>1, <2>3, <3>1 DEF CompleteWork, CatchupRecord, NoCatchup
      <3>3. config' = config /\ first' = first
        BY <1>0, <3>2 DEF UnchangedHerder, first, minimalFirstCheckpointSeq
      <3>4. ~config.complete
        BY <2>2 DEF IInv, Works
      <3>5. Works'
        BY <2>3, <3>1, <3>2, <3>3, <3>4 DEF Works
      <3>6. lcl' \in Nat \ {0} /\ lcl' <= Seen
        BY <1>1, <1>2, <1>3, <2>3, <3>1
      <3> QED
        BY <1>0, <2>1, <3>1, <3>2, <3>5, <3>6, Advancing
    <2> QED
      BY <2>2, <2>4, <2>5
  <1>5. CASE ApplyLedger
    <2>1. /\ catchup.work = "COMPLETE" /\ lcl < last /\ lcl' = lcl + 1
          /\ catchup.step = "APPLY"
          /\ UNCHANGED <<state, syncing, catchup, mixed>>
      BY <1>5 DEF ApplyLedger, last
    <2>2. mixed <= lcl
      BY <1>1, <2>1 DEF IInv, FarAhead
    <2>3. catchup' \in CatchupRecord \ {NoCatchup} /\ catchup'.init = catchup.init
      BY <1>1, <1>2, <2>1 DEF TypeOK
    <2>4. /\ config' = config /\ first' = first /\ last' = last /\ Seen' = Seen
      BY <1>0, <2>1 DEF UnchangedHerder, first, last, Seen, minimalFirstCheckpointSeq,
                        lastCheckpointSeq
    <2>5. Works'
      BY <1>1, <1>2, <2>1, <2>4 DEF IInv, Works
    <2>6. lcl' \in Nat \ {0} /\ lcl' <= Seen /\ lcl <= lcl'
      BY <1>1, <1>2, <1>3, <2>1
    <2> QED
      BY <1>0, <2>1, <2>2, <2>3, <2>5, <2>6, Advancing
  <1>6. CASE ApplyLedgersDone
    <2>1. /\ catchup.work = "COMPLETE" /\ lcl >= last /\ CaughtUp(lcl) /\ mixed' = mixed
      BY <1>6 DEF ApplyLedgersDone, last
    <2>2. mixed <= lcl
      BY <1>1, <2>1 DEF IInv, FarAhead
    <2>3. lcl >= catchup.init - 1 /\ lcl <= lcl
      BY <1>1, <1>2, <2>1
    <2> QED
      BY <1>0, <1>1, <1>3, <2>1, <2>2, <2>3, Ending
  <1> QED
    BY <1>4, <1>5, <1>6

LEMMA Stuttering ==
    ASSUME IInv, UNCHANGED vars
    PROVE  GoodStep
  <1>1. /\ UNCHANGED <<config, state, lcl, syncing, catchup, mixed>>
        /\ UNCHANGED <<net, tracking, lastTracking, trigger, nominating, ready,
                       closing, stopped>>
    BY Zenon DEF vars
  <1>2. Seen' = Seen
    BY <1>1 DEF Seen
  <1>3. Tracks'
    BY <1>1, <1>2 DEF IInv, Tracks
  <1> QED
    BY <1>1, <1>2, <1>3, HerderStep DEF IInv, TypeOK

LEMMA EveryStep == IInv /\ [Next]_vars => GoodStep
  <1> SUFFICES ASSUME IInv, [Next]_vars PROVE GoodStep
    OBVIOUS
  <1>1. CASE UNCHANGED vars
    BY <1>1, Stuttering
  <1>2. CASE \E s \in 1..net : Hears(s)
    BY <1>2, Hearing
  <1>3. CASE ExternalizeNext
    BY <1>3, Continuing
  <1>4. CASE herderOutOfSync
    BY <1>4, LosingTrack
  <1>5. CASE NetworkCloses \/ ledgerClosed \/ triggerNextLedger \/ ApplyBucketsThrows
    BY <1>5, OtherHerderSteps
  <1>6. CASE Verified \/ Inconclusive \/ ApplyBuckets \/ RetryWork \/ RetryRecent
    BY <1>6, WorksStep
  <1>7. CASE ApplyBucketsDone \/ ApplyLedger \/ ApplyLedgersDone
    BY <1>7, Applying
  <1>8. CASE CatchupFails
    BY <1>8, Failing
  <1> QED
    BY <1>1, <1>2, <1>3, <1>4, <1>5, <1>6, <1>7, <1>8, Zenon DEF Next

-----------------------------------------------------------------------------
LEMMA InvariantHolds == Spec => []IInv
  <1>1. IInv /\ [Next]_vars => IInv'
    BY EveryStep DEF GoodStep
  <1> QED
    BY Initially, <1>1, PTL DEF Spec

(* A catchup work runs exactly while the ledger manager is catching up,    *)
(* and the buffer is then a gapless run that begins at the ledger it was   *)
(* started for, and empty otherwise (the assert of externalizeValue).      *)
THEOREM BufferMatches == Spec => []BufferMatchesCatchup
  <1>1. IInv => BufferMatchesCatchup
    BY DEF IInv
  <1> QED
    BY InvariantHolds, <1>1, PTL

(* History never takes the node past what consensus has reached.           *)
THEOREM BehindConsensus == Spec => []LedgerBehindConsensus
  <1>1. ASSUME IInv PROVE LedgerBehindConsensus
    <2>1. /\ tracking \in Nat /\ lastTracking \in Nat /\ lcl \in Nat
          /\ lcl <= tracking \/ lcl <= lastTracking
      BY <1>1 DEF IInv, TypeOK, Tracks, Seen
    <2> QED
      BY <2>1, LargestOfTwo DEF LedgerBehindConsensus
  <1> QED
    BY InvariantHolds, <1>1, PTL

(* The trigger and the nomination are only ever for the ledger after the   *)
(* last one closed and the last one seen externalize.                      *)
THEOREM PositionCurrent == Spec => []PositionIsCurrent
  <1>1. ASSUME IInv PROVE PositionIsCurrent
    BY <1>1, CurrentIsSeen DEF IInv, Tracks, PositionIsCurrent
  <1> QED
    BY InvariantHolds, <1>1, PTL

(* A catchup that ends well has closed all that was buffered: the          *)
(* overshoot branch of historyCaughtup is never taken.                     *)
THEOREM ReachesBuffer == Spec => CatchupReachesBuffer
  <1>1. IInv /\ [Next]_vars =>
            [ /\ state = "CATCHING_UP"
              /\ syncing' = {}
              => \/ state' = "BOOTING"
                 \/ state' = "SYNCED" /\ lcl' >= Max(syncing)]_vars
    BY EveryStep DEF GoodStep
  <1> QED
    BY InvariantHolds, <1>1, PTL DEF Spec, CatchupReachesBuffer

(* A half-written newer state is never closed upon.                        *)
THEOREM HalfApplied == Spec => HalfAppliedUnused
  <1>1. IInv /\ [Next]_vars =>
            [mixed > lcl /\ mixed' # 0 => lcl' = lcl /\ state' # "SYNCED"]_vars
    BY EveryStep DEF GoodStep
  <1> QED
    BY InvariantHolds, <1>1, PTL DEF Spec, HalfAppliedUnused

(* The ledger the herder takes as current never goes back.                 *)
THEOREM CurrentGrows == Spec => CurrentNeverDecreases
  <1>1. ASSUME IInv, [Next]_vars
        PROVE  getCurrentLedgerSeq' >= getCurrentLedgerSeq
    <2>1. IInv' /\ Seen' >= Seen
      BY <1>1, EveryStep DEF GoodStep
    <2>2. getCurrentLedgerSeq = Seen
      BY <1>1, CurrentIsSeen
    <2>3. /\ lcl' \in Nat /\ tracking' \in Nat /\ lastTracking' \in Nat
          /\ Seen' \in {lcl', tracking', lastTracking'}
          /\ Seen' >= lcl' /\ Seen' >= tracking' /\ Seen' >= lastTracking'
      BY <2>1 DEF IInv, TypeOK, Tracks, Seen
    <2>4. getCurrentLedgerSeq' = Seen'
      BY <2>3, LargestOfThree DEF getCurrentLedgerSeq
    <2> QED
      BY <2>1, <2>2, <2>4
  <1>2. IInv /\ [Next]_vars => [getCurrentLedgerSeq' >= getCurrentLedgerSeq]_vars
    BY <1>1
  <1> QED
    BY InvariantHolds, <1>2, PTL DEF Spec, CurrentNeverDecreases

=============================================================================
