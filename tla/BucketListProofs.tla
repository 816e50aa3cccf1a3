-------------------------- MODULE BucketListProofs --------------------------
(***************************************************************************)
(* Proofs about BucketList, for any keys, any number of levels, any number *)
(* of ledgers, changes and restarts:                                       *)
(*   - the files that the committed state names are there;                 *)
(*   - nodes that closed the same ledgers have the same buckets;           *)
(*   - dead entries do not stay at the last level;                         *)
(*   - the buckets hold the entries of the ledger.                         *)
(***************************************************************************)
EXTENDS BucketList, FiniteSetTheorems, WellFoundedInduction, TLAPS

-----------------------------------------------------------------------------
(* The shape of levels and merges, in memory and stored.                   *)

IsLevel(r) == r = [curr |-> r.curr, snap |-> r.snap, next |-> r.next]

IsNext(n) ==
    \/ n = NoNext
    \/ n = [state |-> "LIVE_OUTPUT", output |-> n.output]
    \/ /\ n.state = "LIVE_INPUTS"
       /\ DOMAIN n = {"state", "curr", "snap", "shadows", "keepDeadEntries",
                      "done"}

IsStoredNext(n) ==
    \/ n = NoNext
    \/ n = [state |-> "HASH_OUTPUT", output |-> n.output]
    \/ n = [state |-> "HASH_INPUTS", curr |-> n.curr, snap |-> n.snap,
            shadows |-> n.shadows]

IsList(L) ==
    /\ DOMAIN L = Level
    /\ \A i \in Level : IsLevel(L[i]) /\ IsNext(L[i].next)

IsStoredList(L) ==
    /\ DOMAIN L = Level
    /\ \A i \in Level : IsLevel(L[i]) /\ IsStoredNext(L[i].next)

Shape ==
    /\ IsList(levels)
    /\ IsList(peer)
    /\ IsStoredList(stored.levels)
    /\ IsList(stored.peer)

-----------------------------------------------------------------------------
(* The files.                                                              *)

IsDone(n) == n.state = "LIVE_INPUTS" /\ n.done

(* A level in memory, or as stored, needs the bucket b.                    *)
NamedBy(b, r) == b \in {r.curr, r.snap} \cup getHashes(r.next)
UsedBy(b, r) == NamedBy(b, r) \/ (IsDone(r.next) /\ b = resolve(r.next))

(* What is in use is shared and has a file.  Between Commit and            *)
(* forgetUnreferencedBuckets what was stored is in use, so that its files  *)
(* are not dropped; after that it is retained.                             *)
FilesKept ==
    /\ shared \subseteq files
    /\ \A i \in Level : \A b : UsedBy(b, levels[i]) => b = EmptyBucket \/ b \in shared
    /\ \A i \in Level : \A b : NamedBy(b, stored.levels[i]) =>
            b = EmptyBucket \/ b \in files
    /\ phase = "forget" =>
            \A i \in Level : \A b :
                NamedBy(b, stored.levels[i]) => UsedBy(b, levels[i])
    /\ phase = "idle" /\ collected =>
            \A i \in Level : \A b :
                NamedBy(b, stored.levels[i]) => b = EmptyBucket \/ b \in AfterStop

-----------------------------------------------------------------------------
(* The same list as a peer, and no dead entries at the last level.         *)

SameNext(n, m) ==
    /\ isLive(n) <=> isLive(m)
    /\ isLive(n) => resolve(n) = resolve(m)

SameLevel(r, q) ==
    r.curr = q.curr /\ r.snap = q.snap /\ SameNext(r.next, q.next)

Same(L, P) == \A i \in Level : SameLevel(L[i], P[i])

(* The flag that prepare gives to a merge into level i.                    *)
Flagged(L) ==
    \A i \in Level : L[i].next.state = "LIVE_INPUTS" =>
        L[i].next.keepDeadEntries = (i < Last)

(* What assumeState makes of a stored list if no flag is read wrong.       *)
Revived(L) ==
    [i \in Level |-> [L[i] EXCEPT !.next = madeLive(@, i < Last)]]

PeersAgree ==
    /\ ~undefined => Same(levels, peer) /\ Flagged(levels)
    /\ ~stored.undefined => Same(Revived(stored.levels), stored.peer)

NoDead(b) == \A k \in DOMAIN b : b[k] # DEAD

BottomClean(r) ==
    /\ NoDead(r.curr)
    /\ r.snap = EmptyBucket
    /\ r.next.state \in {"LIVE_OUTPUT", "HASH_OUTPUT"} => NoDead(r.next.output)

Clean ==
    /\ ~undefined => BottomClean(levels[Last])
    /\ ~stored.undefined => BottomClean(stored.levels[Last])

IInv == Shape /\ FilesKept /\ PeersAgree /\ Clean

-----------------------------------------------------------------------------
(* What the operations on one level do to it.                              *)

LEMMA LevelFacts == Last \in Level /\ 0 \in Level /\ Last # 0 /\ Level \subseteq Nat
  BY LevelsAssumption DEF Level, Last

LEMMA SpilledLevel ==
    ASSUME NEW L, NEW l, NEW i \in Level, IsLevel(L[i])
    PROVE  /\ IsLevel(spilled(L, l, i))
           /\ spilled(L, l, i).next = L[i].next
           /\ spilled(L, l, i).curr \in {L[i].curr, EmptyBucket}
           /\ spilled(L, l, i).snap \in {L[i].curr, L[i].snap}
           /\ ~levelShouldSpill(l, i) => spilled(L, l, i) = L[i]
  BY Zenon DEF spilled, IsLevel

LEMMA CommittedLevel ==
    ASSUME NEW b, IsLevel(b)
    PROVE  /\ IsLevel(commit(b))
           /\ commit(b).snap = b.snap
           /\ isLive(b.next) => /\ commit(b).curr = resolve(b.next)
                                /\ commit(b).next = NoNext
           /\ ~isLive(b.next) => commit(b) = b
  BY Zenon DEF commit, IsLevel

LEMMA PreparedLevel ==
    ASSUME NEW b, NEW l, NEW i, NEW snap, NEW shadows, IsLevel(b)
    PROVE  LET r == prepare(b, l, i, snap, shadows)
           IN  /\ IsLevel(r) /\ r.curr = b.curr /\ r.snap = b.snap
               /\ \E c \in {EmptyBucket, b.curr} :
                    r.next = liveInputs(c, snap, shadows, i < Last)
  BY DEF prepare, IsLevel

LEMMA LiveInputs ==
    ASSUME NEW c, NEW s, NEW h, NEW k
    PROVE  LET n == liveInputs(c, s, h, k)
           IN  /\ IsNext(n) /\ isLive(n) /\ ~IsDone(n)
               /\ n.state = "LIVE_INPUTS" /\ n.keepDeadEntries = k
               /\ getHashes(n) = {c, s} \cup h
               /\ resolve(n) = merge(c, s, h, k)
  BY DEF liveInputs, IsNext, isLive, IsDone, getHashes, resolve

LEMMA NoNextFacts ==
    /\ IsNext(NoNext) /\ IsStoredNext(NoNext) /\ ~isLive(NoNext)
    /\ ~IsDone(NoNext) /\ getHashes(NoNext) = {} /\ NoNext.state = "CLEAR"
  BY DEF NoNext, IsNext, IsStoredNext, isLive, IsDone, getHashes

(* The three forms of newLevel.                                            *)
LEMMA FirstLevel ==
    ASSUME NEW L, NEW l, NEW batch, IsLevel(L[0])
    PROVE  LET r == newLevel(L, l, 0, batch)
           IN  /\ IsLevel(r) /\ r.next = NoNext
               /\ r.snap \in {L[0].curr, L[0].snap}
  <1> DEFINE s == spilled(L, l, 0)
             q == prepare(s, l, 0, batch, {})
  <1>1. IsLevel(s) /\ s.snap \in {L[0].curr, L[0].snap}
    BY SpilledLevel, LevelFacts
  <1>2. IsLevel(q) /\ q.snap = s.snap /\ isLive(q.next)
    <2> HIDE DEF s
    <2> QED
      BY <1>1, PreparedLevel, LiveInputs
  <1>3. newLevel(L, l, 0, batch) = commit(q)
    BY DEF newLevel
  <1> HIDE DEF s, q
  <1> QED
    BY <1>1, <1>2, <1>3, CommittedLevel

(* What level i becomes when level i - 1 spills into it.                   *)
MergedInto(L, l, i, r) ==
    /\ IsLevel(r)
    /\ r.snap = spilled(L, l, i).snap
    /\ r.curr = IF isLive(L[i].next) THEN resolve(L[i].next)
                ELSE spilled(L, l, i).curr
    /\ r.next = liveInputs(IF levelShouldSpill(l + levelHalf(i - 1), i)
                           THEN EmptyBucket ELSE r.curr,
                           L[i - 1].curr, shadowsOf(L, i), i < Last)

LEMMA SpilledInto ==
    ASSUME NEW L, NEW l, NEW batch, NEW i \in Level, i # 0, IsLevel(L[i]),
           levelShouldSpill(l, i - 1)
    PROVE  MergedInto(L, l, i, newLevel(L, l, i, batch))
  <1> DEFINE s == spilled(L, l, i)
             q == commit(s)
             c == IF levelShouldSpill(l + levelHalf(i - 1), i)
                  THEN EmptyBucket ELSE q.curr
             r == prepare(q, l, i, L[i - 1].curr, shadowsOf(L, i))
  <1>1. IsLevel(s) /\ s.next = L[i].next
    BY SpilledLevel, Zenon
  <1>2. /\ IsLevel(q) /\ q.snap = s.snap
        /\ q.curr = IF isLive(L[i].next) THEN resolve(L[i].next) ELSE s.curr
    <2> HIDE DEF s
    <2> QED
      BY <1>1, CommittedLevel
  <1>3. newLevel(L, l, i, batch) = r
    BY DEF newLevel
  <1>4. i > 0
    BY LevelFacts
  <1>5. r = [q EXCEPT !.next = liveInputs(c, L[i - 1].curr, shadowsOf(L, i), i < Last)]
    BY <1>4, Zenon DEF prepare
  <1> HIDE DEF s, q, r
  <1>6. /\ IsLevel(r) /\ r.curr = q.curr /\ r.snap = q.snap
        /\ r.next = liveInputs(c, L[i - 1].curr, shadowsOf(L, i), i < Last)
    <2> HIDE DEF c
    <2> QED
      BY <1>2, <1>5, Zenon DEF IsLevel
  <1>7. r.snap = spilled(L, l, i).snap
        /\ r.curr = IF isLive(L[i].next) THEN resolve(L[i].next)
                    ELSE spilled(L, l, i).curr
    BY <1>2, <1>6, Zenon DEF s
  <1> QED
    BY <1>3, <1>6, <1>7, Zenon DEF MergedInto

(* The inputs of the merge that it starts.                                 *)
LEMMA MergedInputs ==
    ASSUME NEW L, NEW l, NEW i, NEW r, MergedInto(L, l, i, r)
    PROVE  /\ IsNext(r.next) /\ isLive(r.next) /\ ~IsDone(r.next)
           /\ r.next.state = "LIVE_INPUTS" /\ r.next.keepDeadEntries = (i < Last)
           /\ \E c \in {EmptyBucket, r.curr} :
                getHashes(r.next) = {c, L[i - 1].curr} \cup shadowsOf(L, i)
  <1> DEFINE c == IF levelShouldSpill(l + levelHalf(i - 1), i)
                  THEN EmptyBucket ELSE r.curr
  <1>1. r.next = liveInputs(c, L[i - 1].curr, shadowsOf(L, i), i < Last)
    BY Zenon DEF MergedInto
  <1>2. c \in {EmptyBucket, r.curr}
    BY Zenon
  <1> HIDE DEF c
  <1> DEFINE n == liveInputs(c, L[i - 1].curr, shadowsOf(L, i), i < Last)
  <1>3. /\ IsNext(n) /\ isLive(n) /\ ~IsDone(n)
        /\ n.state = "LIVE_INPUTS" /\ n.keepDeadEntries = (i < Last)
        /\ getHashes(n) = {c, L[i - 1].curr} \cup shadowsOf(L, i)
    BY LiveInputs
  <1>4. r.next = n
    BY <1>1, Zenon
  <1> HIDE DEF n
  <1> QED
    BY <1>2, <1>3, <1>4, Zenon

LEMMA NotSpilledInto ==
    ASSUME NEW L, NEW l, NEW batch, NEW i \in Level, i # 0,
           ~levelShouldSpill(l, i - 1)
    PROVE  newLevel(L, l, i, batch) = spilled(L, l, i)
  BY DEF newLevel

-----------------------------------------------------------------------------
(* addBatch keeps the shape, and uses only buckets that were used before,  *)
(* the outputs of the merges that it takes and the new curr of level 0.    *)

LEMMA AddBatchShape ==
    ASSUME NEW L, NEW l, NEW batch, IsList(L)
    PROVE  IsList(addBatch(L, l, batch))
  <1>1. DOMAIN addBatch(L, l, batch) = Level
    BY DEF addBatch
  <1>2. ASSUME NEW i \in Level
        PROVE  /\ IsLevel(newLevel(L, l, i, batch))
               /\ IsNext(newLevel(L, l, i, batch).next)
    <2>1. IsLevel(L[i]) /\ IsNext(L[i].next)
      BY DEF IsList
    <2>2. CASE i = 0
      BY <2>1, <2>2, FirstLevel, NoNextFacts
    <2>3. CASE i # 0 /\ levelShouldSpill(l, i - 1)
      <3>1. MergedInto(L, l, i, newLevel(L, l, i, batch))
        BY <2>1, <2>3, SpilledInto, Zenon
      <3> QED
        BY <3>1, MergedInputs DEF MergedInto
    <2>4. CASE i # 0 /\ ~levelShouldSpill(l, i - 1)
      BY <2>1, <2>4, NotSpilledInto, SpilledLevel
    <2> QED
      BY <2>2, <2>3, <2>4
  <1> QED
    BY <1>1, <1>2 DEF IsList, addBatch

LEMMA AddBatchUses ==
    ASSUME NEW L, NEW l, NEW batch, IsList(L), NEW i \in Level, NEW b,
           UsedBy(b, newLevel(L, l, i, batch))
    PROVE  \/ b = EmptyBucket
           \/ \E j \in Level : UsedBy(b, L[j])
           \/ b \in outputs(L, l)
           \/ b = newLevel(L, l, 0, batch).curr
  <1>1. \A j \in Level : IsLevel(L[j]) /\ IsNext(L[j].next)
    BY DEF IsList
  <1>2. CASE i = 0
    <2>1. b \in {newLevel(L, l, 0, batch).curr, L[0].curr, L[0].snap}
      BY <1>1, <1>2, FirstLevel, NoNextFacts, LevelFacts DEF UsedBy, NamedBy
    <2> QED
      BY <2>1, LevelFacts DEF UsedBy, NamedBy
  <1>3. CASE i # 0 /\ levelShouldSpill(l, i - 1)
    <2> DEFINE r == newLevel(L, l, i, batch)
    <2>1. i - 1 \in Level
      BY <1>3, LevelsAssumption DEF Level
    <2>2. MergedInto(L, l, i, r)
      BY <1>1, <1>3, SpilledInto, Zenon
    <2>3. ~IsDone(r.next) /\ \E c \in {EmptyBucket, r.curr} :
            getHashes(r.next) = {c, L[i - 1].curr} \cup shadowsOf(L, i)
      <3> HIDE DEF r
      <3> QED
        BY <2>2, MergedInputs
    <2>4. r.snap \in {L[i].curr, L[i].snap}
      <3> HIDE DEF r
      <3> QED
        BY <1>1, <2>2, SpilledLevel, Zenon DEF MergedInto
    <2>5. CASE b = r.curr
      <3>1. CASE isLive(L[i].next)
        <4>1. b = resolve(L[i].next)
          BY <2>2, <2>5, <3>1, Zenon DEF MergedInto
        <4> QED
          BY <1>3, <3>1, <4>1 DEF outputs, takes
      <3>2. CASE ~isLive(L[i].next)
        <4>1. b \in {L[i].curr, EmptyBucket}
          BY <1>1, <2>2, <2>5, <3>2, SpilledLevel, Zenon DEF MergedInto
        <4> QED
          BY <4>1 DEF UsedBy, NamedBy
      <3> QED
        BY <3>1, <3>2
    <2>6. CASE b \in shadowsOf(L, i)
      <3>1. PICK j \in Level : b \in {L[j].curr, L[j].snap}
        BY <2>6 DEF shadowsOf
      <3> QED
        BY <3>1 DEF UsedBy, NamedBy
    <2>7. CASE b \in {L[i - 1].curr, L[i].curr, L[i].snap}
      BY <2>1, <2>7 DEF UsedBy, NamedBy
    <2>8. \/ b \in {r.curr, EmptyBucket, L[i - 1].curr, L[i].curr, L[i].snap}
          \/ b \in shadowsOf(L, i)
      <3> HIDE DEF r
      <3>1. UsedBy(b, r)
        BY DEF r
      <3> QED
        BY <2>2, <2>3, <2>4, <3>1 DEF UsedBy, NamedBy
    <2> QED
      BY <2>5, <2>6, <2>7, <2>8
  <1>4. CASE i # 0 /\ ~levelShouldSpill(l, i - 1)
    BY <1>1, <1>4, NotSpilledInto, SpilledLevel DEF UsedBy, NamedBy
  <1> QED
    BY <1>2, <1>3, <1>4

(* The buckets of inUse and referenced, level by level.                    *)
LEMMA ReferencedLevels ==
    ASSUME NEW b, NEW L
    PROVE  b \in referenced(L)
            <=> b # EmptyBucket /\ \E i \in Level : NamedBy(b, L[i])
  <1> DEFINE N(i) == {L[i].curr, L[i].snap} \cup getHashes(L[i].next)
             U == UNION {N(i) : i \in Level}
  <1>1. referenced(L) = U \ {EmptyBucket}
    BY DEF referenced
  <1>2. \A i \in Level : NamedBy(b, L[i]) <=> b \in N(i)
    BY DEF NamedBy
  <1>3. b \in U <=> \E i \in Level : b \in N(i)
    <2> HIDE DEF N
    <2> QED
      BY Zenon
  <1> HIDE DEF N, U
  <1>4. b \in referenced(L) <=> b \in U /\ b # EmptyBucket
    BY <1>1
  <1> QED
    BY <1>2, <1>3, <1>4

LEMMA InUseLevels ==
    ASSUME NEW b, b # EmptyBucket
    PROVE  b \in inUse <=> \E i \in Level : UsedBy(b, levels[i])
  <1>1. b \in inUse <=>
            \/ b \in referenced(levels)
            \/ \E i \in Level : IsDone(levels[i].next) /\ b = resolve(levels[i].next)
    BY DEF inUse, IsDone
  <1> QED
    BY <1>1, ReferencedLevels DEF UsedBy

-----------------------------------------------------------------------------
(* The steps keep the shape.                                               *)

LEMMA DoneMerge ==
    ASSUME Shape, NEW i \in Level, MergeDone(i)
    PROVE  /\ IsList(levels')
           /\ \A j \in Level \ {i} : levels'[j] = levels[j]
           /\ levels'[i].curr = levels[i].curr
           /\ levels'[i].snap = levels[i].snap
           /\ levels[i].next.state = "LIVE_INPUTS"
           /\ levels'[i].next = [levels[i].next EXCEPT !.done = TRUE]
           /\ levels'[i].next.state = "LIVE_INPUTS"
           /\ levels'[i].next.keepDeadEntries = levels[i].next.keepDeadEntries
           /\ resolve(levels'[i].next) = resolve(levels[i].next)
           /\ getHashes(levels'[i].next) = getHashes(levels[i].next)
  <1> DEFINE n == levels[i].next
             m == [n EXCEPT !.done = TRUE]
  <1>1. /\ IsLevel(levels[i]) /\ IsNext(n) /\ n.state = "LIVE_INPUTS"
        /\ DOMAIN levels = Level
    BY DEF Shape, IsList, MergeDone
  <1>2. DOMAIN n = {"state", "curr", "snap", "shadows", "keepDeadEntries", "done"}
    BY <1>1 DEF IsNext, NoNext
  <1>3. levels' = [levels EXCEPT ![i] = [levels[i] EXCEPT !.next = m]]
    BY <1>1 DEF MergeDone
  <1>4. levels'[i] = [levels[i] EXCEPT !.next = m] /\ DOMAIN levels' = Level
        /\ \A j \in Level \ {i} : levels'[j] = levels[j]
    BY <1>1, <1>3
  <1>5. /\ IsLevel(levels'[i]) /\ levels'[i].curr = levels[i].curr
        /\ levels'[i].snap = levels[i].snap /\ levels'[i].next = m
    BY <1>1, <1>4, Zenon DEF IsLevel
  <1> HIDE DEF n
  <1>6. /\ m.state = n.state /\ m.curr = n.curr /\ m.snap = n.snap
        /\ m.shadows = n.shadows /\ m.keepDeadEntries = n.keepDeadEntries
        /\ DOMAIN m = DOMAIN n
    BY <1>2
  <1> HIDE DEF m
  <1>7. /\ IsNext(m) /\ m.state = "LIVE_INPUTS" /\ resolve(m) = resolve(n)
        /\ getHashes(m) = getHashes(n)
    BY <1>1, <1>2, <1>6 DEF IsNext, resolve, getHashes
  <1>8. IsList(levels')
    BY <1>4, <1>5, <1>7, Zenon DEF IsList, Shape
  <1> QED
    BY <1>1, <1>4, <1>5, <1>6, <1>7, <1>8, Zenon DEF n, m

(* What is stored of a merge, and what becomes of it after a start.        *)
LEMMA SerializedNext ==
    ASSUME NEW n, IsNext(n)
    PROVE  /\ IsStoredNext(serialized(n))
           /\ IsDone(n) => /\ serialized(n).state = "HASH_OUTPUT"
                           /\ serialized(n).output = resolve(n)
                           /\ getHashes(serialized(n)) = {resolve(n)}
           /\ ~IsDone(n) => getHashes(serialized(n)) = getHashes(n)
  <1>1. CASE n = NoNext
    BY <1>1 DEF IsStoredNext, serialized, IsDone, getHashes, NoNext
  <1>2. CASE n = [state |-> "LIVE_OUTPUT", output |-> n.output]
    <2>1. n.state = "LIVE_OUTPUT"
      BY <1>2
    <2>2. serialized(n) = [state |-> "HASH_OUTPUT", output |-> n.output]
      BY <2>1 DEF serialized
    <2> QED
      BY <2>1, <2>2 DEF IsStoredNext, IsDone, getHashes
  <1>3. CASE n.state = "LIVE_INPUTS" /\ n.done
    <2>1. serialized(n) = [state |-> "HASH_OUTPUT", output |-> resolve(n)]
      BY <1>3 DEF serialized
    <2> QED
      BY <1>3, <2>1 DEF IsStoredNext, IsDone, getHashes
  <1>4. CASE n.state = "LIVE_INPUTS" /\ ~n.done
    <2>1. serialized(n) = [state |-> "HASH_INPUTS", curr |-> n.curr,
                           snap |-> n.snap, shadows |-> n.shadows]
      BY <1>4 DEF serialized
    <2> QED
      BY <1>4, <2>1 DEF IsStoredNext, IsDone, getHashes
  <1> QED
    BY <1>1, <1>2, <1>3, <1>4 DEF IsNext

LEMMA LiveAgain ==
    ASSUME NEW n, NEW k, IsStoredNext(n)
    PROVE  /\ IsNext(madeLive(n, k)) /\ ~IsDone(madeLive(n, k))
           /\ getHashes(madeLive(n, k)) = getHashes(n)
  <1>1. CASE n = NoNext
    BY <1>1 DEF IsNext, madeLive, IsDone, getHashes, NoNext
  <1>2. CASE n = [state |-> "HASH_OUTPUT", output |-> n.output]
    <2>1. n.state = "HASH_OUTPUT"
      BY <1>2
    <2>2. madeLive(n, k) = [state |-> "LIVE_OUTPUT", output |-> n.output]
      BY <2>1 DEF madeLive
    <2> QED
      BY <2>1, <2>2 DEF IsNext, IsDone, getHashes
  <1>3. CASE n.state = "HASH_INPUTS"
    <2>1. madeLive(n, k) = liveInputs(n.curr, n.snap, n.shadows, k)
      BY <1>3 DEF madeLive
    <2>2. getHashes(n) = {n.curr, n.snap} \cup n.shadows
      BY <1>3 DEF getHashes
    <2> QED
      BY <2>1, <2>2, LiveInputs
  <1> QED
    BY <1>1, <1>2, <1>3 DEF IsStoredNext

LEMMA ShapeKept ==
    ASSUME Shape, [Next]_vars
    PROVE  Shape'
  <1>1. ASSUME NEW live \in SUBSET Key, NEW dead \in SUBSET Key, AddBatch(live, dead)
        PROVE  Shape'
    <2>1. PICK batch : /\ levels' = addBatch(levels, ledger + 1, batch)
                       /\ peer' = addBatch(peer, ledger + 1, batch)
      BY <1>1 DEF AddBatch, Added
    <2> QED
      BY <1>1, <2>1, AddBatchShape DEF Shape, AddBatch
  <1>2. ASSUME NEW i \in Level, MergeDone(i)
        PROVE  Shape'
    BY <1>2, DoneMerge, Zenon DEF Shape, MergeDone
  <1>3. CASE Commit
    <2>1. /\ stored'.peer = peer
          /\ stored'.levels = [i \in Level |->
                    [levels[i] EXCEPT !.next = serialized(levels[i].next)]]
      BY <1>3 DEF Commit
    <2>2. ASSUME NEW i \in Level
          PROVE  LET r == [levels[i] EXCEPT !.next = serialized(levels[i].next)]
                 IN  IsLevel(r) /\ IsStoredNext(r.next)
      <3>1. IsLevel(levels[i]) /\ IsStoredNext(serialized(levels[i].next))
        BY SerializedNext DEF Shape, IsList
      <3> QED
        BY <3>1 DEF IsLevel
    <2>3. IsStoredList(stored'.levels)
      BY <2>1, <2>2, Zenon DEF IsStoredList
    <2> QED
      BY <1>3, <2>1, <2>3 DEF Shape, Commit, list
  <1>4. CASE forgetUnreferencedBuckets
    BY <1>4 DEF forgetUnreferencedBuckets, Shape, list
  <1>5. CASE SwitchMode
    BY <1>5 DEF SwitchMode, Shape, list
  <1>6. ASSUME NEW keep \in KeepFlags, Kill(keep) \/ Stop(keep)
        PROVE  Shape'
    <2>1. Start(keep)
      BY <1>6 DEF Kill, Stop
    <2>2. /\ peer' = stored.peer /\ stored' = stored
          /\ levels' = [i \in Level |->
                    [stored.levels[i] EXCEPT !.next = madeLive(@, keep[i])]]
      BY <2>1 DEF Start, assumeState
    <2>3. ASSUME NEW i \in Level
          PROVE  LET r == [stored.levels[i] EXCEPT
                                !.next = madeLive(stored.levels[i].next, keep[i])]
                 IN  IsLevel(r) /\ IsNext(r.next)
      <3>1. /\ IsLevel(stored.levels[i])
            /\ IsNext(madeLive(stored.levels[i].next, keep[i]))
        BY LiveAgain DEF Shape, IsStoredList
      <3> QED
        BY <3>1 DEF IsLevel
    <2>4. IsList(levels')
      BY <2>2, <2>3, ZenonT(30) DEF IsList
    <2> QED
      BY <2>2, <2>4 DEF Shape
  <1>7. CASE UNCHANGED vars
    BY <1>7 DEF vars, Shape
  <1> QED
    BY <1>1, <1>2, <1>3, <1>4, <1>5, <1>6, <1>7 DEF Next

-----------------------------------------------------------------------------
(* The steps keep the files.                                               *)

(* What Stop leaves, bucket by bucket.                                     *)
LEMMA AfterStopBuckets ==
    ASSUME NEW b
    PROVE  b \in AfterStop <=>
            /\ b \in files
            /\ \/ b \in retained
               \/ /\ b \notin shared
                  /\ \A i \in Level : levels[i].next.state = "LIVE_INPUTS" =>
                                        b # resolve(levels[i].next)
  BY DEF AfterStop

LEMMA FilesKeptByAddBatch ==
    ASSUME IInv, NEW live, NEW dead, AddBatch(live, dead)
    PROVE  FilesKept'
  <1>1. PICK batch, v :
            /\ levels' = addBatch(levels, ledger + 1, batch)
            /\ shared' = shared \cup
                    Adopted({liveBucket(live, v), deadBucket(dead),
                             batch, addBatch(levels, ledger + 1, batch)[0].curr}
                            \cup outputs(levels, ledger + 1))
            /\ files' = files \cup (shared' \ shared)
    BY DEF AddBatch, Added
  <1>2. phase' = "commit" /\ stored' = stored
    BY DEF AddBatch
  <1>3. shared' \subseteq files' /\ files \subseteq files' /\ shared \subseteq shared'
    BY <1>1 DEF IInv, FilesKept
  <1>4. ASSUME NEW i \in Level, NEW b, UsedBy(b, levels'[i])
        PROVE  b = EmptyBucket \/ b \in shared'
    <2>1. /\ levels'[i] = newLevel(levels, ledger + 1, i, batch)
          /\ levels'[0] = newLevel(levels, ledger + 1, 0, batch)
      BY <1>1, LevelFacts DEF addBatch
    <2>2. \/ b = EmptyBucket
          \/ \E j \in Level : UsedBy(b, levels[j])
          \/ b \in outputs(levels, ledger + 1)
          \/ b = levels'[0].curr
      BY <1>4, <2>1, AddBatchUses DEF IInv, Shape
    <2>3. \A j \in Level : UsedBy(b, levels[j]) => b = EmptyBucket \/ b \in shared
      BY DEF IInv, FilesKept
    <2> QED
      BY <1>1, <1>3, <2>2, <2>3 DEF Adopted
  <1> QED
    BY <1>2, <1>3, <1>4 DEF FilesKept, IInv

LEMMA FilesKeptByMerge ==
    ASSUME IInv, NEW i \in Level, MergeDone(i)
    PROVE  FilesKept'
  <1> DEFINE out == resolve(levels[i].next)
  <1>1. /\ shared' = shared \cup Adopted({out}) /\ files' = files \cup Adopted({out})
        /\ UNCHANGED <<stored, phase, collected, retained>>
    BY DEF MergeDone
  <1>2. /\ \A j \in Level \ {i} : levels'[j] = levels[j]
        /\ levels[i].next.state = "LIVE_INPUTS"
        /\ levels'[i].next.state = "LIVE_INPUTS"
        /\ resolve(levels'[i].next) = out
        /\ levels'[i].curr = levels[i].curr
        /\ levels'[i].snap = levels[i].snap
        /\ getHashes(levels'[i].next) = getHashes(levels[i].next)
    BY DoneMerge, Zenon DEF IInv
  <1>3. ~IsDone(levels[i].next)
    BY DEF MergeDone, IsDone
  <1> HIDE DEF out
  <1>4. shared' \subseteq files'
    BY <1>1 DEF IInv, FilesKept
  <1>5. ASSUME NEW j \in Level, NEW b, UsedBy(b, levels'[j])
        PROVE  b = EmptyBucket \/ b \in shared'
    <2>1. UsedBy(b, levels[j]) \/ b = out
      BY <1>2, <1>5 DEF UsedBy, NamedBy
    <2> QED
      BY <1>1, <2>1 DEF IInv, FilesKept, Adopted
  <1>6. ASSUME NEW j \in Level, NEW b, NamedBy(b, stored'.levels[j])
        PROVE  b = EmptyBucket \/ b \in files'
    BY <1>1, <1>6 DEF IInv, FilesKept
  <1>7. ASSUME phase' = "forget", NEW j \in Level, NEW b,
               NamedBy(b, stored'.levels[j])
        PROVE  UsedBy(b, levels'[j])
    <2>1. UsedBy(b, levels[j])
      BY <1>1, <1>7 DEF IInv, FilesKept
    <2> QED
      BY <1>2, <1>3, <2>1 DEF UsedBy, NamedBy
  <1>8. ASSUME phase' = "idle", collected', NEW j \in Level, NEW b,
               NamedBy(b, stored'.levels[j])
        PROVE  b = EmptyBucket \/ b \in AfterStop'
    <2> SUFFICES ASSUME b # EmptyBucket
                 PROVE  b \in AfterStop'
      OBVIOUS
    <2>1. b \in AfterStop
      BY <1>1, <1>8 DEF IInv, FilesKept
    <2>2. b \in files /\ (b \in retained \/ (b \notin shared
            /\ \A k \in Level : levels[k].next.state = "LIVE_INPUTS" =>
                                    b # resolve(levels[k].next)))
      BY <2>1, AfterStopBuckets
    <2>3. b \in files' /\ (b \in retained' \/ (b \notin shared'
            /\ \A k \in Level : levels'[k].next.state = "LIVE_INPUTS" =>
                                    b # resolve(levels'[k].next)))
      BY <1>1, <1>2, <2>2 DEF Adopted, out
    <2> QED
      BY <2>3 DEF AfterStop
  <1> QED
    BY <1>4, <1>5, <1>6, <1>7, <1>8 DEF FilesKept

LEMMA FilesKeptByCommit ==
    ASSUME IInv, Commit
    PROVE  FilesKept'
  <1>1. /\ UNCHANGED <<levels, shared, files, retained>>
        /\ stored'.levels = [i \in Level |->
                    [levels[i] EXCEPT !.next = serialized(levels[i].next)]]
        /\ phase' = "idle" => catchingUp
        /\ collected' = (collected /\ ~catchingUp)
    BY DEF Commit, list
  <1>2. ASSUME NEW i \in Level, NEW b, NamedBy(b, stored'.levels[i])
        PROVE  UsedBy(b, levels[i])
    <2>1. IsLevel(levels[i]) /\ IsNext(levels[i].next)
      BY DEF IInv, Shape, IsList
    <2>2. /\ stored'.levels[i].curr = levels[i].curr
          /\ stored'.levels[i].snap = levels[i].snap
          /\ stored'.levels[i].next = serialized(levels[i].next)
      BY <1>1, <2>1 DEF IsLevel
    <2>3. CASE IsDone(levels[i].next)
      BY <1>2, <2>1, <2>2, <2>3, SerializedNext DEF NamedBy, UsedBy
    <2>4. CASE ~IsDone(levels[i].next)
      BY <1>2, <2>1, <2>2, <2>4, SerializedNext DEF NamedBy, UsedBy
    <2> QED
      BY <2>3, <2>4
  <1>3. \A i \in Level : \A b : UsedBy(b, levels[i]) =>
            b = EmptyBucket \/ (b \in shared /\ b \in files)
    BY DEF IInv, FilesKept
  <1>4. ~(phase' = "idle" /\ collected')
    BY <1>1, Zenon
  <1>5. shared \subseteq files
    BY DEF IInv, FilesKept
  <1> QED
    BY <1>1, <1>2, <1>3, <1>4, <1>5 DEF FilesKept

LEMMA FilesKeptByForget ==
    ASSUME IInv, forgetUnreferencedBuckets
    PROVE  FilesKept'
  <1>1. /\ UNCHANGED <<levels, stored>> /\ phase = "forget" /\ phase' = "idle"
        /\ shared' = shared \ Dropped /\ retained' = shared \ Dropped
        /\ files' = files \ Dropped
    BY DEF forgetUnreferencedBuckets, list
  <1>2. ASSUME NEW i \in Level, NEW b, UsedBy(b, levels[i]), b # EmptyBucket
        PROVE  b \in shared' /\ b \in retained' /\ b \in files'
    <2>1. b \in inUse
      BY <1>2, InUseLevels
    <2>2. b \in shared /\ b \in files
      BY <1>2 DEF IInv, FilesKept
    <2> QED
      BY <1>1, <2>1, <2>2 DEF Dropped
  <1>3. \A i \in Level : \A b : NamedBy(b, stored.levels[i]) => UsedBy(b, levels[i])
    BY <1>1, ZenonT(30) DEF IInv, FilesKept
  <1>4. ASSUME NEW i \in Level, NEW b, NamedBy(b, stored'.levels[i]), b # EmptyBucket
        PROVE  b \in files' /\ b \in AfterStop'
    <2>1. b \in files' /\ b \in retained'
      BY <1>1, <1>2, <1>3, <1>4, Zenon
    <2> QED
      BY <2>1 DEF AfterStop
  <1>5. shared' \subseteq files'
    BY <1>1 DEF IInv, FilesKept
  <1> QED
    BY <1>1, <1>2, <1>4, <1>5 DEF FilesKept

LEMMA FilesKeptByStart ==
    ASSUME IInv, NEW keep, Start(keep)
    PROVE  FilesKept'
  <1>1. /\ stored' = stored /\ phase' = "idle" /\ collected' = FALSE
        /\ referenced(stored.levels) \subseteq files'
        /\ shared' = referenced(stored.levels)
        /\ levels' = [i \in Level |->
                    [stored.levels[i] EXCEPT !.next = madeLive(@, keep[i])]]
    BY DEF Start, assumeState
  <1>2. ASSUME NEW i \in Level, NEW b, UsedBy(b, levels'[i])
        PROVE  NamedBy(b, stored.levels[i])
    <2>1. IsLevel(stored.levels[i]) /\ IsStoredNext(stored.levels[i].next)
      BY DEF IInv, Shape, IsStoredList
    <2>2. /\ levels'[i].curr = stored.levels[i].curr
          /\ levels'[i].snap = stored.levels[i].snap
          /\ levels'[i].next = madeLive(stored.levels[i].next, keep[i])
      BY <1>1, <2>1 DEF IsLevel
    <2> QED
      BY <1>2, <2>1, <2>2, LiveAgain DEF NamedBy, UsedBy
  <1>3. \A i \in Level : \A b : NamedBy(b, stored.levels[i]) =>
            b = EmptyBucket \/ b \in referenced(stored.levels)
    BY ReferencedLevels
  <1> QED
    BY <1>1, <1>2, <1>3 DEF FilesKept

-----------------------------------------------------------------------------
(* What addBatch makes of a level depends on its buckets and on the output *)
(* of its merge, not on how far the merge is.                              *)

LEMMA PrepareSame ==
    ASSUME NEW a, NEW b, IsLevel(a), IsLevel(b), a.curr = b.curr, a.snap = b.snap,
           NEW l, NEW i, NEW snap, NEW shadows
    PROVE  prepare(a, l, i, snap, shadows) = prepare(b, l, i, snap, shadows)
  BY DEF prepare, IsLevel

LEMMA SpilledSame ==
    ASSUME NEW L, NEW P, NEW l, NEW i \in Level, IsLevel(L[i]), IsLevel(P[i]),
           SameLevel(L[i], P[i])
    PROVE  SameLevel(spilled(L, l, i), spilled(P, l, i))
  BY DEF spilled, SameLevel, IsLevel

LEMMA CommitSame ==
    ASSUME NEW a, NEW b, IsLevel(a), IsLevel(b), SameLevel(a, b)
    PROVE  commit(a).curr = commit(b).curr /\ commit(a).snap = commit(b).snap
  BY CommittedLevel DEF SameLevel, SameNext

LEMMA ShadowsSame ==
    ASSUME NEW L, NEW P, Same(L, P), NEW i \in Level
    PROVE  shadowsOf(L, i) = shadowsOf(P, i)
  <1>1. ASSUME NEW b
        PROVE  b \in shadowsOf(L, i) <=> b \in shadowsOf(P, i)
    <2>1. b \in shadowsOf(L, i) <=>
            \E j \in {x \in Level : x + 2 <= i} : b \in {L[j].curr, L[j].snap}
      BY DEF shadowsOf
    <2>2. b \in shadowsOf(P, i) <=>
            \E j \in {x \in Level : x + 2 <= i} : b \in {P[j].curr, P[j].snap}
      BY DEF shadowsOf
    <2>3. \A j \in Level : L[j].curr = P[j].curr /\ L[j].snap = P[j].snap
      BY DEF Same, SameLevel
    <2> QED
      BY <2>1, <2>2, <2>3
  <1> QED
    BY <1>1

LEMMA AddBatchSame ==
    ASSUME NEW L, NEW P, IsList(L), IsList(P), Same(L, P), NEW l, NEW batch
    PROVE  Same(addBatch(L, l, batch), addBatch(P, l, batch))
  <1>1. ASSUME NEW i \in Level
        PROVE  SameLevel(newLevel(L, l, i, batch), newLevel(P, l, i, batch))
    <2> DEFINE a == spilled(L, l, i)
               b == spilled(P, l, i)
    <2>1. /\ IsLevel(a) /\ IsLevel(b) /\ SameLevel(a, b)
      BY SpilledLevel, SpilledSame DEF IsList, Same
    <2>2. CASE i = 0
      <3> DEFINE x == prepare(a, l, 0, batch, {})
                 y == prepare(b, l, 0, batch, {})
      <3>1. x = y
        <4> HIDE DEF a, b
        <4> QED
          BY <2>1, PrepareSame DEF SameLevel
      <3>2. /\ newLevel(L, l, i, batch) = commit(x)
            /\ newLevel(P, l, i, batch) = commit(y)
        BY <2>2 DEF newLevel
      <3> HIDE DEF x, y
      <3> QED
        BY <3>1, <3>2 DEF SameLevel, SameNext
    <2>3. CASE i # 0 /\ levelShouldSpill(l, i - 1)
      <3> DEFINE x == commit(a)
                 y == commit(b)
      <3>1. /\ IsLevel(x) /\ IsLevel(y) /\ x.curr = y.curr /\ x.snap = y.snap
        <4> HIDE DEF a, b
        <4> QED
          BY <2>1, CommitSame, CommittedLevel
      <3>2. /\ newLevel(L, l, i, batch)
                = prepare(x, l, i, L[i - 1].curr, shadowsOf(L, i))
            /\ newLevel(P, l, i, batch)
                = prepare(y, l, i, P[i - 1].curr, shadowsOf(P, i))
        BY <2>3 DEF newLevel
      <3> HIDE DEF x, y
      <3>3. shadowsOf(L, i) = shadowsOf(P, i) /\ L[i - 1].curr = P[i - 1].curr
        <4>1. i - 1 \in Level
          BY <2>3, LevelsAssumption DEF Level
        <4> QED
          BY <4>1, ShadowsSame DEF Same, SameLevel
      <3>4. newLevel(L, l, i, batch) = newLevel(P, l, i, batch)
        BY <3>1, <3>2, <3>3, PrepareSame
      <3> QED
        BY <3>4 DEF SameLevel, SameNext
    <2>4. CASE i # 0 /\ ~levelShouldSpill(l, i - 1)
      BY <2>1, <2>4, NotSpilledInto
    <2> QED
      BY <2>2, <2>3, <2>4
  <1> QED
    BY <1>1 DEF Same, addBatch

LEMMA AddBatchFlagged ==
    ASSUME NEW L, IsList(L), Flagged(L), NEW l, NEW batch
    PROVE  Flagged(addBatch(L, l, batch))
  <1> SUFFICES ASSUME NEW i \in Level,
                      newLevel(L, l, i, batch).next.state = "LIVE_INPUTS"
               PROVE  newLevel(L, l, i, batch).next.keepDeadEntries = (i < Last)
    BY DEF Flagged, addBatch
  <1>1. IsLevel(L[i])
    BY DEF IsList
  <1>2. CASE i = 0
    BY <1>1, <1>2, FirstLevel, NoNextFacts, SMTT(20)
  <1>3. CASE i # 0 /\ levelShouldSpill(l, i - 1)
    <2>1. MergedInto(L, l, i, newLevel(L, l, i, batch))
      BY <1>1, <1>3, SpilledInto, Zenon
    <2> QED
      BY <2>1, MergedInputs
  <1>4. CASE i # 0 /\ ~levelShouldSpill(l, i - 1)
    BY <1>1, <1>4, NotSpilledInto, SpilledLevel DEF Flagged
  <1> QED
    BY <1>2, <1>3, <1>4

(* A merge that is stored and made live again has the same output.         *)
LEMMA RevivedNext ==
    ASSUME NEW n, NEW k, IsNext(n), n.state = "LIVE_INPUTS" => n.keepDeadEntries = k
    PROVE  SameNext(madeLive(serialized(n), k), n)
  <1>1. CASE n = NoNext
    BY <1>1 DEF madeLive, serialized, NoNext, SameNext, isLive
  <1>2. CASE n = [state |-> "LIVE_OUTPUT", output |-> n.output]
    <2>1. n.state = "LIVE_OUTPUT"
      BY <1>2
    <2>2. madeLive(serialized(n), k) = [state |-> "LIVE_OUTPUT", output |-> n.output]
      BY <2>1 DEF serialized, madeLive
    <2> QED
      BY <2>1, <2>2 DEF SameNext, isLive, resolve
  <1>3. CASE n.state = "LIVE_INPUTS" /\ n.done
    <2>1. madeLive(serialized(n), k) = [state |-> "LIVE_OUTPUT", output |-> resolve(n)]
      BY <1>3 DEF serialized, madeLive
    <2>2. resolve(madeLive(serialized(n), k)) = resolve(n)
      <3> DEFINE o == resolve(n)
      <3>1. madeLive(serialized(n), k) = [state |-> "LIVE_OUTPUT", output |-> o]
        BY <2>1
      <3> HIDE DEF o
      <3>2. resolve(madeLive(serialized(n), k)) = o
        BY <3>1 DEF resolve
      <3> QED
        BY <3>2 DEF o
    <2> QED
      BY <1>3, <2>1, <2>2 DEF SameNext, isLive
  <1>4. CASE n.state = "LIVE_INPUTS" /\ ~n.done
    <2>1. madeLive(serialized(n), k) = liveInputs(n.curr, n.snap, n.shadows, k)
      BY <1>4 DEF serialized, madeLive
    <2>2. resolve(n) = merge(n.curr, n.snap, n.shadows, k)
      BY <1>4 DEF resolve
    <2> QED
      BY <1>4, <2>1, <2>2, LiveInputs DEF SameNext, isLive
  <1> QED
    BY <1>1, <1>2, <1>3, <1>4 DEF IsNext

-----------------------------------------------------------------------------
(* The steps keep the agreement with the peer.                             *)

LEMMA PeersAgreeByCommit ==
    ASSUME IInv, Commit
    PROVE  PeersAgree'
  <1>1. /\ UNCHANGED <<levels, peer, undefined>>
        /\ stored'.peer = peer /\ stored'.undefined = undefined
        /\ stored'.levels = [i \in Level |->
                    [levels[i] EXCEPT !.next = serialized(levels[i].next)]]
    BY DEF Commit, list
  <1>2. ASSUME ~undefined, NEW i \in Level
        PROVE  SameLevel(Revived(stored'.levels)[i], peer[i])
    <2>1. /\ IsLevel(levels[i]) /\ IsNext(levels[i].next)
          /\ SameLevel(levels[i], peer[i])
          /\ levels[i].next.state = "LIVE_INPUTS" =>
                levels[i].next.keepDeadEntries = (i < Last)
      BY <1>2 DEF IInv, Shape, IsList, PeersAgree, Same, Flagged
    <2>2. SameNext(madeLive(serialized(levels[i].next), i < Last), levels[i].next)
      BY <2>1, RevivedNext
    <2> DEFINE r == [levels[i] EXCEPT !.next = serialized(levels[i].next)]
    <2>3. /\ IsLevel(r) /\ r.curr = levels[i].curr /\ r.snap = levels[i].snap
          /\ r.next = serialized(levels[i].next)
      BY <2>1 DEF IsLevel
    <2>4. stored'.levels[i] = r
      BY <1>1
    <2> HIDE DEF r
    <2>5. Revived(stored'.levels)[i] = [r EXCEPT !.next = madeLive(r.next, i < Last)]
      BY <2>3, <2>4 DEF Revived
    <2>6. /\ Revived(stored'.levels)[i].curr = levels[i].curr
          /\ Revived(stored'.levels)[i].snap = levels[i].snap
          /\ Revived(stored'.levels)[i].next
                = madeLive(serialized(levels[i].next), i < Last)
      BY <2>3, <2>5 DEF IsLevel
    <2> QED
      BY <2>1, <2>2, <2>6 DEF SameLevel, SameNext
  <1>3. ~stored'.undefined => Same(Revived(stored'.levels), stored'.peer)
    BY <1>1, <1>2 DEF Same
  <1>4. ~undefined' => Same(levels', peer') /\ Flagged(levels')
    BY <1>1 DEF IInv, PeersAgree
  <1> QED
    BY <1>3, <1>4 DEF PeersAgree

(* A process that was started again, and read no wrong flag.               *)
LEMMA StartRevives ==
    ASSUME IInv, NEW keep \in KeepFlags, Start(keep), ~undefined'
    PROVE  levels' = Revived(stored.levels) /\ ~stored.undefined
  <1>1. /\ levels' = [i \in Level |->
                    [stored.levels[i] EXCEPT !.next = madeLive(@, keep[i])]]
        /\ ~stored.undefined
        /\ \A i \in Unfinished : keep[i] = (i < Last)
    BY Zenon DEF Start, assumeState
  <1>2. \A i \in Level : keep[i] = (i < Last)
    BY <1>1 DEF KeepFlags
  <1> QED
    BY <1>1, <1>2 DEF Revived

LEMMA PeersAgreeByStart ==
    ASSUME IInv, NEW keep \in KeepFlags, Start(keep)
    PROVE  PeersAgree'
  <1>1. stored' = stored /\ peer' = stored.peer
    BY DEF Start
  <1>2. ASSUME ~undefined'
        PROVE  Same(levels', peer') /\ Flagged(levels')
    <2>1. levels' = Revived(stored.levels) /\ ~stored.undefined
      BY <1>2, StartRevives
    <2>2. Same(levels', peer')
      BY <1>1, <2>1 DEF IInv, PeersAgree
    <2>3. ASSUME NEW i \in Level, levels'[i].next.state = "LIVE_INPUTS"
          PROVE  levels'[i].next.keepDeadEntries = (i < Last)
      <3> DEFINE n == stored.levels[i].next
      <3>1. IsLevel(stored.levels[i]) /\ IsStoredNext(n)
        BY DEF IInv, Shape, IsStoredList
      <3>2. levels'[i].next = madeLive(n, i < Last)
        BY <2>1, <3>1 DEF Revived, IsLevel
      <3> HIDE DEF n
      <3>3. CASE n = NoNext
        BY <2>3, <3>2, <3>3 DEF madeLive, NoNext
      <3>4. CASE n.state = "HASH_OUTPUT"
        BY <2>3, <3>2, <3>4 DEF madeLive
      <3>5. CASE n.state = "HASH_INPUTS"
        <4>1. madeLive(n, i < Last) = liveInputs(n.curr, n.snap, n.shadows, i < Last)
          BY <3>5 DEF madeLive
        <4> QED
          BY <3>2, <4>1, LiveInputs
      <3> QED
        BY <3>1, <3>3, <3>4, <3>5 DEF IsStoredNext
    <2> QED
      BY <2>2, <2>3 DEF Flagged
  <1>3. ~stored'.undefined => Same(Revived(stored'.levels), stored'.peer)
    BY <1>1 DEF IInv, PeersAgree
  <1> QED
    BY <1>2, <1>3 DEF PeersAgree

LEMMA PeersAgreeKept ==
    ASSUME IInv, [Next]_vars
    PROVE  PeersAgree'
  <1>1. ASSUME NEW live \in SUBSET Key, NEW dead \in SUBSET Key, AddBatch(live, dead)
        PROVE  PeersAgree'
    <2>1. PICK batch : /\ levels' = addBatch(levels, ledger + 1, batch)
                       /\ peer' = addBatch(peer, ledger + 1, batch)
      BY <1>1 DEF AddBatch, Added
    <2>2. stored' = stored /\ undefined' = undefined
      BY <1>1 DEF AddBatch
    <2> QED
      BY <2>1, <2>2, AddBatchSame, AddBatchFlagged DEF IInv, Shape, PeersAgree
  <1>2. ASSUME NEW i \in Level, MergeDone(i)
        PROVE  PeersAgree'
    <2>1. UNCHANGED <<stored, undefined, peer>>
      BY <1>2 DEF MergeDone
    <2>2. /\ \A j \in Level \ {i} : levels'[j] = levels[j]
          /\ levels[i].next.state = "LIVE_INPUTS"
          /\ levels'[i].next.state = "LIVE_INPUTS"
          /\ levels'[i].curr = levels[i].curr /\ levels'[i].snap = levels[i].snap
          /\ resolve(levels'[i].next) = resolve(levels[i].next)
          /\ levels'[i].next.keepDeadEntries = levels[i].next.keepDeadEntries
      BY <1>2, DoneMerge, Zenon DEF IInv
    <2>3. ~undefined => Same(levels', peer)
      BY <2>2 DEF IInv, PeersAgree, Same, SameLevel, SameNext, isLive
    <2>4. ~undefined => Flagged(levels')
      BY <2>2 DEF IInv, PeersAgree, Flagged
    <2> QED
      BY <2>1, <2>3, <2>4 DEF IInv, PeersAgree
  <1>3. CASE Commit
    BY <1>3, PeersAgreeByCommit
  <1>4. CASE forgetUnreferencedBuckets
    BY <1>4 DEF forgetUnreferencedBuckets, IInv, PeersAgree, list
  <1>5. CASE SwitchMode
    BY <1>5 DEF SwitchMode, IInv, PeersAgree, list
  <1>6. ASSUME NEW keep \in KeepFlags, Kill(keep) \/ Stop(keep)
        PROVE  PeersAgree'
    BY <1>6, PeersAgreeByStart DEF Kill, Stop
  <1>7. CASE UNCHANGED vars
    BY <1>7 DEF vars, IInv, PeersAgree
  <1> QED
    BY <1>1, <1>2, <1>3, <1>4, <1>5, <1>6, <1>7 DEF Next

-----------------------------------------------------------------------------
(* Dead entries expire at the last level, which merges without keeping     *)
(* them and never spills.                                                  *)

LEMMA MergeNoDead ==
    ASSUME NEW a, NEW b, NEW s
    PROVE  NoDead(merge(a, b, s, FALSE))
  BY DEF NoDead, merge

LEMMA LastOutput ==
    ASSUME NEW r, IsNext(r.next), BottomClean(r), isLive(r.next),
           r.next.state = "LIVE_INPUTS" => r.next.keepDeadEntries = (Last < Last)
    PROVE  NoDead(resolve(r.next))
  <1>1. CASE r.next.state = "LIVE_OUTPUT"
    BY <1>1 DEF BottomClean, resolve
  <1>2. CASE r.next.state = "LIVE_INPUTS"
    <2>1. (Last < Last) = FALSE
      BY LevelFacts
    <2>2. resolve(r.next) = merge(r.next.curr, r.next.snap, r.next.shadows, FALSE)
      BY <1>2, <2>1, ZenonT(30) DEF resolve
    <2> QED
      BY <2>2, MergeNoDead, Zenon
  <1> QED
    BY <1>1, <1>2 DEF isLive

LEMMA CleanKept ==
    ASSUME IInv, [Next]_vars
    PROVE  Clean'
  <1>0. /\ Last \in Level /\ Last # 0
        /\ IsLevel(levels[Last]) /\ IsNext(levels[Last].next)
        /\ ~undefined => /\ BottomClean(levels[Last])
                         /\ levels[Last].next.state = "LIVE_INPUTS" =>
                               levels[Last].next.keepDeadEntries = (Last < Last)
    BY LevelFacts DEF IInv, Shape, IsList, PeersAgree, Flagged, Clean
  <1>1. ASSUME NEW live \in SUBSET Key, NEW dead \in SUBSET Key, AddBatch(live, dead)
        PROVE  Clean'
    <2>1. PICK batch : levels' = addBatch(levels, ledger + 1, batch)
      BY <1>1, SMTT(20) DEF AddBatch, Added
    <2> DEFINE l == ledger + 1
               r == newLevel(levels, l, Last, batch)
    <2>2. levels'[Last] = r /\ stored' = stored /\ undefined' = undefined
      BY <1>0, <1>1, <2>1 DEF addBatch, AddBatch
    <2>3. ~levelShouldSpill(l, Last)
      BY DEF levelShouldSpill
    <2>4. spilled(levels, l, Last) = levels[Last]
      BY <1>0, <2>3, SpilledLevel
    <2> HIDE DEF l, r
    <2>5. ASSUME ~undefined
          PROVE  BottomClean(r)
      <3>1. CASE levelShouldSpill(l, Last - 1)
        <4>1. /\ r.snap = levels[Last].snap
              /\ isLive(levels[Last].next) => r.curr = resolve(levels[Last].next)
              /\ ~isLive(levels[Last].next) => r.curr = levels[Last].curr
              /\ r.next.state = "LIVE_INPUTS"
          <5>1. MergedInto(levels, l, Last, r)
            BY <1>0, <3>1, SpilledInto, Zenon DEF r
          <5> QED
            BY <2>4, <5>1, MergedInputs DEF MergedInto
        <4>2. NoDead(r.curr)
          BY <1>0, <2>5, <4>1, LastOutput DEF BottomClean
        <4> QED
          BY <1>0, <2>5, <4>1, <4>2, SMTT(20) DEF BottomClean
      <3>2. CASE ~levelShouldSpill(l, Last - 1)
        BY <1>0, <2>4, <2>5, <3>2, NotSpilledInto DEF r
      <3> QED
        BY <3>1, <3>2
    <2> QED
      BY <2>2, <2>5 DEF IInv, Clean
  <1>2. ASSUME NEW i \in Level, MergeDone(i)
        PROVE  Clean'
    <2>1. UNCHANGED <<stored, undefined>>
      BY <1>2 DEF MergeDone
    <2>2. \/ levels'[Last] = levels[Last]
          \/ /\ levels'[Last].curr = levels[Last].curr
             /\ levels'[Last].snap = levels[Last].snap
             /\ levels'[Last].next.state = "LIVE_INPUTS"
      BY <1>0, <1>2, DoneMerge, ZenonT(30) DEF IInv
    <2> QED
      BY <2>1, <2>2 DEF IInv, Clean, BottomClean
  <1>3. CASE Commit
    <2> DEFINE n == levels[Last].next
    <2>1. /\ UNCHANGED <<levels, undefined>> /\ stored'.undefined = undefined
          /\ stored'.levels = [i \in Level |->
                    [levels[i] EXCEPT !.next = serialized(levels[i].next)]]
      BY <1>3 DEF Commit, list
    <2>2. /\ stored'.levels[Last].curr = levels[Last].curr
          /\ stored'.levels[Last].snap = levels[Last].snap
          /\ stored'.levels[Last].next = serialized(n)
      BY <1>0, <2>1 DEF IsLevel
    <2>3. ASSUME ~undefined,
                 serialized(n).state \in {"LIVE_OUTPUT", "HASH_OUTPUT"}
          PROVE  NoDead(serialized(n).output)
      <3>1. CASE IsDone(n)
        <4>1. serialized(n).output = resolve(n)
          BY <1>0, <3>1, SerializedNext
        <4>2. isLive(n)
          BY <3>1 DEF IsDone, isLive
        <4> QED
          BY <1>0, <2>3, <4>1, <4>2, LastOutput
      <3>2. CASE ~IsDone(n)
        <4>1. n.state = "LIVE_OUTPUT"
          BY <1>0, <2>3, <3>2 DEF serialized, IsNext, NoNext, IsDone
        <4>2. serialized(n).output = n.output
          BY <4>1 DEF serialized
        <4> QED
          BY <1>0, <2>3, <4>1, <4>2 DEF BottomClean
      <3> QED
        BY <3>1, <3>2
    <2> HIDE DEF n
    <2> QED
      BY <1>0, <2>1, <2>2, <2>3 DEF Clean, BottomClean
  <1>4. CASE forgetUnreferencedBuckets
    BY <1>4 DEF forgetUnreferencedBuckets, IInv, Clean, list
  <1>5. CASE SwitchMode
    BY <1>5 DEF SwitchMode, IInv, Clean, list
  <1>6. ASSUME NEW keep \in KeepFlags, Kill(keep) \/ Stop(keep)
        PROVE  Clean'
    <2>1. Start(keep) /\ stored' = stored
      BY <1>6 DEF Kill, Stop, Start
    <2>2. ASSUME ~undefined'
          PROVE  BottomClean(levels'[Last])
      <3> DEFINE n == stored.levels[Last].next
      <3>1. levels' = Revived(stored.levels) /\ ~stored.undefined
        BY <2>1, <2>2, StartRevives
      <3>2. /\ IsLevel(stored.levels[Last]) /\ IsStoredNext(n)
            /\ BottomClean(stored.levels[Last])
        BY <1>0, <3>1 DEF IInv, Shape, IsStoredList, Clean
      <3>3. /\ levels'[Last].curr = stored.levels[Last].curr
            /\ levels'[Last].snap = stored.levels[Last].snap
            /\ levels'[Last].next = madeLive(n, Last < Last)
        BY <1>0, <3>1, <3>2 DEF Revived, IsLevel
      <3>4. n.state = "HASH_OUTPUT" => NoDead(n.output)
        BY <3>2 DEF BottomClean
      <3> HIDE DEF n
      <3>5. ASSUME madeLive(n, Last < Last).state \in {"LIVE_OUTPUT", "HASH_OUTPUT"}
            PROVE  NoDead(madeLive(n, Last < Last).output)
        <4>1. n.state = "HASH_OUTPUT"
          BY <3>2, <3>5 DEF IsStoredNext, madeLive, NoNext, liveInputs
        <4>2. madeLive(n, Last < Last).output = n.output
          BY <4>1 DEF madeLive
        <4> QED
          BY <3>4, <4>1, <4>2
      <3> QED
        BY <3>2, <3>3, <3>5 DEF BottomClean
    <2> QED
      BY <2>1, <2>2 DEF IInv, Clean
  <1>7. CASE UNCHANGED vars
    BY <1>7 DEF vars, IInv, Clean
  <1> QED
    BY <1>1, <1>2, <1>3, <1>4, <1>5, <1>6, <1>7 DEF Next

-----------------------------------------------------------------------------
(* The invariant.                                                          *)

LEMMA IInvKept ==
    ASSUME IInv, [Next]_vars
    PROVE  IInv'
  <1>1. FilesKept'
    <2>1. CASE SwitchMode
      <3>1. /\ levels' = levels /\ stored' = stored /\ shared' = shared
            /\ files' = files /\ phase' = phase /\ collected' = collected
            /\ AfterStop' = AfterStop
        BY <2>1, Zenon DEF SwitchMode, list, AfterStop
      <3> QED
        BY <3>1, Zenon DEF IInv, FilesKept
    <2>2. CASE UNCHANGED vars
      <3>1. /\ levels' = levels /\ stored' = stored /\ shared' = shared
            /\ files' = files /\ phase' = phase /\ collected' = collected
            /\ AfterStop' = AfterStop
        BY <2>2, Zenon DEF vars, AfterStop
      <3> QED
        BY <3>1, Zenon DEF IInv, FilesKept
    <2> QED
      BY <2>1, <2>2, FilesKeptByAddBatch, FilesKeptByMerge, FilesKeptByCommit,
         FilesKeptByForget, FilesKeptByStart, SMTT(20) DEF Next, Kill, Stop
  <1> QED
    BY <1>1, ShapeKept, PeersAgreeKept, CleanKept DEF IInv

LEMMA IInvInit ==
    ASSUME Init
    PROVE  IInv
  <1>1. PICK K \in SUBSET Key :
            /\ levels = Genesis(fresh(K, 1, {})) /\ peer = levels
            /\ stored.levels = levels /\ stored.peer = levels
            /\ shared = Adopted({fresh(K, 1, {})}) /\ files = shared
            /\ phase = "idle" /\ collected = FALSE
    BY DEF Init
  <1> DEFINE g == fresh(K, 1, {})
  <1>2. /\ DOMAIN levels = Level
        /\ \A i \in Level : /\ levels[i].next = NoNext /\ IsLevel(levels[i])
                            /\ levels[i].snap = EmptyBucket
                            /\ levels[i].curr \in {g, EmptyBucket}
                            /\ i # 0 => levels[i].curr = EmptyBucket
    <2> HIDE DEF g
    <2>1. levels = Genesis(g)
      BY <1>1, SMTT(20) DEF g
    <2> QED
      BY <2>1 DEF Genesis, IsLevel
  <1> HIDE DEF g
  <1>3. Shape
    BY <1>1, <1>2, NoNextFacts, Zenon DEF Shape, IsList, IsStoredList
  <1>4. shared = {g} \ {EmptyBucket}
    BY <1>1, SMTT(20) DEF Adopted, g
  <1>5. FilesKept
    <2>1. \A i \in Level : \A b : UsedBy(b, levels[i]) => b \in {g, EmptyBucket}
      <3> TAKE i \in Level
      <3>1. /\ levels[i].snap = EmptyBucket /\ levels[i].curr \in {g, EmptyBucket}
            /\ ~IsDone(levels[i].next) /\ getHashes(levels[i].next) = {}
        BY <1>2, NoNextFacts, Zenon
      <3> QED
        BY <3>1, Zenon DEF UsedBy, NamedBy
    <2>2. \A b \in {g, EmptyBucket} : b = EmptyBucket \/ b \in shared
      BY <1>4, Zenon
    <2>3. \A i \in Level : \A b :
              NamedBy(b, stored.levels[i]) => UsedBy(b, levels[i])
      BY <1>1, Zenon DEF UsedBy
    <2>4. shared \subseteq files /\ phase # "forget" /\ ~collected
      BY <1>1
    <2> QED
      BY <2>1, <2>2, <2>3, <2>4 DEF FilesKept
  <1>6. Same(levels, peer) /\ Flagged(levels)
    BY <1>1, <1>2, NoNextFacts, ZenonT(30) DEF Same, SameLevel, SameNext, Flagged
  <1>7. Same(Revived(stored.levels), stored.peer)
    <2>1. \A i \in Level : Revived(levels)[i] = levels[i]
      BY <1>2 DEF Revived, madeLive, NoNext, IsLevel
    <2> QED
      BY <1>1, <2>1 DEF Same, SameLevel, SameNext
  <1>8. BottomClean(levels[Last])
    <2>1. NoDead(EmptyBucket)
      BY DEF NoDead, EmptyBucket
    <2> QED
      BY <1>2, <2>1, LevelFacts, NoNextFacts DEF BottomClean
  <1> QED
    BY <1>1, <1>3, <1>5, <1>6, <1>7, <1>8, ZenonT(30) DEF IInv, PeersAgree, Clean

-----------------------------------------------------------------------------
(* Whatever merges run and wherever the process is killed, the files that  *)
(* the committed HistoryArchiveState names exist; and also after it is     *)
(* stopped, if it closed a ledger and collected unreferenced buckets.      *)
THEOREM RestartFindsBuckets == ~StopsEarly => (Spec => []StoredBucketsExist)
  <1> SUFFICES ASSUME ~StopsEarly
               PROVE  Spec => []StoredBucketsExist
    OBVIOUS
  <1>1. ASSUME IInv
        PROVE  StoredBucketsExist
    <2>1. referenced(stored.levels) \subseteq files
      BY <1>1, ReferencedLevels DEF IInv, FilesKept
    <2>2. phase = "idle" /\ collected => referenced(stored.levels) \subseteq AfterStop
      BY <1>1, ReferencedLevels DEF IInv, FilesKept
    <2> QED
      BY <2>1, <2>2 DEF StoredBucketsExist
  <1> QED
    BY <1>1, IInvInit, IInvKept, PTL DEF Spec

(* The buckets, and so the bucketListHash, depend on the ledgers that were *)
(* closed: not on when merges end, nor on restarts in the middle of them.  *)
THEOREM SameBucketsEverywhere == Spec => []SameListAsPeers
  <1>1. IInv => SameListAsPeers
    BY DEF IInv, PeersAgree, Same, SameLevel, SameListAsPeers
  <1> QED
    BY <1>1, IInvInit, IInvKept, PTL DEF Spec

(* The last level, which merges with keepDeadEntries unset, holds no dead  *)
(* entry.                                                                  *)
THEOREM DeadEntriesExpire == Spec => []BottomHasNoDead
  <1>1. ASSUME IInv
        PROVE  BottomHasNoDead
    <2>1. NoDead(EmptyBucket)
      BY DEF NoDead, EmptyBucket
    <2> QED
      BY <1>1, <2>1 DEF IInv, Clean, BottomClean, NoDead, BottomHasNoDead
  <1> QED
    BY <1>1, IInvInit, IInvKept, PTL DEF Spec

-----------------------------------------------------------------------------
(* Arithmetic.                                                             *)

LEMMA LeastElement ==
    ASSUME NEW S \in SUBSET Nat, S # {}
    PROVE  \E x \in S : \A y \in S : x <= y
  <1> DEFINE R == {ss \in Nat \X Nat : ss[1] < ss[2]}
  <1>1. IsWellFoundedOn(R, Nat)
    BY NatLessThanWellFounded, Zenon DEF OpToRel
  <1>2. \A x, y \in Nat : x < y => <<x, y>> \in R
    OBVIOUS
  <1> HIDE DEF R
  <1>3. PICK x \in S : \A y \in S : ~ (<<y, x>> \in R)
    BY <1>1, WFMin, Zenon
  <1>4. ASSUME NEW y \in S
        PROVE  x <= y
    <2>1. ~(y < x)
      BY <1>2, <1>3, Zenon
    <2> QED
      BY <2>1
  <1> QED
    BY <1>4

LEMMA PowersOfTwo ==
    ASSUME NEW n \in Nat
    PROVE  2^n \in Nat \ {0} /\ 2^(n + 1) = 2 * 2^n
  <1> DEFINE A == SUBSET (1..n)
             f == [T \in A |-> T \cup {n + 1}]
             B == {T \cup {n + 1} : T \in A}
  <1>1. /\ IsFiniteSet(1..n) /\ Cardinality(1..n) = n
        /\ IsFiniteSet(1..(n + 1)) /\ Cardinality(1..(n + 1)) = n + 1
    BY FS_Interval
  <1>2. /\ IsFiniteSet(A) /\ Cardinality(A) = 2^n
        /\ Cardinality(SUBSET (1..(n + 1))) = 2^(n + 1)
    BY <1>1, FS_SUBSET, ZenonT(30)
  <1>3. Cardinality(A) \in Nat \ {0}
    <2>1. {} \in A
      OBVIOUS
    <2> QED
      BY <1>2, <2>1, FS_CardinalityType, FS_EmptySet, Zenon
  <1>4. ExistsBijection(A, B)
    <2>1. f \in Injection(A, B)
      <3>1. \A T \in A : n + 1 \notin T
        OBVIOUS
      <3>2. f \in [A -> B]
        BY Zenon
      <3>3. ASSUME NEW S \in A, NEW T \in A, f[S] = f[T]
            PROVE  S = T
        <4>1. S \cup {n + 1} = T \cup {n + 1}
          BY <3>3, Zenon
        <4>2. n + 1 \notin S /\ n + 1 \notin T
          BY <3>1, Zenon
        <4> HIDE DEF A
        <4> QED
          BY <4>1, <4>2
      <3> HIDE DEF f, A, B
      <3> QED
        BY <3>2, <3>3 DEF Injection, IsInjective
    <2>2. f \in Surjection(A, B)
      BY ZenonT(30) DEF Surjection
    <2> QED
      BY <2>1, <2>2, ZenonT(30) DEF ExistsBijection, Bijection
  <1>5. IsFiniteSet(B) /\ Cardinality(B) = Cardinality(A)
    BY <1>2, <1>4, FS_Bijection, Zenon
  <1>6. A \cup B = SUBSET (1..(n + 1))
    <2>1. ASSUME NEW S \in SUBSET (1..(n + 1)), n + 1 \in S
          PROVE  S \in B
      <3>1. S \ {n + 1} \in A /\ S = (S \ {n + 1}) \cup {n + 1}
        BY <2>1
      <3> QED
        BY <3>1, Zenon
    <2>2. ASSUME NEW S \in SUBSET (1..(n + 1)), n + 1 \notin S
          PROVE  S \in A
      BY <2>2
    <2>3. A \subseteq SUBSET (1..(n + 1))
      OBVIOUS
    <2>4. B \subseteq SUBSET (1..(n + 1))
      <3>1. ASSUME NEW T \in A
            PROVE  T \cup {n + 1} \in SUBSET (1..(n + 1))
        OBVIOUS
      <3> QED
        BY <3>1, Zenon
    <2> HIDE DEF A, B
    <2> QED
      BY <2>1, <2>2, <2>3, <2>4, Zenon
  <1>7. A \cap B = {}
    OBVIOUS
  <1>8. Cardinality(A \cup B) = Cardinality(A) + Cardinality(B) - Cardinality(A \cap B)
    BY <1>2, <1>5, FS_Union, Zenon
  <1>9. Cardinality(SUBSET (1..(n + 1))) = 2 * Cardinality(A)
    <2>1. Cardinality(A \cap B) = 0
      BY <1>7, FS_EmptySet, Zenon
    <2>2. Cardinality(SUBSET (1..(n + 1)))
            = Cardinality(A) + Cardinality(A) - 0
      BY <1>5, <1>6, <1>8, <2>1, Zenon
    <2> HIDE DEF A
    <2> QED
      BY <1>3, <2>2
  <1> QED
    BY <1>2, <1>3, <1>9, Zenon

LEMMA NextMultiple ==
    ASSUME NEW h \in Nat \ {0}, NEW t \in Nat, NEW m \in Nat,
           t % h = 0, m % h = 0, t < m, m <= t + h
    PROVE  m = t + h
  <1> DEFINE a == t \div h
             b == m \div h
  <1>1. t = h * a /\ m = h * b /\ a \in Nat /\ b \in Nat
    OBVIOUS
  <1> HIDE DEF a, b
  <1>2. a < b
    <2>1. SUFFICES ASSUME b <= a
                   PROVE  FALSE
      BY <1>1
    <2>2. PICK d \in Nat : a = b + d
      BY <1>1, <2>1
    <2>3. h * a = h * b + h * d
      BY <1>1, <2>2
    <2> QED
      BY <1>1, <2>3
  <1>3. PICK d \in Nat : b = a + 1 + d
    BY <1>1, <1>2
  <1>4. h * b = h * a + h + h * d
    BY <1>1, <1>3
  <1>5. d = 0
    BY <1>1, <1>4
  <1> QED
    BY <1>1, <1>4, <1>5

LEMMA MultipleAfter ==
    ASSUME NEW h \in Nat \ {0}, NEW t \in Nat, t % h = 0
    PROVE  (t + h) % h = 0
  <1> DEFINE a == t \div h
             b == a + 1
  <1>1. t = h * a /\ a \in Nat
    OBVIOUS
  <1> HIDE DEF a
  <1>2. t + h = h * b /\ b \in Nat
    BY <1>1
  <1> HIDE DEF b
  <1> QED
    BY <1>2

LEMMA Divides ==
    ASSUME NEW h \in Nat \ {0}, NEW c \in Nat \ {0}, NEW t \in Nat, t % (c * h) = 0
    PROVE  t % h = 0
  <1> DEFINE a == t \div (c * h)
  <1>1. c * h \in Nat \ {0}
    OBVIOUS
  <1>2. t = (c * h) * a /\ a \in Nat
    BY <1>1
  <1> HIDE DEF a
  <1> DEFINE b == c * a
  <1>3. t = h * b /\ b \in Nat
    BY <1>2
  <1> HIDE DEF b
  <1> QED
    BY <1>3

(* The sizes of the levels.                                                *)
LEMMA Halves ==
    ASSUME NEW i \in Nat
    PROVE  /\ levelHalf(i) \in Nat \ {0}
           /\ levelSize(i) = 2 * levelHalf(i)
           /\ levelHalf(i + 1) = 4 * levelHalf(i)
  <1> DEFINE n == 2 * i
             a == 2^n
  <1>1. n \in Nat /\ 2 * (i + 1) = n + 1 + 1 /\ 2 * (i + 1 + 1) = n + 1 + 1 + 1 + 1
    OBVIOUS
  <1> HIDE DEF n
  <1>2. a \in Nat \ {0} /\ 2^(n + 1 + 1) = 2 * (2 * a)
    BY <1>1, PowersOfTwo
  <1>3. 2^(n + 1 + 1 + 1 + 1) = 2 * (2 * (2 * (2 * a)))
    BY <1>1, <1>2, PowersOfTwo
  <1> HIDE DEF a
  <1>4. levelSize(i) = 2 * (2 * a) /\ levelSize(i + 1) = 2 * (2 * (2 * (2 * a)))
    BY <1>1, <1>2, <1>3, Zenon DEF levelSize
  <1>5. levelHalf(i) = 2 * a /\ levelHalf(i + 1) = 2 * (2 * (2 * a))
    BY <1>2, <1>4 DEF levelHalf
  <1> QED
    BY <1>2, <1>4, <1>5

(* Level i spills at the multiples of its half, and not without the level  *)
(* before it.                                                              *)
LEMMA Spills ==
    ASSUME NEW l \in Nat, NEW i \in Level
    PROVE  levelShouldSpill(l, i) <=> i # Last /\ l % levelHalf(i) = 0
  <1>1. /\ levelHalf(i) \in Nat \ {0} /\ levelSize(i) = 2 * levelHalf(i)
    BY LevelFacts, Halves
  <1> QED
    BY <1>1, Divides DEF levelShouldSpill

LEMMA SpillsTogether ==
    ASSUME NEW l \in Nat, NEW i \in Level, i # 0, levelShouldSpill(l, i)
    PROVE  levelShouldSpill(l, i - 1)
  <1>1. i - 1 \in Level /\ i - 1 # Last /\ i - 1 \in Nat /\ (i - 1) + 1 = i
    BY LevelsAssumption DEF Level, Last
  <1>2. levelHalf(i - 1) \in Nat \ {0} /\ levelHalf(i) = 4 * levelHalf(i - 1)
    BY <1>1, Halves
  <1>3. l % levelHalf(i - 1) = 0
    BY <1>2, Spills, Divides
  <1> QED
    BY <1>1, <1>3, Spills

-----------------------------------------------------------------------------
(* Where a key is held, from the youngest bucket to the oldest: curr and   *)
(* snap of level 0, curr and snap of level 1, and so on.                   *)

InCurr(L, j, k) == k \in DOMAIN L[j].curr
InSnap(L, j, k) == k \in DOMAIN L[j].snap

HeldBefore(L, j, k) == \E x \in Level : x < j /\ (InCurr(L, x, k) \/ InSnap(L, x, k))

FirstInCurr(L, j, k) == InCurr(L, j, k) /\ ~HeldBefore(L, j, k)
FirstInSnap(L, j, k) == InSnap(L, j, k) /\ ~InCurr(L, j, k) /\ ~HeldBefore(L, j, k)

Nowhere(L, k) == \A j \in Level : ~InCurr(L, j, k) /\ ~InSnap(L, j, k)

(* Held in curr of level i - 1 or in a younger bucket.                     *)
Newer(L, i, k) == HeldBefore(L, i - 1, k) \/ InCurr(L, i - 1, k)

ValueOf(L, k) == IF Buckets(L, k) = {} THEN DEAD ELSE Youngest(L, k)

LEMMA FirstHolder ==
    ASSUME NEW L, NEW k, ~Nowhere(L, k)
    PROVE  \E j \in Level : FirstInCurr(L, j, k) \/ FirstInSnap(L, j, k)
  <1> DEFINE S == {j \in Level : InCurr(L, j, k) \/ InSnap(L, j, k)}
  <1>1. S \in SUBSET Nat /\ S # {}
    BY LevelFacts, Zenon DEF Nowhere
  <1> HIDE DEF S
  <1>2. PICK j \in S : \A x \in S : j <= x
    BY <1>1, LeastElement, Zenon
  <1>3. j \in Level /\ (InCurr(L, j, k) \/ InSnap(L, j, k))
    BY DEF S
  <1>4. ~HeldBefore(L, j, k)
    <2>1. ASSUME NEW x \in Level, x < j, InCurr(L, x, k) \/ InSnap(L, x, k)
          PROVE  FALSE
      <3>1. x \in S
        BY <2>1, Zenon DEF S
      <3>2. j <= x /\ j \in Nat /\ x \in Nat
        BY <1>2, <1>3, <3>1, LevelFacts
      <3> QED
        BY <2>1, <3>2
    <2> QED
      BY <2>1, Zenon DEF HeldBefore
  <1> QED
    BY <1>3, <1>4, Zenon DEF FirstInCurr, FirstInSnap

LEMMA HoldersAre ==
    ASSUME NEW L, NEW k, NEW j \in Level
    PROVE  /\ <<j, 0>> \in Buckets(L, k) <=> InCurr(L, j, k)
           /\ <<j, 1>> \in Buckets(L, k) <=> InSnap(L, j, k)
  BY DEF Buckets, InCurr, InSnap

LEMMA NowhereValue ==
    ASSUME NEW L, NEW k, Nowhere(L, k)
    PROVE  ValueOf(L, k) = DEAD
  <1>1. Buckets(L, k) = {}
    BY Zenon DEF Buckets, Nowhere, InCurr, InSnap
  <1> QED
    BY <1>1, Zenon DEF ValueOf

LEMMA FirstValue ==
    ASSUME NEW L, NEW k, NEW j \in Level
    PROVE  /\ FirstInCurr(L, j, k) => ValueOf(L, k) = L[j].curr[k]
           /\ FirstInSnap(L, j, k) => ValueOf(L, k) = L[j].snap[k]
  <1> DEFINE B == Buckets(L, k)
             age(p) == 2 * p[1] + p[2]
             least(p) == p \in B /\ \A q \in B : age(p) <= age(q)
  <1>1. ASSUME NEW p \in B
        PROVE  /\ p[1] \in Nat /\ p[1] \in Level /\ p[2] \in {0, 1}
               /\ p = <<p[1], p[2]>>
               /\ IF p[2] = 0 THEN InCurr(L, p[1], k) ELSE InSnap(L, p[1], k)
    <2>1. p \in Level \X {0, 1}
      BY Zenon DEF Buckets
    <2>2. p[1] \in Level /\ p[2] \in {0, 1} /\ p = <<p[1], p[2]>>
      BY <2>1
    <2>3. k \in DOMAIN (IF p[2] = 0 THEN L[p[1]].curr ELSE L[p[1]].snap)
      BY Zenon DEF Buckets
    <2>4. p[1] \in Nat
      BY <2>2, LevelFacts
    <2> QED
      BY <2>2, <2>3, <2>4, Zenon DEF InCurr, InSnap
  <1>2. j \in Nat
    BY LevelFacts
  <1>3. ASSUME ~HeldBefore(L, j, k), NEW p \in B
        PROVE  j <= p[1]
    <2>1. ~(p[1] < j)
      BY <1>1, <1>3, Zenon DEF HeldBefore
    <2> QED
      BY <1>1, <1>2, <2>1
  <1>4. ASSUME FirstInCurr(L, j, k)
        PROVE  <<j, 0>> \in B /\ \A p \in B : (\A q \in B : age(p) <= age(q)) <=> p = <<j, 0>>
    <2>1. <<j, 0>> \in B
      BY <1>4, HoldersAre, Zenon DEF FirstInCurr
    <2>2. ~HeldBefore(L, j, k)
      BY <1>4 DEF FirstInCurr
    <2>3. ASSUME NEW q \in B
          PROVE  age(<<j, 0>>) <= age(q)
      <3>1. j <= q[1]
        BY <1>3, <2>2, Zenon
      <3> QED
        BY <1>1, <1>2, <3>1
    <2>4. ASSUME NEW p \in B, age(p) <= age(<<j, 0>>)
          PROVE  p = <<j, 0>>
      <3>1. p[1] = j /\ p[2] = 0
        BY <1>1, <1>2, <1>3, <2>2, <2>4
      <3> QED
        BY <1>1, <3>1
    <2> HIDE DEF age, B
    <2> QED
      BY <2>1, <2>3, <2>4, Zenon
  <1>5. ASSUME FirstInSnap(L, j, k)
        PROVE  <<j, 1>> \in B /\ \A p \in B : (\A q \in B : age(p) <= age(q)) <=> p = <<j, 1>>
    <2>1. <<j, 1>> \in B
      BY <1>5, HoldersAre, ZenonT(30) DEF FirstInSnap
    <2>2. ~HeldBefore(L, j, k) /\ ~InCurr(L, j, k)
      BY <1>5 DEF FirstInSnap
    <2>3. ASSUME NEW q \in B
          PROVE  age(<<j, 1>>) <= age(q)
      <3>1. j <= q[1] /\ (q[1] = j => q[2] # 0)
        BY <1>1, <1>3, <2>2
      <3> QED
        BY <1>1, <1>2, <3>1
    <2>4. ASSUME NEW p \in B, age(p) <= age(<<j, 1>>)
          PROVE  p = <<j, 1>>
      <3>1. j <= p[1] /\ (p[1] = j => p[2] # 0)
        BY <1>1, <1>3, <2>2
      <3>2. p[1] = j /\ p[2] = 1
        BY <1>1, <1>2, <2>4, <3>1
      <3> QED
        BY <1>1, <3>2
    <2> HIDE DEF age, B
    <2> QED
      BY <2>1, <2>3, <2>4, Zenon
  <1>6. ASSUME NEW p, p \in B, \A x \in B : (\A q \in B : age(x) <= age(q)) <=> x = p
        PROVE  ValueOf(L, k) = IF p[2] = 0 THEN L[p[1]].curr[k] ELSE L[p[1]].snap[k]
    <2> DEFINE c == CHOOSE x \in B : \A q \in B : age(x) <= age(q)
    <2>1. c = p
      <3> HIDE DEF age, B
      <3> QED
        BY <1>6
    <2>2. Youngest(L, k) = IF c[2] = 0 THEN L[c[1]].curr[k] ELSE L[c[1]].snap[k]
      BY DEF Youngest
    <2>3. ValueOf(L, k) = Youngest(L, k)
      BY <1>6, Zenon DEF ValueOf
    <2> HIDE DEF c
    <2> QED
      BY <2>1, <2>2, <2>3, Zenon
  <1> HIDE DEF B, age
  <1>7. ASSUME FirstInCurr(L, j, k)
        PROVE  ValueOf(L, k) = L[j].curr[k]
    <2>1. ValueOf(L, k) = IF <<j, 0>>[2] = 0 THEN L[<<j, 0>>[1]].curr[k]
                          ELSE L[<<j, 0>>[1]].snap[k]
      BY <1>4, <1>6, <1>7, Zenon
    <2> QED
      BY <2>1
  <1>8. ASSUME FirstInSnap(L, j, k)
        PROVE  ValueOf(L, k) = L[j].snap[k]
    <2>1. ValueOf(L, k) = IF <<j, 1>>[2] = 0 THEN L[<<j, 1>>[1]].curr[k]
                          ELSE L[<<j, 1>>[1]].snap[k]
      BY <1>5, <1>6, <1>8, Zenon
    <2> QED
      BY <2>1
  <1> QED
    BY <1>7, <1>8

-----------------------------------------------------------------------------
(* What addBatch does to the place of a key.                               *)

(* A merge that was prepared for level i: it takes snap of the level       *)
(* before, which stays until the merge is taken, and curr, unless that is  *)
(* moved away then; what it leaves out is in younger buckets.              *)
PreparedAt(P, l, i, t) ==
    /\ l < t + levelHalf(i - 1)
    /\ t % levelHalf(i - 1) = 0
    /\ P[i].next = liveInputs(IF levelShouldSpill(t + levelHalf(i - 1), i)
                              THEN EmptyBucket ELSE P[i].curr,
                              P[i - 1].snap, P[i].next.shadows, i < Last)
    /\ \A s \in P[i].next.shadows : \A k \in DOMAIN s : Newer(P, i, k)

Pending(P, l, i) ==
    \/ P[i].next = NoNext /\ P[i - 1].snap = EmptyBucket
    \/ \E t \in 0..l : PreparedAt(P, l, i, t)

Prepared(P, l) ==
    /\ P[Last].snap = EmptyBucket
    /\ \A i \in Level \ {0} : Pending(P, l, i)

(* A value comes to curr of level i, or is DEAD and expires at the last.   *)
Arrives(N, i, k, v) ==
    \/ InCurr(N, i, k) /\ N[i].curr[k] = v
    \/ i = Last /\ v = DEAD /\ ~InCurr(N, i, k)

EntersCurr(P, N, l, i, k) ==
    /\ InCurr(N, i, k) =>
            \/ InSnap(P, i - 1, k)
            \/ ~levelShouldSpill(l, i) /\ InCurr(P, i, k)
    /\ ~Newer(P, i, k) /\ InSnap(P, i - 1, k) => Arrives(N, i, k, P[i - 1].snap[k])
    /\ (~Newer(P, i, k) /\ ~InSnap(P, i - 1, k) /\ ~levelShouldSpill(l, i)
            /\ InCurr(P, i, k)) => Arrives(N, i, k, P[i].curr[k])

FirstMoves(P, N, l, batch) ==
    \A k : /\ InCurr(N, 0, k) <=> \/ k \in DOMAIN batch
                                  \/ ~levelShouldSpill(l, 0) /\ InCurr(P, 0, k)
           /\ k \in DOMAIN batch => N[0].curr[k] = batch[k]
           /\ k \notin DOMAIN batch /\ InCurr(N, 0, k) => N[0].curr[k] = P[0].curr[k]

Moves(P, N, l, batch) ==
    /\ FirstMoves(P, N, l, batch)
    /\ \A i \in Level :
            N[i].snap = IF levelShouldSpill(l, i) THEN P[i].curr ELSE P[i].snap
    /\ \A i \in Level \ {0} :
            /\ ~levelShouldSpill(l, i - 1) =>
                    N[i] = P[i] /\ ~levelShouldSpill(l, i)
            /\ levelShouldSpill(l, i - 1) => \A k : EntersCurr(P, N, l, i, k)

LEMMA EmptyDomain == DOMAIN EmptyBucket = {}
  BY DEF EmptyBucket

(* What a merge m of a and b has for the key k.                            *)
Keeps(m, a, b, sh, keep, k) ==
    /\ k \in DOMAIN m => k \in DOMAIN a \/ k \in DOMAIN b
    /\ k \in DOMAIN b /\ (\A s \in sh : k \notin DOMAIN s) =>
            \/ k \in DOMAIN m /\ m[k] = b[k]
            \/ ~keep /\ b[k] = DEAD /\ k \notin DOMAIN m
    /\ (k \in DOMAIN a /\ k \notin DOMAIN b /\ \A s \in sh : k \notin DOMAIN s) =>
            \/ k \in DOMAIN m /\ m[k] = a[k]
            \/ ~keep /\ a[k] = DEAD /\ k \notin DOMAIN m

LEMMA MergeKeys ==
    ASSUME NEW a, NEW b, NEW sh, NEW keep \in BOOLEAN, NEW k
    PROVE  Keeps(merge(a, b, sh, keep), a, b, sh, keep, k)
  <1> DEFINE m == merge(a, b, sh, keep)
             latest(x) == IF x \in DOMAIN b THEN b[x] ELSE a[x]
             kept == {x \in DOMAIN a \cup DOMAIN b :
                        /\ \A s \in sh : x \notin DOMAIN s
                        /\ keep \/ latest(x) # DEAD}
  <1>1. m = [x \in kept |-> latest(x)]
    BY Zenon DEF merge
  <1> HIDE DEF m
  <1>2. k \in kept <=> /\ k \in DOMAIN a \/ k \in DOMAIN b
                       /\ \A s \in sh : k \notin DOMAIN s
                       /\ keep \/ latest(k) # DEAD
    BY Zenon
  <1>3. /\ k \in DOMAIN b => latest(k) = b[k]
        /\ k \notin DOMAIN b => latest(k) = a[k]
    BY Zenon
  <1> HIDE DEF kept, latest
  <1>4. DOMAIN m = kept /\ (k \in kept => m[k] = latest(k))
    BY <1>1, Zenon
  <1>5. Keeps(m, a, b, sh, keep, k)
    BY <1>2, <1>3, <1>4 DEF Keeps
  <1> QED
    BY <1>5, Zenon DEF m

LEMMA SpilledParts ==
    ASSUME NEW L, NEW l, NEW i \in Level, IsLevel(L[i])
    PROVE  /\ spilled(L, l, i).snap = IF levelShouldSpill(l, i) THEN L[i].curr ELSE L[i].snap
           /\ spilled(L, l, i).curr = IF levelShouldSpill(l, i) THEN EmptyBucket ELSE L[i].curr
  BY Zenon DEF spilled, IsLevel

LEMMA FirstLevelMoves ==
    ASSUME NEW P, NEW l, NEW batch, IsList(P)
    PROVE  /\ FirstMoves(P, addBatch(P, l, batch), l, batch)
           /\ addBatch(P, l, batch)[0].snap =
                IF levelShouldSpill(l, 0) THEN P[0].curr ELSE P[0].snap
  <1> DEFINE N == addBatch(P, l, batch)
             s == spilled(P, l, 0)
             q == prepare(s, l, 0, batch, {})
  <1>1. 0 \in Level /\ IsLevel(P[0])
    BY LevelFacts DEF IsList
  <1>2. N[0] = commit(q)
    BY <1>1 DEF addBatch, newLevel
  <1>3. /\ IsLevel(s)
        /\ s.snap = IF levelShouldSpill(l, 0) THEN P[0].curr ELSE P[0].snap
        /\ s.curr = IF levelShouldSpill(l, 0) THEN EmptyBucket ELSE P[0].curr
    BY <1>1, SpilledLevel, SpilledParts, Zenon
  <1> HIDE DEF s
  <1>4. q = [s EXCEPT !.next = liveInputs(s.curr, batch, {}, 0 < Last)]
    BY DEF prepare
  <1>5. /\ IsLevel(q) /\ q.curr = s.curr /\ q.snap = s.snap
        /\ q.next = liveInputs(s.curr, batch, {}, 0 < Last)
    <2> HIDE DEF q
    <2> QED
      BY <1>3, <1>4, Zenon DEF IsLevel
  <1> HIDE DEF q
  <1>6. isLive(q.next) /\ resolve(q.next) = merge(s.curr, batch, {}, 0 < Last)
    BY <1>5, LiveInputs
  <1>7. commit(q).curr = merge(s.curr, batch, {}, 0 < Last) /\ commit(q).snap = s.snap
    BY <1>5, <1>6, CommittedLevel
  <1>8. (0 < Last) = TRUE
    BY LevelFacts
  <1>9. N[0].curr = merge(s.curr, batch, {}, TRUE) /\ N[0].snap = s.snap
    BY <1>2, <1>7, <1>8, Zenon
  <1> HIDE DEF N
  <1>10. ASSUME NEW k
         PROVE  /\ InCurr(N, 0, k) <=> k \in DOMAIN batch \/ k \in DOMAIN s.curr
                /\ k \in DOMAIN batch => N[0].curr[k] = batch[k]
                /\ k \notin DOMAIN batch /\ InCurr(N, 0, k) => N[0].curr[k] = s.curr[k]
    <2>1. Keeps(N[0].curr, s.curr, batch, {}, TRUE, k)
      BY <1>9, MergeKeys, Zenon
    <2> QED
      BY <2>1 DEF Keeps, InCurr
  <1>11. FirstMoves(P, N, l, batch)
    <2>1. ASSUME NEW k
          PROVE  k \in DOMAIN s.curr <=> ~levelShouldSpill(l, 0) /\ InCurr(P, 0, k)
      BY <1>3, EmptyDomain, Zenon DEF InCurr
    <2>2. ASSUME NEW k, k \in DOMAIN s.curr
          PROVE  s.curr = P[0].curr
      BY <1>3, <2>1, <2>2, Zenon
    <2> QED
      BY <1>10, <2>1, <2>2 DEF FirstMoves
  <1> QED
    BY <1>3, <1>9, <1>11, Zenon DEF N

(* The merge that level i takes when level i - 1 spills.                   *)
LEMMA TakenMerge ==
    ASSUME NEW P, NEW l \in Nat, NEW batch, IsList(P), NEW i \in Level, i # 0,
           levelShouldSpill(l + 1, i - 1), Pending(P, l, i),
           NEW r, MergedInto(P, l + 1, i, r)
    PROVE  \/ /\ r.curr = spilled(P, l + 1, i).curr
              /\ P[i - 1].snap = EmptyBucket
           \/ \E sh : /\ r.curr = merge(spilled(P, l + 1, i).curr,
                                        P[i - 1].snap, sh, i < Last)
                      /\ \A s \in sh : \A k \in DOMAIN s : Newer(P, i, k)
  <1> DEFINE h == levelHalf(i - 1)
             c == spilled(P, l + 1, i).curr
  <1>1. /\ i - 1 \in Level /\ i - 1 \in Nat /\ h \in Nat \ {0}
    BY Halves, LevelsAssumption DEF Level
  <1>2. (l + 1) % h = 0
    BY <1>1, Spills
  <1>3. CASE P[i].next = NoNext /\ P[i - 1].snap = EmptyBucket
    BY <1>3, NoNextFacts, Zenon DEF MergedInto
  <1>4. CASE \E t \in 0..l :
                /\ l < t + h
                /\ t % h = 0
                /\ P[i].next = liveInputs(IF levelShouldSpill(t + h, i)
                                          THEN EmptyBucket ELSE P[i].curr,
                                          P[i - 1].snap, P[i].next.shadows, i < Last)
                /\ \A s \in P[i].next.shadows : \A k \in DOMAIN s : Newer(P, i, k)
    <2>1. PICK t \in 0..l :
                /\ l < t + h
                /\ t % h = 0
                /\ P[i].next = liveInputs(IF levelShouldSpill(t + h, i)
                                          THEN EmptyBucket ELSE P[i].curr,
                                          P[i - 1].snap, P[i].next.shadows, i < Last)
                /\ \A s \in P[i].next.shadows : \A k \in DOMAIN s : Newer(P, i, k)
      BY <1>4, Zenon
    <2> HIDE DEF h
    <2>2. l + 1 = t + h
      <3>1. t \in Nat /\ l + 1 \in Nat /\ t < l + 1 /\ l + 1 <= t + h
        BY <1>1, <2>1
      <3> QED
        BY <1>1, <1>2, <2>1, <3>1, NextMultiple, Zenon
    <2>3. c = IF levelShouldSpill(t + h, i) THEN EmptyBucket ELSE P[i].curr
      BY <2>2, SpilledParts, Zenon DEF IsList
    <2> HIDE DEF c
    <2> DEFINE sh == P[i].next.shadows
               n == liveInputs(c, P[i - 1].snap, sh, i < Last)
    <2>4. P[i].next = n /\ \A s \in sh : \A k \in DOMAIN s : Newer(P, i, k)
      BY <2>1, <2>3, Zenon
    <2> HIDE DEF sh
    <2>5. isLive(n) /\ resolve(n) = merge(c, P[i - 1].snap, sh, i < Last)
      BY LiveInputs
    <2> HIDE DEF n
    <2>6. r.curr = resolve(P[i].next)
      BY <2>4, <2>5, Zenon DEF MergedInto
    <2>7. r.curr = merge(c, P[i - 1].snap, sh, i < Last)
      BY <2>4, <2>5, <2>6, Zenon
    <2> QED
      BY <2>4, <2>7, Zenon DEF c
  <1> QED
    BY <1>3, <1>4, Zenon DEF Pending, PreparedAt

LEMMA TakenMoves ==
    ASSUME NEW P, NEW N, NEW l \in Nat, NEW batch, IsList(P), NEW i \in Level,
           i # 0, levelShouldSpill(l + 1, i - 1), Pending(P, l, i),
           MergedInto(P, l + 1, i, N[i]), NEW k
    PROVE  EntersCurr(P, N, l + 1, i, k)
  <1> DEFINE c == spilled(P, l + 1, i).curr
             b == P[i - 1].snap
  <1>1. /\ k \in DOMAIN c <=> ~levelShouldSpill(l + 1, i) /\ InCurr(P, i, k)
        /\ k \in DOMAIN c => c = P[i].curr
    <2>1. c = IF levelShouldSpill(l + 1, i) THEN EmptyBucket ELSE P[i].curr
      BY SpilledParts, Zenon DEF IsList
    <2> HIDE DEF c
    <2> QED
      BY <2>1, EmptyDomain, Zenon DEF InCurr
  <1>2. \/ N[i].curr = c /\ b = EmptyBucket
        \/ \E sh : /\ N[i].curr = merge(c, b, sh, i < Last)
                   /\ \A s \in sh : \A x \in DOMAIN s : Newer(P, i, x)
    BY TakenMerge, Zenon
  <1>3. k \in DOMAIN b <=> InSnap(P, i - 1, k)
    BY Zenon DEF InSnap
  <1> DEFINE G == /\ InCurr(N, i, k) => k \in DOMAIN b \/ k \in DOMAIN c
                  /\ ~Newer(P, i, k) /\ k \in DOMAIN b => Arrives(N, i, k, b[k])
                  /\ ~Newer(P, i, k) /\ k \notin DOMAIN b /\ k \in DOMAIN c =>
                        Arrives(N, i, k, c[k])
  <1>4. G
    <2> HIDE DEF b, c
    <2>1. CASE N[i].curr = c /\ b = EmptyBucket
      BY <2>1, EmptyDomain, Zenon DEF InCurr, Arrives
    <2>2. ASSUME NEW sh, N[i].curr = merge(c, b, sh, i < Last),
                 \A s \in sh : \A x \in DOMAIN s : Newer(P, i, x)
          PROVE  G
      <3> DEFINE m == N[i].curr
                 keep == i < Last
      <3>1. Keeps(m, c, b, sh, keep, k)
        <4>1. keep \in BOOLEAN
          OBVIOUS
        <4> QED
          BY <2>2, <4>1, MergeKeys, Zenon
      <3>2. ~keep => i = Last
        BY LevelsAssumption DEF Level, Last
      <3>3. ~Newer(P, i, k) => \A s \in sh : k \notin DOMAIN s
        BY <2>2, Zenon
      <3> HIDE DEF keep
      <3> QED
        BY <3>1, <3>2, <3>3, Zenon DEF Keeps, InCurr, Arrives
    <2> HIDE DEF G
    <2> QED
      BY <1>2, <2>1, <2>2, Zenon
  <1> HIDE DEF c
  <1> QED
    BY <1>1, <1>3, <1>4, Zenon DEF EntersCurr

LEMMA AddBatchMoves ==
    ASSUME NEW P, NEW l \in Nat, NEW batch, IsList(P), Prepared(P, l)
    PROVE  Moves(P, addBatch(P, l + 1, batch), l + 1, batch)
  <1> DEFINE N == addBatch(P, l + 1, batch)
  <1>1. /\ FirstMoves(P, N, l + 1, batch)
        /\ N[0].snap = IF levelShouldSpill(l + 1, 0) THEN P[0].curr ELSE P[0].snap
    BY FirstLevelMoves, Zenon
  <1>2. ASSUME NEW i \in Level, i # 0
        PROVE  /\ N[i] = newLevel(P, l + 1, i, batch)
               /\ IsLevel(P[i]) /\ Pending(P, l, i)
               /\ levelShouldSpill(l + 1, i) => levelShouldSpill(l + 1, i - 1)
    BY <1>2, SpillsTogether DEF addBatch, IsList, Prepared
  <1> HIDE DEF N
  <1>3. ASSUME NEW i \in Level, i # 0, ~levelShouldSpill(l + 1, i - 1)
        PROVE  N[i] = P[i] /\ ~levelShouldSpill(l + 1, i)
    <2>1. N[i] = spilled(P, l + 1, i)
      BY <1>2, <1>3, NotSpilledInto, Zenon
    <2> QED
      BY <1>2, <1>3, <2>1, SpilledLevel, Zenon
  <1>4. ASSUME NEW i \in Level, i # 0, levelShouldSpill(l + 1, i - 1)
        PROVE  MergedInto(P, l + 1, i, N[i])
    BY <1>2, <1>4, SpilledInto, Zenon
  <1>5. ASSUME NEW i \in Level
        PROVE  N[i].snap = IF levelShouldSpill(l + 1, i) THEN P[i].curr ELSE P[i].snap
    <2>1. CASE i = 0
      BY <1>1, <2>1, Zenon
    <2>2. CASE i # 0 /\ ~levelShouldSpill(l + 1, i - 1)
      BY <1>3, <2>2, Zenon
    <2>3. CASE i # 0 /\ levelShouldSpill(l + 1, i - 1)
      <3>1. N[i].snap = spilled(P, l + 1, i).snap
        BY <1>4, <2>3, Zenon DEF MergedInto
      <3> QED
        BY <1>2, <2>3, <3>1, SpilledParts, Zenon
    <2> QED
      BY <2>1, <2>2, <2>3, Zenon
  <1>6. ASSUME NEW i \in Level, i # 0, levelShouldSpill(l + 1, i - 1), NEW k
        PROVE  EntersCurr(P, N, l + 1, i, k)
    BY <1>2, <1>4, <1>6, TakenMoves, Zenon
  <1>7. Moves(P, N, l + 1, batch)
    BY <1>1, <1>3, <1>5, <1>6, Zenon DEF Moves
  <1> QED
    BY <1>7, Zenon DEF N

-----------------------------------------------------------------------------
(* The youngest bucket that holds a key moves as its level spills, and the *)
(* value with it.                                                          *)

CurrGoes(P, N, l, j, k) ==
    \/ /\ levelShouldSpill(l, j)
       /\ FirstInSnap(N, j, k) /\ N[j].snap[k] = P[j].curr[k]
    \/ /\ ~levelShouldSpill(l, j)
       /\ FirstInCurr(N, j, k) /\ N[j].curr[k] = P[j].curr[k]
    \/ j = Last /\ P[j].curr[k] = DEAD /\ Nowhere(N, k)

SnapGoes(P, N, l, j, k) ==
    \/ FirstInSnap(N, j, k) /\ N[j].snap[k] = P[j].snap[k]
    \/ /\ j + 1 \in Level
       /\ FirstInCurr(N, j + 1, k) /\ N[j + 1].curr[k] = P[j].snap[k]
    \/ j + 1 = Last /\ P[j].snap[k] = DEAD /\ Nowhere(N, k)

LEMMA Origins ==
    ASSUME NEW P, NEW N, NEW l, NEW batch, Moves(P, N, l, batch), NEW i \in Level,
           NEW k, k \notin DOMAIN batch
    PROVE  /\ InSnap(N, i, k) => InCurr(P, i, k) \/ InSnap(P, i, k)
           /\ InCurr(N, i, k) => InCurr(P, i, k) \/ (i # 0 /\ InSnap(P, i - 1, k))
  <1>1. InSnap(N, i, k) => InCurr(P, i, k) \/ InSnap(P, i, k)
    BY Zenon DEF Moves, InSnap, InCurr
  <1>2. CASE i = 0
    BY <1>1, <1>2, Zenon DEF Moves, FirstMoves
  <1>3. CASE i # 0 /\ ~levelShouldSpill(l, i - 1)
    <2>1. N[i] = P[i]
      BY <1>3, Zenon DEF Moves
    <2> QED
      BY <1>1, <2>1, Zenon DEF InCurr
  <1>4. CASE i # 0 /\ levelShouldSpill(l, i - 1)
    <2>1. EntersCurr(P, N, l, i, k)
      BY <1>4, Zenon DEF Moves
    <2> QED
      BY <1>1, <1>4, <2>1, Zenon DEF EntersCurr
  <1> QED
    BY <1>2, <1>3, <1>4, Zenon

LEMMA NotHeldBefore ==
    ASSUME NEW P, NEW N, NEW l, NEW batch, Moves(P, N, l, batch), NEW j \in Level,
           NEW k, k \notin DOMAIN batch, ~HeldBefore(P, j, k)
    PROVE  /\ ~HeldBefore(N, j, k)
           /\ ~InCurr(P, j, k) => ~InCurr(N, j, k)
  <1>1. ASSUME NEW x \in Level, x <= j, x # 0, InSnap(P, x - 1, k)
        PROVE  FALSE
    <2>1. x - 1 \in Level /\ x - 1 < j
      BY <1>1, LevelsAssumption DEF Level
    <2> QED
      BY <1>1, <2>1, Zenon DEF HeldBefore
  <1>2. ~InCurr(P, j, k) => ~InCurr(N, j, k)
    <2>1. j <= j
      BY LevelFacts
    <2> QED
      BY <1>1, <2>1, Origins, Zenon
  <1>3. ASSUME NEW x \in Level, x < j
        PROVE  ~InCurr(N, x, k) /\ ~InSnap(N, x, k)
    <2>1. ~InCurr(P, x, k) /\ ~InSnap(P, x, k)
      BY <1>3, Zenon DEF HeldBefore
    <2>2. x <= j
      BY <1>3, LevelFacts
    <2> QED
      BY <1>1, <2>1, <2>2, Origins, Zenon
  <1> QED
    BY <1>2, <1>3, Zenon DEF HeldBefore

LEMMA NowhereAtLast ==
    ASSUME NEW N, NEW k, ~HeldBefore(N, Last, k), ~InCurr(N, Last, k),
           N[Last].snap = EmptyBucket
    PROVE  Nowhere(N, k)
  <1>1. ~InSnap(N, Last, k)
    BY EmptyDomain, Zenon DEF InSnap
  <1>2. \A j \in Level : j = Last \/ j < Last
    BY LevelsAssumption DEF Level, Last
  <1> QED
    BY <1>1, <1>2, Zenon DEF Nowhere, HeldBefore

LEMMA LastSnapStays ==
    ASSUME NEW P, NEW N, NEW l, NEW batch, Moves(P, N, l, batch),
           P[Last].snap = EmptyBucket
    PROVE  N[Last].snap = EmptyBucket
  <1>1. ~levelShouldSpill(l, Last)
    BY Zenon DEF levelShouldSpill
  <1> QED
    BY <1>1, LevelFacts, Zenon DEF Moves

LEMMA NowhereFollows ==
    ASSUME NEW P, NEW N, NEW l, NEW batch, Moves(P, N, l, batch),
           NEW k, k \notin DOMAIN batch, Nowhere(P, k)
    PROVE  Nowhere(N, k)
  <1>1. \A i \in Level : i # 0 => i - 1 \in Level
    BY LevelsAssumption DEF Level
  <1> QED
    BY <1>1, Origins, Zenon DEF Nowhere

LEMMA CurrFollows ==
    ASSUME NEW P, NEW N, NEW l \in Nat, NEW batch, Moves(P, N, l, batch),
           P[Last].snap = EmptyBucket,
           NEW j \in Level, NEW k, k \notin DOMAIN batch, FirstInCurr(P, j, k)
    PROVE  CurrGoes(P, N, l, j, k)
  <1>1. InCurr(P, j, k) /\ ~HeldBefore(P, j, k)
    BY Zenon DEF FirstInCurr
  <1>2. ~HeldBefore(N, j, k)
    BY <1>1, NotHeldBefore, Zenon
  <1>3. j # 0 => j - 1 \in Level /\ j - 1 < j
    BY LevelsAssumption DEF Level
  <1>4. j # 0 => ~InSnap(P, j - 1, k) /\ ~Newer(P, j, k)
    <2>1. SUFFICES ASSUME j # 0
                   PROVE  ~InSnap(P, j - 1, k) /\ ~Newer(P, j, k)
      OBVIOUS
    <2>2. ~HeldBefore(P, j - 1, k)
      <3>1. \A x \in Level : x < j - 1 => x < j
        BY LevelsAssumption DEF Level
      <3> QED
        BY <1>1, <3>1, Zenon DEF HeldBefore
    <2> QED
      BY <1>1, <1>3, <2>1, <2>2, Zenon DEF HeldBefore, Newer
  <1>5. CASE levelShouldSpill(l, j)
    <2>1. N[j].snap = P[j].curr
      BY <1>5, Zenon DEF Moves
    <2>2. ~InCurr(N, j, k)
      <3>1. CASE j = 0
        BY <1>5, <3>1, Zenon DEF Moves, FirstMoves
      <3>2. CASE j # 0
        <4>1. levelShouldSpill(l, j - 1)
          BY <1>5, <3>2, SpillsTogether, Zenon
        <4>2. EntersCurr(P, N, l, j, k)
          BY <3>2, <4>1, Zenon DEF Moves
        <4> QED
          BY <1>4, <1>5, <3>2, <4>2, Zenon DEF EntersCurr
      <3> QED
        BY <3>1, <3>2, Zenon
    <2> QED
      BY <1>1, <1>2, <1>5, <2>1, <2>2, Zenon DEF CurrGoes, FirstInSnap, InSnap, InCurr
  <1>6. CASE ~levelShouldSpill(l, j)
    <2>1. Arrives(N, j, k, P[j].curr[k])
      <3>1. CASE j = 0
        BY <1>1, <1>6, <3>1, Zenon DEF Moves, FirstMoves, Arrives
      <3>2. CASE j # 0 /\ ~levelShouldSpill(l, j - 1)
        <4>1. N[j] = P[j]
          BY <3>2, Zenon DEF Moves
        <4> QED
          BY <1>1, <4>1, Zenon DEF Arrives, InCurr
      <3>3. CASE j # 0 /\ levelShouldSpill(l, j - 1)
        <4>1. EntersCurr(P, N, l, j, k)
          BY <3>3, Zenon DEF Moves
        <4> QED
          BY <1>1, <1>4, <1>6, <3>3, <4>1, Zenon DEF EntersCurr
      <3> QED
        BY <3>1, <3>2, <3>3, Zenon
    <2>2. CASE InCurr(N, j, k) /\ N[j].curr[k] = P[j].curr[k]
      BY <1>2, <1>6, <2>2, Zenon DEF CurrGoes, FirstInCurr
    <2>3. CASE j = Last /\ P[j].curr[k] = DEAD /\ ~InCurr(N, j, k)
      <3>1. Nowhere(N, k)
        BY <1>2, <2>3, NowhereAtLast, LastSnapStays, Zenon
      <3> QED
        BY <2>3, <3>1, Zenon DEF CurrGoes
    <2> QED
      BY <2>1, <2>2, <2>3, Zenon DEF Arrives
  <1> QED
    BY <1>5, <1>6, Zenon

LEMMA SnapFollows ==
    ASSUME NEW P, NEW N, NEW l \in Nat, NEW batch, Moves(P, N, l, batch),
           P[Last].snap = EmptyBucket,
           NEW j \in Level, NEW k, k \notin DOMAIN batch, FirstInSnap(P, j, k)
    PROVE  SnapGoes(P, N, l, j, k)
  <1>1. InSnap(P, j, k) /\ ~InCurr(P, j, k) /\ ~HeldBefore(P, j, k)
    BY Zenon DEF FirstInSnap
  <1>2. ~HeldBefore(N, j, k) /\ ~InCurr(N, j, k)
    BY <1>1, NotHeldBefore, Zenon
  <1>3. j # Last
    BY <1>1, EmptyDomain, Zenon DEF InSnap
  <1>4. j + 1 \in Level /\ j + 1 # 0 /\ (j + 1) - 1 = j
    BY <1>3, LevelsAssumption DEF Level, Last
  <1>5. CASE ~levelShouldSpill(l, j)
    <2>1. N[j].snap = P[j].snap
      BY <1>5, Zenon DEF Moves
    <2> QED
      BY <1>1, <1>2, <2>1, Zenon DEF SnapGoes, FirstInSnap, InSnap
  <1>6. CASE levelShouldSpill(l, j)
    <2>1. N[j].snap = P[j].curr
      BY <1>6, Zenon DEF Moves
    <2>2. ~InSnap(N, j, k)
      BY <1>1, <2>1, Zenon DEF InSnap, InCurr
    <2>3. ~HeldBefore(N, j + 1, k)
      <3>1. \A x \in Level : x < j + 1 => x < j \/ x = j
        BY LevelsAssumption DEF Level
      <3> QED
        BY <1>2, <2>2, <3>1, Zenon DEF HeldBefore
    <2>4. EntersCurr(P, N, l, j + 1, k)
      BY <1>4, <1>6, Zenon DEF Moves
    <2>5. ~Newer(P, j + 1, k)
      BY <1>1, <1>4, Zenon DEF Newer
    <2>6. Arrives(N, j + 1, k, P[j].snap[k])
      BY <1>1, <1>4, <2>4, <2>5, Zenon DEF EntersCurr
    <2>7. CASE InCurr(N, j + 1, k) /\ N[j + 1].curr[k] = P[j].snap[k]
      BY <1>4, <2>3, <2>7, Zenon DEF SnapGoes, FirstInCurr
    <2>8. CASE j + 1 = Last /\ P[j].snap[k] = DEAD /\ ~InCurr(N, j + 1, k)
      <3>1. Nowhere(N, k)
        BY <2>3, <2>8, NowhereAtLast, LastSnapStays, Zenon
      <3> QED
        BY <2>8, <3>1, Zenon DEF SnapGoes
    <2> QED
      BY <2>6, <2>7, <2>8, Zenon DEF Arrives
  <1> QED
    BY <1>5, <1>6, Zenon

(* The value that is applied changes only for the keys of the batch.       *)
LEMMA ValueFollows ==
    ASSUME NEW P, NEW N, NEW l \in Nat, NEW batch, Moves(P, N, l, batch),
           P[Last].snap = EmptyBucket, NEW k
    PROVE  ValueOf(N, k) = IF k \in DOMAIN batch THEN batch[k] ELSE ValueOf(P, k)
  <1>1. CASE k \in DOMAIN batch
    <2>1. InCurr(N, 0, k) /\ N[0].curr[k] = batch[k]
      BY <1>1, Zenon DEF Moves, FirstMoves
    <2>2. ~HeldBefore(N, 0, k)
      <3>1. \A x \in Level : ~(x < 0)
        BY LevelFacts
      <3> QED
        BY <3>1, Zenon DEF HeldBefore
    <2>3. FirstInCurr(N, 0, k)
      BY <2>1, <2>2, Zenon DEF FirstInCurr
    <2>4. ValueOf(N, k) = N[0].curr[k]
      BY <2>3, FirstValue, LevelFacts, Zenon
    <2> QED
      BY <1>1, <2>1, <2>4, Zenon
  <1>2. CASE k \notin DOMAIN batch
    <2>1. ASSUME Nowhere(P, k)
          PROVE  ValueOf(N, k) = ValueOf(P, k)
      BY <1>2, <2>1, NowhereFollows, NowhereValue, Zenon
    <2>2. ASSUME NEW j \in Level, FirstInCurr(P, j, k)
          PROVE  ValueOf(N, k) = ValueOf(P, k)
      <3>1. CurrGoes(P, N, l, j, k) /\ ValueOf(P, k) = P[j].curr[k]
        BY <1>2, <2>2, CurrFollows, FirstValue, Zenon
      <3> QED
        BY <3>1, FirstValue, NowhereValue, Zenon DEF CurrGoes
    <2>3. ASSUME NEW j \in Level, FirstInSnap(P, j, k)
          PROVE  ValueOf(N, k) = ValueOf(P, k)
      <3>1. SnapGoes(P, N, l, j, k) /\ ValueOf(P, k) = P[j].snap[k]
        BY <1>2, <2>3, SnapFollows, FirstValue, Zenon
      <3> QED
        BY <3>1, FirstValue, NowhereValue, Zenon DEF SnapGoes
    <2>4. ValueOf(N, k) = ValueOf(P, k)
      BY <2>1, <2>2, <2>3, FirstHolder, Zenon
    <2> QED
      BY <1>2, <2>4, Zenon
  <1> QED
    BY <1>1, <1>2, Zenon

(* What a merge left out stays in younger buckets until it is taken.       *)
LEMMA NewerFollows ==
    ASSUME NEW P, NEW N, NEW l \in Nat, NEW batch, Moves(P, N, l, batch),
           P[Last].snap = EmptyBucket, NEW i \in Level, i # 0, NEW k,
           \/ HeldBefore(P, i - 1, k)
           \/ InCurr(P, i - 1, k) /\ ~levelShouldSpill(l, i - 1)
    PROVE  Newer(N, i, k)
  <1>0. i - 1 \in Level /\ i - 1 # Last
    BY LevelsAssumption DEF Level, Last
  <1>1. CASE k \in DOMAIN batch
    <2>1. InCurr(N, 0, k)
      BY <1>1, Zenon DEF Moves, FirstMoves
    <2>2. i - 1 = 0 \/ 0 < i - 1
      BY <1>0, LevelFacts
    <2> QED
      BY <2>1, <2>2, LevelFacts, Zenon DEF Newer, HeldBefore
  <1>2. CASE k \notin DOMAIN batch
    <2>1. ~Nowhere(P, k)
      BY <1>0, Zenon DEF Nowhere, HeldBefore
    <2>2. ASSUME NEW j \in Level, FirstInCurr(P, j, k)
          PROVE  Newer(N, i, k)
      <3>1. CurrGoes(P, N, l, j, k)
        BY <1>2, <2>2, CurrFollows, Zenon
      <3>2. j <= i - 1
        <4>1. ~(i - 1 < j)
          <5>1. ASSUME i - 1 < j
                PROVE  FALSE
            <6>1. \A x \in Level : x < i - 1 => x < j
              BY <5>1, <1>0, LevelFacts
            <6> QED
              BY <1>0, <2>2, <5>1, <6>1, Zenon DEF FirstInCurr, HeldBefore
          <5> QED
            BY <5>1
        <4> QED
          BY <1>0, <4>1, LevelFacts
      <3>3. CASE j = i - 1
        <4>1. ~levelShouldSpill(l, j)
          BY <2>2, <3>3, Zenon DEF FirstInCurr
        <4> QED
          BY <1>0, <3>1, <3>3, <4>1, Zenon DEF CurrGoes, FirstInCurr, Newer
      <3>4. CASE j # i - 1
        <4>1. j < i - 1 /\ j # Last
          BY <1>0, <3>2, <3>4, LevelsAssumption DEF Level, Last
        <4>2. InCurr(N, j, k) \/ InSnap(N, j, k)
          BY <3>1, <4>1, Zenon DEF CurrGoes, FirstInCurr, FirstInSnap
        <4> QED
          BY <4>1, <4>2, Zenon DEF Newer, HeldBefore
      <3> QED
        BY <3>3, <3>4, Zenon
    <2>3. ASSUME NEW j \in Level, FirstInSnap(P, j, k)
          PROVE  Newer(N, i, k)
      <3>1. SnapGoes(P, N, l, j, k)
        BY <1>2, <2>3, SnapFollows, Zenon
      <3>2. j < i - 1
        <4>1. ~(i - 1 <= j)
          <5>1. ASSUME i - 1 <= j
                PROVE  FALSE
            <6>1. (\A x \in Level : x < i - 1 => x < j) /\ (i - 1 = j \/ i - 1 < j)
              BY <5>1, <1>0, LevelFacts
            <6> QED
              BY <1>0, <2>3, <5>1, <6>1, Zenon DEF FirstInSnap, HeldBefore
          <5> QED
            BY <5>1
        <4> QED
          BY <1>0, <4>1, LevelFacts
      <3>3. j + 1 # Last /\ (j + 1 < i - 1 \/ j + 1 = i - 1)
        BY <1>0, <3>2, LevelsAssumption DEF Level, Last
      <3>4. CASE InSnap(N, j, k)
        BY <3>2, <3>4, Zenon DEF Newer, HeldBefore
      <3>5. CASE j + 1 \in Level /\ InCurr(N, j + 1, k)
        BY <3>3, <3>5, Zenon DEF Newer, HeldBefore
      <3> QED
        BY <3>1, <3>3, <3>4, <3>5, Zenon DEF SnapGoes, FirstInSnap, FirstInCurr
    <2> QED
      BY <2>1, <2>2, <2>3, FirstHolder, Zenon
  <1> QED
    BY <1>1, <1>2, Zenon

LEMMA PreparedKept ==
    ASSUME NEW P, NEW l \in Nat, NEW batch, IsList(P), Prepared(P, l)
    PROVE  Prepared(addBatch(P, l + 1, batch), l + 1)
  <1> DEFINE N == addBatch(P, l + 1, batch)
  <1>1. Moves(P, N, l + 1, batch)
    BY AddBatchMoves, Zenon
  <1>2. l + 1 \in Nat /\ P[Last].snap = EmptyBucket
    BY DEF Prepared
  <1>3. \A i \in Level : N[i] = newLevel(P, l + 1, i, batch)
    BY DEF addBatch
  <1> HIDE DEF N
  <1>4. N[Last].snap = EmptyBucket
    BY <1>1, <1>2, LastSnapStays, Zenon
  <1>5. ASSUME NEW i \in Level, i # 0
        PROVE  Pending(N, l + 1, i)
    <2> DEFINE h == levelHalf(i - 1)
    <2>1. i - 1 \in Level /\ i - 1 # Last /\ i - 1 \in Nat
      BY <1>5, LevelsAssumption DEF Level, Last
    <2>2. h \in Nat \ {0}
      BY <2>1, Halves
    <2>3. N[i - 1].snap = IF levelShouldSpill(l + 1, i - 1) THEN P[i - 1].curr
                          ELSE P[i - 1].snap
      BY <1>1, <2>1, Zenon DEF Moves
    <2>4. CASE ~levelShouldSpill(l + 1, i - 1)
      <3>1. N[i] = P[i] /\ N[i - 1].snap = P[i - 1].snap
        BY <1>1, <1>5, <2>3, <2>4, Zenon DEF Moves
      <3>2. (l + 1) % h # 0
        BY <1>2, <2>1, <2>4, Spills
      <3>3. CASE P[i].next = NoNext /\ P[i - 1].snap = EmptyBucket
        BY <3>1, <3>3, Zenon DEF Pending
      <3>4. ASSUME NEW t \in 0..l, PreparedAt(P, l, i, t)
            PROVE  Pending(N, l + 1, i)
        <4>1. l < t + h /\ t % h = 0
          BY <3>4, Zenon DEF PreparedAt
        <4>2. l + 1 < t + h /\ t \in 0..(l + 1)
          <5> HIDE DEF h
          <5>1. (t + h) % h = 0
            <6>1. t \in Nat
              OBVIOUS
            <6> QED
              BY <2>2, <4>1, <6>1, MultipleAfter, Zenon
          <5> QED
            BY <2>2, <3>2, <4>1, <5>1
        <4>3. ASSUME NEW s \in P[i].next.shadows, NEW k \in DOMAIN s
              PROVE  Newer(N, i, k)
          <5>1. Newer(P, i, k)
            BY <3>4, Zenon DEF PreparedAt
          <5> QED
            BY <1>1, <1>2, <1>5, <2>4, <5>1, NewerFollows, Zenon DEF Newer
        <4>4. PreparedAt(N, l + 1, i, t)
          <5>1. P[i].next = liveInputs(IF levelShouldSpill(t + h, i)
                                       THEN EmptyBucket ELSE P[i].curr,
                                       P[i - 1].snap, P[i].next.shadows, i < Last)
            BY <3>4, Zenon DEF PreparedAt
          <5> QED
            BY <3>1, <4>1, <4>2, <4>3, <5>1, Zenon DEF PreparedAt
        <4> QED
          BY <4>2, <4>4, Zenon DEF Pending
      <3> QED
        BY <1>5, <3>3, <3>4, Zenon DEF Prepared, Pending
    <2>5. CASE levelShouldSpill(l + 1, i - 1)
      <3>1. MergedInto(P, l + 1, i, N[i])
        BY <1>3, <1>5, <2>5, SpilledInto, Zenon DEF IsList
      <3> DEFINE c == IF levelShouldSpill(l + 1 + h, i) THEN EmptyBucket
                      ELSE N[i].curr
      <3>2. N[i].next = liveInputs(c, P[i - 1].curr, shadowsOf(P, i), i < Last)
        BY <3>1, Zenon DEF MergedInto
      <3>3. N[i].next.shadows = shadowsOf(P, i)
        <4> HIDE DEF c
        <4> QED
          BY <3>2 DEF liveInputs
      <3>4. N[i - 1].snap = P[i - 1].curr
        BY <2>3, <2>5, Zenon
      <3>5. ASSUME NEW s \in shadowsOf(P, i), NEW k \in DOMAIN s
            PROVE  Newer(N, i, k)
        <4>1. PICK x \in Level : x + 2 <= i /\ s \in {P[x].curr, P[x].snap}
          BY DEF shadowsOf
        <4>2. x < i - 1
          BY <2>1, <4>1, LevelFacts
        <4>3. HeldBefore(P, i - 1, k)
          BY <4>1, <4>2, Zenon DEF HeldBefore, InCurr, InSnap
        <4> QED
          BY <1>1, <1>2, <1>5, <4>3, NewerFollows, Zenon
      <3>6. (l + 1) % h = 0 /\ l + 1 < l + 1 + h /\ l + 1 \in 0..(l + 1)
        BY <1>2, <2>1, <2>2, <2>5, Spills
      <3>7. PreparedAt(N, l + 1, i, l + 1)
        BY <3>2, <3>3, <3>4, <3>5, <3>6, Zenon DEF PreparedAt
      <3> QED
        BY <3>6, <3>7, Zenon DEF Pending
    <2> QED
      BY <2>4, <2>5, Zenon
  <1>6. Prepared(N, l + 1)
    BY <1>4, <1>5, Zenon DEF Prepared
  <1> QED
    BY <1>6, Zenon DEF N

-----------------------------------------------------------------------------
(* The list of a node that never stops holds the entries of its ledger.    *)

Kept(P, l, e, c) ==
    /\ IsList(P) /\ Prepared(P, l) /\ l \in Nat /\ c \in Nat \ {0}
    /\ DOMAIN e \subseteq Key /\ e = [k \in DOMAIN e |-> e[k]]
    /\ \A k \in DOMAIN e : e[k] # DEAD
    /\ \A k \in Key : ValueOf(P, k) = IF k \in DOMAIN e THEN e[k] ELSE DEAD

EntriesKept ==
    /\ Kept(peer, ledger, entries, changes)
    /\ Kept(stored.peer, stored.ledger, stored.entries, stored.changes)

(* The changes of a ledger, as the batch b has them.                       *)
BatchHas(b, live, v, dead, k) ==
    /\ k \in DOMAIN b <=> k \in live \/ k \in dead
    /\ k \in live => b[k] = v
    /\ k \in dead => b[k] = DEAD

LEMMA BatchKeys ==
    ASSUME NEW live, NEW dead, NEW v, NEW k, live \cap dead = {}
    PROVE  BatchHas(fresh(live, v, dead), live, v, dead, k)
  <1> DEFINE a == liveBucket(live, v)
             d == deadBucket(dead)
             b == merge(a, d, {}, TRUE)
  <1>1. /\ DOMAIN a = live /\ DOMAIN d = dead
        /\ k \in live => a[k] = v
        /\ k \in dead => d[k] = DEAD
    BY Zenon DEF liveBucket, deadBucket
  <1> HIDE DEF a, d
  <1>2. Keeps(b, a, d, {}, TRUE, k)
    BY MergeKeys, Zenon
  <1>3. fresh(live, v, dead) = b
    BY Zenon DEF fresh, a, d
  <1> HIDE DEF b
  <1>4. BatchHas(b, live, v, dead, k)
    BY <1>1, <1>2 DEF Keeps, BatchHas
  <1> QED
    BY <1>3, <1>4, Zenon

LEMMA KeptByAddBatch ==
    ASSUME NEW P, NEW l, NEW e, NEW c, Kept(P, l, e, c),
           NEW live \in SUBSET Key, NEW dead \in SUBSET Key, NEW v \in Nat \ {0},
           dead \subseteq DOMAIN e, live \cap dead = {}
    PROVE  Kept(addBatch(P, l + 1, fresh(live, v, dead)), l + 1,
                Changed(e, live, v, dead), v)
  <1> DEFINE b == fresh(live, v, dead)
             N == addBatch(P, l + 1, b)
             f == Changed(e, live, v, dead)
  <1>1. /\ IsList(P) /\ Prepared(P, l) /\ l \in Nat
        /\ DOMAIN e \subseteq Key
        /\ \A k \in DOMAIN e : e[k] # DEAD
        /\ \A k \in Key : ValueOf(P, k) = IF k \in DOMAIN e THEN e[k] ELSE DEAD
    BY Zenon DEF Kept
  <1>2. l + 1 \in Nat /\ P[Last].snap = EmptyBucket
    BY <1>1 DEF Prepared
  <1>3. /\ DOMAIN f = (DOMAIN e \cup live) \ dead
        /\ f = [k \in DOMAIN f |-> f[k]]
        /\ \A k \in DOMAIN f : f[k] = IF k \in live THEN v ELSE e[k]
    BY Zenon DEF Changed
  <1>4. ASSUME NEW k
        PROVE  /\ k \in DOMAIN b <=> k \in live \/ k \in dead
               /\ k \in live => b[k] = v
               /\ k \in dead => b[k] = DEAD
    <2>1. BatchHas(b, live, v, dead, k)
      BY BatchKeys, Zenon
    <2> QED
      BY <2>1, Zenon DEF BatchHas
  <1> HIDE DEF b
  <1>5. IsList(N) /\ Prepared(N, l + 1) /\ Moves(P, N, l + 1, b)
    BY <1>1, AddBatchShape, PreparedKept, AddBatchMoves, Zenon
  <1> HIDE DEF N, f
  <1>6. ASSUME NEW k \in Key
        PROVE  ValueOf(N, k) = IF k \in DOMAIN f THEN f[k] ELSE DEAD
    <2>1. ValueOf(N, k) = IF k \in DOMAIN b THEN b[k] ELSE ValueOf(P, k)
      BY <1>2, <1>5, ValueFollows
    <2>2. ValueOf(P, k) = IF k \in DOMAIN e THEN e[k] ELSE DEAD
      BY <1>1, Zenon
    <2>3. CASE k \in dead
      BY <1>3, <1>4, <2>1, <2>3, Zenon
    <2>4. CASE k \in live
      <3>1. k \in DOMAIN f
        BY <1>3, <2>4
      <3> QED
        BY <1>3, <1>4, <2>1, <2>4, <3>1, Zenon
    <2>5. CASE k \notin dead /\ k \notin live
      <3>1. ValueOf(N, k) = ValueOf(P, k)
        BY <1>4, <2>1, <2>5, Zenon
      <3>2. k \in DOMAIN f <=> k \in DOMAIN e
        BY <1>3, <2>5, Zenon
      <3> QED
        BY <1>3, <2>2, <2>5, <3>1, <3>2, Zenon
    <2> QED
      BY <2>3, <2>4, <2>5, Zenon
  <1>7. DOMAIN f \subseteq Key /\ \A k \in DOMAIN f : f[k] # DEAD
    BY <1>1, <1>3 DEF DEAD
  <1>8. Kept(N, l + 1, f, v)
    BY <1>2, <1>3, <1>5, <1>6, <1>7, Zenon DEF Kept
  <1> QED
    BY <1>8, Zenon DEF N, b, f

LEMMA EntriesKeptInit ==
    ASSUME Init
    PROVE  EntriesKept
  <1>1. PICK K \in SUBSET Key :
            /\ entries = [k \in K |-> 1] /\ levels = Genesis(fresh(K, 1, {}))
            /\ ledger = 1 /\ changes = 1 /\ peer = levels
            /\ stored.ledger = 1 /\ stored.entries = entries
            /\ stored.changes = 1 /\ stored.peer = levels
    BY DEF Init
  <1> DEFINE g == fresh(K, 1, {})
  <1>2. ASSUME NEW k
        PROVE  /\ k \in DOMAIN g <=> k \in K
               /\ k \in K => g[k] = 1
    <2>1. K \cap {} = {}
      OBVIOUS
    <2> QED
      BY <2>1, BatchKeys DEF BatchHas
  <1> HIDE DEF g
  <1>3. levels = Genesis(g)
    BY <1>1, Zenon DEF g
  <1>4. /\ DOMAIN levels = Level
        /\ levels[0].curr = g
        /\ \A i \in Level : /\ levels[i].next = NoNext /\ IsLevel(levels[i])
                            /\ levels[i].snap = EmptyBucket
                            /\ i # 0 => levels[i].curr = EmptyBucket
    BY <1>3, LevelFacts DEF Genesis, IsLevel
  <1>5. IsList(levels)
    BY <1>4, NoNextFacts, Zenon DEF IsList
  <1>6. Prepared(levels, 1)
    <2>1. \A i \in Level \ {0} : i - 1 \in Level
      BY LevelsAssumption DEF Level
    <2> QED
      BY <1>4, <2>1, LevelFacts, Zenon DEF Prepared, Pending
  <1>7. ASSUME NEW k \in Key
        PROVE  ValueOf(levels, k) = IF k \in K THEN 1 ELSE DEAD
    <2>1. CASE k \in K
      <3>1. InCurr(levels, 0, k) /\ levels[0].curr[k] = 1
        BY <1>2, <1>4, <2>1, Zenon DEF InCurr
      <3>2. ~HeldBefore(levels, 0, k)
        <4>1. \A x \in Level : ~(x < 0)
          BY LevelFacts
        <4> QED
          BY <4>1, Zenon DEF HeldBefore
      <3> QED
        BY <2>1, <3>1, <3>2, FirstValue, LevelFacts, Zenon DEF FirstInCurr
    <2>2. CASE k \notin K
      <3>1. Nowhere(levels, k)
        BY <1>2, <1>4, <2>2, EmptyDomain, Zenon DEF Nowhere, InCurr, InSnap
      <3> QED
        BY <2>2, <3>1, NowhereValue, Zenon
    <2> QED
      BY <2>1, <2>2, Zenon
  <1>8. /\ DOMAIN entries = K /\ entries = [k \in DOMAIN entries |-> entries[k]]
        /\ \A k \in K : entries[k] = 1
    BY <1>1, Zenon
  <1>9. 1 \in Nat /\ 1 \in Nat \ {0} /\ 1 # DEAD
    BY DEF DEAD
  <1>10. Kept(levels, 1, entries, 1)
    BY <1>5, <1>6, <1>7, <1>8, <1>9, Zenon DEF Kept
  <1> QED
    BY <1>1, <1>10, Zenon DEF EntriesKept

LEMMA EntriesKeptStep ==
    ASSUME EntriesKept, [Next]_vars
    PROVE  EntriesKept'
  <1>1. ASSUME NEW live \in SUBSET Key, NEW dead \in SUBSET Key, AddBatch(live, dead)
        PROVE  EntriesKept'
    <2>1. /\ dead \subseteq DOMAIN entries /\ live \cap dead = {}
          /\ changes' = IF live \cup dead = {} THEN changes ELSE changes + 1
          /\ entries' = Changed(entries, live, changes', dead)
          /\ ledger' = ledger + 1 /\ stored' = stored
          /\ peer' = addBatch(peer, ledger + 1, fresh(live, changes', dead))
      BY <1>1, Zenon DEF AddBatch
    <2>2. changes \in Nat \ {0}
      BY Zenon DEF EntriesKept, Kept
    <2>3. changes' \in Nat \ {0}
      BY <2>1, <2>2
    <2>4. Kept(addBatch(peer, ledger + 1, fresh(live, changes', dead)), ledger + 1,
               Changed(entries, live, changes', dead), changes')
      BY <2>1, <2>3, KeptByAddBatch, Zenon DEF EntriesKept
    <2>5. Kept(peer', ledger', entries', changes')
      BY <2>1, <2>4, Zenon
    <2> QED
      BY <2>1, <2>5, Zenon DEF EntriesKept
  <1>2. ASSUME UNCHANGED <<peer, ledger, entries, changes, stored>>
        PROVE  EntriesKept'
    BY <1>2, Zenon DEF EntriesKept
  <1>3. CASE Commit
    <2>1. /\ UNCHANGED <<peer, ledger, entries, changes>>
          /\ stored'.peer = peer /\ stored'.ledger = ledger
          /\ stored'.entries = entries /\ stored'.changes = changes
      BY <1>3 DEF Commit, list
    <2> QED
      BY <2>1, Zenon DEF EntriesKept
  <1>4. ASSUME NEW keep, Start(keep)
        PROVE  EntriesKept'
    <2>1. /\ peer' = stored.peer /\ ledger' = stored.ledger /\ stored' = stored
          /\ entries' = stored.entries /\ changes' = stored.changes
      BY <1>4, Zenon DEF Start
    <2> QED
      BY <2>1, Zenon DEF EntriesKept
  <1>5. ASSUME NEW i \in Level, MergeDone(i)
        PROVE  EntriesKept'
    BY <1>2, <1>5, Zenon DEF MergeDone
  <1>6. CASE forgetUnreferencedBuckets \/ SwitchMode \/ UNCHANGED vars
    BY <1>2, <1>6, Zenon DEF forgetUnreferencedBuckets, SwitchMode, vars, list
  <1> QED
    BY <1>1, <1>3, <1>4, <1>5, <1>6, Zenon DEF Next, Kill, Stop

LEMMA AppliedValues ==
    ASSUME NEW L, NEW e, DOMAIN e \subseteq Key, e = [k \in DOMAIN e |-> e[k]],
           \A k \in DOMAIN e : e[k] # DEAD,
           \A k \in Key : ValueOf(L, k) = IF k \in DOMAIN e THEN e[k] ELSE DEAD
    PROVE  applied(L) = e
  <1> DEFINE alive == {k \in Key : Buckets(L, k) # {} /\ Youngest(L, k) # DEAD}
  <1>1. alive = DOMAIN e
    BY Zenon DEF ValueOf
  <1>2. \A k \in DOMAIN e : Youngest(L, k) = e[k]
    BY Zenon DEF ValueOf
  <1>3. applied(L) = [k \in alive |-> Youngest(L, k)]
    BY Zenon DEF applied
  <1> HIDE DEF alive
  <1>4. [k \in alive |-> Youngest(L, k)] = [k \in DOMAIN e |-> e[k]]
    BY <1>1, <1>2
  <1> QED
    BY <1>3, <1>4, Zenon

LEMMA SameValues ==
    ASSUME NEW L, NEW P, Same(L, P), NEW k
    PROVE  ValueOf(L, k) = ValueOf(P, k)
  <1>1. \A j \in Level : /\ L[j].curr = P[j].curr /\ L[j].snap = P[j].snap
                         /\ InCurr(L, j, k) <=> InCurr(P, j, k)
                         /\ InSnap(L, j, k) <=> InSnap(P, j, k)
    BY Zenon DEF Same, SameLevel, InCurr, InSnap
  <1>2. \A j \in Level : HeldBefore(L, j, k) <=> HeldBefore(P, j, k)
    BY <1>1, Zenon DEF HeldBefore
  <1>3. ASSUME Nowhere(P, k)
        PROVE  ValueOf(L, k) = ValueOf(P, k)
    <2>1. Nowhere(L, k)
      BY <1>1, <1>3, Zenon DEF Nowhere
    <2> QED
      BY <1>3, <2>1, NowhereValue, Zenon
  <1>4. ASSUME NEW j \in Level, FirstInCurr(P, j, k)
        PROVE  ValueOf(L, k) = ValueOf(P, k)
    <2>1. FirstInCurr(L, j, k)
      BY <1>1, <1>2, <1>4, Zenon DEF FirstInCurr
    <2>2. ValueOf(L, k) = L[j].curr[k] /\ ValueOf(P, k) = P[j].curr[k]
      BY <1>4, <2>1, FirstValue, Zenon
    <2> QED
      BY <1>1, <2>2, Zenon
  <1>5. ASSUME NEW j \in Level, FirstInSnap(P, j, k)
        PROVE  ValueOf(L, k) = ValueOf(P, k)
    <2>1. FirstInSnap(L, j, k)
      BY <1>1, <1>2, <1>5, Zenon DEF FirstInSnap
    <2>2. ValueOf(L, k) = L[j].snap[k] /\ ValueOf(P, k) = P[j].snap[k]
      BY <1>5, <2>1, FirstValue, Zenon
    <2> QED
      BY <1>1, <2>2, Zenon
  <1> QED
    BY <1>3, <1>4, <1>5, FirstHolder, Zenon

(* The buckets hold the ledger: applied in the order of their age they     *)
(* give the entries of the database, for any number of levels and ledgers, *)
(* whichever merges were shadowed, taken late or restarted, as long as no  *)
(* restarted merge read mKeepDeadEntries wrong.                            *)
THEOREM BucketsHoldLedger == Spec => []DefinedLedgerKept
  <1>1. ASSUME IInv, EntriesKept
        PROVE  DefinedLedgerKept
    <2>1. SUFFICES ASSUME ~undefined
                   PROVE  applied(levels) = entries
      BY DEF DefinedLedgerKept, LedgerKept
    <2>2. Same(levels, peer)
      BY <1>1, <2>1, Zenon DEF IInv, PeersAgree
    <2>3. /\ DOMAIN entries \subseteq Key
          /\ entries = [k \in DOMAIN entries |-> entries[k]]
          /\ \A k \in DOMAIN entries : entries[k] # DEAD
          /\ \A k \in Key : ValueOf(peer, k) =
                IF k \in DOMAIN entries THEN entries[k] ELSE DEAD
      BY <1>1, Zenon DEF EntriesKept, Kept
    <2>4. \A k \in Key : ValueOf(levels, k) =
                IF k \in DOMAIN entries THEN entries[k] ELSE DEAD
      <3> TAKE k \in Key
      <3>1. ValueOf(levels, k) = ValueOf(peer, k)
        BY <2>2, SameValues, Zenon
      <3> QED
        BY <2>3, <3>1, Zenon
    <2> QED
      BY <2>3, <2>4, AppliedValues, Zenon
  <1> QED
    BY <1>1, IInvInit, IInvKept, EntriesKeptInit, EntriesKeptStep, PTL DEF Spec
=============================================================================
