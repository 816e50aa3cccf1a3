----------------------- MODULE EnvelopeFetchingProofs -----------------------
(***************************************************************************)
(* Proofs that the envelopes of the window are neither forgotten nor given *)
(* to SCP twice, for any envelopes, items, peers and window.               *)
(***************************************************************************)
EXTENDS EnvelopeFetching, TLAPS

(* What holds of an envelope of the fetching queue at every moment, also   *)
(* while an item that arrived is handled.                                  *)
Awaited(e) ==
    /\ \A i \in ItemsOf[e] \ cache : e \in waiting[i] /\ i \in timer
    /\ isFullyFetched(e) =>
           e \in dropped \/ (receiving \in Item /\ e \in waiting[receiving])

Awaiting == \A e \in fetching : inWindow(e) => Awaited(e)

(* The trackers of missing items keep asking, and the clean-ups that are   *)
(* posted stay below the window.                                           *)
Asking ==
    /\ tracked \ cache \subseteq timer
    /\ receiving \in Item => receiving \in cache
    /\ index >= StartIndex
    /\ \A n \in 1..Len(posted) : posted[n] + MaxSlots <= index + 1

(* An envelope is in one queue, and what was given is remembered as long   *)
(* as it is in the window.                                                 *)
Remembered ==
    /\ fetching \cap processed = {}
    /\ \A e \in given \cup pending : inWindow(e) => e \in processed

IInv ==
    /\ TypeOK
    /\ Asking
    /\ Awaiting
    /\ Remembered

-----------------------------------------------------------------------------
(* What tryNextPeer of the trackers S changes.                             *)
LEMMA TriedTypes ==
    ASSUME TypeOK, NEW S \in SUBSET Item, tryNextPeer(S)
    PROVE  /\ lastAsked' \in [Item -> Peer \cup {NoPeer}]
           /\ toAsk' \in [Item -> SUBSET Peer]
           /\ owed' \subseteq Item
           /\ timer' = timer \cup S
  <1>1. PICK p \in [S -> Peer \cup {NoPeer}] :
            /\ lastAsked' = [i \in Item |-> IF i \in S THEN p[i] ELSE lastAsked[i]]
            /\ toAsk' = [i \in Item |-> IF i \in S
                                        THEN (peersToAsk(i) \cap auth) \ {p[i]}
                                        ELSE toAsk[i]]
            /\ owed' = owed \cup {i \in S : p[i] = Helper}
            /\ timer' = timer \cup S
    BY ZenonT(30) DEF tryNextPeer
  <1>2. lastAsked' \in [Item -> Peer \cup {NoPeer}]
    BY <1>1 DEF TypeOK
  <1>3. toAsk' \in [Item -> SUBSET Peer]
    BY <1>1 DEF TypeOK
  <1> QED
    BY <1>1, <1>2, <1>3 DEF TypeOK

(* What the arrival of an envelope does to the queues and the trackers.    *)
LEMMA RecvTypes ==
    ASSUME TypeOK, NEW e \in Envelope, NEW w \in [Item -> SUBSET Envelope],
           recvSCPEnvelope(e, w)
    PROVE  /\ {fetching, processed, pending}' \subseteq SUBSET Envelope
           /\ tracked' \subseteq Item /\ timer' \subseteq tracked'
           /\ waiting' \in [Item -> SUBSET Envelope]
           /\ lastAsked' \in [Item -> Peer \cup {NoPeer}]
           /\ toAsk' \in [Item -> SUBSET Peer]
           /\ owed' \subseteq Item
  <1>1. CASE Complete(e, w)
    BY <1>1 DEF Complete, envelopeReady, dropObsolete, eraseBelow, TypeOK, asking
  <1>2. CASE Fetch(e, w)
    <2> DEFINE missing == ItemsOf[e] \ cache
    <2>1. missing \in SUBSET Item
      BY FetchingAssumption
    <2>2. /\ fetching' = fetching \cup {e}
          /\ tracked' = tracked \cup missing
          /\ waiting' = [i \in Item |-> IF i \in missing THEN w[i] \cup {e} ELSE w[i]]
          /\ tryNextPeer(missing \ tracked)
          /\ UNCHANGED <<processed, pending>>
      BY <1>2 DEF Fetch, startFetch
    <2>3. /\ lastAsked' \in [Item -> Peer \cup {NoPeer}]
          /\ toAsk' \in [Item -> SUBSET Peer]
          /\ owed' \subseteq Item
          /\ timer' = timer \cup (missing \ tracked)
      BY <2>1, <2>2, TriedTypes
    <2> HIDE DEF missing
    <2>4. waiting' \in [Item -> SUBSET Envelope]
      BY <2>1, <2>2
    <2> QED
      BY <2>1, <2>2, <2>3, <2>4 DEF TypeOK
  <1>3. CASE Ignore(e, w)
    BY <1>3 DEF Ignore, queues, asking, TypeOK
  <1> QED
    BY <1>1, <1>2, <1>3 DEF recvSCPEnvelope

(* Closing a slot that is later than the last one.                         *)
LEMMA ExternalizedTypes ==
    ASSUME TypeOK, NEW slot \in Nat, NEW P \in SUBSET Envelope,
           valueExternalized(slot, P)
    PROVE  /\ index' \in Nat /\ tracking' \in BOOLEAN
           /\ {fetching, processed, pending}' \subseteq SUBSET Envelope
           /\ posted' \in Seq(Nat)
  <1>1. posted' \in Seq(Nat)
    BY FetchingAssumption DEF valueExternalized, TypeOK
  <1> QED
    BY <1>1 DEF valueExternalized, stillOpen, TypeOK

LEMMA TypesKept ==
    ASSUME TypeOK, [Next]_vars
    PROVE  TypeOK'
  <1>1. ASSUME NEW e \in Envelope, ProcessQueue(e)
        PROVE  TypeOK'
    <2>1. CASE SlotOf[e] > index /\ valueExternalized(SlotOf[e], pending \ {e})
      <3>1. SlotOf[e] \in Nat /\ pending \ {e} \in SUBSET Envelope
        BY FetchingAssumption DEF TypeOK
      <3> QED
        BY <1>1, <2>1, <3>1, ExternalizedTypes
        DEF ProcessQueue, TypeOK, asking, trackers
    <2>2. CASE UNCHANGED <<index, tracking, processed, fetching, posted>>
                /\ pending' = pending \ {e}
      BY <1>1, <2>2 DEF ProcessQueue, TypeOK, asking, trackers
    <2> QED
      BY <1>1, <2>1, <2>2 DEF ProcessQueue
  <1>2. ASSUME NEW e \in Envelope, Notify(e)
        PROVE  TypeOK'
    <2>1. [waiting EXCEPT ![receiving] = @ \ {e}] \in [Item -> SUBSET Envelope]
      BY ZenonT(30) DEF TypeOK
    <2> QED
      BY <1>2, <2>1, RecvTypes, ZenonT(30) DEF Notify, TypeOK, herder
  <1>3. ASSUME NEW e \in Envelope, RecvSCPMessage(e)
        PROVE  TypeOK'
    BY <1>3, RecvTypes DEF RecvSCPMessage, TypeOK, herder
  <1>4. CASE NotifyDone
    BY <1>4 DEF NotifyDone, TypeOK, herder, queues, trackers
  <1>5. ASSUME NEW i \in Item, RecvItem(i)
        PROVE  TypeOK'
    BY <1>5 DEF RecvItem, TypeOK, herder, queues, trackers
  <1>6. ASSUME NEW i \in Item, TimerExpires(i)
        PROVE  TypeOK'
    BY <1>6, TriedTypes DEF TimerExpires, TypeOK, herder, queues, trackers
  <1>7. ASSUME NEW i \in Item, NEW p \in Peer, DoesntHave(p, i)
        PROVE  TypeOK'
    BY <1>7, TriedTypes DEF DoesntHave, TypeOK, herder, queues, trackers
  <1>8. ASSUME NEW p \in Peer, DropPeer(p)
        PROVE  TypeOK'
    BY <1>8 DEF DropPeer, TypeOK, herder, queues, trackers, asking
  <1>9. CASE Connect
    BY <1>9, FetchingAssumption
    DEF Connect, TypeOK, herder, queues, trackers, asking
  <1>10. CASE OwnExternalize
    <2>1. nextConsensusLedgerIndex \in Nat /\ pending \in SUBSET Envelope
      BY DEF TypeOK, nextConsensusLedgerIndex
    <2> QED
      BY <1>10, <2>1, ExternalizedTypes
      DEF OwnExternalize, TypeOK, asking, trackers
  <1>11. CASE herderOutOfSync
    BY <1>11, Zenon DEF herderOutOfSync, TypeOK, queues, trackers, asking
  <1>12. CASE stopFetchingBelowInternal
    BY <1>12 DEF stopFetchingBelowInternal, TypeOK, eraseBelow, herder, queues
  <1>13. CASE UNCHANGED vars
    BY <1>13 DEF vars, TypeOK, herder, queues, trackers, asking
  <1> QED
    BY <1>1, <1>2, <1>3, <1>4, <1>5, <1>6, <1>7, <1>8, <1>9, <1>10, <1>11,
       <1>12, <1>13 DEF Next

-----------------------------------------------------------------------------
(* The window only moves up, and what is in it and in the bracket is       *)
(* accepted by recvSCPEnvelope.                                            *)
LEMMA WindowMovesUp ==
    ASSUME index \in Nat, index' \in Nat, index' >= index, NEW e \in Envelope,
           inWindow(e)'
    PROVE  inWindow(e)
  BY FetchingAssumption DEF inWindow

LEMMA WindowInRange ==
    ASSUME index \in Nat, index >= StartIndex, NEW e \in Envelope, inWindow(e),
           inBracket(e)
    PROVE  inRange(e)
  BY FetchingAssumption DEF inWindow, inRange, minLedgerSeq

(* An envelope that arrives, or that is notified of the item r: only then  *)
(* it is taken from the envelopes that wait for r.                         *)
LEMMA RecvKept ==
    ASSUME IInv, NEW e \in Envelope, NEW w \in [Item -> SUBSET Envelope],
           \A i \in Item : \A f \in waiting[i] :
                f \in w[i] \/ (f = e /\ i = receiving),
           recvSCPEnvelope(e, w),
           UNCHANGED <<herder, cache, receiving, posted>>,
           dropped \subseteq dropped',
           \/ w = waiting
           \/ isFullyFetched(e) /\ ~inBracket(e) => e \in dropped'
    PROVE  Asking' /\ Awaiting' /\ Remembered'
  <1> USE DEF IInv
  <1>0. /\ index' = index /\ given' = given /\ cache' = cache
        /\ receiving' = receiving /\ posted' = posted
        /\ ItemsOf[e] \subseteq Item
    BY FetchingAssumption DEF herder
  <1>a. \A f \in Envelope : inWindow(f)' = inWindow(f)
    BY <1>0 DEF inWindow
  <1>1. CASE Complete(e, w)
    <2>1. /\ processed' = processed \cup {e}
          /\ pending' \subseteq pending \cup {e}
          /\ fetching' \subseteq fetching \ {e}
          /\ waiting' = w /\ timer' = timer /\ tracked' = tracked
      BY <1>1 DEF Complete, envelopeReady, dropObsolete, eraseBelow, asking
    <2>2. Asking'
      BY <1>0, <2>1 DEF Asking
    <2>3. Remembered'
      BY <1>0, <1>a, <2>1 DEF Remembered, TypeOK
    <2>4. ASSUME NEW f \in fetching', inWindow(f)'
          PROVE  Awaited(f)'
      <3>1. f \in fetching /\ f # e /\ inWindow(f) /\ Awaited(f)
        BY <1>a, <2>1, <2>4 DEF TypeOK, Awaiting
      <3> QED
        BY <1>0, <2>1, <3>1, FetchingAssumption DEF Awaited, isFullyFetched, TypeOK
    <2> QED
      BY <2>2, <2>3, <2>4 DEF Awaiting
  <1>2. CASE Fetch(e, w)
    <2> DEFINE missing == ItemsOf[e] \ cache
    <2>1. /\ fetching' = fetching \cup {e}
          /\ tracked' = tracked \cup missing
          /\ waiting' = [i \in Item |-> IF i \in missing THEN w[i] \cup {e} ELSE w[i]]
          /\ tryNextPeer(missing \ tracked)
          /\ processed' = processed /\ pending' = pending
          /\ e \notin fetching \cup processed
          /\ ~isFullyFetched(e)
      BY <1>2 DEF Fetch, startFetch
    <2>2. timer' = timer \cup (missing \ tracked)
      BY <1>0, <2>1, TriedTypes
    <2>3. Asking'
      BY <1>0, <2>1, <2>2 DEF Asking
    <2>4. Remembered'
      BY <1>0, <1>a, <2>1 DEF Remembered, TypeOK
    <2>5. Awaited(e)'
      BY <1>0, <2>1, <2>2 DEF Awaited, isFullyFetched, Asking
    <2>6. ASSUME NEW f \in fetching, inWindow(f)
          PROVE  Awaited(f)'
      <3>1. f # e /\ Awaited(f) /\ ItemsOf[f] \subseteq Item
        BY <2>1, <2>6, FetchingAssumption DEF TypeOK, Awaiting
      <3>2. \A i \in Item : f \in waiting[i] => f \in waiting'[i]
        BY <2>1, <3>1
      <3> QED
        BY <1>0, <2>2, <3>1, <3>2 DEF Awaited, isFullyFetched
    <2> QED
      BY <1>a, <2>1, <2>3, <2>4, <2>5, <2>6 DEF Awaiting, TypeOK
  <1>3. CASE Ignore(e, w)
    <2>1. /\ fetching' = fetching /\ processed' = processed
          /\ pending' = pending /\ waiting' = w
          /\ timer' = timer /\ tracked' = tracked
      BY <1>3 DEF Ignore, queues, asking
    <2>2. Asking' /\ Remembered'
      BY <1>0, <1>a, <2>1 DEF Asking, Remembered, TypeOK
    <2>3. ASSUME NEW f \in fetching, inWindow(f)
          PROVE  Awaited(f)'
      <3>1. Awaited(f) /\ ItemsOf[f] \subseteq Item
        BY <2>3, FetchingAssumption DEF TypeOK, Awaiting
      <3>2. f = e => ~isFullyFetched(e) \/ ~inBracket(e)
        BY <1>3, <2>3, WindowInRange DEF Ignore, Asking, Remembered, TypeOK
      <3>3. \A i \in ItemsOf[f] \ cache : f \in w[i]
        BY <3>1 DEF Awaited, Asking, TypeOK
      <3>4. isFullyFetched(f) =>
                f \in dropped' \/ (receiving \in Item /\ f \in w[receiving])
        BY <3>1, <3>2 DEF Awaited
      <3> QED
        BY <1>0, <2>1, <3>1, <3>3, <3>4 DEF Awaited, isFullyFetched
    <2> QED
      BY <1>a, <2>1, <2>2, <2>3 DEF Awaiting, TypeOK
  <1> QED
    BY <1>1, <1>2, <1>3 DEF recvSCPEnvelope

(* A step that leaves the queues and what arrived alone, and that takes    *)
(* from the trackers only what is not needed.                              *)
LEMMA TrackersKept ==
    ASSUME IInv, UNCHANGED <<index, given, cache, receiving, posted>>,
           UNCHANGED queues, UNCHANGED trackers, UNCHANGED dropped,
           timer \subseteq timer'
    PROVE  Asking' /\ Awaiting' /\ Remembered'
  BY DEF IInv, Asking, Awaiting, Awaited, Remembered, isFullyFetched, inWindow,
         queues, trackers

(* Closing a later slot.                                                   *)
LEMMA ExternalizedKept ==
    ASSUME IInv, NEW slot \in Nat, slot > index,
           NEW P \in SUBSET pending, valueExternalized(slot, P),
           given' \subseteq given \cup pending,
           UNCHANGED <<asking, trackers, cache, receiving, dropped>>
    PROVE  Asking' /\ Awaiting' /\ Remembered'
  <1> USE DEF IInv
  <1>1. /\ index' = slot /\ index \in Nat /\ index' >= index
        /\ pending' \subseteq pending
        /\ fetching' \subseteq fetching /\ processed' \subseteq processed
        /\ timer' = timer /\ tracked' = tracked /\ waiting' = waiting
        /\ cache' = cache /\ receiving' = receiving /\ dropped' = dropped
        /\ MaxSlots \in Nat
    BY FetchingAssumption
    DEF valueExternalized, stillOpen, asking, trackers, TypeOK
  <1>2. \A e \in Envelope : inWindow(e)' => inWindow(e)
    BY <1>1, WindowMovesUp
  <1>3. \A n \in 1..Len(posted') : posted'[n] + MaxSlots <= index' + 1
    <2>1. CASE slot > MaxSlots
      <3>1. posted' = Append(posted, slot - MaxSlots + 1)
        BY <2>1 DEF valueExternalized
      <3> QED
        BY <1>1, <2>1, <3>1 DEF Asking, TypeOK
    <2>2. CASE ~(slot > MaxSlots)
      <3>1. posted' = posted
        BY <2>2 DEF valueExternalized
      <3> QED
        BY <1>1, <3>1 DEF Asking, TypeOK
    <2> QED
      BY <2>1, <2>2
  <1>4. Asking'
    <2>1. index' >= StartIndex
      BY <1>1, FetchingAssumption DEF Asking
    <2> QED
      BY <1>1, <1>3, <2>1 DEF Asking
  <1>5. Awaiting'
    <2> SUFFICES ASSUME NEW e \in fetching', inWindow(e)'
                 PROVE  Awaited(e)'
      BY DEF Awaiting
    <2>1. Awaited(e)
      BY <1>1, <1>2 DEF Awaiting, TypeOK
    <2> QED
      BY <1>1, <2>1 DEF Awaited, isFullyFetched
  <1>6. Remembered'
    <2>1. fetching' \cap processed' = {}
      BY <1>1 DEF Remembered
    <2>2. ASSUME NEW e \in (given \cup pending)', inWindow(e)'
          PROVE  e \in processed'
      <3>1. e \in given \cup pending /\ e \in Envelope
        BY <1>1 DEF TypeOK
      <3>2. e \in processed
        BY <1>2, <2>2, <3>1 DEF Remembered
      <3>3. SlotOf[e] \in Nat /\ SlotOf[e] + MaxSlots > slot
        BY <1>1, <2>2, <3>1, FetchingAssumption DEF inWindow
      <3>4. slot > MaxSlots => SlotOf[e] # slot - MaxSlots
        BY <1>1, <3>3
      <3> QED
        BY <3>2, <3>4 DEF valueExternalized, stillOpen
    <2> QED
      BY <2>1, <2>2 DEF Remembered
  <1> QED
    BY <1>4, <1>5, <1>6

LEMMA IInvKept ==
    ASSUME IInv, [Next]_vars
    PROVE  IInv'
  <1> USE DEF IInv
  <1>0. TypeOK'
    BY TypesKept
  <1>1. ASSUME NEW e \in Envelope, ProcessQueue(e)
        PROVE  Asking' /\ Awaiting' /\ Remembered'
    <2>0. /\ given' = given \cup {e} /\ e \in pending
          /\ UNCHANGED <<asking, trackers, cache, receiving, dropped>>
      BY <1>1 DEF ProcessQueue, readyEnvelopes
    <2>1. CASE SlotOf[e] > index /\ valueExternalized(SlotOf[e], pending \ {e})
      <3>1. SlotOf[e] \in Nat /\ pending \ {e} \in SUBSET pending
            /\ given' \subseteq given \cup pending
        BY <2>0, FetchingAssumption
      <3> QED
        BY <2>0, <2>1, <3>1, ExternalizedKept
    <2>2. CASE UNCHANGED <<index, tracking, processed, fetching, posted>>
                /\ pending' = pending \ {e}
      BY <2>0, <2>2
      DEF Asking, Awaiting, Awaited, Remembered, isFullyFetched, inWindow,
          asking, trackers
    <2> QED
      BY <1>1, <2>1, <2>2 DEF ProcessQueue
  <1>2. ASSUME NEW e \in Envelope, Notify(e)
        PROVE  Asking' /\ Awaiting' /\ Remembered'
    <2> DEFINE w == [waiting EXCEPT ![receiving] = @ \ {e}]
    <2>1. w \in [Item -> SUBSET Envelope]
      BY Zenon DEF TypeOK
    <2>2. \A i \in Item : \A f \in waiting[i] :
                f \in w[i] \/ (f = e /\ i = receiving)
      BY DEF TypeOK
    <2>3. recvSCPEnvelope(e, w) /\ UNCHANGED <<herder, cache, receiving, posted>>
      BY <1>2 DEF Notify
    <2>4. /\ dropped \subseteq dropped'
          /\ isFullyFetched(e) /\ ~inBracket(e) => e \in dropped'
      BY <1>2 DEF Notify
    <2> HIDE DEF w
    <2> QED
      BY <2>1, <2>2, <2>3, <2>4, RecvKept
  <1>3. ASSUME NEW e \in Envelope, RecvSCPMessage(e)
        PROVE  Asking' /\ Awaiting' /\ Remembered'
    <2>1. waiting \in [Item -> SUBSET Envelope]
      BY DEF TypeOK
    <2> QED
      BY <1>3, <2>1, RecvKept DEF RecvSCPMessage
  <1>4. CASE NotifyDone
    <2>1. /\ receiving \in Item /\ receiving \in cache /\ waiting[receiving] = {}
          /\ timer' = timer \ {receiving} /\ receiving' = NoItem
          /\ NoItem \notin Item
          /\ UNCHANGED <<index, given, cache, posted, tracked, waiting, fetching,
                         processed, pending, dropped>>
      BY <1>4, FetchingAssumption
      DEF NotifyDone, Asking, TypeOK, herder, queues, trackers
    <2>2. Asking' /\ Remembered'
      BY <2>1 DEF Asking, Remembered, inWindow
    <2>3. Awaiting'
      BY <2>1 DEF Awaiting, Awaited, isFullyFetched, inWindow
    <2> QED
      BY <1>0, <2>2, <2>3
  <1>5. ASSUME NEW i \in Item, RecvItem(i)
        PROVE  Asking' /\ Awaiting' /\ Remembered'
    <2>1. /\ receiving = NoItem /\ cache' = cache \cup {i} /\ receiving' = i
          /\ NoItem \notin Item
          /\ UNCHANGED <<index, given, timer, posted, tracked, waiting, fetching,
                         processed, pending, dropped>>
      BY <1>5, FetchingAssumption
      DEF RecvItem, Idle, herder, queues, trackers
    <2>2. Asking' /\ Remembered'
      BY <2>1 DEF Asking, Remembered, inWindow
    <2>3. Awaiting'
      BY <2>1 DEF Awaiting, Awaited, isFullyFetched, inWindow
    <2> QED
      BY <2>2, <2>3
  <1>6. ASSUME NEW i \in Item, TimerExpires(i)
        PROVE  Asking' /\ Awaiting' /\ Remembered'
    BY <1>6, TriedTypes, TrackersKept DEF TimerExpires, herder
  <1>7. ASSUME NEW i \in Item, NEW p \in Peer, DoesntHave(p, i)
        PROVE  Asking' /\ Awaiting' /\ Remembered'
    BY <1>7, TriedTypes, TrackersKept DEF DoesntHave, herder
  <1>8. ASSUME NEW p \in Peer, DropPeer(p)
        PROVE  Asking' /\ Awaiting' /\ Remembered'
    BY <1>8, TrackersKept DEF DropPeer, herder, asking
  <1>9. CASE Connect
    BY <1>0, <1>9, TrackersKept DEF Connect, herder, asking
  <1>10. CASE OwnExternalize
    <2>1. /\ nextConsensusLedgerIndex \in Nat
          /\ nextConsensusLedgerIndex > index
          /\ pending \in SUBSET pending
      BY DEF TypeOK, nextConsensusLedgerIndex
    <2> QED
      BY <1>0, <1>10, <2>1, ExternalizedKept DEF OwnExternalize
  <1>11. CASE herderOutOfSync
    BY <1>0, <1>11, TrackersKept DEF herderOutOfSync, asking
  <1>12. CASE stopFetchingBelowInternal
    <2> DEFINE left(i) == eraseBelow(waiting[i], Head(posted))
               over == {i \in Item : left(i) = {}}
    <2>1. /\ posted # <<>> /\ posted' = Tail(posted)
          /\ waiting' = [i \in Item |-> left(i)]
          /\ tracked' = tracked \ over
          /\ timer' = timer \ over
          /\ UNCHANGED <<index, given, cache, receiving, fetching, processed,
                         pending, dropped>>
      BY <1>12 DEF stopFetchingBelowInternal, herder, queues
    <2>2. Head(posted) \in Nat /\ Head(posted) + MaxSlots <= index + 1
          /\ \A n \in 1..Len(posted') : posted'[n] + MaxSlots <= index + 1
      BY <2>1 DEF Asking, TypeOK
    <2>3. ASSUME NEW e \in Envelope, inWindow(e), NEW i \in Item,
                 e \in waiting[i]
          PROVE  e \in waiting'[i] /\ i \notin over
      <3>1. SlotOf[e] \in Nat /\ MaxSlots \in Nat
            /\ SlotOf[e] + MaxSlots > index
        BY <2>3, FetchingAssumption DEF inWindow
      <3>2. SlotOf[e] >= Head(posted)
        BY <2>2, <3>1 DEF TypeOK
      <3> QED
        BY <2>1, <2>3, <3>2 DEF eraseBelow
    <2>4. Remembered'
      BY <2>1 DEF Remembered, inWindow
    <2>5. Asking'
      BY <2>1, <2>2 DEF Asking
    <2> HIDE DEF left, over
    <2>6. ASSUME NEW e \in fetching, inWindow(e)
          PROVE  Awaited(e)'
      <3>1. Awaited(e) /\ e \in Envelope /\ ItemsOf[e] \subseteq Item
        BY <2>6, FetchingAssumption DEF Awaiting, TypeOK
      <3> QED
        BY <2>1, <2>3, <2>6, <3>1 DEF Awaited, isFullyFetched
    <2> QED
      BY <1>0, <2>1, <2>4, <2>5, <2>6 DEF Awaiting, inWindow
  <1>13. CASE UNCHANGED vars
    BY <1>0, <1>13, TrackersKept DEF vars, herder, asking
  <1> QED
    BY <1>0, <1>1, <1>2, <1>3, <1>4, <1>5, <1>6, <1>7, <1>8, <1>9, <1>10,
       <1>11, <1>12, <1>13 DEF Next

LEMMA IInvInit ==
    ASSUME Init
    PROVE  IInv
  <1>1. TypeOK
    BY FetchingAssumption DEF Init, TypeOK
  <1>2. Asking
    BY FetchingAssumption DEF Init, Asking
  <1> QED
    BY <1>1, <1>2 DEF Init, IInv, Awaiting, Remembered

-----------------------------------------------------------------------------
(* PendingEnvelopes and ItemFetcher never forget an envelope of the        *)
(* window, whatever its slot: its missing items have trackers that ask for *)
(* them and will notify it, and when it has them all it is handed on       *)
(* unless HerderImpl::recvSCPEnvelope then finds it beyond the bracket.    *)
THEOREM NeverForgotten == Spec => []NobodyForgotten
  <1>1. IInv => NobodyForgotten
    BY FetchingAssumption
    DEF IInv, NobodyForgotten, Awaiting, Awaited, Idle
  <1> QED
    BY <1>1, IInvInit, IInvKept, PTL DEF Spec

(* recvSCPEnvelope queues an envelope of the window for SCP once only.     *)
THEOREM NeverGivenTwice == Spec => GivenOnce
  <1> DEFINE Step == \A e \in given : e \in pending' /\ e \notin pending
                                        => ~inWindow(e)
  <1>1. ASSUME IInv, [Next]_vars
        PROVE  Step
    <2> USE DEF IInv
    <2>1. ASSUME NEW e \in Envelope, NEW w, recvSCPEnvelope(e, w)
          PROVE  Step
      <3>1. CASE Complete(e, w)
        <4>1. e \notin processed
          BY <1>1, <3>1 DEF Complete, Remembered
        <4>2. pending' \subseteq pending \cup {e}
          BY <3>1 DEF Complete, envelopeReady, dropObsolete, eraseBelow
        <4> QED
          BY <1>1, <4>1, <4>2 DEF Remembered
      <3>2. CASE ~Complete(e, w)
        BY <2>1, <3>2 DEF recvSCPEnvelope, Fetch, Ignore, queues
      <3> QED
        BY <3>1, <3>2
    <2>2. ASSUME NEW slot, NEW P \in SUBSET pending, valueExternalized(slot, P)
          PROVE  Step
      BY <2>2 DEF valueExternalized, stillOpen
    <2>3. CASE \E e \in Envelope : Notify(e) \/ RecvSCPMessage(e)
      BY <2>1, <2>3 DEF Notify, RecvSCPMessage
    <2>4. CASE \E e \in Envelope : ProcessQueue(e)
      <3>1. PICK e \in Envelope : ProcessQueue(e)
        BY <2>4
      <3> QED
        BY <2>2, <3>1 DEF ProcessQueue
    <2>5. CASE OwnExternalize
      BY <2>2, <2>5 DEF OwnExternalize
    <2>6. CASE UNCHANGED pending
      BY <2>6
    <2> QED
      BY <1>1, <2>3, <2>4, <2>5, <2>6, ZenonT(30)
      DEF Next, NotifyDone, RecvItem, TimerExpires, DoesntHave, DropPeer,
          Connect, herderOutOfSync, stopFetchingBelowInternal, vars, queues
  <1> QED
    BY <1>1, IInvInit, IInvKept, PTL DEF Spec, GivenOnce
=============================================================================
