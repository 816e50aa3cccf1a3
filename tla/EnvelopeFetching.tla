------------------------- MODULE EnvelopeFetching -------------------------
(***************************************************************************)
(* How envelopes reach SCP: herder/PendingEnvelopes with its two item      *)
(* fetchers (overlay/ItemFetcher) and the part of herder/HerderImpl that   *)
(* filters and queues envelopes.                                           *)
(*                                                                         *)
(* An envelope is handed to SCP when its quorum set and transaction sets   *)
(* (items) are cached.  Missing items are asked from one peer after the    *)
(* other.  The process has one thread, but its handlers nest: the arrival  *)
(* of an item completes envelopes, these make SCP externalize, and that    *)
(* closes a slot.  The model takes a nest of handlers in several steps     *)
(* (Notify, ProcessQueue), during which no other handler starts (Idle).    *)
(*                                                                         *)
(* Sets stand for the code's vectors: the envelopes that wait for an item, *)
(* those that are ready within a slot and the peers to ask are taken in    *)
(* any order.  Time is left out: a timer that is armed may expire at any   *)
(* moment.  The caches are large enough to keep every item.                *)
(***************************************************************************)
EXTENDS Integers, Sequences

CONSTANTS
    Envelope, Item, Peer,
    SlotOf,             \* the slot of an envelope
    ItemsOf,            \* its quorum set and transaction sets
    NoItem, NoPeer,
    MaxSlots,           \* Herder::MAX_SLOTS_TO_REMEMBER
    Bracket,            \* Herder::LEDGER_VALIDITY_BRACKET
    StartIndex,         \* the last ledger when the node starts
    MaxIndex,           \* bound on the ledgers that SCP closes on its own
    Helper              \* a peer that connects, stays and has every item

(* The network is older than the window.                                   *)
ASSUME FetchingAssumption ==
    /\ SlotOf \in [Envelope -> Nat]
    /\ ItemsOf \in [Envelope -> SUBSET Item]
    /\ NoItem \notin Item
    /\ NoPeer \notin Peer
    /\ Helper \in Peer
    /\ MaxSlots \in Nat \ {0}
    /\ Bracket \in Nat
    /\ StartIndex \in Nat
    /\ StartIndex > MaxSlots

VARIABLES
    index,              \* getCurrentLedgerSeq
    tracking,           \* mTrackingSCP is set
    cache,              \* mQsetCache and mTxSetCache
    fetching,           \* mFetchingEnvelopes
    processed,          \* mProcessedEnvelopes
    pending,            \* mPendingEnvelopes
    tracked,            \* mTrackers: the items that have a tracker
    waiting,            \* mWaitingEnvelopes of an item's tracker
    timer,              \* the items whose tracker's timer is armed
    lastAsked,          \* mLastAskedPeer
    toAsk,              \* mPeersToAsk
    receiving,          \* the item whose arrival is being handled
    posted,             \* stopFetchingBelow calls posted to the io service
    auth,               \* authenticated peers
    owed,               \* the items that Helper was asked for and will send
    given,              \* envelopes that SCP received
    dropped             \* complete envelopes that were beyond the bracket when
                        \* their last item came; no variable of the code

herder == <<index, tracking, given>>
queues == <<fetching, processed, pending>>
asking == <<timer, lastAsked, toAsk, owed>>
trackers == <<tracked, waiting>>

vars ==
    <<herder, queues, asking, trackers, cache, receiving, posted, auth, dropped>>

-----------------------------------------------------------------------------
(* The queue of complete envelopes.                                        *)

nextConsensusLedgerIndex == index + 1

(* What processSCPQueue hands to SCP now.                                  *)
readyEnvelopes ==
    {e \in pending : tracking => SlotOf[e] <= nextConsensusLedgerIndex}

Idle == readyEnvelopes = {} /\ receiving = NoItem

eraseBelow(S, slot) == {e \in S : SlotOf[e] >= slot}

(* What processSCPQueue keeps of S before it hands over envelopes.         *)
dropObsolete(S) ==
    IF tracking /\ nextConsensusLedgerIndex > MaxSlots
    THEN eraseBelow(S, nextConsensusLedgerIndex - MaxSlots)
    ELSE S

minLedgerSeq == IF index > MaxSlots THEN index - MaxSlots ELSE index

inBracket(e) == tracking => SlotOf[e] <= nextConsensusLedgerIndex + Bracket

inRange(e) == SlotOf[e] >= minLedgerSeq /\ inBracket(e)

-----------------------------------------------------------------------------
(* Asking peers for items.                                                 *)

(* The list of tracker i when tryNextPeer looks for a peer.                *)
peersToAsk(i) ==
    IF toAsk[i] = {} /\ lastAsked[i] = NoPeer THEN auth ELSE toAsk[i]

nextPeers(i) ==
    IF peersToAsk(i) \cap auth = {} THEN {NoPeer} ELSE peersToAsk(i) \cap auth

(* The last asked peer is kept when the list is exhausted.                 *)
tryNextPeer_stays(S) ==
    \E p \in [S -> Peer \cup {NoPeer}] :
        /\ \A i \in S : p[i] \in nextPeers(i)
        /\ lastAsked' = [i \in Item |-> IF i \in S /\ p[i] # NoPeer
                                        THEN p[i] ELSE lastAsked[i]]
        /\ toAsk' = [i \in Item |-> IF i \in S
                                    THEN (peersToAsk(i) \cap auth) \ {p[i]}
                                    ELSE toAsk[i]]
        /\ owed' = owed \cup {i \in S : p[i] = Helper}
        /\ timer' = timer \cup S

(* tryNextPeer of the trackers of the items S.  Peers that are no longer   *)
(* connected are skipped; when all were asked the list is built anew by    *)
(* the next call.                                                          *)
tryNextPeer(S) ==
    \E p \in [S -> Peer \cup {NoPeer}] :
        /\ \A i \in S : p[i] \in nextPeers(i)
        /\ lastAsked' = [i \in Item |-> IF i \in S THEN p[i] ELSE lastAsked[i]]
        /\ toAsk' = [i \in Item |-> IF i \in S
                                    THEN (peersToAsk(i) \cap auth) \ {p[i]}
                                    ELSE toAsk[i]]
        /\ owed' = owed \cup {i \in S : p[i] = Helper}
        /\ timer' = timer \cup S

-----------------------------------------------------------------------------
(* HerderImpl::recvSCPEnvelope and PendingEnvelopes::recvSCPEnvelope, from *)
(* a peer or from a tracker.                                               *)

isFullyFetched(e) == ItemsOf[e] \subseteq cache

(* A complete envelope that is queued and not recorded as processed.       *)
envelopeReady_unrecorded(e) ==
    /\ pending' = dropObsolete(pending \cup {e})
    /\ fetching' = dropObsolete(fetching \ {e})
    /\ UNCHANGED processed

(* The envelope e is complete: it is moved to processed and queued, and    *)
(* processSCPQueue drops obsolete ones.                                    *)
envelopeReady(e) ==
    /\ processed' = processed \cup {e}
    /\ pending' = dropObsolete(pending \cup {e})
    /\ fetching' = dropObsolete(fetching \ {e})

(* Only one missing item of a new envelope is fetched.                     *)
startFetch_first(e, w) ==
    LET missing == {CHOOSE i \in ItemsOf[e] \ cache : TRUE}
    IN  /\ fetching' = fetching \cup {e}
        /\ tracked' = tracked \cup missing
        /\ waiting' = [i \in Item |-> IF i \in missing THEN w[i] \cup {e} ELSE w[i]]
        /\ tryNextPeer(missing \ tracked)

(* A new envelope with missing items: every one of them is fetched.  The   *)
(* tracker of an item that was asked for before only takes note.           *)
startFetch(e, w) ==
    LET missing == ItemsOf[e] \ cache
    IN  /\ fetching' = fetching \cup {e}
        /\ tracked' = tracked \cup missing
        /\ waiting' = [i \in Item |-> IF i \in missing THEN w[i] \cup {e} ELSE w[i]]
        /\ tryNextPeer(missing \ tracked)

(* w: the envelopes waiting at this point.                                 *)
Complete(e, w) ==
    /\ inRange(e)
    /\ e \in fetching \/ e \notin processed
    /\ isFullyFetched(e)
    /\ envelopeReady(e)
    /\ waiting' = w
    /\ UNCHANGED <<asking, tracked>>

Fetch(e, w) ==
    /\ inRange(e)
    /\ e \notin fetching \cup processed
    /\ ~isFullyFetched(e)
    /\ startFetch(e, w)
    /\ UNCHANGED <<processed, pending>>

Ignore(e, w) ==
    /\ \/ ~inRange(e)
       \/ e \in fetching /\ ~isFullyFetched(e)
       \/ e \in processed \ fetching
    /\ waiting' = w
    /\ UNCHANGED <<queues, asking, tracked>>

recvSCPEnvelope(e, w) == Complete(e, w) \/ Fetch(e, w) \/ Ignore(e, w)

-----------------------------------------------------------------------------
(* The handlers.                                                           *)

Init ==
    /\ index = StartIndex /\ tracking \in BOOLEAN
    /\ cache = {} /\ auth = Peer \ {Helper}
    /\ fetching = {} /\ processed = {} /\ pending = {}
    /\ tracked = {} /\ timer = {} /\ receiving = NoItem
    /\ waiting = [i \in Item |-> {}]
    /\ lastAsked = [i \in Item |-> NoPeer]
    /\ toAsk = [i \in Item |-> {}]
    /\ posted = <<>> /\ owed = {} /\ given = {} /\ dropped = {}

(* A peer sends an envelope.                                               *)
RecvSCPMessage(e) ==
    /\ Idle
    /\ recvSCPEnvelope(e, waiting)
    /\ UNCHANGED <<herder, cache, receiving, posted, auth, dropped>>

(* An item arrives, from a peer or from this node, and is cached.  The     *)
(* envelopes that wait for it are then notified, one after the other.      *)
RecvItem(i) ==
    /\ Idle
    /\ cache' = cache \cup {i}
    /\ receiving' = i
    /\ owed' = owed \ {i}
    /\ UNCHANGED <<herder, queues, trackers, timer, lastAsked, toAsk, posted,
                   auth, dropped>>

(* ItemFetcher::recv takes one waiting envelope.  It goes through the      *)
(* filter again: an envelope that came while the herder did not track may  *)
(* be beyond the bracket now, and then nobody takes it up.                 *)
Notify(e) ==
    /\ readyEnvelopes = {}
    /\ receiving # NoItem
    /\ e \in waiting[receiving]
    /\ recvSCPEnvelope(e, [waiting EXCEPT ![receiving] = @ \ {e}])
    /\ dropped' = IF isFullyFetched(e) /\ ~inBracket(e)
                  THEN dropped \cup {e} ELSE dropped
    /\ UNCHANGED <<herder, cache, receiving, posted, auth>>

(* The loop ends: "stop the timer, stop requesting the item".              *)
NotifyDone ==
    /\ readyEnvelopes = {}
    /\ receiving # NoItem
    /\ waiting[receiving] = {}
    /\ timer' = timer \ {receiving}
    /\ receiving' = NoItem
    /\ UNCHANGED <<herder, queues, trackers, lastAsked, toAsk, owed, cache,
                   posted, auth, dropped>>

-----------------------------------------------------------------------------
(* SCP externalizes slot: the herder follows it, PendingEnvelopes forgets  *)
(* the slot that leaves the window and posts the clean-up of the trackers. *)
(* P: the pending envelopes at this point.                                 *)

stillOpen(S, slot) ==
    IF slot > MaxSlots THEN {e \in S : SlotOf[e] # slot - MaxSlots} ELSE S

valueExternalized(slot, P) ==
    /\ index' = slot
    /\ tracking' = TRUE
    /\ pending' = stillOpen(P, slot)
    /\ processed' = stillOpen(processed, slot)
    /\ fetching' = stillOpen(fetching, slot)
    /\ posted' = IF slot > MaxSlots THEN Append(posted, slot - MaxSlots + 1)
                                    ELSE posted

(* The loop of processSCPQueueUpToIndex: SCP receives an envelope of the   *)
(* lowest slot, and may externalize the slot.                              *)
ProcessQueue(e) ==
    /\ e \in readyEnvelopes
    /\ \A f \in readyEnvelopes : SlotOf[e] <= SlotOf[f]
    /\ given' = given \cup {e}
    /\ \/ /\ SlotOf[e] > index
          /\ valueExternalized(SlotOf[e], pending \ {e})
       \/ /\ pending' = pending \ {e}
          /\ UNCHANGED <<index, tracking, processed, fetching, posted>>
    /\ UNCHANGED <<asking, trackers, cache, receiving, auth, dropped>>

(* SCP externalizes on its own, from a timer.                              *)
OwnExternalize ==
    /\ Idle
    /\ tracking
    /\ index < MaxIndex
    /\ valueExternalized(nextConsensusLedgerIndex, pending)
    /\ UNCHANGED <<given, asking, trackers, cache, receiving, auth, dropped>>

(* No slot was externalized for a while: envelopes of all slots are        *)
(* handed over from now on.                                                *)
herderOutOfSync ==
    /\ Idle
    /\ tracking
    /\ tracking' = FALSE
    /\ UNCHANGED <<index, given, queues, asking, trackers, cache, receiving,
                   posted, auth, dropped>>

-----------------------------------------------------------------------------
(* The clean-up of the trackers, from the top of the stack, for the two    *)
(* fetchers together.                                                      *)
stopFetchingBelowInternal ==
    LET left(i) == eraseBelow(waiting[i], Head(posted))
        over == {i \in Item : left(i) = {}}
    IN  /\ Idle
        /\ posted # <<>>
        /\ posted' = Tail(posted)
        /\ waiting' = [i \in Item |-> left(i)]
        /\ tracked' = tracked \ over
        /\ timer' = timer \ over
        /\ lastAsked' = [i \in Item |-> IF i \in over THEN NoPeer ELSE lastAsked[i]]
        /\ toAsk' = [i \in Item |-> IF i \in over THEN {} ELSE toAsk[i]]
        /\ UNCHANGED <<herder, queues, owed, cache, receiving, auth, dropped>>

TimerExpires(i) ==
    /\ Idle
    /\ i \in timer
    /\ tryNextPeer({i})
    /\ UNCHANGED <<herder, queues, trackers, cache, receiving, posted, auth,
                   dropped>>

(* A peer answers that it does not have the item.                          *)
DoesntHave(p, i) ==
    /\ Idle
    /\ i \in tracked
    /\ lastAsked[i] = p
    /\ p \in auth \ {Helper}
    /\ tryNextPeer({i})
    /\ UNCHANGED <<herder, queues, trackers, cache, receiving, posted, auth,
                   dropped>>

DropPeer(p) ==
    /\ Idle
    /\ p \in auth \ {Helper}
    /\ auth' = auth \ {p}
    /\ UNCHANGED <<herder, queues, trackers, asking, cache, receiving, posted,
                   dropped>>

(* Helper connects: it is not in the lists that were built before.         *)
Connect ==
    /\ Idle
    /\ Helper \notin auth
    /\ auth' = auth \cup {Helper}
    /\ UNCHANGED <<herder, queues, trackers, asking, cache, receiving, posted,
                   dropped>>

Next ==
    \/ \E e \in Envelope : ProcessQueue(e) \/ Notify(e) \/ RecvSCPMessage(e)
    \/ NotifyDone
    \/ \E i \in Item : RecvItem(i) \/ TimerExpires(i)
    \/ \E i \in Item, p \in Peer : DoesntHave(p, i)
    \/ \E p \in Peer : DropPeer(p)
    \/ Connect
    \/ OwnExternalize
    \/ herderOutOfSync
    \/ stopFetchingBelowInternal

Spec == Init /\ [][Next]_vars

(* The event loop runs what is due in the order in which it became due,    *)
(* and Helper connects and answers.                                        *)
Fairness ==
    /\ WF_vars(\E e \in Envelope : ProcessQueue(e) \/ Notify(e))
    /\ WF_vars(NotifyDone)
    /\ SF_vars(Connect)
    /\ \A i \in Item : /\ SF_vars(TimerExpires(i))
                       /\ SF_vars(i \in owed /\ RecvItem(i))

FairSpec == Spec /\ Fairness

-----------------------------------------------------------------------------
(* Properties.                                                             *)

(* The types of the members; no timer outlives its tracker.                *)
TypeOK ==
    /\ index \in Nat /\ tracking \in BOOLEAN
    /\ cache \subseteq Item /\ auth \subseteq Peer /\ owed \subseteq Item
    /\ {fetching, processed, pending, given, dropped} \subseteq SUBSET Envelope
    /\ tracked \subseteq Item /\ timer \subseteq tracked
    /\ receiving \in Item \cup {NoItem}
    /\ waiting \in [Item -> SUBSET Envelope]
    /\ lastAsked \in [Item -> Peer \cup {NoPeer}]
    /\ toAsk \in [Item -> SUBSET Peer]
    /\ posted \in Seq(Nat)

(* The slots that PendingEnvelopes still remembers.                        *)
inWindow(e) == SlotOf[e] + MaxSlots > index

(* No envelope of the window is forgotten: while it is in the fetching     *)
(* queue, for every missing item there is a tracker that will notify the   *)
(* envelope and keeps asking peers; and it only stays there with all its   *)
(* items if it was beyond the bracket when the last one came               *)
(* (HerderImpl.cpp:1013), which undoes what PendingEnvelopes waited for.   *)
NobodyForgotten ==
    Idle => \A e \in fetching : inWindow(e) =>
        /\ isFullyFetched(e) => e \in dropped
        /\ \A i \in ItemsOf[e] \ cache : e \in waiting[i] /\ i \in timer

(* An envelope of the window is handed to SCP once only, although it may   *)
(* be received and notified several times.                                 *)
GivenOnce ==
    [][\A e \in given : e \in pending' /\ e \notin pending => ~inWindow(e)]_vars

(* An envelope that waits for items gets them all, and is then handed on   *)
(* or found beyond the bracket, or it leaves the window.                   *)
EventuallyDecided ==
    \A e \in Envelope :
        e \in fetching ~> (e \notin fetching \/ e \in dropped \/ ~inWindow(e))
=============================================================================
