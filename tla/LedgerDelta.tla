----------------------------- MODULE LedgerDelta -----------------------------
(***************************************************************************)
(* ledger/LedgerDelta.cpp: the changes a scope (a ledger, a transaction,   *)
(* an operation) makes to the ledger's entries and to its header, kept     *)
(* beside the SQL rows so that they can be merged into the enclosing scope *)
(* or forgotten.  A delta is a value here; LedgerClose keeps the stack of  *)
(* the deltas that are open.  The log of every single change (mAllChanges) *)
(* only feeds the published meta data and is left out.                     *)
(***************************************************************************)
Empty == [k \in {} |-> {}]

Single(k, e) == [x \in {k} |-> e]

Without(f, keys) == [k \in DOMAIN f \ keys |-> f[k]]

On(f, keys) == [k \in DOMAIN f \cap keys |-> f[k]]

(* f where it has a value, g elsewhere.                                    *)
Over(f, g) ==
    [k \in DOMAIN f \cup DOMAIN g |-> IF k \in DOMAIN f THEN f[k] ELSE g[k]]

(* A new delta over the header of the enclosing scope.  "outer" is         *)
(* mPreviousHeaderValue: what commit() expects to find there again.        *)
Open(header) ==
    [new |-> Empty, mod |-> Empty, del |-> {}, previous |-> Empty,
     header |-> header, outer |-> header]

Touched(d) == DOMAIN d.new \cup DOMAIN d.mod \cup d.del

(* The asserts of addEntry and modEntry.                                   *)
AddAllowed(d, k) == k \in d.del \/ k \notin DOMAIN d.new \cup DOMAIN d.mod

ModAllowed(d, k) == k \in DOMAIN d.new \cup DOMAIN d.mod \/ k \notin d.del

(* addEntry, deleteEntry, modEntry and recordEntry change nothing but what *)
(* the delta holds of their key.  mergeEntries calls them for a set of     *)
(* keys, in any order: here they take the whole set.                       *)

(* An entry re-created in the scope that deleted it counts as modified.    *)
addEntry(d, entries) ==
    [d EXCEPT !.new = Over(Without(entries, d.del), @),
              !.mod = Over(On(entries, d.del), @),
              !.del = @ \ DOMAIN entries]

(* An entry deleted in the scope that created it leaves no trace.          *)
deleteEntry(d, keys) ==
    LET older == keys \ DOMAIN d.new
    IN  [d EXCEPT !.new = Without(@, keys),
                  !.mod = Without(@, older),
                  !.del = @ \cup older]

modEntry(d, entries) ==
    LET created == DOMAIN d.new \ DOMAIN d.mod
    IN  [d EXCEPT !.new = Over(On(entries, created), @),
                  !.mod = Over(Without(entries, created), @)]

(* The first record of a key is kept.                                      *)
recordEntry(d, entries) == [d EXCEPT !.previous = Over(@, entries)]

(* The changes of an inner delta, replayed into the outer one: deletions,  *)
(* creations and modifications in that order.                              *)
mergeEntries_live(d, other) ==
    modEntry(addEntry(d, other.new), other.mod)

mergeEntries(d, other) ==
    LET deleted == recordEntry(deleteEntry(d, other.del),
                               On(other.previous, other.del))
        created == addEntry(deleted, other.new)
    IN  recordEntry(modEntry(created, other.mod),
                    On(other.previous, DOMAIN other.mod))

(* commit() into the enclosing delta, whose header it replaces.            *)
commit_entries(d, inner) == mergeEntries(d, inner)

commit(d, inner) == [mergeEntries(d, inner) EXCEPT !.header = inner.header]

(* commit() throws "unexpected header state" and the merge asserts unless  *)
(* this holds of the enclosing delta and the one that is committed.        *)
CommitAllowed(d, inner) ==
    /\ inner.outer = d.header
    /\ \A k \in DOMAIN inner.new : AddAllowed(d, k)
    /\ \A k \in DOMAIN inner.mod : ModAllowed(d, k)

(* The older version of an entry that the published changes carry.         *)
addCurrentMeta(d, k) ==
    IF k \in DOMAIN d.previous
       /\ d.previous[k].lastModified # d.header.ledgerSeq
    THEN {d.previous[k]}
    ELSE {}

getLiveEntries(d) == Over(d.new, d.mod)

getDeadEntries(d) == d.del
=============================================================================
