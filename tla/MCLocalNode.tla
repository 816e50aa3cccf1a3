---------------------------- MODULE MCLocalNode ----------------------------
(***************************************************************************)
(* The functions of LocalNode.cpp for TLC.  A behaviour examines one of    *)
(* them, the other two being at rest:                                      *)
(*                                                                         *)
(*  - the recursive functions, on every quorum set of two or three levels  *)
(*    over a few validators, sane or not, built up in q;                   *)
(*  - the loop of isQuorum, for every monotone quorum set on the nodes; an *)
(*    own statement carries the local quorum set, Self's;                  *)
(*  - the search of isNodeInQuorum, on every graph of quorum sets where a  *)
(*    node has statements with one quorum set, or two of one node each.    *)
(***************************************************************************)
EXTENDS QuorumSets, LocalNodeLoops

CONSTANTS
    Validator,       \* the nodes of the quorum sets that are built, integers
    MaxValidators,   \* bound on the validators of a set
    MaxInner         \* bound on the inner sets of a set

VARIABLE q

-----------------------------------------------------------------------------
(* Quorum sets.                                                            *)

Lists == {SetToSortSeq(S, <) : S \in {T \in SUBSET Validator :
                                        Cardinality(T) <= MaxValidators}}

Flat == {[threshold |-> t, validators |-> v, innerSets |-> <<>>] :
            t \in 0..(MaxValidators + 1), v \in Lists}

OneLevelInner == \A i \in DOMAIN q.innerSets : q.innerSets[i].innerSets = <<>>

(* Add an inner set.                                                       *)
AddInner ==
    /\ OneLevelInner
    /\ Len(q.innerSets) < MaxInner
    /\ \E f \in {x \in Flat : thresholdsSane(x, FALSE)} :
            q' = [q EXCEPT !.innerSets = Append(@, f)]

(* Make the set the only inner set of one with at most one validator.      *)
Wrap ==
    /\ OneLevelInner
    /\ \E f \in {x \in Flat : Len(x.validators) <= 1 /\ x.threshold <= 2} :
            q' = [f EXCEPT !.innerSets = <<q>>]

-----------------------------------------------------------------------------
QSetAtRest == q = [threshold |-> 0, validators |-> <<>>, innerSets |-> <<>>]

LoopAtRest ==
    /\ qSet = {} /\ qfun = [n \in NodeID |-> {}] /\ filtered = {} /\ pNodes = {}
    /\ answer = "false"

SearchAtRest ==
    /\ target = Self /\ known = {} /\ qsets = [n \in NodeID |-> {}] /\ missing = {}
    /\ backlog = {Self} /\ visited = {} /\ res = "false"
    /\ pc = "true"

AllQuorumSets == Loop!QuorumSetsOn(NodeID)

LoopInit ==
    /\ qfun \in [NodeID -> AllQuorumSets]
    /\ qSet = qfun[Self]
    /\ filtered \in SUBSET NodeID
    /\ pNodes = filtered
    /\ answer = "loop"

FewQuorumSets == {{S} : S \in SUBSET NodeID} \cup kSubset(2, kSubset(1, NodeID))

SearchInit ==
    /\ target \in NodeID
    /\ known \in SUBSET NodeID
    /\ qsets \in [NodeID -> FewQuorumSets]
    /\ missing \in SUBSET known
    /\ backlog = {Self}
    /\ visited = {}
    /\ res = "false"
    /\ pc = "search"

Init ==
    \/ q \in Flat /\ LoopAtRest /\ SearchAtRest
    \/ QSetAtRest /\ LoopInit /\ SearchAtRest
    \/ QSetAtRest /\ LoopAtRest /\ SearchInit

Next ==
    \/ /\ AddInner \/ Wrap
       /\ ~QSetAtRest /\ UNCHANGED <<loopVars, searchVars>>
    \/ Loop!Next /\ UNCHANGED <<q, searchVars>>
    \/ Search!Next /\ UNCHANGED <<q, loopVars>>

vars == <<q, loopVars, searchVars>>

Spec ==
    /\ Init /\ [][Next]_vars
    /\ WF_vars(Loop!Next /\ UNCHANGED <<q, searchVars>>)
    /\ WF_vars(Search!Next /\ UNCHANGED <<q, loopVars>>)

-----------------------------------------------------------------------------
(* isVBlocking is right: for a sane set, it holds of exactly the sets of   *)
(* nodes that meet every slice.                                            *)
BlockingMeetsSlices ==
    isQuorumSetSane(q, FALSE) =>
        \A S \in SUBSET Validator :
            isVBlocking(q, S) <=> MeetsEverySlice(q, S, Validator)

(* normalizeQSet changes neither the slices nor the v-blocking sets of a   *)
(* set, nor whether it is sane, and normalizing again changes nothing.     *)
NormalizePreserves ==
    LET r == normalizeQSet(q)
    IN  /\ slicesOf(r, Validator) = slicesOf(q, Validator)
        /\ isQuorumSetSane(q, FALSE) =>
            /\ isQuorumSetSane(r, FALSE)
            /\ blockingSetsOf(r, Validator) = blockingSetsOf(q, Validator)
            /\ normalizeQSet(r) = r

(* findClosestVBlocking returns a smallest set of nodes whose failure, on  *)
(* top of those that failed already, blocks a sane set.                    *)
ClosestIsSmallest ==
    isQuorumSetSane(q, FALSE) =>
        \A nodes \in SUBSET Validator :
            LET closest == ToSet(findClosestVBlocking(q, nodes, 0))
                blocksWith(F) ==
                    MeetsEverySlice(q, F \cup (Validator \ nodes), Validator)
            IN  /\ closest \subseteq nodes
                /\ blocksWith(closest)
                /\ \A F \in SUBSET nodes :
                        blocksWith(F) => Cardinality(F) >= Cardinality(closest)
=============================================================================
