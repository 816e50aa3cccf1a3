---------------------------- MODULE QuorumSets ----------------------------
(***************************************************************************)
(* The pure functions of src/src/scp/LocalNode.cpp on quorum sets.         *)
(*                                                                         *)
(* A quorum set is a record of a threshold, a sequence of validators and a *)
(* sequence of inner quorum sets, as in SCPQuorumSet.                      *)
(*                                                                         *)
(* An operator whose name ends in a word after "_" is a faulty variant of  *)
(* the definition that follows it, kept to show that a property notices.   *)
(***************************************************************************)
EXTENDS Integers, FiniteSets, Sequences, SequencesExt

(* buildSingletonQSet: the quorum set of a node that externalized.         *)
singletonQSet(n) == [threshold |-> 1, validators |-> <<n>>, innerSets |-> <<>>]

NumEntries(q) == Len(q.validators) + Len(q.innerSets)

(* The validators of q that belong to S.                                   *)
validatorHits(q, S) == {i \in DOMAIN q.validators : q.validators[i] \in S}

(* S contains a slice of q.  The code decrements an unsigned threshold on  *)
(* every hit, so a threshold of 0 is never reached.                        *)
RECURSIVE isQuorumSlice(_, _)
isQuorumSlice(q, S) ==
    LET innerHits == {i \in DOMAIN q.innerSets :
                        isQuorumSlice(q.innerSets[i], S)}
    IN  /\ q.threshold > 0
        /\ Cardinality(validatorHits(q, S)) + Cardinality(innerHits)
             >= q.threshold

(* One entry too few.                                                      *)
RECURSIVE isVBlocking_few(_, _)
isVBlocking_few(q, S) ==
    LET innerHits == {i \in DOMAIN q.innerSets :
                        isVBlocking_few(q.innerSets[i], S)}
        hits == Cardinality(validatorHits(q, S)) + Cardinality(innerHits)
    IN  /\ q.threshold # 0
        /\ hits >= 1
        /\ hits >= NumEntries(q) - q.threshold

(* S meets every slice of q.  The test is made after a hit only.           *)
RECURSIVE isVBlocking(_, _)
isVBlocking(q, S) ==
    LET innerHits == {i \in DOMAIN q.innerSets :
                        isVBlocking(q.innerSets[i], S)}
        hits == Cardinality(validatorHits(q, S)) + Cardinality(innerHits)
    IN  /\ q.threshold # 0
        /\ hits >= 1
        /\ hits >= 1 + NumEntries(q) - q.threshold

(* The sets of nodes, among the given ones, that satisfy q and that block  *)
(* it: what the rest of the model needs to know of a quorum set.           *)
slicesOf(q, nodes) == {S \in SUBSET nodes : isQuorumSlice(q, S)}
blockingSetsOf(q, nodes) == {S \in SUBSET nodes : isVBlocking(q, S)}

(* The fixpoint loop of isQuorum: drop the nodes whose own quorum set is   *)
(* not satisfied by the nodes that are left.                               *)
RECURSIVE quorumFixpoint(_, _)
quorumFixpoint(pNodes, slices) ==
    LET fNodes == {n \in pNodes : pNodes \in slices[n]}
    IN  IF fNodes = pNodes THEN pNodes ELSE quorumFixpoint(fNodes, slices)

-----------------------------------------------------------------------------
(* All validators of q, in the order in which they are visited.            *)
RECURSIVE allValidators(_)
allValidators(q) ==
    q.validators \o
        FlattenSeq([i \in DOMAIN q.innerSets |-> allValidators(q.innerSets[i])])

forAllNodes(q) == ToSet(allValidators(q))

RECURSIVE thresholdsSane(_, _)
thresholdsSane(q, extraChecks) ==
    /\ q.threshold \in 1..NumEntries(q)
    /\ extraChecks => q.threshold >= NumEntries(q) - q.threshold + 1
    /\ \A i \in DOMAIN q.innerSets :
            thresholdsSane(q.innerSets[i], extraChecks)

(* No validator occurs twice, at any level.                                *)
isQuorumSetSane(q, extraChecks) ==
    thresholdsSane(q, extraChecks) /\ IsInjective(allValidators(q))

isSingleton_any(q) == Len(q.validators) = 1 /\ q.innerSets = <<>>

isSingleton(q) ==
    q.threshold = 1 /\ Len(q.validators) = 1 /\ q.innerSets = <<>>

(* Inner sets that require one validator become validators, and a set that *)
(* only requires its only inner set becomes that one.                      *)
RECURSIVE normalizeQSet(_)
normalizeQSet(q) ==
    LET inner == [i \in DOMAIN q.innerSets |-> normalizeQSet(q.innerSets[i])]
        singles == SelectSeq(inner, isSingleton)
        res == [ threshold |-> q.threshold,
                 validators |-> q.validators \o
                     [i \in DOMAIN singles |-> singles[i].validators[1]],
                 innerSets |-> SelectSeq(inner, LAMBDA x : ~isSingleton(x)) ]
    IN  IF /\ res.threshold = 1
           /\ res.validators = <<>>
           /\ Len(res.innerSets) = 1
        THEN res.innerSets[1]
        ELSE res

smallestFirst_unsorted(seqs) == seqs

smallestFirst(seqs) == SortSeq(seqs, LAMBDA x, y : Len(x) < Len(y))

(* The nodes, of those that agree, that still have to fail before a sane q *)
(* is blocked; the others failed already.  Validators come before inner    *)
(* sets, and of these those that take the fewest nodes.  The excluded node *)
(* neither fails nor counts as failed.                                     *)
RECURSIVE findClosestVBlocking(_, _, _)
findClosestVBlocking(q, nodes, excluded) ==
    LET others == SelectSeq(q.validators, LAMBDA x : x # excluded)
        agree == SelectSeq(others, LAMBDA x : x \in nodes)
        inner == [i \in DOMAIN q.innerSets |->
                    findClosestVBlocking(q.innerSets[i], nodes, excluded)]
        open == SelectSeq(inner, LAMBDA x : x # <<>>)
        leftTillBlock == 1 + NumEntries(q) - q.threshold
                           - (Len(others) - Len(agree))
                           - (Len(inner) - Len(open))
        top == SubSeq(agree, 1, Min({leftTillBlock, Len(agree)}))
        smallest == smallestFirst(open)
    IN  IF leftTillBlock <= 0 THEN <<>>
        ELSE top \o FlattenSeq(SubSeq(smallest, 1,
                          Min({leftTillBlock - Len(top), Len(smallest)})))

-----------------------------------------------------------------------------
(* Reference definitions, after the SCP white paper.                       *)

(* S meets every slice of q among the nodes.                               *)
MeetsEverySlice(q, S, nodes) == \A Q \in slicesOf(q, nodes) : Q \cap S # {}
=============================================================================
