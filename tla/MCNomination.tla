--------------------------- MODULE MCNomination ---------------------------
(***************************************************************************)
(* Nomination for TLC: two nodes that need each other lead in turn.  Node  *)
(* 1 may nominate x, which node 2 finds invalid: it would vote for w.      *)
(***************************************************************************)
EXTENDS Nomination, FiniteSets

CONSTANTS v, w, x

Both == [n \in Node |-> {Node}]
MCValidAt == [n \in Node |-> IF n = 1 THEN Value ELSE {v, w}]
MCExtracted == [n \in Node |-> [y \in Value |-> IF y = x THEN {w} ELSE {}]]
MCProposals == [n \in Node |-> IF n = 1 THEN {v, x} ELSE {w}]
InTurn == [n \in Node |-> [r \in 0..(Period - 1) |-> IF r = 0 THEN NoNode ELSE r]]
=============================================================================
