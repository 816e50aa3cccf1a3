------------------------- MODULE MCTransactionQueue -------------------------
(***************************************************************************)
(* TransactionQueue on a small instance: three nodes of which any two are  *)
(* a quorum, one of them with an active operator, and transactions whose   *)
(* time bounds close while the chain grows.  Two envelopes share their     *)
(* contents.                                                               *)
(***************************************************************************)
EXTENDS TransactionQueue

CONSTANTS n1, n2, n3, t1, t2, t

MCQuorum == {{n1, n2}, {n1, n3}, {n2, n3}}

MCContentsOf == t1 :> t @@ t2 :> t

MCMinTime == t :> 0

MCMaxTime == t :> 2

MCReaches == [n \in Node |-> IF n \in Manual THEN {} ELSE Tx]

Symmetry == Permutations(Node \ Manual)
=============================================================================
