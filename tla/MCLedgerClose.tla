---------------------------- MODULE MCLedgerClose ----------------------------
(***************************************************************************)
(* LedgerClose on a small instance: an account of the genesis ledger, one  *)
(* that is created later and one generated identifier.                     *)
(***************************************************************************)
EXTENDS LedgerClose, TLC

CONSTANTS a, b, v1, v2

(* The contents of an entry are only ever copied and compared.             *)
Symmetry == Permutations(Value)
=============================================================================
