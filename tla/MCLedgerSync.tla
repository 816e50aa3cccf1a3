--------------------------- MODULE MCLedgerSync ---------------------------
(* Model-checking instance of LedgerSync.                                  *)
EXTENDS LedgerSync

(* Every mode of catchup; with the recent one, some ledgers are close      *)
(* enough for a complete catchup and others are not.                       *)
MCConfigs ==
    {[complete |-> TRUE, recent |-> 0], [complete |-> FALSE, recent |-> 0],
     [complete |-> FALSE, recent |-> 3]}

=============================================================================
