------------------------ MODULE MCEnvelopeFetching ------------------------
(***************************************************************************)
(* An instance of EnvelopeFetching for TLC: one envelope for each of two   *)
(* slots; the first needs both items.  The second is beyond the bracket    *)
(* while the first one is of use, unless the herder does not track.        *)
(***************************************************************************)
EXTENDS EnvelopeFetching, TLC

CONSTANTS e3, e6, q, t, p1, p2

MCSlotOf == (e3 :> 3) @@ (e6 :> 6)
MCItemsOf == (e3 :> {q, t}) @@ (e6 :> {q})
=============================================================================
