---------------------------- MODULE MCBucketList ----------------------------
(***************************************************************************)
(* An instance of BucketList for TLC: one key, three levels, and enough    *)
(* ledgers for a spill to reach the last level and be merged there.  Every *)
(* key is merged independently of the others.                              *)
(***************************************************************************)
EXTENDS BucketList
=============================================================================
