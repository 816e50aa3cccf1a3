------------------------ MODULE MCBallotRefinement ------------------------
(***************************************************************************)
(* Instances of BallotRefinement for TLC.                                  *)
(***************************************************************************)
EXTENDS BallotRefinement, MCBallotProtocol

RView == <<View, pledges, pending>>
=============================================================================
