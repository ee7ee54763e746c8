---------------------------- MODULE MCContestRounds ----------------------------
(* Instances of ContestRounds for TLC.                                     *)
EXTENDS ContestRounds

CONSTANTS c1, c2
=============================================================================
