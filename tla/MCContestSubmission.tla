-------------------------- MODULE MCContestSubmission --------------------------
(* Instances of ContestSubmission for TLC.                                 *)
EXTENDS ContestSubmission, TLC

CONSTANTS old, k1, k2

\* One question and one code.
OneQuestion == [k \in Keys |-> "q"]
SameCode == [k \in Keys |-> "c"]
================================================================================
