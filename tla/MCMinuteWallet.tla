---------------------------- MODULE MCMinuteWallet ----------------------------
(* MinuteWallet for TLC.                                                   *)
EXTENDS MinuteWallet, TLC

CONSTANTS s1, s2, t1, t2, t3, t4

\* Sessions and calls are alike.
Alike == Permutations(Sessions) \cup Permutations(Calls)
================================================================================
