----------------------------- MODULE MCPeerLobby -----------------------------
(* Instances of PeerLobby for TLC.                                         *)
EXTENDS PeerLobby, TLC

CONSTANTS ann, bob, cid, i1, i2

\* Two levels and two instances: two of the users share both.
MixedLevels == (ann :> 1) @@ (bob :> 2) @@ (cid :> 1)
MixedHosts == (ann :> i1) @@ (bob :> i2) @@ (cid :> i1)
TwoSlots == [u \in Users |-> IF u = ann THEN 2 ELSE 1]
\* Ann may press again once she is paired.
AnnAgain == [u \in Users |-> IF u = ann THEN 2 ELSE 1]
\* One instance, one level and one slot, so that two matchers may keep either row.
SameHost == [u \in Users |-> i1]
SameLevel == [u \in Users |-> 1]
OneSlot == [u \in Users |-> 1]
=============================================================================
