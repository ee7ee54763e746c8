------------------------------ MODULE MCPeerTurns ------------------------------
(* Instances of PeerTurns for TLC.                                         *)
EXTENDS PeerTurns, TLC

CONSTANTS c1, c2
==============================================================================
