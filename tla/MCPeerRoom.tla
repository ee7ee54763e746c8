------------------------------ MODULE MCPeerRoom ------------------------------
(* Instances of PeerRoom for TLC.                                          *)
EXTENDS PeerRoom, TLC

CONSTANTS ann, bob
=============================================================================
