---------------------------- MODULE MCPeerHealth ----------------------------
(* Small instances of PeerHealth for TLC. *)
EXTENDS PeerHealth

CONSTANTS n1, n2, a1

=============================================================================
