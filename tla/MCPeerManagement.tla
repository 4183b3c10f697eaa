-------------------------- MODULE MCPeerManagement --------------------------
(* Two nodes and three connections: a session, a dial that comes too late   *)
(* and one in the other direction.  Connections are interchangeable.        *)
EXTENDS PeerManagement, TLC

ConnSymmetry == Permutations(Conns)
=============================================================================
