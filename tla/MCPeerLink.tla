----------------------------- MODULE MCPeerLink -----------------------------
(***************************************************************************)
(* PeerLink for TLC: sizes are given in the configuration.                 *)
(***************************************************************************)
EXTENDS PeerLink
=============================================================================
