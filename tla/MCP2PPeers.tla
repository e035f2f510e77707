----------------------------- MODULE MCP2PPeers -----------------------------
(* Instances of P2PPeers for TLC.                                          *)
EXTENDS P2PPeers, TLC

CONSTANTS p1, p2

Symmetry == Permutations(Peers)

=============================================================================
