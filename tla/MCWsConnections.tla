--------------------------- MODULE MCWsConnections ---------------------------
(* Instances of WsConnections for TLC.                                     *)
EXTENDS WsConnections

CONSTANTS s1, s2

\* The first secret, its rotation, and the first one left out.
MCEnvironments == {
  [current |-> s1, previous |-> {}],
  [current |-> s2, previous |-> {s1}],
  [current |-> s2, previous |-> {}]}

=============================================================================
