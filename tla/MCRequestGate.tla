--------------------------- MODULE MCRequestGate ---------------------------
(* An instance of RequestGate for TLC: the lengths next to the boundaries  *)
(* that the checks draw.                                                   *)
EXTENDS RequestGate

\* 32..44 for an id, 64 digits for a key, 128 for a signature.
BoundaryLengths == {31, 32, 44, 45, 64, 128}

=============================================================================
