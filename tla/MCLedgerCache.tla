--------------------------- MODULE MCLedgerCache ---------------------------
(* An instance of LedgerCache for TLC.                                     *)
EXTENDS LedgerCache

CONSTANTS x, y, r1, r2

\* A single read, and a batch of both ids that names one of them twice.
SomeBatches == {<<x>>, <<y, x, y>>}

\* Each id in a shard of its own.
OwnShard == [i \in Ids |-> i]

=============================================================================
