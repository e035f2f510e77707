------------------------------ MODULE MCFaucet ------------------------------
(* Instances of Faucet for TLC.                                            *)
EXTENDS Faucet, FiniteSetsExt, TLC

CONSTANTS w1, w2, a1, a2

\* Any request in flight may be for any account.
AnyAccount == Workers \X Accounts

Symmetry == Permutations(Workers) \union Permutations(Accounts)

\* Each account has a client of its own.
OwnAccount == {<<w1, a1>>, <<w2, a2>>}

\* What the accounts hold together.
TotalBalance ==
  MapThenSumSet(
    LAMBDA a : IF accounts[a] = NoAccount THEN 0 ELSE accounts[a].balance,
    Accounts)

-----------------------------------------------------------------------------
(* What a comment of main.rs says of the handler, for any requests.        *)

\* "Check the total issuance" (main.rs:233): what the accounts hold together
\* never exceeds the supply.
SupplyRespected == TotalBalance <= TotalSupply

=============================================================================
