---------------------------- MODULE AtomicFaucet ----------------------------
(***************************************************************************)
(* What the faucet promises: a claim is one step that credits an account,  *)
(* stamps it and counts the HAN as issued, once per cooldown and within    *)
(* the total supply.  Faucet implements it when requests come one at a     *)
(* time (see AtomicClaims there).                                          *)
(***************************************************************************)
EXTENDS Naturals

CONSTANTS Accounts, NoAccount, Limit, TotalSupply, Cooldown, MaxTime

VARIABLES accounts, issued

Init ==
  /\ accounts = [a \in Accounts |-> NoAccount]
  /\ issued = 0

\* The first request of an account opens it, whether or not it is paid.
Open(a) ==
  /\ accounts[a] = NoAccount
  /\ accounts' = [accounts EXCEPT ![a] = [balance |-> 0, last_claim |-> 0]]
  /\ UNCHANGED issued

Claim(a) ==
  /\ accounts[a] # NoAccount
  /\ issued + Limit <= TotalSupply
  /\ \E t \in 0..MaxTime :
       /\ t >= accounts[a].last_claim + Cooldown
       /\ accounts' = [accounts EXCEPT ![a] =
                         [balance |-> accounts[a].balance + Limit,
                          last_claim |-> t]]
  /\ issued' = issued + Limit

Next == \E a \in Accounts : Open(a) \/ Claim(a)

Spec == Init /\ [][Next]_<<accounts, issued>>

=============================================================================
