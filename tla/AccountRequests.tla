--------------------------- MODULE AccountRequests ---------------------------
(***************************************************************************)
(* What the wallet's account requests come to, whoever calls getAccountInfo*)
(* and whichever call waits for another: each key has at most one request, *)
(* begun when there is no fresh entry; the server reads an account while it*)
(* is on its way, perhaps again if an answer is lost; it ends with that    *)
(* answer in the cache, or with nothing.  WalletAccount implements it.     *)
(***************************************************************************)
EXTENDS Naturals

CONSTANTS Keys, NoData, NoEntry, Expiry, MaxVersion

VARIABLES
  pending,   \* the keys whose request is on its way
  answer,    \* what the server has read for it, if it has
  cache,
  server

Init ==
  /\ pending = {}
  /\ answer = [k \in Keys |-> NoData]
  /\ cache = [k \in Keys |-> NoEntry]
  /\ server = [k \in Keys |-> 0]

Fresh(k) == cache[k] # NoEntry /\ cache[k].age < Expiry

Begin(k) ==
  /\ k \notin pending /\ ~Fresh(k)
  /\ pending' = pending \union {k}
  /\ UNCHANGED <<answer, cache, server>>

\* The account that is read is the user's of that moment, not always the key's.
Read(k, account) ==
  /\ k \in pending /\ answer[k] = NoData
  /\ answer' = [answer EXCEPT ![k] = [of |-> account, version |-> server[account]]]
  /\ UNCHANGED <<pending, cache, server>>

Lose(k) ==
  /\ answer[k] # NoData
  /\ answer' = [answer EXCEPT ![k] = NoData]
  /\ UNCHANGED <<pending, cache, server>>

End(k) ==
  /\ k \in pending
  /\ pending' = pending \ {k}
  /\ answer' = [answer EXCEPT ![k] = NoData]
  /\ \/ UNCHANGED cache
     \/ /\ answer[k] # NoData
        /\ cache' = [cache EXCEPT ![k] = [data |-> answer[k], age |-> 0]]
  /\ UNCHANGED server

Age ==
  /\ cache' = [k \in Keys |-> IF Fresh(k) THEN [cache[k] EXCEPT !.age = @ + 1]
                                         ELSE cache[k]]
  /\ UNCHANGED <<pending, answer, server>>

Change(k) ==
  /\ server[k] < MaxVersion
  /\ server' = [server EXCEPT ![k] = @ + 1]
  /\ UNCHANGED <<pending, answer, cache>>

Next ==
  \/ \E k \in Keys : Begin(k) \/ Lose(k) \/ End(k) \/ Change(k)
  \/ \E k \in Keys, account \in Keys : Read(k, account)
  \/ Age

Spec == Init /\ [][Next]_<<pending, answer, cache, server>>

=============================================================================
