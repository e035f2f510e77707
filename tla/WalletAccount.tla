---------------------------- MODULE WalletAccount ----------------------------
(***************************************************************************)
(* The account requests of the wallet (wallet/wallet.js): getAccountInfo   *)
(* with its cache and its marks of requests in progress, its retries, and  *)
(* sendTransaction, which ends in it.  The page is one thread: a step is   *)
(* what a call does from one await to the next, and between two steps any  *)
(* other call, or a change of the key, may come.                           *)
(*                                                                         *)
(* The server is external: it answers a request with the state the account *)
(* has at some time in between, refuses it, or the request or its answer   *)
(* is lost.  An account's data are its key and a version.                  *)
(***************************************************************************)
EXTENDS Naturals

CONSTANTS
  Calls,        \* calls of the page's functions that may run at a time
  Keys,         \* public keys of the user
  NoData,       \* the balance 0 that is shown when nothing is known
  NoEntry,      \* a key without an entry in the cache
  Expiry,       \* cacheExpiry: when an entry is too old to be answered
  MaxRetries,   \* maxRetries, of both retry loops
  MaxVersion,   \* bound: how often an account changes at the server
  MaxSends      \* bound: how many transfers are sent

ASSUME NumbersAssumption ==
  /\ {Expiry, MaxRetries} \subseteq Nat \ {0}
  /\ {MaxVersion, MaxSends} \subseteq Nat

VARIABLES
  publicKey,         \* WALLET.publicKey
  balance,           \* WALLET.balance, and whose it is
  requestCache,      \* WALLET.requestCache, by key
  pendingRequests,   \* the keys marked in WALLET.pendingRequests
  requestQueue,      \* WALLET.requestQueue
  call,              \* where each call is, and its locals
  server,            \* external: version of each account
  sends,             \* transfers sent so far, for their bound
  ids,               \* ids given to attempts at a transfer so far
  lost               \* history: the ids of attempts whose fetch was rejected

page == <<publicKey, balance, requestCache, pendingRequests, requestQueue>>
vars == <<page, call, server, sends, ids, lost>>

Data == [of : Keys, version : 0..MaxVersion]
ASSUME NoDataAssumption == NoData \notin Data
Entry == [data : Data, age : 0..Expiry]

-----------------------------------------------------------------------------
(* A call: cacheKey is a local of getAccountInfo, url the key it last sent, *)
(* retryCount counts failures, and id names an attempt at a transfer.      *)

Idle == [pc |-> "idle", cacheKey |-> NoEntry, url |-> NoEntry,
         retryCount |-> 0, data |-> NoData, id |-> 0]

At(c, label) == call[c].pc = label

Return(c) == call' = [call EXCEPT ![c] = Idle]

Init ==
  /\ publicKey \in Keys
  /\ balance = NoData
  /\ requestCache = [k \in Keys |-> NoEntry]
  /\ pendingRequests = {}
  /\ requestQueue = {}
  /\ call = [c \in Calls |-> Idle]
  /\ server = [k \in Keys |-> 0]
  /\ sends = 0
  /\ ids = 0
  /\ lost = {}

IsFresh(k) == requestCache[k] # NoEntry /\ requestCache[k].age < Expiry

\* getAccountInfo answers from the cache.
Hit(c, k) ==
  /\ IsFresh(k)
  /\ balance' = requestCache[k].data
  /\ Return(c)
  /\ UNCHANGED pendingRequests

\* ... waits for another call that asks for the same key,
Wait(c, k) ==
  /\ ~IsFresh(k) /\ k \in pendingRequests
  /\ call' = [call EXCEPT ![c] = [Idle EXCEPT !.pc = "poll", !.cacheKey = k]]
  /\ UNCHANGED <<balance, pendingRequests>>

\* Mutant: the key is not marked.
AskUnmarked(c, k) ==
  /\ ~IsFresh(k) /\ k \notin pendingRequests
  /\ call' = [call EXCEPT ![c] =
                [Idle EXCEPT !.pc = "request", !.cacheKey = k, !.url = k]]
  /\ UNCHANGED <<balance, pendingRequests>>

\* ... or asks the server.
Ask(c, k) ==
  /\ ~IsFresh(k) /\ k \notin pendingRequests
  /\ pendingRequests' = pendingRequests \union {k}
  /\ call' = [call EXCEPT ![c] =
                [Idle EXCEPT !.pc = "request", !.cacheKey = k, !.url = k]]
  /\ UNCHANGED balance

GetAccountInfo(c, k) == Hit(c, k) \/ Wait(c, k) \/ Ask(c, k)

-----------------------------------------------------------------------------
(* Where getAccountInfo is called.                                         *)

\* generateNewKeyPair or importPrivateKey sets the key and asks for the account.
SwitchKey(c, k) ==
  /\ At(c, "idle") /\ k # publicKey
  /\ publicKey' = k
  /\ GetAccountInfo(c, k)
  /\ UNCHANGED <<requestCache, requestQueue, server, sends, ids, lost>>

\* claimFromFaucet has been answered, or the page asks again.
Refresh(c) ==
  /\ At(c, "idle")
  /\ GetAccountInfo(c, publicKey)
  /\ UNCHANGED <<publicKey, requestCache, requestQueue, server, sends, ids, lost>>

-----------------------------------------------------------------------------
(* The rest of getAccountInfo.                                             *)

\* The server reads the account.
Serve(c) ==
  /\ At(c, "request")
  /\ call' = [call EXCEPT ![c].pc = "reply",
                          ![c].data = [of |-> call[c].url,
                                       version |-> server[call[c].url]]]
  /\ UNCHANGED <<page, server, sends, ids, lost>>

\* The answer arrives: it is cached under the key the call began with.
Reply(c) ==
  /\ At(c, "reply")
  /\ requestCache' = [requestCache EXCEPT ![call[c].cacheKey] =
                        [data |-> call[c].data, age |-> 0]]
  /\ balance' = call[c].data
  /\ pendingRequests' = pendingRequests \ {call[c].cacheKey}
  /\ Return(c)
  /\ UNCHANGED <<publicKey, requestQueue, server, sends, ids, lost>>

\* Mutant: the attempts are not counted.
FailUncounted(c) ==
  /\ At(c, "request") \/ At(c, "reply")
  /\ call' = [call EXCEPT ![c].pc = "backoff", ![c].data = NoData]
  /\ UNCHANGED <<page, server, sends, ids, lost>>

\* The request is refused or lost, or its answer is: another attempt follows,
\* or the call gives up and shows a balance of 0.
Fail(c) ==
  /\ At(c, "request") \/ At(c, "reply")
  /\ IF call[c].retryCount + 1 < MaxRetries
     THEN /\ call' = [call EXCEPT ![c].pc = "backoff", ![c].retryCount = @ + 1,
                                  ![c].data = NoData]
          /\ UNCHANGED <<balance, pendingRequests>>
     ELSE /\ Return(c)
          /\ balance' = NoData
          /\ pendingRequests' = pendingRequests \ {call[c].cacheKey}
  /\ UNCHANGED <<publicKey, requestCache, requestQueue, server, sends, ids, lost>>

\* After its delay the call asks again, for the key the user has now.
Retry(c) ==
  /\ At(c, "backoff")
  /\ call' = [call EXCEPT ![c].pc = "request", ![c].url = publicKey]
  /\ UNCHANGED <<page, server, sends, ids, lost>>

\* Mutant: an entry that has expired does not do.
PollFresh(c) ==
  /\ At(c, "poll")
  /\ call[c].cacheKey \notin pendingRequests
  /\ IsFresh(call[c].cacheKey)
  /\ balance' = requestCache[call[c].cacheKey].data
  /\ Return(c)
  /\ UNCHANGED <<publicKey, requestCache, pendingRequests, requestQueue,
                 server, sends, ids, lost>>

\* checkPending finds the mark gone and an entry, however old.
Poll(c) ==
  /\ At(c, "poll")
  /\ call[c].cacheKey \notin pendingRequests
  /\ requestCache[call[c].cacheKey] # NoEntry
  /\ balance' = requestCache[call[c].cacheKey].data
  /\ Return(c)
  /\ UNCHANGED <<publicKey, requestCache, pendingRequests, requestQueue,
                 server, sends, ids, lost>>

-----------------------------------------------------------------------------
(* sendTransaction.                                                        *)

\* The balance covers the amount, and the transaction is signed.
Send(c) ==
  /\ At(c, "idle") /\ balance # NoData
  /\ sends < MaxSends
  /\ sends' = sends + 1
  /\ call' = [call EXCEPT ![c].pc = "attempt"]
  /\ UNCHANGED <<page, server, ids, lost>>

\* An attempt, after the signature or a delay: its id joins the queue and the
\* transaction is sent.
Post(c) ==
  /\ At(c, "attempt")
  /\ ids' = ids + 1
  /\ requestQueue' = requestQueue \union {ids'}
  /\ call' = [call EXCEPT ![c].pc = "post", ![c].id = ids']
  /\ UNCHANGED <<publicKey, balance, requestCache, pendingRequests, server,
                 sends, lost>>

\* Mutant: the id is left to the catch block.
AnsweredKept(c) ==
  /\ At(c, "post")
  /\ call' = [call EXCEPT ![c].pc = "answered", ![c].id = 0]
  /\ UNCHANGED <<page, server, sends, ids, lost>>

\* The server answers: the id leaves the queue.
Answered(c) ==
  /\ At(c, "post")
  /\ requestQueue' = requestQueue \ {call[c].id}
  /\ call' = [call EXCEPT ![c].pc = "answered", ![c].id = 0]
  /\ UNCHANGED <<publicKey, balance, requestCache, pendingRequests, server,
                 sends, ids, lost>>

\* It has accepted: the account is asked for.
Accepted(c) ==
  /\ At(c, "answered")
  /\ GetAccountInfo(c, publicKey)
  /\ UNCHANGED <<publicKey, requestCache, requestQueue, server, sends, ids, lost>>

\* Mutant: one attempt too many.
CatchLate(c) ==
  IF call[c].retryCount < MaxRetries
  THEN call' = [call EXCEPT ![c].pc = "attempt", ![c].retryCount = @ + 1,
                            ![c].id = 0]
  ELSE Return(c)

\* The catch block: another attempt follows, or the call returns false.
Catch(c) ==
  IF call[c].retryCount + 1 < MaxRetries
  THEN call' = [call EXCEPT ![c].pc = "attempt", ![c].retryCount = @ + 1,
                            ![c].id = 0]
  ELSE Return(c)

\* The server has refused, or its answer cannot be read.
Refused(c) ==
  /\ At(c, "answered")
  /\ Catch(c)
  /\ UNCHANGED <<page, server, sends, ids, lost>>

\* fetch is rejected: the catch block filters the queue by the requestId of
\* line 347, which was never in it.
Rejected(c) ==
  /\ At(c, "post")
  /\ Catch(c)
  /\ lost' = lost \union {call[c].id}
  /\ UNCHANGED <<page, server, sends, ids>>

-----------------------------------------------------------------------------
(* The server and the clock.                                               *)

Change(k) ==
  /\ server[k] < MaxVersion
  /\ server' = [server EXCEPT ![k] = @ + 1]
  /\ UNCHANGED <<page, call, sends, ids, lost>>

Older(k) ==
  IF IsFresh(k) THEN [requestCache[k] EXCEPT !.age = @ + 1] ELSE requestCache[k]

Tick ==
  /\ \E k \in Keys : IsFresh(k)
  /\ requestCache' = [k \in Keys |-> Older(k)]
  /\ UNCHANGED <<publicKey, balance, pendingRequests, requestQueue, call,
                 server, sends, ids, lost>>

Next ==
  \/ \E c \in Calls, k \in Keys : SwitchKey(c, k)
  \/ \E c \in Calls :
       \/ Refresh(c) \/ Serve(c) \/ Reply(c) \/ Fail(c) \/ Retry(c) \/ Poll(c)
       \/ Send(c) \/ Post(c) \/ Answered(c) \/ Rejected(c)
       \/ Accepted(c) \/ Refused(c)
  \/ \E k \in Keys : Change(k)
  \/ Tick

Spec == Init /\ [][Next]_vars

\* The browser settles a fetch in the end, and its timers fire: a delay of some
\* seconds ends, and a poll every tenth of a second meets a moment at which
\* nothing is pending if there is one again and again.
Fairness ==
  \A c \in Calls :
    /\ WF_vars(Serve(c) \/ Reply(c) \/ Fail(c))
    /\ WF_vars(Retry(c))
    /\ SF_vars(Poll(c))

FairSpec == Spec /\ Fairness

-----------------------------------------------------------------------------
\* Every variable has its type; neither loop makes more than maxRetries attempts
\* (lines 241-247, 391-446).
TypeOK ==
  /\ publicKey \in Keys
  /\ balance \in Data \union {NoData}
  /\ requestCache \in [Keys -> Entry \union {NoEntry}]
  /\ pendingRequests \subseteq Keys
  /\ requestQueue \subseteq 1..ids
  /\ \A c \in Calls :
       /\ call[c].pc \in {"idle", "request", "reply", "backoff", "poll",
                          "attempt", "post", "answered"}
       /\ call[c].retryCount \in 0..(MaxRetries - 1)
       /\ call[c].data \in Data \union {NoData}
  /\ server \in [Keys -> 0..MaxVersion]
  /\ sends \in 0..MaxSends
  /\ ids \in 0..(sends * MaxRetries)
  /\ lost \subseteq 1..ids

InFlight == {c \in Calls : call[c].pc \in {"request", "reply", "backoff"}}

\* A key is marked as pending exactly while one call asks for it: no change of
\* the key, failure or retry leaves a mark behind or lets a second call ask for
\* what is on its way (lines 278-297 and 336-339).
PendingIsInFlight ==
  /\ pendingRequests = {call[c].cacheKey : c \in InFlight}
  /\ \A c, d \in InFlight : call[c].cacheKey = call[d].cacheKey => c = d

\* What is cached for a key never gets older at the server's clock: answers to
\* one account come in the order in which they were asked for, since one call
\* asks at a time.
CacheNeverGoesBack ==
  [][\A k \in Keys :
       /\ requestCache[k] # NoEntry /\ requestCache'[k] # NoEntry
       /\ requestCache'[k].data.of = requestCache[k].data.of
       => requestCache'[k].data.version >= requestCache[k].data.version]_vars

\* The queue holds the attempts whose answer is awaited, and all those whose
\* fetch was rejected: the second filter (lines 438-439) never removes an id.
QueueIsAccounted ==
  requestQueue = lost \union {call[c].id : c \in {d \in Calls : At(d, "post")}}

\* A key does not stay marked: its call is answered or gives up (lines 239-254,
\* 336-339).
MarksAreCleared == \A k \in Keys : k \in pendingRequests ~> k \notin pendingRequests

\* A call that waits for another one returns if the account is in the cache,
\* whether the one it waits for succeeds, fails or is followed by others (lines
\* 278-293).  Without an entry it may wait for ever.
WaitersReturn ==
  \A c \in Calls :
    (At(c, "poll") /\ requestCache[call[c].cacheKey] # NoEntry) ~> ~At(c, "poll")

\* The answer that some call has on its way for a key.
AnswerIn(calls) ==
  [k \in Keys |->
     IF \E c \in Calls : calls[c].pc = "reply" /\ calls[c].cacheKey = k
     THEN calls[CHOOSE c \in Calls : calls[c].pc = "reply" /\ calls[c].cacheKey = k].data
     ELSE NoData]

Requests == INSTANCE AccountRequests
              WITH pending <- pendingRequests, cache <- requestCache,
                   answer <- AnswerIn(call)

\* However many calls ask, wait, fail or try again, and although each one caches
\* and clears its mark on its own, the page acts as one request for each key
\* (lines 278-339).
OneRequestEach == Requests!Spec

=============================================================================
