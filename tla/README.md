# A TLA+ model of HANCOIN

This directory models the logic of the HANCOIN node (`src/*.rs`) and of its browser wallet
(`wallet/wallet.js`). The modules are checked by TLC on small instances; theorems about all
parts, the node's and the wallet's, are proved by TLAPS for all values of the constants. `PROJECT.json` says which lines of the
source every definition stands for, lists the runs, the theorems, what is hard to test in the code
(hazards) and where the code disagrees with its own comments (findings).

Run a model with `tlc -config <run>.cfg <module>`, a proof with `tlapm <module>.tla`.

## 1. The system

| Part | State | Operations | Interacts with |
|---|---|---|---|
| Ledger and faucet (`main.rs`, `types.rs`) | `accounts` (a DashMap), `issued` (an AtomicU64) | `handle_faucet`, `handle_balance`, `handle_transfer`; start | tokio runs one task per request; tasks share the ledger without a lock over two accesses |
| Request checks (`main.rs`, `types.rs`) | none | id pattern, hexadecimal, key, signature | stand before the ledger |
| Account cache (`types.rs`) | an LRU cache behind a RwLock | `get_account`, `get_accounts_batch` | reads the DashMap; inserts do not tell it |
| CoinJoin session (`coinjoin.rs`) | status, participants, inputs, outputs, signatures, transaction id, `last_active` | create, add a participant / input / output / signature, complete, fail, `check_timeout` | entries of the manager's map |
| CoinJoin manager (`coinjoin.rs`) | map of sessions, a cleanup task | `create_session`, `add_input` | sessions |
| WebSocket server (`ws.rs`) | counters of connections and messages behind a Mutex, one rate limiter, one task per connection | upgrade, `handle_ws` | clients; JWT validation |
| JWT validation (`ws.rs`) | secrets of the environment, the set of revoked tokens | validate, revoke; a rotation is a restart | upgrade |
| P2P network (`p2p.rs`, `tor.rs`) | `active_peers` | event loop, cleanup task, the transport with or without `TorConnector` | libp2p's swarm |
| Wallet, account requests (`wallet.js`) | key, balance, cache, marks of pending requests, queue of transfers | `getAccountInfo`, `sendTransaction`, `claimFromFaucet`, change of key | HTTP, timers |
| Wallet, keys (`wallet.js`) | key pair, public key, the browser's storage | generate, import, save, load with the page | the browser's key operations; every other part reads the key |
| Wallet, connection (`wallet.js`) | sockets, heartbeat intervals, timers, queue of messages | `connectWebSocket` and its event handlers, `processMessageQueue` | the WebSocket server, the browser's event loop |
| Error types, issuance schedule, crypto | none | pure functions | – |

What is hard about it, and the property each part owes:

* **Ledger.** Handlers of concurrent requests interleave between any two accesses; `get` and
  `insert`, check and store, account and counter are separate accesses. The system clock may be set
  back under unchecked `u64` subtractions, which wrap around in a release build (CI builds with
  `--release`). A restart forgets everything. Owed: no HAN from nothing, the counter within the supply
  and behind the payments, a claim kept, a cooldown kept.
* **Request checks.** Two checks of one text by two formats. Owed: which requests get through at all.
* **Cache.** Reads race with inserts and evictions. Owed: reads do not go back in time, a batch is
  complete, calls return.
* **CoinJoin.** Any participant may call any method at any time, fail or time out. Owed: stages in
  order, a signed transaction frozen, a transaction id final and only for a complete session.
* **WebSocket server.** Connections come, stall and vanish at any point. Owed: slots counted and given
  back, a shared rate.
* **Tokens.** Secrets rotate with a restart, which forgets what was revoked. Owed: a token is refused, or
  accepted again, only for one of these reasons.
* **Peers.** Events are queued behind the swarm's state while a task sweeps. Owed: no dead peer listed
  for good, entries bounded in age. With Tor an address goes through a text that two parts read
  differently: owed is to say what connects at all.
* **Keys.** One key is in three places, changed at different moments of calls that nobody waits for,
  while the page may be left at any of them. Owed: when the three agree.
* **Wallet.** One thread, but every `await` lets another call or event in: replies that are late, lost
  or for another key; close events of replaced sockets; timers that outlive their reason. Owed: one
  request per account at a time, marks cleared, waiting calls answered, one connection, messages in
  order and shown.

## 2. Modules

`MC*` modules hold the definitions an instance needs for its cfg (sets of requests, symmetry, sums);
`*Proofs` modules hold theorems. A definition named `<X><Word>` with the comment "Mutant" is a
plausible mistake in `<X>`, used only to see that a property notices it.

### Faucet, AtomicFaucet (core)

`Faucet` is `handle_faucet` past its checks (lines 212-257). A request is a worker with a `task`
record: its program counter and the handler's locals (`now`, `account`, `new_issued`). One action is
one access to the shared ledger with the local computation after it: `Receive` (clock read),
`GetAccount`/`MissAccount` (`accounts.get`), `CreateAccount` (`insert` of a default), `LoadIssued`
(supply check), `Credit` (`insert` of the copy), `StoreIssued`. `CheckCooldown` with `WrappingSub` is
part of the action whose access it follows. `Tick`, `StepBack`, `Restart` are the environment.
`granted`, `paid`, `lastGrant` are history: what was credited, and when last. So is `overlapped`, the
accounts that have had two requests in flight at a time: what needs a client that awaits its replies is
stated of the others (`OneAtATime`), while requests for the same account and for other accounts overlap
in the same behaviours. The parameter `Sends` limits which worker asks for which account; only
`Faucet_supply` uses it, to keep its counterexample to requests for different accounts.

`AtomicFaucet` is what the comments at lines 228-243 announce: a claim is one step that checks
cooldown and supply, credits and counts. With one request at a time `Faucet` implements it
(`AtomicClaims`, with `issued` counted from the credit on; also a theorem). With concurrent requests it
does not: see the findings.

Through the checks no request arrives (next paragraph); `Faucet` models the handler's body as it would
run behind a check that can be met, which is what concerns whoever repairs the pattern.

### RequestGate

The checks of the three handlers, in their order, on texts abstracted to their length and alphabet,
which is all the pattern and `hex::decode` look at. `Claim` is `handle_faucet` as far as its checks and
the entry it creates (`opened`); `Balance` and `Transfer` are the other two. An id must have 32 to 44 base-58 digits and decode
to 32 bytes of hexadecimal, 64 digits: nothing is both. `handle_transfer` is modelled up to where the
file ends.

### LedgerCache

`get_account` and `get_accounts_batch` as one loop: `Ask`, `ReadLock` and `LookUp` (the read section),
then `FetchNothing`, or `Fetch`, `WriteLock` and `Put`, per miss; `Insert` by other threads. The cache's
RwLock is where the readers are: one at `read` shares it, one at `write` has it alone (`Shared`,
`Exclusive`), and `ReadLock` and `WriteLock` wait for the others. A reader waits for the cache with a
shard of the map locked; that this ends rests on nobody who has the cache waiting for a shard. With
the shared lock kept over the read of the map (`SharedTillPut`) two readers wait for each other, and
TLC reports the deadlock. A call keeps its batch (`ids`) and the set of the
positions it still has to fetch (`cache_miss`), which it takes in order (`NextMiss`); an id that occurs
twice is fetched twice, as in the code. An account is its version. `DashMap::get`'s guard keeps the shard
locked until the put: that lock is why reads do not go back, and the mutant `InsertUnguarded` shows it.
`LruCache`'s choice of a victim is any entry (`Kept`).

### CoinJoinSession

The methods as operators from session to session, the calls as actions; a call has the session to
itself (manager behind a Mutex). `idle` is `now - last_active`, negative after a clock change, when
`IsExpired` holds as the subtraction wraps. The manager's membership check is in `AddInput`.
`Fail` and `CheckTimeout` have no guard on the status, as in the code.

### JwtValidator, WsConnections, MCWsConnections

`JwtValidator` has the secrets, which come from the environment when the process starts, and the set of
revoked tokens. A token is the secret that signed it and whether its claims name issuer and user;
`Upgrade` says whether its time is over. `RevokeToken` takes any token, as `revoke_token` does. `WsConnections` extends it: `Upgrade` validates (as the code
does, a request without a valid token is upgraded too, and told so), then `handle_ws` runs per
connection: `Admit` (limit and count under one lock), the `select!` loop (`Receive`, `StreamEnds`,
`Heartbeat`), `Count` of a text, sends that end when the peer reads or is gone (`Sent`), `Leave`. The
runtime has several threads, so a step is one access to what the tasks share, or a send: between a text's
pass through the limiter (`Receive`) and its count other connections do the same. All connections share
`cells`, the rate limiter. Peers send, stall, resume, vanish. `Revoke` is a caller of `revoke_token`,
which the repository lacks; it names tokens that the node has signed. `Restart` ends every connection and starts again with the secrets of another
environment.

### TorTransport, P2PPeers

`TorTransport` has no variables: it says of a point a socket connects which text is made of it, and
whether `TorConnector::connect` gets through with that text. `P2PPeers` extends it: `Dial` gives the
transport a socket, dialled or accepted directly whether Tor is enabled or not, because the closure of
`p2p.rs:97` runs after that (`DialFails` is an attempt without one); `Connect` takes the socket, and makes a
connection of it where `Opens` says so. The event loop (`TakeEvent`) and cleanup task (`Sweep`) work over the table, the
swarm's connections and its queue of events (external). `last_seen` is kept as an age.

### WalletKeys

Where the user's key is: `keyPair`, `publicKey`, `stored`. A call is one of `Calls` and its step is from
one await to the next: `GenerateNewKeyPair`, `Generated` (key pair set), `Exported` (public key set, save
begun); `ImportPrivateKey`, `Imported` (both set, save begun); `Saved` (the storage written, with the
public key of that moment); `Fails` is a rejected key operation. A save goes on in the record of the call
that began it, as nothing else of that call touches the key. `InitWallet` is the page loaded anew:
whatever ran is gone, the stored key is imported by a call that nobody waits for, and `connectWebSocket`,
which comes right after, finds no public key yet. An account's name (`publicKey`) is the
public key of a key or the first bytes of its text, which `importPrivateKey` takes for it.
`overlapped`, `ours` and `made` are history.

### WalletAccount, AccountRequests

`getAccountInfo` from await to await: `Hit`, `Wait` (then `Poll`), `Ask`, `Serve`/`Reply`/`Fail`,
`Retry`, and `sendTransaction`: `Send` (balance check, signature), `Post`, `Answered`, `Accepted`,
`Refused`, `Rejected` with the catch block in `Catch`. A retry sends to the key of that moment (`url`)
and caches under the key it began with (`cacheKey`). The server's accounts change on their own
(`Change`). Ids of attempts are distinct; the code's are a key and a millisecond.

`AccountRequests` is what the pending marks are for, without calls: for each key at most one request,
which begins when there is no fresh entry, is read by the server, may lose its answer and be read again,
and ends with the answer in the cache or with nothing. `WalletAccount` implements it
(`OneRequestEach`) under a mapping that takes a key's answer from the one call whose reply is on its
way (`AnswerIn`); calls that wait, back off or send a transfer are stutters. That a retry may ask for
another account than its key (`url`) shows as the parameter `account` of `Read`.

### WalletMessages, WalletSocket

`WalletMessages` is the queue of received messages and its animation frames. `WalletSocket` extends it
with `connectWebSocket`: sockets with their states, the interval of each, timers that will connect
again. An event handler is an action: `Opens`, `Heartbeat`/`HeartbeatLost`, `Pong`, `Message`,
`Closes`, `Errs`. `close()` on an open socket leads to a close event, on a connecting one to an error
event and a close event, as browsers do; these come later and at any time. `ws` is `WALLET.ws`, which
the interval of an older socket asks for too.

## 3. Runs

| Run | Instance | Shows |
|---|---|---|
| `Faucet` | 2 requests in flight, for the same account or for two; supply of 3 claims, 1 clock change, 1 restart; symmetry of requests and of accounts | counter within the supply and behind the payments, balances never above the claims, for any requests; claims kept and cooldown respected, before and after restarts, for every account as long as no two of its own requests have overlapped |
| `Faucet_serial` | 1 request at a time, 2 accounts, until the supply is gone | the handler implements `AtomicFaucet`; a credited claim is counted |
| `Faucet_supply` (violation) | 2 overlapping claims, supply of one | the accounts exceed the supply (comment at `main.rs:233`) |
| `RequestGate` | all texts whose lengths are next to a boundary | no account ever opens |
| `LedgerCache` | 2 readers, 2 accounts, a cache of 1 entry; a single read, and a batch of both ids with one repeated | reads in order, complete batches, no deadlock of cache and shards, every call returns |
| `CoinJoinSession` | 3 people, minimum 0, 2 or 3, 1 clock change | stages, frozen signatures, final transaction id |
| `CoinJoinSession_signed` (violation) | a session for two | a repeated signature counts twice (comment at `coinjoin.rs:206`) |
| `WsConnections` | 2 connections, 1 slot, a rate of 1, 1 refill, 2 secrets in 3 environments, 1 restart | slots counted, rate shared, slots given back, tokens ended for a reason |
| `P2PPeers` | 2 peers, up to 2 connections each, one socket being set up at a time, timeout 2, period 4; with and without Tor, a proxy address that parses or not | no dead peer stays, ages bounded, no connection with Tor |
| `WalletAccount` | 2 calls, 2 keys, 2 attempts each, 1 transfer | the calls act as one request per key (`AccountRequests`), a mark per request, cache in order, marks cleared, waiters answered, queue accounted |
| `WalletKeys` | 3 keys, 2 calls at a time, 2 reloads | places agree after calls that do not overlap; the storage names the account shown; accounts of generated keys end with their page; keys are saved and stay saved |
| `WalletSocket` | 3 troubles, 4 sockets, a queue of 3, 5 messages | one connection, loops counted and never ending, messages in order until the queue is first empty |

**Why the bounds are enough.** Every race modelled is between two actors over one or two pieces of
shared data, so two workers, readers, connections or calls show it, and a second account, key or peer
shows that they do not disturb each other. `Faucet` reaches the supply limit, both arms of the
wrapping subtraction, a restart in the middle of any handler, and (`MaxWord` 15, clocks up to 5) word
arithmetic; the saturating addition at its limit is what the proofs are for. `LedgerCache`'s cache of one entry evicts on every put of another id, and
its two readers can each have the cache or a shard while the other waits. Sockets do not touch each other, so
`P2PPeers` has one at a time; its errors and connections come in any order all the same. `CoinJoinSession`
reaches every status with sessions of two and three and one whose minimum is met by its creator. The
wallet's `MaxMissed` is the code's own 2; `MaxRetries` 2 instead of 3 has both a retry and a last
failure; `MaxTroubles` 3 lets a loop meet another two. `WalletKeys` has two calls because a
disagreement takes two, a third key that neither holds, and two reloads because the second one restores
what the first one restored. The three environments of `WsConnections` are a secret, its rotation, and
the old one left out. Bounds on time, versions, refills,
queues, clock changes, reloads and restarts are constants named as bounds in the modules and appear as guards
only in actions of the environment, with two exceptions that state their condition: `Send`
(`MaxSends`) and `TimerFires`/`HeartbeatLost` (`MaxTroubles`), which are held back when the budget is
used up.

**Deadlock** is checked in every run but `WsConnections`, where all connections may end.

**Fairness.** Tokio polls a task that can go on, and none of the handlers modelled waits for anything
without a bound: weak fairness of `Handle` in `Faucet`, of `Read` in `LedgerCache`. A reader of the
cache does wait for its lock (`Lock`), strongly fair: the RwLock is `parking_lot`'s (`types.rs:11`), whose
unlocking hands the lock to waiting writers and readers in turn. In `WsConnections` a send
to a stalled peer is *not* fair (it is disabled); `select!` picks among ready branches at random, so
the stream's branch, ready again and again, is strongly fair. In the wallet a `fetch` settles in the
end and timers fire (weak); a poll every tenth of a second against pauses of seconds between marks
is strongly fair. In `WalletKeys` an operation of the browser on a key ends (weak fairness of `Continue`).
In `WalletSocket` only timers and the events of sockets the page has closed are
fair: the network owes nothing. No other assumption is made; `Spec` without fairness carries all
safety properties.

## 4. Proofs

All theorems are of `Spec`, from the constants' named assumptions in the modules.

* **`FaucetProofs`.** `TypeCorrect` includes that `issued` stays within the supply under all
  interleavings: only a sum that passed the check is stored; the check and the store are apart, so the
  invariant must carry the bound on `new_issued` in the handlers' locals (`CarryFits`).
  `IssuedNeverAhead` needs the same for `paid` (`CarryIsPaid`), `NoHanFromNothing` for copies
  of accounts (`CopyIsGranted`). `NoClaimIsLost` and `CooldownHolds` are about an account whose
  requests have not overlapped: at most one handler is under way for it (`OverlapsAreKnown`), whose copy
  equals the entry from the read to the write-back (`CopyIsCurrent`), since no one else writes it. `MaxWord`, supply, cooldown, times, restarts and clock changes are arbitrary, so
  saturation and wrap-around are covered.
  `HandlerIsAtomic` is the refinement: with one request at a time (`Workers = {w}`), a clock that is not
  set back and no restart, every step of the handler is an `Open` or a `Claim` of `AtomicFaucet` or
  stutters. Its invariant (`AloneInv`) says that what is paid is counted but for the claim being stored,
  and that no stamp is later than what the handler has read, so that neither the subtraction wraps around
  nor the addition saturates.
  `SupplyIsKept` complements the run `Faucet_supply`: with one request at a time, and whatever the clock
  and restarts do, no more than the supply is paid and the counter is what was paid (`SerialInv`), so that
  only an overlap of requests breaks the supply.
  The module also has `RequestGate`'s theorems: `GateIsShut`, from the lemma that an id's length cannot
  be a key's, and `GateTypeCorrect`.
* **`CoinJoinSessionProofs`.** `StageInv` says for each open status how full every list is; with it
  `StagesFillInOrder` and `TransactionIsComplete` are inductive. `FrozenOnceSigned` and `TxidIsFinal`
  are action properties from the same invariant.
* **`LedgerCacheProofs`.** That reads do not go back is not inductive by itself. `IInv` orders, for every
  id, the newest answer, the cache and the map (`Ordered`), places each reader's result between what was
  answered when it looked the ids up and the map (`Call`), and has the lock's part: while a reader holds
  the shard, waiting for the cache or having it (`Held`), the entry it will put is the map's, and nothing else a reader holds is newer than the
  cache (`NotAhead`). `Complete` says of a batch that what existed when it began is answered or will be
  asked for. `RoomHolds` is the capacity, by cardinalities.
* **`WsConnectionsProofs`.** `SlotsCount`: a step changes the set of tasks in their loop exactly where it
  changes the counter (`Moves`, `Counting`). `RateHolds` counts the texts that passed the
  limiter and are not counted yet (`Passed`) with those that are: a message that passes takes a cell and
  joins them, a count takes one out (`PassedMoves`, `PassedCounting`). `TokensEnd`: of all steps only
  `Revoke` and `Restart` touch what the validator knows (`ValidatorEffect`).
* **`P2PPeersProofs`.** `EntriesDoExpire`: age plus the time to the next sweep is below timeout plus
  period (`SweepIsDue`). `ListedAreConnected`: every opening in the queue, and every entry, has its
  connection still or a closing behind it (`OpeningsAreCurrent`, `ClosingFollows`). `TorIsolatesTheNode`:
  with Tor no opening is ever reported.
* **`WalletSocketProofs`.** `OneConnection` and `LoopsAreCounted` together, the latter by counting timers,
  connections and closings before and after each event; `LatestDoWait` from what `Cut` leaves of a queue,
  for any limit and length.
* **`WalletKeysProofs`.** `PlacesDoAgree` from what the only call running knows (`AloneInv`);
  `ShownIsStored` from the fact that an account not yet stored has a save on its way (`ShownInv`);
  `AccountsEnd` directly.
* **`WalletAccountProofs`.** `PendingHolds` is inductive beside the types of the locals at each label
  (`Local`). For the bound on attempts, `AttemptsAreBounded` counts those made together with those that
  the loops under way may still make, the set `Left`: a transfer adds `MaxRetries` to it, an attempt takes one out,
  any other step adds none. `QueueHolds` needs that attempts under way have ids of their own
  (`IdsAreDistinct`), or an answer to one would remove another. `CacheIsInOrder` needs
  that an answer on its way is no older than the entry it will replace, and nothing read newer than the
  server (`AnswersAreInOrder`); both rest on `PendingHolds`. `CallsAreOneRequest` is the refinement of
  `AccountRequests`: since only one call asks for a key, the answer mapped to the key is that
  call's, and every step of a call begins, reads, loses or ends that key's request or stutters. Calls, keys,
  expiry, retries and bounds are arbitrary.

The type invariants of `RequestGate` (`GateTypeCorrect`), `LedgerCache`, `WsConnections`, `P2PPeers`, `WalletSocket` and
`WalletKeys` are theorems (`TypeCorrect` of each of the others) and not repeated in the runs; TLC checked each of them
first. The type invariants of `Faucet`, which bounds the issuance, `CoinJoinSession`, which says whom
signatures name, and `WalletAccount`, which bounds the attempts, are in both.

Only model-checked: liveness (out of the prover's reach: `IssuedCatchesUp`, `CallsReturn`,
`SlotIsGivenBack`, `MarksAreCleared`, `WaitersReturn`, `ConnectsAgain`, `NothingLasts`, `KeysAreSaved`).
Every other property of a passing run is a theorem.

## 5. Where code and comments disagree

With a run: the findings in `PROJECT.json` (supply and account creation under overlapping requests,
the three exceptions of the cooldown, the faucet that lets no one through, repeated signatures, the
sweep of active peers, a Tor node without connections, keys of overlapping calls, accounts that change
with a reload, the transfer queue's leak, reconnection loops, the message queue).

Read from the code while modelling, without a run of their own:

* `coinjoin.rs:167` speaks of every participant's input; line 168 compares numbers, and one
  participant's two inputs count for another's.
* `coinjoin.rs:89`, `max_participants`: nothing reads it.
* `coinjoin.rs:240`: a clock set back times an active session out.
* `main.rs:239` calls the update of account and issuance atomic; a second `issued.store` overwrites
  the first.
* `wallet.js:575` announces exponential backoff of 5 to 30 seconds: the delay is uniform in 5 to 10.
* `wallet.js` asks for `/api/...` while the node serves `/v1/...`; the node never answers the wallet's
  pings, so each connection is taken for lost after three heartbeats.
* `p2p.rs:96`: with Tor enabled the transport still dials or accepts the peer's socket directly, and the
  closure leaves that socket aside; only what comes after goes through the proxy.
* `tor.rs`: `only_onion` is read by nothing.
* `ws.rs`: nothing calls `revoke_token`, and `cleanup_revoked`, which announces a removal, only logs.
* `coinjoin.rs:383`: the cleanup task, too, only logs, and nothing removes a session from the map.
* `initWallet` calls `connectWebSocket` before the stored key is imported, and nothing calls it later.

## 6. What is not modelled, and why

* The files `main.rs` (inside `handle_transfer`), `coinjoin.rs` (inside `CoinJoinManager::add_input`)
  and `wallet.js` (some helpers) end before their text does, and neither program builds as it stands
  (missing imports; `sendTransaction` redeclares its parameters, and the model takes the inner
  declarations). What is there is modelled as written.
* `yearly_distribution`, `add_transaction`, `P2PMessage`'s `sign` and `verify`: called by nothing, so
  that no state the program can be in depends on them.
* Cryptography, formatting, logging, the two error types and their HTTP statuses, gossipsub's
  configuration and its message validator, page layout: no state that a modelled part reads. A message
  the validator refuses never reaches the event loop.
* Posts, groups and red packets of the wallet: each handler sends one request and renders its reply.
* The CoinJoin manager's map: sessions do not touch each other, the calls the file has are in
  `CoinJoinSession`, the cleanup task changes nothing.

## 7. Plan

Done, in this order: `Faucet` with its abstract specification and proofs, `RequestGate`,
`CoinJoinSession`, `LedgerCache`, `WsConnections`, `P2PPeers`, `WalletAccount`, `WalletMessages` within
`WalletSocket`; then `WalletKeys`, `TorTransport` under `P2PPeers`, `JwtValidator` under `WsConnections`,
and the proofs of `LedgerCache`, `WsConnections`, `WalletSocket`, `WalletKeys`, `ListedIsConnected` and
the refinement of `AtomicFaucet`; then the proofs of `WalletAccount` with the refinement of
`AccountRequests`, and of `TokensEndForAReason`; last the cache's RwLock, the direct sockets under Tor,
the count of a text as a step of its own, and the faucet's properties of one account for any requests.

What remains:

1. `Faucet`'s inserts composed with `LedgerCache`, once a handler of the repository reads through the
   cache: none does so far.
2. The rest of `handle_transfer` and of the CoinJoin manager when their files are complete.
