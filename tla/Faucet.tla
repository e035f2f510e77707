------------------------------- MODULE Faucet -------------------------------
(***************************************************************************)
(* The faucet of the node: handle_faucet of src/main.rs over the Ledger of *)
(* src/types.rs.  The handler is an async function with no await, run by   *)
(* the threads of tokio's runtime, one per request.  The ledger is a       *)
(* DashMap and an AtomicU64: each access to one of them is atomic, nothing *)
(* holds over two of them, so an action below is one such access and the   *)
(* local computation that follows it.                                      *)
(*                                                                         *)
(* The requests modelled are those the checks of lines 182-211 let through *)
(* (see RequestGate for those checks): the others return, or panic in their *)
(* own task, before the ledger is touched.                                 *)
(***************************************************************************)
EXTENDS Naturals

CONSTANTS
  Workers,       \* requests in flight: one task of the runtime each
  Accounts,      \* account ids
  Sends,         \* the <<worker, account id>> pairs that may occur
  NoAccount,     \* what DashMap::get returns for an id that has no entry
  Limit,         \* FAUCET_DAILY_LIMIT
  TotalSupply,   \* HAN_TOTAL_SUPPLY
  Cooldown,      \* FAUCET_COOLDOWN
  StartTime,     \* UNIX time at which the node starts
  MaxTime,       \* bound: the last time the clock shows
  MaxWord,       \* u64::MAX
  MaxBacksteps,  \* bound: how often the system clock is set back
  MaxRestarts    \* bound: how often the process dies and starts again

Account == [balance : 0..MaxWord, last_claim : 0..MaxTime]

ASSUME SendsAssumption == Sends \subseteq Workers \X Accounts

\* UNIX time is far beyond a day, far below 2^64, and so is the supply.
ASSUME WordAssumption ==
  /\ {Limit, TotalSupply, Cooldown, StartTime, MaxTime, MaxWord} \subseteq Nat
  /\ {MaxBacksteps, MaxRestarts} \subseteq Nat
  /\ 0 < Cooldown /\ Cooldown <= StartTime /\ StartTime <= MaxTime
  /\ MaxTime < MaxWord
  /\ TotalSupply + Limit <= MaxWord

ASSUME NoAccountAssumption == NoAccount \notin Account

VARIABLES
  accounts,    \* Ledger.accounts
  issued,      \* Ledger.issued
  clock,       \* SystemTime::now() in seconds
  task,        \* each request: where it is in handle_faucet and its locals
  backsteps,   \* what the two bounds count
  restarts,
  granted,     \* history: HAN credited to each account since the start
  paid,        \* history: HAN credited to all accounts since the start
  lastGrant,   \* history: time of each account's last claim since the start,
               \* 0 if none
  overlapped   \* history: accounts that have had two requests in flight at a
               \* time since the start

ledger == <<accounts, issued>>
environment == <<clock, backsteps, restarts>>
history == <<granted, paid, lastGrant, overlapped>>
vars == <<ledger, task, environment, history>>

-----------------------------------------------------------------------------
\* u64 arithmetic of a release build (ci.yml builds and tests with --release):
\* subtraction wraps around.
WrappingSub(x, y) == IF y <= x THEN x - y ELSE (x + MaxWord + 1) - y

SaturatingAdd(x, y) == IF x + y <= MaxWord THEN x + y ELSE MaxWord

\* Mutant: a new account starts with a gift that no claim paid for.
DefaultAccountGift == [balance |-> Limit, last_claim |-> 0]

\* Account::default()
DefaultAccount == [balance |-> 0, last_claim |-> 0]

\* A worker that handles no request: the locals of the last one are gone.
Idle ==
  [pc |-> "idle", account_id |-> NoAccount, now |-> 0,
   account |-> DefaultAccount, new_issued |-> 0]

Task ==
  [pc : {"idle", "get", "create", "load", "credit", "store"},
   account_id : Accounts \union {NoAccount},
   now : 0..MaxTime,
   account : Account,
   new_issued : 0..MaxWord]

Init ==
  /\ accounts = [a \in Accounts |-> NoAccount]
  /\ issued = 0
  /\ clock = StartTime
  /\ task = [w \in Workers |-> Idle]
  /\ backsteps = 0
  /\ restarts = 0
  /\ granted = [a \in Accounts |-> 0]
  /\ paid = 0
  /\ lastGrant = [a \in Accounts |-> 0]
  /\ overlapped = {}

At(w, label) == task[w].pc = label

\* The handler returns: Ok with the reply, or Err with the rejection.
Return(w) == task' = [task EXCEPT ![w] = Idle]

-----------------------------------------------------------------------------
(* One action per access to the ledger.                                    *)

\* The request is verified and the handler reads the clock.
Receive(w, a) ==
  /\ At(w, "idle")
  /\ <<w, a>> \in Sends
  /\ task' = [task EXCEPT ![w].pc = "get",
                          ![w].account_id = a,
                          ![w].now = clock]
  /\ overlapped' = overlapped \union
                     {b \in {a} : \E v \in Workers : ~At(v, "idle")
                                                    /\ task[v].account_id = a}
  /\ UNCHANGED <<ledger, environment, granted, paid, lastGrant>>

\* Mutant: the comparison allows a claim one second early.
CheckCooldownEarly(w, copy) ==
  IF WrappingSub(task[w].now, copy.last_claim) < Cooldown - 1
  THEN Return(w)
  ELSE task' = [task EXCEPT ![w].pc = "load", ![w].account = copy]

\* The handler has its copy of the account: it answers FaucetCooldownNotOver
\* or goes on to the supply check.
CheckCooldown(w, copy) ==
  IF WrappingSub(task[w].now, copy.last_claim) < Cooldown
  THEN Return(w)
  ELSE task' = [task EXCEPT ![w].pc = "load", ![w].account = copy]

\* accounts.get finds the account and the handler clones it.
GetAccount(w) ==
  /\ At(w, "get")
  /\ accounts[task[w].account_id] # NoAccount
  /\ CheckCooldown(w, accounts[task[w].account_id])
  /\ UNCHANGED <<ledger, environment, history>>

\* Mutant: the handler creates the account without looking for it.
MissAccountBlind(w) ==
  /\ At(w, "get")
  /\ task' = [task EXCEPT ![w].pc = "create"]
  /\ UNCHANGED <<ledger, environment, history>>

\* accounts.get finds nothing; the shard is unlocked before the insert.
MissAccount(w) ==
  /\ At(w, "get")
  /\ accounts[task[w].account_id] = NoAccount
  /\ task' = [task EXCEPT ![w].pc = "create"]
  /\ UNCHANGED <<ledger, environment, history>>

\* accounts.insert of a default account, whatever the entry holds by now.
CreateAccount(w) ==
  /\ At(w, "create")
  /\ accounts' = [accounts EXCEPT ![task[w].account_id] = DefaultAccount]
  /\ CheckCooldown(w, DefaultAccount)
  /\ UNCHANGED <<issued, environment, history>>

\* Mutant: the supply is checked before the claim is added to it.
SupplyLeftBefore == issued <= TotalSupply

\* The supply check of lines 234-235.
SupplyLeft == issued + Limit <= TotalSupply

\* Mutant: the counter is raised where it is read, before the account is
\* credited.
LoadIssuedRaise(w) ==
  /\ At(w, "load")
  /\ IF SupplyLeft
     THEN /\ task' = [task EXCEPT ![w].pc = "credit",
                                  ![w].new_issued = issued + Limit]
          /\ issued' = issued + Limit
     ELSE Return(w) /\ UNCHANGED issued
  /\ UNCHANGED <<accounts, environment, history>>

\* issued.load: the handler answers TotalSupplyLimitReached or goes on.
LoadIssued(w) ==
  /\ At(w, "load")
  /\ IF SupplyLeft
     THEN task' = [task EXCEPT ![w].pc = "credit",
                               ![w].new_issued = issued + Limit]
     ELSE Return(w)
  /\ UNCHANGED <<ledger, environment, history>>

\* Mutant: the claim is not stamped.
CreditedUnstamped(copy, time) ==
  [balance |-> SaturatingAdd(copy.balance, Limit),
   last_claim |-> copy.last_claim]

\* What the handler writes back: its copy, credited and stamped.
Credited(copy, time) ==
  [balance |-> SaturatingAdd(copy.balance, Limit), last_claim |-> time]

\* accounts.insert of the credited copy.
Credit(w) ==
  /\ At(w, "credit")
  /\ LET a == task[w].account_id
         credited == Credited(task[w].account, task[w].now)
     IN  /\ accounts' = [accounts EXCEPT ![a] = credited]
         /\ task' = [task EXCEPT ![w].pc = "store", ![w].account = credited]
         /\ granted' = [granted EXCEPT ![a] = @ + Limit]
         /\ lastGrant' = [lastGrant EXCEPT ![a] = task[w].now]
  /\ paid' = paid + Limit
  /\ UNCHANGED <<issued, environment, overlapped>>

\* Mutant: the handler replies without storing the counter.
StoreIssuedNever(w) ==
  /\ At(w, "store")
  /\ Return(w)
  /\ UNCHANGED <<ledger, environment, history>>

\* issued.store of the value computed from the load, then the reply.
StoreIssued(w) ==
  /\ At(w, "store")
  /\ issued' = task[w].new_issued
  /\ Return(w)
  /\ UNCHANGED <<accounts, environment, history>>

Handle(w) ==
  \/ GetAccount(w)
  \/ MissAccount(w)
  \/ CreateAccount(w)
  \/ LoadIssued(w)
  \/ Credit(w)
  \/ StoreIssued(w)

-----------------------------------------------------------------------------
(* The environment.                                                        *)

Tick ==
  /\ clock < MaxTime
  /\ clock' = clock + 1
  /\ UNCHANGED <<ledger, task, backsteps, restarts, history>>

\* SystemTime is not monotonic: the host's clock may be set back.
StepBack ==
  /\ backsteps < MaxBacksteps
  /\ clock > StartTime
  /\ clock' = clock - 1
  /\ backsteps' = backsteps + 1
  /\ UNCHANGED <<ledger, task, restarts, history>>

\* The process dies at any point and main starts it again with Ledger::new:
\* nothing of the ledger is on disk.
Restart ==
  /\ restarts < MaxRestarts
  /\ restarts' = restarts + 1
  /\ accounts' = [a \in Accounts |-> NoAccount]
  /\ issued' = 0
  /\ task' = [w \in Workers |-> Idle]
  /\ granted' = [a \in Accounts |-> 0]
  /\ paid' = 0
  /\ lastGrant' = [a \in Accounts |-> 0]
  /\ overlapped' = {}
  /\ UNCHANGED <<clock, backsteps>>

Next ==
  \/ \E w \in Workers, a \in Accounts : Receive(w, a)
  \/ \E w \in Workers : Handle(w)
  \/ Tick
  \/ StepBack
  \/ Restart

Spec == Init /\ [][Next]_vars

\* The runtime polls every spawned task, and the handler never blocks.
Fairness == \A w \in Workers : WF_vars(Handle(w))

FairSpec == Spec /\ Fairness

-----------------------------------------------------------------------------
\* Every variable has its type; the issuance counter stays within the supply
\* whatever the interleaving (main.rs:235: only a sum that passed the check is
\* ever stored).
TypeOK ==
  /\ accounts \in [Accounts -> Account \union {NoAccount}]
  /\ issued \in 0..TotalSupply
  /\ clock \in StartTime..MaxTime
  /\ task \in [Workers -> Task]
  /\ \A w \in Workers : ~At(w, "idle") => task[w].account_id \in Accounts
  /\ backsteps \in 0..MaxBacksteps
  /\ restarts \in 0..MaxRestarts
  /\ granted \in [Accounts -> Nat]
  /\ paid \in Nat
  /\ lastGrant \in [Accounts -> 0..MaxTime]
  /\ overlapped \subseteq Accounts

-----------------------------------------------------------------------------
(* What holds of any interleaving of any requests.                         *)

\* The issuance counter never runs ahead of what was credited: a claim raises
\* it only after the account holds the HAN (lines 242-243), and an update lost
\* between two handlers can only make it too small.
IssuedIsPaid == issued <= paid

\* No account holds more than its claims brought it: two handlers that credit
\* copies of one account overwrite each other, they never add up.
BalanceIsGranted ==
  \A a \in Accounts :
    accounts[a] # NoAccount => accounts[a].balance <= granted[a]

-----------------------------------------------------------------------------
(* What holds of an account whose requests have not overlapped.            *)

OneAtATime(a) == a \notin overlapped

\* Two claims of such an account that both pay are a cooldown apart, as long as
\* the process lives, unless the clock shows a time before the first of them:
\* the subtraction then wraps around (lines 228-229).  Requests for the other
\* accounts, which run at the same time, cannot disturb it, nor can the insert
\* of the default account by any of them.
CooldownRespected ==
  [][\A a \in Accounts :
       /\ OneAtATime(a)
       /\ granted'[a] > granted[a] /\ lastGrant[a] > 0
       => \/ lastGrant'[a] >= lastGrant[a] + Cooldown
          \/ lastGrant'[a] < lastGrant[a]]_vars

\* Such an account holds all that its claims brought it, before, between and
\* during its requests, whichever tasks serve them: no write-back of a copy
\* loses what another request credited (lines 219-226 and 242).  Two requests
\* that overlap do lose it.
ClaimsAreKept ==
  \A a \in Accounts :
    OneAtATime(a) =>
      IF accounts[a] = NoAccount
      THEN granted[a] = 0
      ELSE accounts[a].balance = SaturatingAdd(granted[a], 0)

-----------------------------------------------------------------------------
(* What holds when, besides, requests come one at a time.                  *)

\* A claim that has credited the account goes on to count it as issued
\* (line 243 follows line 242): the runtime does not drop a handler half-way.
IssuedCatchesUp == (issued # paid) ~> (issued = paid)

\* The issuance as the reader of AtomicFaucet sees it: a claim counts from the
\* moment its account is credited.
CountedIssued ==
  IF \E w \in Workers : At(w, "store")
  THEN task[CHOOSE w \in Workers : At(w, "store")].new_issued
  ELSE issued

Atomic == INSTANCE AtomicFaucet WITH issued <- CountedIssued

\* One at a time, handle_faucet's claims are the atomic ones lines 228-243
\* announce: limited by the cooldown, by the supply, and fully accounted for.
AtomicClaims == Atomic!Spec

=============================================================================
