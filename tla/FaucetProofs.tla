---------------------------- MODULE FaucetProofs ----------------------------
(***************************************************************************)
(* Proofs about Faucet, for any set of requests, any accounts, any number  *)
(* of restarts and clock changes.  Each invariant is proved from the ones  *)
(* before it, together with what the handlers' locals carry for it.  At the*)
(* end, what RequestGate lets through to the handler, for any texts.       *)
(***************************************************************************)
EXTENDS Faucet, RequestGate, TLAPS

-----------------------------------------------------------------------------
(* What a handler's locals hold between two accesses to the ledger.        *)

\* A sum that passed the supply check stays within the supply.
CarryFits ==
  \A w \in Workers :
    At(w, "credit") \/ At(w, "store") => task[w].new_issued <= TotalSupply

\* The sum to store counts nothing beyond what is paid and this claim.
CarryIsPaid ==
  \A w \in Workers :
    /\ At(w, "credit") => task[w].new_issued <= paid + Limit
    /\ At(w, "store") => task[w].new_issued <= paid

\* The copy to credit holds no more than its account's claims brought it.
CopyIsGranted ==
  \A w \in Workers :
    At(w, "load") \/ At(w, "credit")
      => task[w].account.balance <= granted[task[w].account_id]

\* Two requests in flight for one account are an overlap.
OverlapsAreKnown ==
  \A v, w \in Workers :
    /\ v # w /\ ~At(v, "idle") /\ ~At(w, "idle")
    /\ task[v].account_id = task[w].account_id
    => ~OneAtATime(task[v].account_id)

\* Without one nobody else touches what the handler of an account has read.
CopyIsCurrent ==
  \A w \in Workers :
    OneAtATime(task[w].account_id) =>
      /\ At(w, "create") => accounts[task[w].account_id] = NoAccount
      /\ At(w, "load") \/ At(w, "credit")
           => task[w].account = accounts[task[w].account_id]

\* The stamp of such an account is the time of its last claim.
StampIsLastGrant ==
  \A a \in Accounts :
    OneAtATime(a) =>
      lastGrant[a] = IF accounts[a] = NoAccount THEN 0 ELSE accounts[a].last_claim

\* A time that passes the check of the cooldown after a claim at time last.
MayFollow(now, last) == last + Cooldown <= now \/ now < last

\* A handler past that check has read such a time.
CooldownIsOver ==
  \A w \in Workers :
    /\ OneAtATime(task[w].account_id)
    /\ At(w, "load") \/ At(w, "credit")
    => MayFollow(task[w].now, lastGrant[task[w].account_id])

TypeInv == TypeOK /\ CarryFits
PaidInv == IssuedIsPaid /\ CarryIsPaid
GrantedInv == BalanceIsGranted /\ CopyIsGranted
KeptInv == ClaimsAreKept /\ OverlapsAreKnown /\ CopyIsCurrent
StampInv == StampIsLastGrant /\ CooldownIsOver

-----------------------------------------------------------------------------
LEMMA ConstantTypes ==
  /\ Limit \in Nat /\ TotalSupply \in Nat /\ Cooldown \in Nat
  /\ StartTime \in Nat /\ MaxTime \in Nat /\ MaxWord \in Nat
  /\ MaxBacksteps \in Nat /\ MaxRestarts \in Nat
  /\ 0 < Cooldown /\ Cooldown <= StartTime /\ StartTime <= MaxTime
  /\ MaxTime < MaxWord
  /\ TotalSupply + Limit <= MaxWord
BY WordAssumption

LEMMA AccountTypes ==
  /\ DefaultAccount \in Account
  /\ \A copy \in Account, time \in 0..MaxTime : Credited(copy, time) \in Account
BY ConstantTypes DEF DefaultAccount, Account, Credited, SaturatingAdd

LEMMA IdleType == Idle \in Task
BY ConstantTypes, AccountTypes DEF Idle, Task

LEMMA InitTypeInv == Init => TypeInv
<1> SUFFICES ASSUME Init PROVE TypeInv
  OBVIOUS
<1>1. \A w \in Workers : task[w] = Idle
  BY DEF Init
<1>2. TypeOK
  BY <1>1, ConstantTypes, IdleType DEF Init, TypeOK, At, Idle
<1>3. CarryFits
  BY <1>1 DEF CarryFits, At, Idle
<1> QED
  BY <1>2, <1>3 DEF TypeInv

\* A check of the cooldown leaves the task with a typed copy and no sum.
LEMMA CheckCooldownType ==
  ASSUME TypeInv, NEW w \in Workers, ~At(w, "idle"),
         NEW copy \in Account, CheckCooldown(w, copy)
  PROVE  /\ task' \in [Workers -> Task]
         /\ \A v \in Workers : ~At(v, "idle")' => task'[v].account_id \in Accounts
         /\ \A v \in Workers :
              (At(v, "credit") \/ At(v, "store"))'
                => /\ At(v, "credit") \/ At(v, "store")
                   /\ task'[v] = task[v]
<1> USE DEF TypeInv, TypeOK, CheckCooldown, Return
<1>1. CASE task' = [task EXCEPT ![w] = Idle]
  BY <1>1, IdleType DEF At, Idle
<1>2. CASE task' = [task EXCEPT ![w].pc = "load", ![w].account = copy]
  BY <1>2 DEF At, Task
<1> QED
  BY <1>1, <1>2

LEMMA TypeInvStep == TypeInv /\ [Next]_vars => TypeInv'
<1> SUFFICES ASSUME TypeInv, [Next]_vars PROVE TypeInv'
  OBVIOUS
<1> USE ConstantTypes, IdleType DEF TypeInv
<1>1. ASSUME NEW w \in Workers, NEW a \in Accounts, Receive(w, a)
      PROVE  TypeInv'
  <2>1. task \in [Workers -> Task] /\ clock \in 0..MaxTime
    BY DEF TypeOK
  <2>2. task' \in [Workers -> Task]
    BY <1>1, <2>1 DEF Receive, Task
  <2> QED
    BY <1>1, <2>1, <2>2
    DEF TypeOK, CarryFits, Receive, At, ledger, environment, history
<1>2. ASSUME NEW w \in Workers, GetAccount(w)
      PROVE  TypeInv'
  <2>1. accounts[task[w].account_id] \in Account
    BY <1>2 DEF GetAccount, TypeOK, At
  <2>2. CheckCooldown(w, accounts[task[w].account_id]) /\ ~At(w, "idle")
    BY <1>2 DEF GetAccount, At
  <2> QED
    BY <1>2, <2>1, <2>2, CheckCooldownType
    DEF TypeOK, CarryFits, GetAccount, ledger, environment, history
<1>3. ASSUME NEW w \in Workers, MissAccount(w)
      PROVE  TypeInv'
  BY <1>3 DEF TypeOK, CarryFits, MissAccount, At, Task, ledger, environment, history
<1>4. ASSUME NEW w \in Workers, CreateAccount(w)
      PROVE  TypeInv'
  <2>1. CheckCooldown(w, DefaultAccount) /\ ~At(w, "idle")
    BY <1>4 DEF CreateAccount, At
  <2> QED
    BY <1>4, <2>1, AccountTypes, CheckCooldownType
    DEF TypeOK, CarryFits, CreateAccount, environment, history
<1>5. ASSUME NEW w \in Workers, LoadIssued(w)
      PROVE  TypeInv'
  <2>1. CASE SupplyLeft
    BY <1>5, <2>1
    DEF TypeOK, CarryFits, LoadIssued, SupplyLeft, At, Task,
        ledger, environment, history
  <2>2. CASE ~SupplyLeft
    BY <1>5, <2>2
    DEF TypeOK, CarryFits, LoadIssued, Return, At, Idle,
        ledger, environment, history
  <2> QED
    BY <2>1, <2>2
<1>6. ASSUME NEW w \in Workers, Credit(w)
      PROVE  TypeInv'
  <2> DEFINE a == task[w].account_id
             credited == Credited(task[w].account, task[w].now)
  <2>1. a \in Accounts /\ task[w] \in Task
    BY <1>6 DEF TypeOK, Credit, At
  <2>2. credited \in Account
    BY <2>1, AccountTypes DEF Task
  <2>3. /\ accounts' = [accounts EXCEPT ![a] = credited]
        /\ task' = [task EXCEPT ![w].pc = "store", ![w].account = credited]
        /\ granted' = [granted EXCEPT ![a] = @ + Limit]
        /\ lastGrant' = [lastGrant EXCEPT ![a] = task[w].now]
    BY <1>6 DEF Credit
  <2> HIDE DEF a, credited
  <2>4. task' \in [Workers -> Task]
    BY <2>2, <2>3 DEF TypeOK, Task
  <2>5. accounts' \in [Accounts -> Account \union {NoAccount}]
    BY <2>1, <2>2, <2>3 DEF TypeOK
  <2>6. granted' \in [Accounts -> Nat] /\ lastGrant' \in [Accounts -> 0..MaxTime]
    BY <2>1, <2>3 DEF TypeOK, Task
  <2>7. \A v \in Workers : ~At(v, "idle")' => task'[v].account_id \in Accounts
    BY <1>6, <2>3 DEF TypeOK, Credit, At
  <2>8. CarryFits'
    BY <1>6, <2>3 DEF TypeOK, CarryFits, Credit, At
  <2> QED
    BY <1>6, <2>4, <2>5, <2>6, <2>7, <2>8 DEF TypeOK, Credit, environment
<1>7. ASSUME NEW w \in Workers, StoreIssued(w)
      PROVE  TypeInv'
  BY <1>7
  DEF TypeOK, CarryFits, StoreIssued, Return, At, Idle, Task, environment, history
<1>8. CASE Tick
  BY <1>8 DEF TypeOK, CarryFits, Tick, At, ledger, history
<1>9. CASE StepBack
  BY <1>9 DEF TypeOK, CarryFits, StepBack, At, ledger, history
<1>10. CASE Restart
  BY <1>10 DEF TypeOK, CarryFits, Restart, At, Idle
<1>11. CASE UNCHANGED vars
  BY <1>11 DEF TypeOK, CarryFits, At, vars, ledger, environment, history
<1> QED
  BY <1>1, <1>2, <1>3, <1>4, <1>5, <1>6, <1>7, <1>8, <1>9, <1>10, <1>11
  DEF Next, Handle

THEOREM TypeInvariance == Spec => []TypeInv
BY InitTypeInv, TypeInvStep, PTL DEF Spec

\* Every variable keeps its type, and the issuance counter never exceeds the
\* supply, however the handlers interleave (main.rs:234-243).
THEOREM TypeCorrect == Spec => []TypeOK
BY TypeInvariance, PTL DEF TypeInv

-----------------------------------------------------------------------------
\* What a check of the cooldown does, for the invariants that follow.
LEMMA CheckCooldownEffect ==
  ASSUME TypeInv, NEW w \in Workers, NEW copy, CheckCooldown(w, copy)
  PROVE  /\ \A v \in Workers \ {w} : task'[v] = task[v]
         /\ \/ task'[w] = Idle
            \/ /\ task'[w].pc = "load"
               /\ task'[w].account = copy
               /\ task'[w].account_id = task[w].account_id
               /\ task'[w].now = task[w].now
               /\ ~(WrappingSub(task[w].now, copy.last_claim) < Cooldown)
<1> USE DEF TypeInv, TypeOK, CheckCooldown, Return
<1>1. CASE WrappingSub(task[w].now, copy.last_claim) < Cooldown
  BY <1>1
<1>2. CASE ~(WrappingSub(task[w].now, copy.last_claim) < Cooldown)
  <2>1. task' = [task EXCEPT ![w].pc = "load", ![w].account = copy]
    BY <1>2
  <2>2. task[w] \in Task
    OBVIOUS
  <2>3. /\ task'[w].pc = "load"
        /\ task'[w].account = copy
        /\ task'[w].account_id = task[w].account_id
        /\ task'[w].now = task[w].now
    BY <2>1, <2>2 DEF Task
  <2> QED
    BY <1>2, <2>1, <2>3
<1> QED
  BY <1>1, <1>2

LEMMA PaidInvStep == TypeInv /\ PaidInv /\ [Next]_vars => PaidInv'
<1> SUFFICES ASSUME TypeInv, PaidInv, [Next]_vars PROVE PaidInv'
  OBVIOUS
<1> USE ConstantTypes DEF PaidInv
<1>1. ASSUME NEW w \in Workers, NEW a \in Accounts, Receive(w, a)
      PROVE  PaidInv'
  BY <1>1
  DEF TypeInv, TypeOK, IssuedIsPaid, CarryIsPaid, Receive, At, ledger, history
<1>2. ASSUME NEW w \in Workers, GetAccount(w) \/ CreateAccount(w)
      PROVE  PaidInv'
  <2>1. PICK copy : CheckCooldown(w, copy)
    BY <1>2 DEF GetAccount, CreateAccount
  <2>2. UNCHANGED <<issued, paid>>
    BY <1>2 DEF GetAccount, CreateAccount, ledger, history
  <2> QED
    BY <2>1, <2>2, CheckCooldownEffect DEF IssuedIsPaid, CarryIsPaid, At, Idle
<1>3. ASSUME NEW w \in Workers, MissAccount(w)
      PROVE  PaidInv'
  BY <1>3
  DEF TypeInv, TypeOK, IssuedIsPaid, CarryIsPaid, MissAccount, At, ledger, history
<1>4. ASSUME NEW w \in Workers, LoadIssued(w)
      PROVE  PaidInv'
  <2>1. task[w] \in Task /\ issued \in Nat /\ paid \in Nat
    BY DEF TypeInv, TypeOK
  <2>2. CASE SupplyLeft
    BY <1>4, <2>1, <2>2
    DEF TypeInv, TypeOK, IssuedIsPaid, CarryIsPaid, LoadIssued, At, Task,
        ledger, history
  <2>3. CASE ~SupplyLeft
    BY <1>4, <2>3
    DEF TypeInv, TypeOK, IssuedIsPaid, CarryIsPaid, LoadIssued, Return, At, Idle,
        ledger, history
  <2> QED
    BY <2>2, <2>3
<1>5. ASSUME NEW w \in Workers, Credit(w)
      PROVE  PaidInv'
  <2>1. /\ issued' = issued /\ paid' = paid + Limit
        /\ issued \in Nat /\ paid \in Nat /\ task \in [Workers -> Task]
    BY <1>5 DEF Credit, TypeInv, TypeOK
  <2>2. \A v \in Workers \ {w} : task'[v] = task[v]
    BY <1>5, <2>1 DEF Credit
  <2>3. task'[w].pc = "store" /\ task'[w].new_issued = task[w].new_issued
    BY <1>5, <2>1 DEF Credit, Task
  <2>4. task[w].new_issued <= paid + Limit
    BY <1>5 DEF Credit, CarryIsPaid
  <2>5. \A v \in Workers : task[v].new_issued \in Nat
    BY <2>1 DEF Task
  <2> QED
    BY <2>1, <2>2, <2>3, <2>4, <2>5 DEF IssuedIsPaid, CarryIsPaid, At
<1>6. ASSUME NEW w \in Workers, StoreIssued(w)
      PROVE  PaidInv'
  BY <1>6
  DEF TypeInv, TypeOK, IssuedIsPaid, CarryIsPaid, StoreIssued, Return, At, Idle,
      history
<1>7. CASE Restart
  BY <1>7 DEF IssuedIsPaid, CarryIsPaid, Restart, At, Idle
<1>8. CASE Tick \/ StepBack \/ UNCHANGED vars
  BY <1>8
  DEF IssuedIsPaid, CarryIsPaid, At, Tick, StepBack, vars, ledger, history
<1> QED
  BY <1>1, <1>2, <1>3, <1>4, <1>5, <1>6, <1>7, <1>8 DEF Next, Handle

\* No interleaving makes the counter run ahead of what was credited
\* (main.rs:234-243).
THEOREM IssuedNeverAhead == Spec => []IssuedIsPaid
<1>1. Init => PaidInv
  BY ConstantTypes DEF Init, PaidInv, IssuedIsPaid, CarryIsPaid, At, Idle
<1> QED
  BY <1>1, TypeInvariance, PaidInvStep, PTL DEF Spec, PaidInv

-----------------------------------------------------------------------------
LEMMA GrantedInvStep == TypeInv /\ GrantedInv /\ [Next]_vars => GrantedInv'
<1> SUFFICES ASSUME TypeInv, GrantedInv, [Next]_vars PROVE GrantedInv'
  OBVIOUS
<1> USE ConstantTypes DEF GrantedInv
<1>1. ASSUME NEW w \in Workers, NEW a \in Accounts, Receive(w, a)
      PROVE  GrantedInv'
  BY <1>1
  DEF TypeInv, TypeOK, BalanceIsGranted, CopyIsGranted, Receive, At,
      ledger, history
<1>2. ASSUME NEW w \in Workers, GetAccount(w)
      PROVE  GrantedInv'
  <2> DEFINE copy == accounts[task[w].account_id]
  <2>1. CheckCooldown(w, copy) /\ copy.balance <= granted[task[w].account_id]
    BY <1>2 DEF GetAccount, TypeInv, TypeOK, BalanceIsGranted, At
  <2>2. UNCHANGED <<accounts, granted>>
    BY <1>2 DEF GetAccount, ledger, history
  <2> QED
    BY <2>1, <2>2, CheckCooldownEffect
    DEF BalanceIsGranted, CopyIsGranted, At, Idle
<1>3. ASSUME NEW w \in Workers, MissAccount(w)
      PROVE  GrantedInv'
  BY <1>3
  DEF TypeInv, TypeOK, BalanceIsGranted, CopyIsGranted, MissAccount, At,
      ledger, history
<1>4. ASSUME NEW w \in Workers, CreateAccount(w)
      PROVE  GrantedInv'
  <2> DEFINE a == task[w].account_id
  <2>1. /\ CheckCooldown(w, DefaultAccount)
        /\ accounts' = [accounts EXCEPT ![a] = DefaultAccount]
        /\ granted' = granted
        /\ a \in Accounts
    BY <1>4 DEF CreateAccount, history, TypeInv, TypeOK, At
  <2>2. DefaultAccount.balance <= granted[a]
    BY <2>1 DEF DefaultAccount, TypeInv, TypeOK
  <2>3. BalanceIsGranted'
    BY <2>1, <2>2 DEF TypeInv, TypeOK, BalanceIsGranted
  <2>4. CopyIsGranted'
    BY <2>1, <2>2, CheckCooldownEffect DEF CopyIsGranted, At, Idle
  <2> QED
    BY <2>3, <2>4
<1>5. ASSUME NEW w \in Workers, LoadIssued(w)
      PROVE  GrantedInv'
  <2>1. UNCHANGED <<accounts, granted>> /\ task \in [Workers -> Task]
    BY <1>5 DEF LoadIssued, ledger, history, TypeInv, TypeOK
  <2>2. \/ task' = [task EXCEPT ![w] = Idle]
        \/ /\ At(w, "load")
           /\ task' = [task EXCEPT ![w].pc = "credit",
                                   ![w].new_issued = issued + Limit]
    BY <1>5 DEF LoadIssued, Return
  <2> QED
    BY <2>1, <2>2 DEF BalanceIsGranted, CopyIsGranted, At, Idle, Task
<1>6. ASSUME NEW w \in Workers, Credit(w)
      PROVE  GrantedInv'
  <2> DEFINE a == task[w].account_id
             copy == task[w].account
             credited == Credited(copy, task[w].now)
  <2>1. /\ a \in Accounts /\ copy \in Account
        /\ granted \in [Accounts -> Nat]
        /\ accounts \in [Accounts -> Account \union {NoAccount}]
    BY <1>6 DEF Credit, TypeInv, TypeOK, Task, At
  <2>2. /\ accounts' = [accounts EXCEPT ![a] = credited]
        /\ granted' = [granted EXCEPT ![a] = @ + Limit]
    BY <1>6 DEF Credit
  <2>3. copy.balance <= granted[a]
    BY <1>6 DEF Credit, CopyIsGranted
  <2>4. credited.balance <= granted[a] + Limit
    BY <2>1, <2>3 DEF Credited, SaturatingAdd, Account
  <2>5. BalanceIsGranted'
    <3> SUFFICES ASSUME NEW b \in Accounts, accounts'[b] # NoAccount
                 PROVE  accounts'[b].balance <= granted'[b]
      BY DEF BalanceIsGranted
    <3> HIDE DEF a, copy, credited
    <3> QED
      BY <2>1, <2>2, <2>4 DEF BalanceIsGranted
  <2>6. \A v \in Workers :
          At(v, "load")' \/ At(v, "credit")'
            => v # w /\ task'[v] = task[v]
    BY <1>6 DEF Credit, At, TypeInv, TypeOK, Task
  <2>7. \A b \in Accounts : granted[b] <= granted'[b]
    BY <2>1, <2>2
  <2>8. \A v \in Workers : ~At(v, "idle") => task[v].account_id \in Accounts
    BY DEF TypeInv, TypeOK
  <2>9. \A v \in Workers : task[v].account.balance \in Nat
    BY DEF TypeInv, TypeOK, Task, Account
  <2>10. \A b \in Accounts : granted'[b] \in Nat
    BY <2>1, <2>2
  <2>11. CopyIsGranted'
    BY <2>1, <2>6, <2>7, <2>8, <2>9, <2>10 DEF CopyIsGranted, At
  <2> QED
    BY <2>5, <2>11
<1>7. ASSUME NEW w \in Workers, StoreIssued(w)
      PROVE  GrantedInv'
  BY <1>7
  DEF TypeInv, TypeOK, BalanceIsGranted, CopyIsGranted, StoreIssued, Return, At,
      Idle, history
<1>8. CASE Restart
  BY <1>8 DEF BalanceIsGranted, CopyIsGranted, Restart, At, Idle
<1>9. CASE Tick \/ StepBack \/ UNCHANGED vars
  BY <1>9
  DEF BalanceIsGranted, CopyIsGranted, At, Tick, StepBack, vars, ledger, history
<1> QED
  BY <1>1, <1>2, <1>3, <1>4, <1>5, <1>6, <1>7, <1>8, <1>9 DEF Next, Handle

\* Handlers that overwrite each other's account lose HAN, they never create
\* any (main.rs:219-226, 240-242).
THEOREM NoHanFromNothing == Spec => []BalanceIsGranted
<1>1. Init => GrantedInv
  BY DEF Init, GrantedInv, BalanceIsGranted, CopyIsGranted, At, Idle
<1> QED
  BY <1>1, TypeInvariance, GrantedInvStep, PTL DEF Spec, GrantedInv

-----------------------------------------------------------------------------
(* The accounts whose requests have not overlapped.                        *)

LEMMA RequestsAreApart ==
  ASSUME OverlapsAreKnown,
         NEW v \in Workers, NEW w \in Workers, v # w,
         ~At(v, "idle"), ~At(w, "idle"), OneAtATime(task[v].account_id)
  PROVE  task[v].account_id # task[w].account_id
BY DEF OverlapsAreKnown

\* Crediting a copy that holds all an account was granted keeps it so, also
\* where the sum saturates.
LEMMA CreditKeeps ==
  ASSUME NEW g \in Nat, NEW copy, copy.balance = SaturatingAdd(g, 0), NEW time
  PROVE  Credited(copy, time).balance = SaturatingAdd(g + Limit, 0)
BY ConstantTypes DEF Credited, SaturatingAdd

LEMMA KeptInvStep ==
  ASSUME TypeInv, KeptInv, [Next]_vars
  PROVE  KeptInv'
<1> USE ConstantTypes DEF KeptInv, OneAtATime
<1>0. /\ task \in [Workers -> Task]
      /\ accounts \in [Accounts -> Account \union {NoAccount}]
      /\ granted \in [Accounts -> Nat]
      /\ \A v \in Workers : ~At(v, "idle") => task[v].account_id \in Accounts
  BY DEF TypeInv, TypeOK
<1>1. ASSUME NEW w \in Workers, NEW a \in Accounts, Receive(w, a)
      PROVE  KeptInv'
  <2>1. /\ UNCHANGED <<accounts, granted>>
        /\ \A v \in Workers \ {w} : task'[v] = task[v]
        /\ task'[w].pc = "get" /\ task'[w].account_id = a
        /\ overlapped \subseteq overlapped'
        /\ \A v \in Workers \ {w} :
             ~At(v, "idle") /\ task[v].account_id = a => a \in overlapped'
    BY <1>0, <1>1 DEF Receive, ledger, Task
  <2>2. ClaimsAreKept'
    BY <2>1 DEF ClaimsAreKept
  <2>3. OverlapsAreKnown'
    BY <2>1 DEF OverlapsAreKnown, At
  <2>4. CopyIsCurrent'
    BY <2>1 DEF CopyIsCurrent, At
  <2> QED
    BY <2>2, <2>3, <2>4
<1>2. ASSUME NEW w \in Workers, GetAccount(w)
      PROVE  KeptInv'
  <2> DEFINE copy == accounts[task[w].account_id]
  <2>1. /\ CheckCooldown(w, copy) /\ UNCHANGED <<accounts, granted, overlapped>>
        /\ ~At(w, "idle")
    BY <1>2 DEF GetAccount, ledger, history, At
  <2> QED
    BY <2>1, CheckCooldownEffect
    DEF ClaimsAreKept, OverlapsAreKnown, CopyIsCurrent, At, Idle
<1>3. ASSUME NEW w \in Workers, MissAccount(w)
      PROVE  KeptInv'
  BY <1>0, <1>3
  DEF ClaimsAreKept, OverlapsAreKnown, CopyIsCurrent, MissAccount, At, ledger,
      history, Task
<1>4. ASSUME NEW w \in Workers, CreateAccount(w)
      PROVE  KeptInv'
  <2> DEFINE a == task[w].account_id
  <2>1. /\ CheckCooldown(w, DefaultAccount)
        /\ accounts' = [accounts EXCEPT ![a] = DefaultAccount]
        /\ UNCHANGED <<granted, overlapped>>
        /\ a \in Accounts /\ ~At(w, "idle")
    BY <1>0, <1>4 DEF CreateAccount, history, At
  <2>2. OneAtATime(a) => granted[a] = 0
    BY <1>4, <2>1 DEF CreateAccount, CopyIsCurrent, ClaimsAreKept
  <2>3. ClaimsAreKept'
    BY <1>0, <2>1, <2>2, AccountTypes, NoAccountAssumption
    DEF ClaimsAreKept, DefaultAccount, SaturatingAdd
  <2>4. OverlapsAreKnown'
    BY <2>1, CheckCooldownEffect DEF OverlapsAreKnown, At, Idle
  <2>5. \A v \in Workers \ {w} :
          ~At(v, "idle") /\ OneAtATime(task[v].account_id)
            => task[v].account_id # a
    BY <2>1, RequestsAreApart
  <2>6. CopyIsCurrent'
    BY <1>0, <2>1, <2>5, CheckCooldownEffect DEF CopyIsCurrent, At, Idle
  <2> QED
    BY <2>3, <2>4, <2>6
<1>5. ASSUME NEW w \in Workers, LoadIssued(w)
      PROVE  KeptInv'
  <2>1. UNCHANGED <<accounts, granted, overlapped>>
    BY <1>5 DEF LoadIssued, ledger, history
  <2>2. \/ task' = [task EXCEPT ![w] = Idle]
        \/ /\ At(w, "load")
           /\ task' = [task EXCEPT ![w].pc = "credit",
                                   ![w].new_issued = issued + Limit]
    BY <1>5 DEF LoadIssued, Return
  <2>3. ClaimsAreKept'
    BY <2>1 DEF ClaimsAreKept
  <2>4. /\ \A v \in Workers \ {w} : task'[v] = task[v]
        /\ \/ task'[w].pc = "idle"
           \/ /\ task'[w].pc = "credit" /\ At(w, "load")
              /\ task'[w].account_id = task[w].account_id
              /\ task'[w].account = task[w].account
    BY <1>0, <2>2 DEF Task, Idle
  <2>5. OverlapsAreKnown'
    BY <2>1, <2>4 DEF OverlapsAreKnown, At
  <2>6. CopyIsCurrent'
    BY <2>1, <2>4 DEF CopyIsCurrent, At
  <2> QED
    BY <2>3, <2>5, <2>6
<1>6. ASSUME NEW w \in Workers, Credit(w)
      PROVE  KeptInv'
  <2> DEFINE a == task[w].account_id
             credited == Credited(task[w].account, task[w].now)
  <2>1. /\ a \in Accounts /\ At(w, "credit") /\ ~At(w, "idle")
        /\ task[w].account \in Account
        /\ OneAtATime(a) => task[w].account = accounts[a]
        /\ task[w].now \in 0..MaxTime
    BY <1>0, <1>6 DEF Credit, Task, At, CopyIsCurrent
  <2>2. /\ accounts' = [accounts EXCEPT ![a] = credited]
        /\ task' = [task EXCEPT ![w].pc = "store", ![w].account = credited]
        /\ granted' = [granted EXCEPT ![a] = @ + Limit]
        /\ overlapped' = overlapped
    BY <1>6 DEF Credit
  <2>3. credited \in Account /\ credited # NoAccount
    BY <2>1, AccountTypes, NoAccountAssumption
  <2>4. OneAtATime(a) => task[w].account.balance = SaturatingAdd(granted[a], 0)
    BY <2>1, NoAccountAssumption DEF ClaimsAreKept
  <2>5. OneAtATime(a) => credited.balance = SaturatingAdd(granted[a] + Limit, 0)
    BY <1>0, <2>1, <2>4, CreditKeeps
  <2>6. ClaimsAreKept'
    <3> HIDE DEF a, credited
    <3> QED
      BY <1>0, <2>1, <2>2, <2>3, <2>5 DEF ClaimsAreKept
  <2>7. OverlapsAreKnown'
    BY <1>0, <2>1, <2>2 DEF OverlapsAreKnown, At, Task
  <2>8. \A v \in Workers \ {w} :
          ~At(v, "idle") /\ OneAtATime(task[v].account_id)
            => task[v].account_id # a
    BY <2>1, RequestsAreApart
  <2>9. CopyIsCurrent'
    <3> HIDE DEF credited
    <3> QED
      BY <1>0, <2>1, <2>2, <2>8 DEF CopyIsCurrent, At, Task
  <2> QED
    BY <2>6, <2>7, <2>9
<1>7. ASSUME NEW w \in Workers, StoreIssued(w)
      PROVE  KeptInv'
  BY <1>0, <1>7
  DEF ClaimsAreKept, OverlapsAreKnown, CopyIsCurrent, StoreIssued, Return, At,
      Idle, history
<1>8. CASE Restart
  BY <1>8 DEF ClaimsAreKept, OverlapsAreKnown, CopyIsCurrent, Restart, At, Idle
<1>9. CASE Tick \/ StepBack \/ UNCHANGED vars
  BY <1>9
  DEF ClaimsAreKept, OverlapsAreKnown, CopyIsCurrent, At, Tick, StepBack, vars,
      ledger, history
<1> QED
  BY <1>1, <1>2, <1>3, <1>4, <1>5, <1>6, <1>7, <1>8, <1>9 DEF Next, Handle

LEMMA KeptInvariance == Spec => []KeptInv
<1>1. Init => KeptInv
  BY DEF Init, KeptInv, ClaimsAreKept, OverlapsAreKnown, CopyIsCurrent, At, Idle
<1>2. TypeInv /\ KeptInv /\ [Next]_vars => KeptInv'
  BY KeptInvStep
<1> QED
  BY <1>1, <1>2, TypeInvariance, PTL DEF Spec

\* While the requests for an account do not overlap no claim of it is lost,
\* whichever tasks serve them, and whatever happens to the other accounts, to
\* the clock and to the process (main.rs:219-242).
THEOREM NoClaimIsLost == Spec => []ClaimsAreKept
BY KeptInvariance, PTL DEF KeptInv

-----------------------------------------------------------------------------
(* ... and their times.                                                    *)

\* The check of the cooldown, whose subtraction may wrap around.
LEMMA CooldownPassed ==
  ASSUME NEW now \in 0..MaxTime, NEW last \in 0..MaxTime,
         ~(WrappingSub(now, last) < Cooldown)
  PROVE  MayFollow(now, last)
BY ConstantTypes DEF WrappingSub, MayFollow

LEMMA StampInvStep ==
  ASSUME TypeInv, KeptInv, StampInv, [Next]_vars
  PROVE  StampInv'
<1> USE ConstantTypes DEF OneAtATime
<1>0. /\ task \in [Workers -> Task]
      /\ accounts \in [Accounts -> Account \union {NoAccount}]
      /\ lastGrant \in [Accounts -> 0..MaxTime]
      /\ \A v \in Workers : ~At(v, "idle") => task[v].account_id \in Accounts
  BY DEF TypeInv, TypeOK
<1>c. StampIsLastGrant /\ CooldownIsOver
  BY DEF StampInv
<1>1. ASSUME NEW w \in Workers, NEW a \in Accounts, Receive(w, a)
      PROVE  StampInv'
  <2>1. UNCHANGED <<accounts, lastGrant>> /\ overlapped \subseteq overlapped'
    BY <1>1 DEF Receive, ledger
  <2>2. \A v \in Workers \ {w} : task'[v] = task[v]
    BY <1>0, <1>1 DEF Receive
  <2>3. task'[w].pc = "get"
    BY <1>0, <1>1 DEF Receive, Task
  <2> QED
    BY <1>c, <2>1, <2>2, <2>3 DEF StampInv, StampIsLastGrant, CooldownIsOver, At
<1>2. ASSUME NEW w \in Workers, GetAccount(w)
      PROVE  StampInv'
  <2> DEFINE a == task[w].account_id
             copy == accounts[a]
  <2>1. /\ CheckCooldown(w, copy) /\ UNCHANGED <<accounts, lastGrant, overlapped>>
        /\ ~At(w, "idle") /\ copy # NoAccount /\ a \in Accounts
    BY <1>0, <1>2 DEF GetAccount, ledger, history, At
  <2>2. /\ OneAtATime(a) => lastGrant[a] = copy.last_claim
        /\ copy.last_claim \in 0..MaxTime /\ task[w].now \in 0..MaxTime
    BY <1>0, <1>c, <2>1 DEF StampInv, StampIsLastGrant, Account, Task
  <2>3. At(w, "load")' => MayFollow(task[w].now, copy.last_claim)
    BY <2>1, <2>2, CheckCooldownEffect, CooldownPassed DEF At, Idle
  <2> QED
    BY <1>c, <2>1, <2>2, <2>3, CheckCooldownEffect
    DEF StampInv, StampIsLastGrant, CooldownIsOver, At, Idle
<1>3. ASSUME NEW w \in Workers, MissAccount(w)
      PROVE  StampInv'
  BY <1>0, <1>3, <1>c
  DEF StampInv, StampIsLastGrant, CooldownIsOver, MissAccount, At, ledger, history, Task
<1>4. ASSUME NEW w \in Workers, CreateAccount(w)
      PROVE  StampInv'
  <2> DEFINE a == task[w].account_id
  <2>1. /\ CheckCooldown(w, DefaultAccount)
        /\ accounts' = [accounts EXCEPT ![a] = DefaultAccount]
        /\ UNCHANGED <<lastGrant, overlapped>>
        /\ ~At(w, "idle") /\ a \in Accounts
        /\ OneAtATime(a) => accounts[a] = NoAccount
        /\ task[w].now \in 0..MaxTime
    BY <1>0, <1>4 DEF CreateAccount, history, At, KeptInv, CopyIsCurrent, Task
  <2>2. /\ OneAtATime(a) => lastGrant[a] = 0
        /\ DefaultAccount.last_claim = 0
    BY <1>c, <2>1 DEF StampInv, StampIsLastGrant, DefaultAccount
  <2>3. At(w, "load")' => MayFollow(task[w].now, 0)
    BY <2>1, <2>2, CheckCooldownEffect, CooldownPassed DEF At, Idle
  <2>4. StampIsLastGrant'
    BY <1>0, <1>c, <2>1, <2>2, AccountTypes, NoAccountAssumption
    DEF StampInv, StampIsLastGrant
  <2>5. CooldownIsOver'
    BY <1>c, <2>1, <2>2, <2>3, CheckCooldownEffect DEF StampInv, CooldownIsOver, At, Idle
  <2> QED
    BY <2>4, <2>5 DEF StampInv
<1>5. ASSUME NEW w \in Workers, LoadIssued(w)
      PROVE  StampInv'
  <2>1. UNCHANGED <<accounts, lastGrant, overlapped>>
    BY <1>5 DEF LoadIssued, ledger, history
  <2>2. \/ task' = [task EXCEPT ![w] = Idle]
        \/ /\ At(w, "load")
           /\ task' = [task EXCEPT ![w].pc = "credit",
                                   ![w].new_issued = issued + Limit]
    BY <1>5 DEF LoadIssued, Return
  <2> QED
    BY <1>0, <1>c, <2>1, <2>2
    DEF StampInv, StampIsLastGrant, CooldownIsOver, At, Idle, Task
<1>6. ASSUME NEW w \in Workers, Credit(w)
      PROVE  StampInv'
  <2> DEFINE a == task[w].account_id
             now == task[w].now
             credited == Credited(task[w].account, now)
  <2>1. /\ a \in Accounts /\ ~At(w, "idle")
        /\ now \in 0..MaxTime /\ task[w].account \in Account
    BY <1>0, <1>6 DEF Credit, Task, At
  <2>2. /\ accounts' = [accounts EXCEPT ![a] = credited]
        /\ task' = [task EXCEPT ![w].pc = "store", ![w].account = credited]
        /\ lastGrant' = [lastGrant EXCEPT ![a] = now]
        /\ overlapped' = overlapped
    BY <1>6 DEF Credit
  <2>3. credited # NoAccount /\ credited.last_claim = now
    BY <2>1, AccountTypes, NoAccountAssumption DEF Credited
  <2>4. \A v \in Workers \ {w} :
          ~At(v, "idle") /\ OneAtATime(task[v].account_id)
            => task[v].account_id # a
    BY <2>1, RequestsAreApart DEF KeptInv
  <2>5. /\ \A v \in Workers \ {w} : task'[v] = task[v]
        /\ task'[w].pc = "store"
    BY <1>0, <2>2 DEF Task
  <2> HIDE DEF a, now, credited
  <2>6. StampIsLastGrant'
    BY <1>0, <1>c, <2>1, <2>2, <2>3 DEF StampInv, StampIsLastGrant
  <2>7. CooldownIsOver'
    BY <1>0, <1>c, <2>1, <2>2, <2>4, <2>5 DEF StampInv, CooldownIsOver, At
  <2> QED
    BY <2>6, <2>7 DEF StampInv
<1>7. ASSUME NEW w \in Workers, StoreIssued(w)
      PROVE  StampInv'
  BY <1>0, <1>7, <1>c
  DEF StampInv, StampIsLastGrant, CooldownIsOver, StoreIssued, Return, At, Idle, history
<1>8. CASE Tick \/ StepBack \/ UNCHANGED vars
  BY <1>8, <1>c
  DEF StampInv, StampIsLastGrant, CooldownIsOver, Tick, StepBack, At, vars, ledger, history
<1>9. CASE Restart
  BY <1>9, NoAccountAssumption
  DEF StampInv, StampIsLastGrant, CooldownIsOver, Restart, At, Idle
<1> QED
  BY <1>1, <1>2, <1>3, <1>4, <1>5, <1>6, <1>7, <1>8, <1>9 DEF Next, Handle

\* Two paid claims of an account whose requests have not overlapped are a
\* cooldown apart as long as the process lives, unless the clock has been set
\* back behind the first (main.rs:228-231).
THEOREM CooldownHolds == Spec => CooldownRespected
<1> DEFINE Grants ==
      \A a \in Accounts :
        /\ OneAtATime(a)
        /\ granted'[a] > granted[a] /\ lastGrant[a] > 0
        => \/ lastGrant'[a] >= lastGrant[a] + Cooldown
           \/ lastGrant'[a] < lastGrant[a]
<1>1. Init => StampInv
  BY ConstantTypes
  DEF Init, StampInv, StampIsLastGrant, CooldownIsOver, At, Idle
<1>2. TypeInv /\ KeptInv /\ StampInv /\ [Next]_vars => StampInv'
  BY StampInvStep
<1>3. TypeInv /\ StampInv /\ [Next]_vars => [Grants]_vars
  <2> SUFFICES ASSUME TypeInv, StampInv, [Next]_vars,
                      NEW a \in Accounts, OneAtATime(a),
                      granted'[a] > granted[a], lastGrant[a] > 0
               PROVE  \/ lastGrant'[a] >= lastGrant[a] + Cooldown
                      \/ lastGrant'[a] < lastGrant[a]
    OBVIOUS
  <2>1. /\ granted \in [Accounts -> Nat] /\ lastGrant \in [Accounts -> 0..MaxTime]
        /\ task \in [Workers -> Task]
        /\ \A v \in Workers : ~At(v, "idle") => task[v].account_id \in Accounts
    BY DEF TypeInv, TypeOK
  <2>2. granted' # granted
    BY <2>1
  <2>3. PICK w \in Workers : Credit(w)
    <3>1. ~Restart
      BY <2>1 DEF Restart
    <3>2. granted' # granted /\ ~UNCHANGED history
      BY <2>2 DEF history
    <3>3. ~UNCHANGED vars /\ ~Tick /\ ~StepBack
      BY <3>2 DEF vars, Tick, StepBack
    <3>4. \A v \in Workers :
            /\ \A b \in Accounts : ~Receive(v, b)
            /\ ~GetAccount(v) /\ ~MissAccount(v) /\ ~CreateAccount(v)
            /\ ~LoadIssued(v) /\ ~StoreIssued(v)
      BY <3>2
      DEF Receive, GetAccount, MissAccount, CreateAccount, LoadIssued, StoreIssued
    <3> QED
      BY <3>1, <3>3, <3>4 DEF Next, Handle
  <2>4. a = task[w].account_id
    BY <2>1, <2>2, <2>3 DEF Credit
  <2>5. lastGrant'[a] = task[w].now
    BY <2>1, <2>3, <2>4 DEF Credit
  <2>6. MayFollow(task[w].now, lastGrant[a])
    BY <2>3, <2>4 DEF StampInv, CooldownIsOver, Credit
  <2>7. task[w].now \in Nat /\ lastGrant[a] \in Nat
    BY <2>1, ConstantTypes DEF Task
  <2> QED
    BY <2>5, <2>6, <2>7, ConstantTypes DEF MayFollow
<1> QED
  BY <1>1, <1>2, <1>3, TypeInvariance, KeptInvariance, PTL
  DEF Spec, CooldownRespected

-----------------------------------------------------------------------------
(* One request at a time, while neither clock nor process is set back.     *)

\* What is paid but not yet counted is the claim of the handler that stores it;
\* no stamp is later than the time a handler has read, so that the subtraction
\* of its check does not wrap around, and no balance comes near its limit.
AloneInv(w) ==
  /\ overlapped = {}
  /\ issued + (IF At(w, "store") THEN Limit ELSE 0) = paid
  /\ At(w, "credit") \/ At(w, "store") => task[w].new_issued = issued + Limit
  /\ \A a \in Accounts : granted[a] <= paid
  /\ \A a \in Accounts :
       accounts[a] # NoAccount =>
         /\ accounts[a].last_claim <= clock
         /\ ~At(w, "idle") => accounts[a].last_claim <= task[w].now
  /\ ~At(w, "idle") => task[w].now <= clock
  /\ At(w, "load") \/ At(w, "credit")
       => task[w].account.last_claim + Cooldown <= task[w].now

\* The issuance AtomicFaucet sees is the counter, but between the two accesses
\* of a claim.
LEMMA CountedOfOne ==
  ASSUME NEW w, Workers = {w}
  PROVE  /\ CountedIssued = IF At(w, "store") THEN task[w].new_issued ELSE issued
         /\ CountedIssued' = IF At(w, "store")' THEN task'[w].new_issued ELSE issued'
<1>1. CASE At(w, "store")
  <2>1. (CHOOSE v \in Workers : At(v, "store")) = w
    BY <1>1
  <2> QED
    BY <1>1, <2>1 DEF CountedIssued
<1>2. CASE ~At(w, "store")
  BY <1>2 DEF CountedIssued
<1>3. CASE At(w, "store")'
  <2>1. (CHOOSE v \in Workers : At(v, "store")') = w
    BY <1>3
  <2> QED
    BY <1>3, <2>1 DEF CountedIssued
<1>4. CASE ~At(w, "store")'
  BY <1>4 DEF CountedIssued
<1> QED
  BY <1>1, <1>2, <1>3, <1>4

LEMMA AloneInvStep ==
  ASSUME NEW w, Workers = {w}, MaxBacksteps = 0, MaxRestarts = 0,
         TypeInv, KeptInv, AloneInv(w), [Next]_vars
  PROVE  AloneInv(w)'
<1> USE ConstantTypes
<1>0. /\ task[w] \in Task /\ task \in [Workers -> Task]
      /\ accounts \in [Accounts -> Account \union {NoAccount}]
      /\ granted \in [Accounts -> Nat]
      /\ ~At(w, "idle") => task[w].account_id \in Accounts
      /\ issued \in Nat /\ paid \in Nat /\ clock \in Nat
      /\ backsteps = 0 /\ restarts = 0
  BY DEF TypeInv, TypeOK
<1>1. ASSUME NEW a \in Accounts, Receive(w, a)
      PROVE  AloneInv(w)'
  BY <1>0, <1>1 DEF AloneInv, Receive, At, Task, ledger, environment
<1>2. ASSUME GetAccount(w)
      PROVE  AloneInv(w)'
  <2> DEFINE copy == accounts[task[w].account_id]
  <2>1. /\ CheckCooldown(w, copy) /\ copy # NoAccount /\ copy \in Account
        /\ At(w, "get") /\ UNCHANGED <<ledger, environment, history>>
    BY <1>0, <1>2 DEF GetAccount, At
  <2>2. copy.last_claim <= task[w].now /\ copy.last_claim \in Nat /\ task[w].now \in Nat
    BY <1>0, <2>1 DEF AloneInv, At, Account, Task
  <2>3. \/ task'[w] = Idle
        \/ /\ task'[w].pc = "load" /\ task'[w].now = task[w].now
           /\ task'[w].account = copy /\ copy.last_claim + Cooldown <= task[w].now
    BY <2>1, <2>2, CheckCooldownEffect DEF WrappingSub
  <2> QED
    BY <1>0, <2>1, <2>3 DEF AloneInv, At, Idle, ledger, environment, history
<1>3. ASSUME MissAccount(w)
      PROVE  AloneInv(w)'
  BY <1>0, <1>3 DEF AloneInv, MissAccount, At, Task, ledger, environment, history
<1>4. ASSUME CreateAccount(w)
      PROVE  AloneInv(w)'
  <2> DEFINE a == task[w].account_id
  <2>1. /\ CheckCooldown(w, DefaultAccount) /\ At(w, "create") /\ a \in Accounts
        /\ accounts' = [accounts EXCEPT ![a] = DefaultAccount]
        /\ UNCHANGED <<issued, environment, history>>
        /\ task[w].now \in Nat /\ task[w].now <= clock
    BY <1>0, <1>4 DEF CreateAccount, At, Task, AloneInv
  <2>2. \/ task'[w] = Idle
        \/ /\ task'[w].pc = "load" /\ task'[w].now = task[w].now
           /\ task'[w].account = DefaultAccount /\ Cooldown <= task[w].now
    BY <2>1, CheckCooldownEffect DEF WrappingSub, DefaultAccount
  <2>3. \A b \in Accounts :
          accounts'[b] # NoAccount =>
            accounts'[b].last_claim <= clock /\ accounts'[b].last_claim <= task[w].now
    BY <1>0, <2>1 DEF AloneInv, At, DefaultAccount
  <2> QED
    BY <1>0, <2>1, <2>2, <2>3
    DEF AloneInv, At, Idle, DefaultAccount, environment, history
<1>5. ASSUME LoadIssued(w)
      PROVE  AloneInv(w)'
  <2>1. CASE SupplyLeft
    BY <1>0, <1>5, <2>1
    DEF AloneInv, LoadIssued, At, Task, ledger, environment, history
  <2>2. CASE ~SupplyLeft
    BY <1>0, <1>5, <2>2
    DEF AloneInv, LoadIssued, Return, At, Idle, ledger, environment, history
  <2> QED
    BY <2>1, <2>2
<1>6. ASSUME Credit(w)
      PROVE  AloneInv(w)'
  <2> DEFINE a == task[w].account_id
             credited == Credited(task[w].account, task[w].now)
  <2>1. /\ a \in Accounts /\ At(w, "credit") /\ task[w].now \in Nat
        /\ task[w].now <= clock
    BY <1>0, <1>6 DEF Credit, At, Task, AloneInv
  <2>2. credited.last_claim = task[w].now
    BY DEF Credited
  <2>3. /\ accounts' = [accounts EXCEPT ![a] = credited]
        /\ task' = [task EXCEPT ![w].pc = "store", ![w].account = credited]
        /\ granted' = [granted EXCEPT ![a] = @ + Limit]
        /\ paid' = paid + Limit /\ issued' = issued /\ clock' = clock
        /\ overlapped' = overlapped
    BY <1>6 DEF Credit, environment
  <2> HIDE DEF a, credited
  <2>4. /\ task'[w].pc = "store" /\ task'[w].now = task[w].now
        /\ task'[w].new_issued = task[w].new_issued
    BY <1>0, <2>3 DEF Task
  <2>5. \A b \in Accounts :
          accounts'[b] # NoAccount => accounts'[b].last_claim <= task[w].now
    BY <1>0, <2>1, <2>2, <2>3 DEF AloneInv, At
  <2>6. \A b \in Accounts : accounts'[b] # NoAccount => accounts'[b].last_claim <= clock
    BY <1>0, <2>1, <2>2, <2>3 DEF AloneInv, At
  <2>7. \A b \in Accounts : granted'[b] <= paid'
    BY <1>0, <2>1, <2>3 DEF AloneInv
  <2> QED
    BY <1>0, <2>1, <2>3, <2>4, <2>5, <2>6, <2>7 DEF AloneInv, At
<1>7. ASSUME StoreIssued(w)
      PROVE  AloneInv(w)'
  BY <1>0, <1>7 DEF AloneInv, StoreIssued, Return, At, Idle, environment, history
<1>8. CASE Tick
  BY <1>0, <1>8 DEF AloneInv, Tick, At, Task, Account, ledger, history
<1>9. ~StepBack /\ ~Restart
  BY <1>0 DEF StepBack, Restart
<1>10. CASE UNCHANGED vars
  BY <1>10 DEF AloneInv, At, vars, ledger, environment, history
<1> QED
  BY <1>1, <1>2, <1>3, <1>4, <1>5, <1>6, <1>7, <1>8, <1>9, <1>10 DEF Next, Handle

\* A step of the one handler is a step of AtomicFaucet or leaves it as it is: the
\* account's creation opens it, its credit is the claim, and the rest stutters.
LEMMA HandlerSimulates ==
  ASSUME NEW w, Workers = {w}, MaxBacksteps = 0, MaxRestarts = 0,
         TypeInv, KeptInv, GrantedInv, AloneInv(w), [Next]_vars
  PROVE  [Atomic!Next]_<<accounts, CountedIssued>>
<1> USE ConstantTypes
<1>0. /\ task[w] \in Task /\ task \in [Workers -> Task]
      /\ accounts \in [Accounts -> Account \union {NoAccount}]
      /\ granted \in [Accounts -> Nat]
      /\ ~At(w, "idle") => task[w].account_id \in Accounts
      /\ issued \in Nat /\ paid \in Nat /\ issued <= TotalSupply
      /\ backsteps = 0 /\ restarts = 0
  BY DEF TypeInv, TypeOK
<1>a. OneAtATime(task[w].account_id)
  BY DEF OneAtATime, AloneInv
<1>1. ASSUME CreateAccount(w)
      PROVE  Atomic!Open(task[w].account_id)
  <2>1. accounts[task[w].account_id] = NoAccount
    BY <1>a, <1>1 DEF CreateAccount, KeptInv, CopyIsCurrent
  <2>2. CountedIssued' = CountedIssued
    <3>1. CheckCooldown(w, DefaultAccount) /\ issued' = issued
      BY <1>1 DEF CreateAccount
    <3>2. ~At(w, "store") /\ ~At(w, "store")'
      BY <1>1, <3>1, CheckCooldownEffect DEF CreateAccount, At, Idle
    <3> QED
      BY <3>1, <3>2, CountedOfOne
  <2> QED
    BY <1>1, <2>1, <2>2 DEF CreateAccount, Atomic!Open, DefaultAccount
<1>2. ASSUME Credit(w)
      PROVE  Atomic!Claim(task[w].account_id)
  <2> DEFINE a == task[w].account_id
             copy == task[w].account
  <2>1. /\ At(w, "credit") /\ a \in Accounts
        /\ task[w].new_issued = issued + Limit /\ issued = paid
        /\ issued + Limit <= TotalSupply
        /\ task[w].now \in 0..MaxTime
    BY <1>0, <1>2 DEF Credit, At, AloneInv, Task, TypeInv, CarryFits
  <2>2. /\ copy = accounts[a] /\ copy \in Account /\ copy # NoAccount
        /\ copy.last_claim + Cooldown <= task[w].now
    BY <1>0, <1>a, <2>1, NoAccountAssumption DEF KeptInv, CopyIsCurrent, AloneInv, Task
  <2>3. copy.balance + Limit <= MaxWord
    <3>1. copy.balance <= granted[a] /\ granted[a] <= paid
      BY <2>1, <2>2 DEF GrantedInv, BalanceIsGranted, AloneInv
    <3>2. copy.balance \in Nat /\ granted[a] \in Nat
      BY <1>0, <2>1, <2>2 DEF Account
    <3> QED
      BY <1>0, <2>1, <3>1, <3>2
  <2>4. Credited(copy, task[w].now)
          = [balance |-> accounts[a].balance + Limit, last_claim |-> task[w].now]
    BY <2>2, <2>3 DEF Credited, SaturatingAdd
  <2>5. /\ accounts' = [accounts EXCEPT ![a] = Credited(copy, task[w].now)]
        /\ task'[w].pc = "store" /\ task'[w].new_issued = task[w].new_issued
    BY <1>0, <1>2 DEF Credit, Task
  <2>6. CountedIssued = issued /\ CountedIssued' = issued + Limit
    BY <2>1, <2>5, CountedOfOne DEF At
  <2> QED
    BY <2>1, <2>2, <2>4, <2>5, <2>6 DEF Atomic!Claim
<1>3. ASSUME \/ \E a \in Accounts : Receive(w, a)
             \/ GetAccount(w) \/ MissAccount(w) \/ LoadIssued(w)
      PROVE  UNCHANGED <<accounts, CountedIssued>>
  <2>1. accounts' = accounts /\ issued' = issued /\ ~At(w, "store")
    BY <1>3 DEF Receive, GetAccount, MissAccount, LoadIssued, ledger, At
  <2>2. task'[w].pc # "store"
    <3>1. CASE GetAccount(w)
      BY <3>1, CheckCooldownEffect DEF GetAccount, Idle
    <3>2. CASE \E a \in Accounts : Receive(w, a)
      BY <1>0, <3>2 DEF Receive, Task
    <3>3. CASE MissAccount(w)
      BY <1>0, <3>3 DEF MissAccount, Task
    <3>4. CASE LoadIssued(w)
      BY <1>0, <3>4 DEF LoadIssued, Return, Idle, Task
    <3> QED
      BY <1>3, <3>1, <3>2, <3>3, <3>4
  <2> QED
    BY <2>1, <2>2, CountedOfOne DEF At
<1>4. ASSUME StoreIssued(w)
      PROVE  UNCHANGED <<accounts, CountedIssued>>
  BY <1>0, <1>4, CountedOfOne DEF StoreIssued, Return, At, Idle
<1>5. ASSUME Tick \/ UNCHANGED vars
      PROVE  UNCHANGED <<accounts, CountedIssued>>
  BY <1>5, CountedOfOne DEF Tick, vars, ledger, At
<1>6. ~StepBack /\ ~Restart
  BY <1>0 DEF StepBack, Restart
<1>7. task[w].account_id \in Accounts \/ ~(CreateAccount(w) \/ Credit(w))
  BY <1>0 DEF CreateAccount, Credit, At
<1> QED
  BY <1>1, <1>2, <1>3, <1>4, <1>5, <1>6, <1>7 DEF Next, Handle, Atomic!Next

\* One request at a time, while the clock is not set back and the process lives,
\* the handler implements the atomic claims that its comments announce: each of
\* its steps is a claim, the opening of an account, or nothing that shows
\* (main.rs:218-243).
THEOREM HandlerIsAtomic ==
  ASSUME NEW w, Workers = {w}, MaxBacksteps = 0, MaxRestarts = 0
  PROVE  Spec => AtomicClaims
<1>1. Init => GrantedInv /\ AloneInv(w)
  BY ConstantTypes
  DEF Init, GrantedInv, BalanceIsGranted, CopyIsGranted, AloneInv, At, Idle
<1>2. TypeInv /\ GrantedInv /\ [Next]_vars => GrantedInv'
  BY GrantedInvStep
<1>3. TypeInv /\ KeptInv /\ AloneInv(w) /\ [Next]_vars => AloneInv(w)'
  BY AloneInvStep
<1>4. Init => Atomic!Init
  BY CountedOfOne DEF Init, Atomic!Init, At, Idle
<1>5. TypeInv /\ KeptInv /\ GrantedInv /\ AloneInv(w) /\ [Next]_vars
        => [Atomic!Next]_<<accounts, CountedIssued>>
  BY HandlerSimulates
<1> QED
  BY <1>1, <1>2, <1>3, <1>4, <1>5, TypeInvariance, KeptInvariance, PTL
  DEF Spec, AtomicClaims, Atomic!Spec

-----------------------------------------------------------------------------
(* The supply, which overlapping requests can exceed, holds for one at a    *)
(* time, even over clock changes and restarts.                             *)

\* What is paid is counted, but for the claim that is being stored.
SerialInv(w) ==
  /\ issued + (IF At(w, "store") THEN Limit ELSE 0) = paid
  /\ At(w, "credit") \/ At(w, "store") => task[w].new_issued = issued + Limit

LEMMA SerialInvStep ==
  ASSUME NEW w, Workers = {w}, TypeInv, SerialInv(w), [Next]_vars
  PROVE  SerialInv(w)'
<1> USE ConstantTypes DEF SerialInv
<1>0. /\ task \in [Workers -> Task] /\ w \in Workers /\ task[w] \in Task
      /\ issued \in Nat /\ paid \in Nat
  BY DEF TypeInv, TypeOK
<1>1. ASSUME NEW a \in Accounts, Receive(w, a)
      PROVE  SerialInv(w)'
  BY <1>0, <1>1 DEF Receive, At, ledger, history
<1>2. ASSUME NEW copy, CheckCooldown(w, copy), At(w, "get") \/ At(w, "create"),
             UNCHANGED <<issued, history>>
      PROVE  SerialInv(w)'
  <2>1. task'[w].pc \in {"idle", "load"}
    BY <1>0, <1>2 DEF CheckCooldown, Return, Idle, Task
  <2>2. issued' = issued /\ paid' = paid /\ issued = paid
    BY <1>0, <1>2 DEF At, history
  <2> QED
    BY <1>0, <2>1, <2>2 DEF At
<1>3. CASE GetAccount(w)
  BY <1>2, <1>3 DEF GetAccount, ledger
<1>4. CASE MissAccount(w)
  BY <1>0, <1>4 DEF MissAccount, At, ledger, history
<1>5. CASE CreateAccount(w)
  BY <1>2, <1>5 DEF CreateAccount
<1>6. CASE LoadIssued(w)
  <2>1. \/ task'[w].pc = "idle"
        \/ task'[w].pc = "credit" /\ task'[w].new_issued = issued + Limit
    BY <1>0, <1>6 DEF LoadIssued, Return, Idle, Task
  <2>2. issued' = issued /\ paid' = paid /\ issued = paid
    BY <1>0, <1>6 DEF LoadIssued, At, ledger, history
  <2> QED
    BY <1>0, <2>1, <2>2 DEF At
<1>7. CASE Credit(w)
  BY <1>0, <1>7 DEF Credit, At
<1>8. CASE StoreIssued(w)
  BY <1>0, <1>8 DEF StoreIssued, Return, At, Idle, history
<1>9. CASE Restart
  BY <1>0, <1>9 DEF Restart, At, Idle
<1>10. CASE UNCHANGED <<issued, task, paid>>
  BY <1>10 DEF At
<1> QED
  BY <1>1, <1>3, <1>4, <1>5, <1>6, <1>7, <1>8, <1>9, <1>10
  DEF Next, Handle, Tick, StepBack, vars, ledger, history

\* One request at a time the accounts are paid no more than the supply, and
\* between requests the counter is what was paid, however the clock changes and
\* wherever the process dies (main.rs:233-243).  Only the overlap of requests
\* breaks it.
PaidWithinSupply ==
  /\ paid <= TotalSupply
  /\ (\A w \in Workers : At(w, "idle")) => issued = paid

THEOREM SupplyIsKept ==
  ASSUME NEW w, Workers = {w}
  PROVE  Spec => []PaidWithinSupply
<1>1. Init => SerialInv(w)
  BY ConstantTypes DEF Init, SerialInv, At, Idle
<1>2. TypeInv /\ SerialInv(w) /\ [Next]_vars => SerialInv(w)'
  BY SerialInvStep
<1>3. TypeInv /\ SerialInv(w) => PaidWithinSupply
  BY ConstantTypes DEF TypeInv, TypeOK, CarryFits, SerialInv, PaidWithinSupply, At
<1> QED
  BY <1>1, <1>2, <1>3, TypeInvariance, PTL DEF Spec

-----------------------------------------------------------------------------
(* The requests that get as far as the handler's body: none.               *)

\* What is both an account id and hexadecimal is too short for a key.
LEMMA IdIsNoKey ==
  ASSUME NEW id \in Text, IsValidAccountId(id)
  PROVE  Bytes(id) # 32
<1>1. id.length \in Nat /\ id.length <= 44
  BY LengthsAssumption DEF Text, IsValidAccountId
<1> QED
  BY <1>1 DEF Bytes

LEMMA NoClaimIsVerified ==
  ASSUME NEW id \in Text \union {Absent}, NEW signature
  PROVE  Verdict(id, signature)
           \in {"MissingAccountId", "MissingSignature",
                "InvalidAccountIdFormat", "panic"}
<1>1. CASE id = Absent \/ signature = Absent
  BY <1>1 DEF Verdict
<1>2. CASE id # Absent /\ signature # Absent
  <2>1. id \in Text
    BY <1>2
  <2> QED
    BY <1>2, <2>1, IdIsNoKey DEF Verdict
<1> QED
  BY <1>1, <1>2

\* No claim is verified whatever is sent, so no account exists and nothing
\* that needs one is answered (main.rs:191-210, 264-265, 297-298).
THEOREM GateIsShut == GateSpec => []NothingGetsThrough
<1>1. GateInit => NothingGetsThrough
  <2>1. ASSUME GateInit PROVE opened = {} /\ reply = Absent
    BY <2>1 DEF GateInit
  <2> QED
    BY <2>1, AbsentAssumption DEF NothingGetsThrough
<1>2. NothingGetsThrough /\ [GateNext]_gate => NothingGetsThrough'
  <2> SUFFICES ASSUME NothingGetsThrough, [GateNext]_gate PROVE NothingGetsThrough'
    OBVIOUS
  <2>1. ASSUME NEW id \in Text \union {Absent},
               NEW signature \in Signed \union {Absent},
               Claim(id, signature)
        PROVE  NothingGetsThrough'
    BY <2>1, NoClaimIsVerified DEF Claim, NothingGetsThrough
  <2>2. ASSUME NEW id \in Text, Balance(id)
        PROVE  NothingGetsThrough'
    BY <2>2 DEF Balance, NothingGetsThrough
  <2>3. ASSUME NEW from \in Text \union {Absent}, NEW complete \in BOOLEAN,
               Transfer(from, complete)
        PROVE  NothingGetsThrough'
    <3>1. TransferReplies(from, complete)
            \in {{"InvalidTransaction"}, {"AccountNotFound"}}
      BY DEF TransferReplies, NothingGetsThrough
    <3> QED
      BY <2>3, <3>1 DEF Transfer, NothingGetsThrough
  <2>4. CASE UNCHANGED gate
    BY <2>4 DEF gate, NothingGetsThrough
  <2> QED
    BY <2>1, <2>2, <2>3, <2>4 DEF GateNext
<1> QED
  BY <1>1, <1>2, PTL DEF GateSpec

\* Only texts that a client sent become accounts, and the handlers answer no more
\* than the replies listed in GateTypeOK (main.rs:180-226, 259-311).
THEOREM GateTypeCorrect == GateSpec => []GateTypeOK
<1>1. GateInit => GateTypeOK
  BY DEF GateInit, GateTypeOK
<1>2. GateTypeOK /\ [GateNext]_gate => GateTypeOK'
  <2> SUFFICES ASSUME GateTypeOK, [GateNext]_gate PROVE GateTypeOK'
    OBVIOUS
  <2>1. ASSUME NEW id \in Text \union {Absent},
               NEW signature \in Signed \union {Absent},
               Claim(id, signature)
        PROVE  GateTypeOK'
    BY <2>1, NoClaimIsVerified DEF Claim, GateTypeOK
  <2>2. ASSUME NEW id \in Text, Balance(id)
        PROVE  GateTypeOK'
    BY <2>2 DEF Balance, GateTypeOK
  <2>3. ASSUME NEW from \in Text \union {Absent}, NEW complete \in BOOLEAN,
               Transfer(from, complete)
        PROVE  GateTypeOK'
    BY <2>3 DEF Transfer, TransferReplies, GateTypeOK
  <2>4. CASE UNCHANGED gate
    BY <2>4 DEF gate, GateTypeOK
  <2> QED
    BY <2>1, <2>2, <2>3, <2>4 DEF GateNext
<1> QED
  BY <1>1, <1>2, PTL DEF GateSpec

=============================================================================
