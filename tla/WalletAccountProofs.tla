------------------------- MODULE WalletAccountProofs -------------------------
(***************************************************************************)
(* The wallet's account requests and transfers for any number of calls and *)
(* keys, any expiry and number of retries: types and the number of         *)
(* attempts, one request at a time for an account, a cache in order, and   *)
(* what the transfer queue holds.                                          *)
(***************************************************************************)
EXTENDS WalletAccount, Integers, FiniteSetTheorems, TLAPS

Labels == {"idle", "request", "reply", "backoff", "poll",
           "attempt", "post", "answered"}

Locals == [pc : Labels,
           cacheKey : Keys \union {NoEntry},
           url : Keys \union {NoEntry},
           retryCount : 0..(MaxRetries - 1),
           data : Data \union {NoData},
           id : Nat]

\* What a call's locals may hold at each label.
Local == {r \in Locals :
            /\ r.pc = "idle" => r.retryCount = 0
            /\ r.pc \in {"request", "reply", "backoff", "poll"} => r.cacheKey \in Keys
            /\ r.pc = "request" => r.url \in Keys
            /\ r.pc = "reply" => r.data \in Data}

\* The attempts at a transfer that a call with these locals may still make.
LeftOf(r) == {n \in 1..MaxRetries :
                \/ r.pc = "attempt" /\ r.retryCount < n
                \/ r.pc \in {"post", "answered"} /\ r.retryCount + 1 < n}

Left == {a \in Calls \X (1..MaxRetries) : a[2] \in LeftOf(call[a[1]])}

\* The attempts made and those left are no more than all transfers may have.
AttemptsAreBounded ==
  /\ IsFiniteSet(Left)
  /\ ids + Cardinality(Left) <= sends * MaxRetries

\* The attempts under way have ids of their own, none of them lost.
IdsAreDistinct ==
  /\ \A c \in Calls : At(c, "post") => call[c].id \in (1..ids) \ lost
  /\ \A c, d \in Calls :
       At(c, "post") /\ At(d, "post") /\ call[c].id = call[d].id => c = d

\* Nothing that was read is newer than the account is, and an answer on its way
\* is no older than what is cached where it goes.
AnswersAreInOrder ==
  /\ \A k \in Keys :
       requestCache[k] # NoEntry
         => requestCache[k].data.version <= server[requestCache[k].data.of]
  /\ \A c \in Calls :
       At(c, "reply") =>
         /\ call[c].data.version <= server[call[c].data.of]
         /\ /\ requestCache[call[c].cacheKey] # NoEntry
            /\ requestCache[call[c].cacheKey].data.of = call[c].data.of
            => requestCache[call[c].cacheKey].data.version <= call[c].data.version

TypeInv == TypeOK /\ call \in [Calls -> Local] /\ AttemptsAreBounded
QueueInv == QueueIsAccounted /\ IdsAreDistinct

-----------------------------------------------------------------------------
(* Types, and the bound on the attempts.                                   *)

LEMMA Constants ==
  /\ Expiry \in Nat /\ Expiry > 0 /\ MaxRetries \in Nat /\ MaxRetries > 0
  /\ MaxVersion \in Nat /\ MaxSends \in Nat
BY NumbersAssumption

LEMMA IdleIsLocal == Idle \in Local /\ LeftOf(Idle) = {} /\ Idle.pc = "idle"
BY Constants DEF Idle, Local, Locals, Labels, LeftOf

\* getAccountInfo sets the locals of its call, the balance and the mark.
LEMMA InfoEffect ==
  ASSUME TypeInv, NEW c \in Calls, NEW k \in Keys, GetAccountInfo(c, k)
  PROVE  /\ balance' \in Data \union {NoData}
         /\ pendingRequests' \subseteq Keys
         /\ call' \in [Calls -> Local]
         /\ \A d \in Calls : LeftOf(call'[d]) \subseteq LeftOf(call[d])
         /\ \A d \in Calls \ {c} : call'[d] = call[d]
         /\ \/ call'[c].pc \in {"idle", "poll"} /\ pendingRequests' = pendingRequests
            \/ /\ call'[c].pc = "request" /\ call'[c].cacheKey = k
               /\ k \notin pendingRequests
               /\ pendingRequests' = pendingRequests \union {k}
<1>1. CASE Hit(c, k)
  <2>1. requestCache[k] \in Entry
    BY <1>1 DEF Hit, IsFresh, TypeInv, TypeOK
  <2> QED
    BY <1>1, <2>1, IdleIsLocal DEF Hit, Return, TypeInv, TypeOK, Entry
<1>2. CASE Wait(c, k)
  <2> DEFINE r == [Idle EXCEPT !.pc = "poll", !.cacheKey = k]
  <2>1. r \in Local /\ r.pc = "poll"
    BY IdleIsLocal DEF Local, Locals, Labels
  <2>2. LeftOf(r) = {}
    BY <2>1 DEF LeftOf
  <2> QED
    BY <1>2, <2>1, <2>2 DEF Wait, TypeInv, TypeOK
<1>3. CASE Ask(c, k)
  <2> DEFINE r == [Idle EXCEPT !.pc = "request", !.cacheKey = k, !.url = k]
  <2>1. r \in Local /\ r.pc = "request"
    BY IdleIsLocal DEF Local, Locals, Labels
  <2>2. LeftOf(r) = {}
    BY <2>1 DEF LeftOf
  <2> QED
    BY <1>3, <2>1, <2>2 DEF Ask, TypeInv, TypeOK
<1> QED
  BY <1>1, <1>2, <1>3 DEF GetAccountInfo

\* A step that takes no attempts and leaves no more.
LEMMA NoAttempt ==
  ASSUME TypeInv, UNCHANGED <<sends, ids>>,
         call' \in [Calls -> Local],
         \A c \in Calls : LeftOf(call'[c]) \subseteq LeftOf(call[c])
  PROVE  AttemptsAreBounded' /\ ids' \in 0..(sends * MaxRetries)'
<1>1. Left' \subseteq Left
  BY DEF Left
<1>2. IsFiniteSet(Left') /\ Cardinality(Left') <= Cardinality(Left)
  BY <1>1, FS_Subset DEF TypeInv, AttemptsAreBounded
<1>3. Cardinality(Left) \in Nat /\ Cardinality(Left') \in Nat
  BY <1>2, FS_CardinalityType DEF TypeInv, AttemptsAreBounded
<1>4. sends * MaxRetries \in Nat /\ ids \in Nat
  BY Constants DEF TypeInv, TypeOK
<1> QED
  BY <1>1, <1>2, <1>3, <1>4 DEF TypeInv, TypeOK, AttemptsAreBounded

\* A transfer brings as many attempts as the loop allows,
LEMMA SendAttempts ==
  ASSUME TypeInv, NEW c \in Calls, Send(c)
  PROVE  call' \in [Calls -> Local] /\ AttemptsAreBounded' /\ ids' \in 0..(sends * MaxRetries)'
<1> DEFINE r == [call[c] EXCEPT !.pc = "attempt"]
           new == {c} \X (1..MaxRetries)
<1>1. call[c] \in Local /\ call[c].pc = "idle" /\ call' = [call EXCEPT ![c] = r]
  BY DEF Send, At, TypeInv
<1>2. r \in Local
  BY <1>1, Constants DEF Local, Locals, Labels
<1>3. Left' \subseteq Left \union new
  <2> SUFFICES ASSUME NEW a \in Calls \X (1..MaxRetries), a[2] \in LeftOf(call'[a[1]])
               PROVE  a \in Left \union new
    BY DEF Left, LeftOf
  <2>1. CASE a[1] = c
    BY <2>1
  <2>2. CASE a[1] # c
    BY <1>1, <2>2 DEF Left, TypeInv
  <2> QED
    BY <2>1, <2>2
<1>4. IsFiniteSet(new) /\ Cardinality(new) = MaxRetries
  <2>1. IsFiniteSet({c}) /\ Cardinality({c}) = 1
    BY FS_Singleton
  <2>2. IsFiniteSet(1..MaxRetries) /\ Cardinality(1..MaxRetries) = MaxRetries
    BY Constants, FS_Interval
  <2>3. IsFiniteSet(new) /\ Cardinality(new) = Cardinality({c}) * Cardinality(1..MaxRetries)
    BY <2>1, <2>2, FS_Product
  <2> QED
    BY <2>1, <2>2, <2>3, Constants
<1> HIDE DEF new
<1>5. IsFiniteSet(Left \union new) /\ Cardinality(Left \union new) <= Cardinality(Left) + MaxRetries
  <2>1. /\ IsFiniteSet(Left \union new)
        /\ Cardinality(Left \union new)
             = Cardinality(Left) + Cardinality(new) - Cardinality(Left \intersect new)
    BY <1>4, FS_Union DEF TypeInv, AttemptsAreBounded
  <2>2. Cardinality(Left) \in Nat /\ Cardinality(Left \intersect new) \in Nat
    BY <1>4, FS_CardinalityType, FS_Intersection DEF TypeInv, AttemptsAreBounded
  <2> QED
    BY <1>4, <2>1, <2>2, Constants
<1>6. IsFiniteSet(Left') /\ Cardinality(Left') <= Cardinality(Left) + MaxRetries
  <2>1. IsFiniteSet(Left') /\ Cardinality(Left') <= Cardinality(Left \union new)
    BY <1>3, <1>5, FS_Subset
  <2>2. /\ Cardinality(Left) \in Nat /\ Cardinality(Left') \in Nat
        /\ Cardinality(Left \union new) \in Nat
    BY <1>5, <2>1, FS_CardinalityType DEF TypeInv, AttemptsAreBounded
  <2> QED
    BY <1>5, <2>1, <2>2, Constants
<1>7. Cardinality(Left) \in Nat /\ Cardinality(Left') \in Nat
  BY <1>6, FS_CardinalityType DEF TypeInv, AttemptsAreBounded
<1>8. (sends * MaxRetries)' = sends * MaxRetries + MaxRetries /\ ids' = ids
  BY Constants DEF Send, TypeInv, TypeOK
<1>9. sends * MaxRetries \in Nat /\ ids \in Nat
  BY Constants DEF TypeInv, TypeOK
<1>10. ids' + Cardinality(Left') <= (sends * MaxRetries)'
  BY <1>6, <1>7, <1>8, <1>9, Constants DEF TypeInv, AttemptsAreBounded
<1>11. call' \in [Calls -> Local]
  BY <1>1, <1>2 DEF TypeInv
<1> QED
  BY <1>6, <1>7, <1>8, <1>9, <1>10, <1>11, Constants DEF AttemptsAreBounded

\* and each attempt takes one of them.
LEMMA PostAttempts ==
  ASSUME TypeInv, NEW c \in Calls, Post(c)
  PROVE  call' \in [Calls -> Local] /\ AttemptsAreBounded' /\ ids' \in 0..(sends * MaxRetries)'
<1> DEFINE this == <<c, call[c].retryCount + 1>>
<1>1. /\ ids' = ids + 1 /\ sends' = sends /\ ids \in Nat /\ sends * MaxRetries \in Nat
      /\ call[c] \in Local /\ call[c].pc = "attempt"
  BY Constants DEF Post, At, TypeInv, TypeOK
<1>2. /\ call' \in [Calls -> Local]
      /\ call'[c].pc = "post" /\ call'[c].retryCount = call[c].retryCount
      /\ \A d \in Calls \ {c} : call'[d] = call[d]
  <2>1. call' = [call EXCEPT ![c].pc = "post", ![c].id = ids'] /\ ids' \in Nat
    BY <1>1 DEF Post
  <2>2. \A d \in Calls \ {c} : call'[d] = call[d]
    BY <2>1 DEF TypeInv
  <2>3. /\ call'[c].pc = "post" /\ call'[c].retryCount = call[c].retryCount
        /\ call'[c] \in Local
    <3>1. call'[c].pc = "post" /\ call'[c] \in Locals
      BY <1>1, <2>1 DEF TypeInv, Local, Locals, Labels
    <3>2. call'[c].retryCount = call[c].retryCount
      BY <1>1, <2>1 DEF TypeInv, Local, Locals
    <3> QED
      BY <3>1, <3>2 DEF Local
  <2> QED
    BY <2>1, <2>2, <2>3 DEF TypeInv
<1>3. this \in Left
  BY <1>1, Constants DEF Left, LeftOf, Local, Locals
<1>4. Left' \subseteq Left \ {this}
  <2> SUFFICES ASSUME NEW a \in Calls \X (1..MaxRetries), a[2] \in LeftOf(call'[a[1]])
               PROVE  a \in Left \ {this}
    BY DEF Left, LeftOf
  <2>1. CASE a[1] = c
    <3>1. call[c].retryCount + 1 < a[2] /\ call[c].retryCount \in Nat
      <4>1. call'[c].retryCount + 1 < a[2]
        BY <1>2, <2>1 DEF LeftOf
      <4> QED
        BY <1>1, <1>2, <4>1 DEF Local, Locals
    <3> QED
      BY <1>1, <2>1, <3>1 DEF Left, LeftOf
  <2>2. CASE a[1] # c
    BY <1>2, <2>2 DEF Left
  <2> QED
    BY <2>1, <2>2
<1> HIDE DEF this
<1>5. IsFiniteSet(Left \ {this}) /\ Cardinality(Left \ {this}) = Cardinality(Left) - 1
  BY <1>3, FS_RemoveElement DEF TypeInv, AttemptsAreBounded
<1>6. IsFiniteSet(Left') /\ Cardinality(Left') <= Cardinality(Left) - 1
  BY <1>4, <1>5, FS_Subset
<1>7. Cardinality(Left) \in Nat /\ Cardinality(Left') \in Nat
  BY <1>6, FS_CardinalityType DEF TypeInv, AttemptsAreBounded
<1>8. ids' + Cardinality(Left') <= sends' * MaxRetries
  BY <1>1, <1>6, <1>7 DEF TypeInv, AttemptsAreBounded
<1> QED
  BY <1>1, <1>2, <1>6, <1>7, <1>8 DEF AttemptsAreBounded

\* Where a call goes on with its count.
LEMMA CatchEffect ==
  ASSUME TypeInv, NEW c \in Calls, call[c].pc \in {"post", "answered"}, Catch(c)
  PROVE  /\ call' \in [Calls -> Local]
         /\ \A d \in Calls : LeftOf(call'[d]) \subseteq LeftOf(call[d])
         /\ \A d \in Calls \ {c} : call'[d] = call[d]
         /\ call'[c].pc \in {"idle", "attempt"}
<1>1. CASE call[c].retryCount + 1 < MaxRetries
  <2> DEFINE next == call[c].retryCount + 1
  <2>1. /\ next \in 0..(MaxRetries - 1) /\ next = call[c].retryCount + 1
        /\ call' = [call EXCEPT ![c].pc = "attempt", ![c].retryCount = next, ![c].id = 0]
    BY <1>1, Constants DEF Catch, TypeInv, Local, Locals
  <2> HIDE DEF next
  <2>2. call' \in [Calls -> Local]
    BY <2>1 DEF TypeInv, Local, Locals, Labels
  <2>3. /\ call'[c].pc = "attempt" /\ call'[c].retryCount = next
        /\ \A d \in Calls \ {c} : call'[d] = call[d]
    BY <2>1 DEF TypeInv, Local, Locals
  <2> QED
    BY <2>1, <2>2, <2>3 DEF LeftOf
<1>2. CASE ~(call[c].retryCount + 1 < MaxRetries)
  BY <1>2, IdleIsLocal DEF Catch, Return, TypeInv, Idle
<1> QED
  BY <1>1, <1>2

LEMMA FailEffect ==
  ASSUME TypeInv, NEW c \in Calls, Fail(c)
  PROVE  /\ call' \in [Calls -> Local]
         /\ \A d \in Calls : LeftOf(call'[d]) \subseteq LeftOf(call[d])
         /\ \A d \in Calls \ {c} : call'[d] = call[d]
         /\ \/ /\ call'[c].pc = "backoff" /\ call'[c].cacheKey = call[c].cacheKey
               /\ UNCHANGED <<balance, pendingRequests>>
            \/ /\ call'[c].pc = "idle" /\ balance' = NoData
               /\ pendingRequests' = pendingRequests \ {call[c].cacheKey}
<1>0. call[c].pc \in {"request", "reply"} /\ call[c] \in Local
  BY DEF Fail, At, TypeInv
<1>1. CASE call[c].retryCount + 1 < MaxRetries
  <2> DEFINE next == call[c].retryCount + 1
  <2>1. /\ next \in 0..(MaxRetries - 1)
        /\ call' = [call EXCEPT ![c].pc = "backoff", ![c].retryCount = next,
                               ![c].data = NoData]
        /\ UNCHANGED <<balance, pendingRequests>>
    BY <1>0, <1>1, Constants DEF Fail, Local, Locals
  <2> HIDE DEF next
  <2>2. call' \in [Calls -> Local]
    BY <1>0, <2>1 DEF TypeInv, Local, Locals, Labels
  <2>3. /\ call'[c].pc = "backoff" /\ call'[c].cacheKey = call[c].cacheKey
        /\ \A d \in Calls \ {c} : call'[d] = call[d]
    BY <2>1 DEF TypeInv, Local, Locals
  <2> QED
    BY <2>1, <2>2, <2>3 DEF LeftOf
<1>2. CASE ~(call[c].retryCount + 1 < MaxRetries)
  BY <1>2, IdleIsLocal DEF Fail, Return, TypeInv, Idle
<1> QED
  BY <1>1, <1>2

LEMMA TypeInvStep == TypeInv /\ IdsAreDistinct /\ [Next]_vars => TypeInv'
<1> SUFFICES ASSUME TypeInv, IdsAreDistinct, [Next]_vars PROVE TypeInv'
  OBVIOUS
<1> USE Constants
\* What remains to show of a step that leaves transfers alone,
<1>a. ASSUME UNCHANGED <<sends, ids>>, call' \in [Calls -> Local],
             \A c \in Calls : LeftOf(call'[c]) \subseteq LeftOf(call[c]),
             publicKey' \in Keys, balance' \in Data \union {NoData},
             requestCache' \in [Keys -> Entry \union {NoEntry}],
             pendingRequests' \subseteq Keys, requestQueue' \subseteq 1..ids,
             server' \in [Keys -> 0..MaxVersion], lost' \subseteq 1..ids
      PROVE  TypeInv'
  <2>1. AttemptsAreBounded' /\ ids' \in 0..(sends * MaxRetries)'
    BY <1>a, NoAttempt
  <2> QED
    BY <1>a, <2>1 DEF TypeInv, TypeOK, Local, Locals, Labels
\* ... and of the others.
<1>b. ASSUME call' \in [Calls -> Local], AttemptsAreBounded',
             ids' \in 0..(sends * MaxRetries)', sends' \in 0..MaxSends,
             UNCHANGED <<publicKey, balance, requestCache, pendingRequests, server>>,
             requestQueue' \subseteq 1..ids', lost' \subseteq 1..ids'
      PROVE  TypeInv'
  BY <1>b DEF TypeInv, TypeOK, Local, Locals, Labels
<1>1. ASSUME NEW c \in Calls, NEW k \in Keys, SwitchKey(c, k)
      PROVE  TypeInv'
  BY <1>1, <1>a, InfoEffect DEF SwitchKey, TypeInv, TypeOK
<1>2. ASSUME NEW c \in Calls, Refresh(c) \/ Accepted(c)
      PROVE  TypeInv'
  <2>1. publicKey \in Keys /\ GetAccountInfo(c, publicKey)
    BY <1>2 DEF Refresh, Accepted, TypeInv, TypeOK
  <2> QED
    BY <1>2, <1>a, <2>1, InfoEffect DEF Refresh, Accepted, TypeInv, TypeOK
<1>3. ASSUME NEW c \in Calls, Serve(c)
      PROVE  TypeInv'
  <2> DEFINE answer == [of |-> call[c].url, version |-> server[call[c].url]]
  <2>1. call[c] \in Local /\ call[c].pc = "request" /\ answer \in Data
    BY <1>3 DEF Serve, At, TypeInv, TypeOK, Local, Data
  <2>2. call' = [call EXCEPT ![c].pc = "reply", ![c].data = answer]
    BY <1>3 DEF Serve
  <2> HIDE DEF answer
  <2>3. call' \in [Calls -> Local] /\ call'[c].pc = "reply"
        /\ \A d \in Calls \ {c} : call'[d] = call[d]
    BY <2>1, <2>2 DEF TypeInv, Local, Locals, Labels
  <2>4. \A d \in Calls : LeftOf(call'[d]) \subseteq LeftOf(call[d])
    BY <2>3 DEF LeftOf
  <2> QED
    BY <1>3, <1>a, <2>3, <2>4 DEF Serve, page, TypeInv, TypeOK
<1>4. ASSUME NEW c \in Calls, Reply(c)
      PROVE  TypeInv'
  <2>1. call[c] \in Local /\ call[c].data \in Data
    BY <1>4 DEF Reply, At, TypeInv, Local
  <2>2. [data |-> call[c].data, age |-> 0] \in Entry
    BY <2>1 DEF Entry
  <2>3. /\ call' \in [Calls -> Local]
        /\ \A d \in Calls : LeftOf(call'[d]) \subseteq LeftOf(call[d])
    BY <1>4, IdleIsLocal DEF Reply, Return, TypeInv
  <2> QED
    BY <1>4, <1>a, <2>1, <2>2, <2>3 DEF Reply, TypeInv, TypeOK
<1>5. ASSUME NEW c \in Calls, Fail(c)
      PROVE  TypeInv'
  BY <1>5, <1>a, FailEffect DEF Fail, TypeInv, TypeOK
<1>6. ASSUME NEW c \in Calls, Retry(c)
      PROVE  TypeInv'
  <2>1. /\ call[c] \in Local /\ call[c].pc = "backoff" /\ publicKey \in Keys
        /\ call' = [call EXCEPT ![c].pc = "request", ![c].url = publicKey]
    BY <1>6 DEF Retry, At, TypeInv, TypeOK
  <2>2. call' \in [Calls -> Local] /\ call'[c].pc = "request"
        /\ \A d \in Calls \ {c} : call'[d] = call[d]
    BY <2>1 DEF TypeInv, Local, Locals, Labels
  <2>3. \A d \in Calls : LeftOf(call'[d]) \subseteq LeftOf(call[d])
    BY <2>2 DEF LeftOf
  <2> QED
    BY <1>6, <1>a, <2>2, <2>3 DEF Retry, page, TypeInv, TypeOK
<1>7. ASSUME NEW c \in Calls, Poll(c)
      PROVE  TypeInv'
  <2>1. call[c] \in Local /\ call[c].cacheKey \in Keys
    BY <1>7 DEF Poll, At, TypeInv, Local
  <2>2. requestCache[call[c].cacheKey].data \in Data
    BY <1>7, <2>1 DEF Poll, TypeInv, TypeOK, Entry
  <2>3. /\ call' \in [Calls -> Local]
        /\ \A d \in Calls : LeftOf(call'[d]) \subseteq LeftOf(call[d])
    BY <1>7, IdleIsLocal DEF Poll, Return, TypeInv
  <2> QED
    BY <1>7, <1>a, <2>2, <2>3 DEF Poll, TypeInv, TypeOK
<1>8. ASSUME NEW c \in Calls, Send(c)
      PROVE  TypeInv'
  <2>1. sends' \in 0..MaxSends
    BY <1>8 DEF Send, TypeInv, TypeOK
  <2>2. UNCHANGED <<publicKey, balance, requestCache, pendingRequests, server,
                    requestQueue, ids, lost>>
    BY <1>8 DEF Send, page
  <2> QED
    BY <1>8, <1>b, <2>1, <2>2, SendAttempts DEF TypeInv, TypeOK
<1>9. ASSUME NEW c \in Calls, Post(c)
      PROVE  TypeInv'
  <2>1. requestQueue' \subseteq 1..ids' /\ lost' \subseteq 1..ids'
    BY <1>9 DEF Post, TypeInv, TypeOK
  <2> QED
    BY <1>9, <1>b, <2>1, PostAttempts DEF Post, TypeInv, TypeOK
<1>10. ASSUME NEW c \in Calls, Answered(c)
       PROVE  TypeInv'
  <2>1. /\ call[c] \in Local /\ call[c].pc = "post"
        /\ call' = [call EXCEPT ![c].pc = "answered", ![c].id = 0]
    BY <1>10 DEF Answered, At, TypeInv
  <2>2. /\ call' \in [Calls -> Local]
        /\ call'[c].pc = "answered" /\ call'[c].retryCount = call[c].retryCount
        /\ \A d \in Calls \ {c} : call'[d] = call[d]
    BY <2>1 DEF TypeInv, Local, Locals, Labels
  <2>3. \A d \in Calls : LeftOf(call'[d]) \subseteq LeftOf(call[d])
    BY <2>1, <2>2 DEF LeftOf
  <2> QED
    BY <1>10, <1>a, <2>2, <2>3 DEF Answered, TypeInv, TypeOK
<1>11. ASSUME NEW c \in Calls, Refused(c)
       PROVE  TypeInv'
  BY <1>11, <1>a, CatchEffect DEF Refused, At, page, TypeInv, TypeOK
<1>12. ASSUME NEW c \in Calls, Rejected(c)
       PROVE  TypeInv'
  <2>1. call[c].id \in 1..ids
    BY <1>12 DEF Rejected, IdsAreDistinct
  <2> QED
    BY <1>12, <2>1, <1>a, CatchEffect DEF Rejected, At, page, TypeInv, TypeOK
<1>13. ASSUME NEW k \in Keys, Change(k)
       PROVE  TypeInv'
  <2>1. server' \in [Keys -> 0..MaxVersion]
    BY <1>13 DEF Change, TypeInv, TypeOK
  <2> QED
    BY <1>13, <1>a, <2>1 DEF Change, page, TypeInv, TypeOK
<1>14. CASE Tick
  <2>1. requestCache' \in [Keys -> Entry \union {NoEntry}]
    <3>1. \A k \in Keys : Older(k) \in Entry \union {NoEntry}
      BY DEF Older, IsFresh, TypeInv, TypeOK, Entry
    <3> QED
      BY <1>14, <3>1 DEF Tick
  <2> QED
    BY <1>14, <1>a, <2>1 DEF Tick, TypeInv, TypeOK
<1>15. CASE UNCHANGED vars
  BY <1>15, <1>a DEF vars, page, TypeInv, TypeOK
<1> QED
  BY <1>1, <1>2, <1>3, <1>4, <1>5, <1>6, <1>7, <1>8, <1>9, <1>10, <1>11, <1>12,
     <1>13, <1>14, <1>15 DEF Next

\* What the other steps of a call do to its locals.
LEMMA CallEffect ==
  ASSUME TypeInv, NEW c \in Calls
  PROVE  /\ Serve(c) =>
              /\ call[c].pc = "request" /\ call'[c].pc = "reply"
              /\ call'[c].cacheKey = call[c].cacheKey
              /\ call'[c].data = [of |-> call[c].url, version |-> server[call[c].url]]
         /\ Reply(c) => call[c].pc = "reply" /\ call'[c].pc = "idle"
         /\ Retry(c) =>
              /\ call[c].pc = "backoff" /\ call'[c].pc = "request"
              /\ call'[c].cacheKey = call[c].cacheKey
         /\ Poll(c) => call[c].pc = "poll" /\ call'[c].pc = "idle"
         /\ Send(c) => call[c].pc = "idle" /\ call'[c].pc = "attempt"
         /\ Post(c) =>
              /\ call[c].pc = "attempt" /\ call'[c].pc = "post"
              /\ call'[c].id = ids'
         /\ Answered(c) => call[c].pc = "post" /\ call'[c].pc = "answered"
         /\ \/ Serve(c) \/ Reply(c) \/ Retry(c) \/ Poll(c) \/ Send(c) \/ Post(c) \/ Answered(c)
            => \A d \in Calls \ {c} : call'[d] = call[d]
<1> call \in [Calls -> Local]
  BY DEF TypeInv
<1> USE DEF At, Return, Idle, Local, Locals
<1>1. ASSUME Serve(c)
      PROVE  /\ call[c].pc = "request" /\ call'[c].pc = "reply"
             /\ call'[c].cacheKey = call[c].cacheKey
             /\ call'[c].data = [of |-> call[c].url, version |-> server[call[c].url]]
             /\ \A d \in Calls \ {c} : call'[d] = call[d]
  <2> DEFINE answer == [of |-> call[c].url, version |-> server[call[c].url]]
  <2>1. call[c].pc = "request" /\ call' = [call EXCEPT ![c].pc = "reply", ![c].data = answer]
    BY <1>1 DEF Serve
  <2> HIDE DEF answer
  <2>2. /\ call'[c].pc = "reply" /\ call'[c].cacheKey = call[c].cacheKey
        /\ call'[c].data = answer
        /\ \A d \in Calls \ {c} : call'[d] = call[d]
    BY <2>1
  <2> QED
    BY <2>1, <2>2 DEF answer
<1>2. ASSUME Reply(c)
      PROVE  /\ call[c].pc = "reply" /\ call'[c].pc = "idle"
             /\ \A d \in Calls \ {c} : call'[d] = call[d]
  BY <1>2 DEF Reply
<1>3. ASSUME Retry(c)
      PROVE  /\ call[c].pc = "backoff" /\ call'[c].pc = "request"
             /\ call'[c].cacheKey = call[c].cacheKey
             /\ \A d \in Calls \ {c} : call'[d] = call[d]
  BY <1>3 DEF Retry
<1>4. ASSUME Poll(c)
      PROVE  /\ call[c].pc = "poll" /\ call'[c].pc = "idle"
             /\ \A d \in Calls \ {c} : call'[d] = call[d]
  BY <1>4 DEF Poll
<1>5. ASSUME Send(c)
      PROVE  /\ call[c].pc = "idle" /\ call'[c].pc = "attempt"
             /\ \A d \in Calls \ {c} : call'[d] = call[d]
  BY <1>5 DEF Send
<1>6. ASSUME Post(c)
      PROVE  /\ call[c].pc = "attempt" /\ call'[c].pc = "post" /\ call'[c].id = ids'
             /\ \A d \in Calls \ {c} : call'[d] = call[d]
  BY <1>6 DEF Post
<1>7. ASSUME Answered(c)
      PROVE  /\ call[c].pc = "post" /\ call'[c].pc = "answered"
             /\ \A d \in Calls \ {c} : call'[d] = call[d]
  BY <1>7 DEF Answered
<1> QED
  BY <1>1, <1>2, <1>3, <1>4, <1>5, <1>6, <1>7

-----------------------------------------------------------------------------
(* The transfer queue.                                                     *)

LEMMA QueueInvStep == TypeInv /\ QueueInv /\ [Next]_vars => QueueInv'
<1> SUFFICES ASSUME TypeInv, QueueInv, [Next]_vars PROVE QueueInv'
  OBVIOUS
<1> USE DEF QueueInv, QueueIsAccounted, IdsAreDistinct, At
\* Steps that neither begin nor end an attempt.
<1>a. ASSUME UNCHANGED <<requestQueue, ids, lost>>, NEW c \in Calls,
             \A d \in Calls \ {c} : call'[d] = call[d],
             call[c].pc # "post", call'[c].pc # "post"
      PROVE  QueueInv'
  BY <1>a
<1>1. ASSUME NEW c \in Calls, NEW k \in Keys, SwitchKey(c, k)
      PROVE  QueueInv'
  BY <1>1, <1>a, InfoEffect DEF SwitchKey
<1>2. ASSUME NEW c \in Calls, Refresh(c) \/ Accepted(c)
      PROVE  QueueInv'
  <2>1. publicKey \in Keys /\ GetAccountInfo(c, publicKey)
    BY <1>2 DEF Refresh, Accepted, TypeInv, TypeOK
  <2> QED
    BY <1>2, <1>a, <2>1, InfoEffect DEF Refresh, Accepted
<1>3. ASSUME NEW c \in Calls, Serve(c) \/ Reply(c) \/ Retry(c) \/ Poll(c) \/ Send(c)
      PROVE  QueueInv'
  <2>1. UNCHANGED <<requestQueue, ids, lost>>
    BY <1>3 DEF Serve, Reply, Retry, Poll, Send, page
  <2> QED
    BY <1>3, <1>a, <2>1, CallEffect
<1>4. ASSUME NEW c \in Calls, Fail(c)
      PROVE  QueueInv'
  BY <1>4, <1>a, FailEffect DEF Fail
<1>5. ASSUME NEW c \in Calls, Post(c)
      PROVE  QueueInv'
  <2>1. /\ ids \in Nat /\ ids' = ids + 1 /\ lost' = lost /\ lost \subseteq 1..ids
        /\ requestQueue' = requestQueue \union {ids'}
    BY <1>5, Constants DEF Post, TypeInv, TypeOK
  <2>2. /\ call[c].pc = "attempt" /\ call'[c].pc = "post" /\ call'[c].id = ids'
        /\ \A d \in Calls \ {c} : call'[d] = call[d]
    BY <1>5, CallEffect
  <2>3. QueueIsAccounted'
    BY <2>1, <2>2
  <2>4. \A d \in Calls : call'[d].pc = "post" => call'[d].id \in (1..ids') \ lost'
    BY <2>1, <2>2
  <2>5. \A d \in Calls \ {c} : call'[d].pc = "post" => call'[d].id # ids'
    BY <2>1, <2>2
  <2> QED
    BY <2>2, <2>3, <2>4, <2>5
<1>6. ASSUME NEW c \in Calls, Answered(c)
      PROVE  QueueInv'
  <2>1. requestQueue' = requestQueue \ {call[c].id} /\ UNCHANGED <<ids, lost>>
    BY <1>6 DEF Answered
  <2>2. /\ call[c].pc = "post" /\ call'[c].pc = "answered"
        /\ \A d \in Calls \ {c} : call'[d] = call[d]
    BY <1>6, CallEffect
  <2>3. QueueIsAccounted'
    BY <2>1, <2>2
  <2> QED
    BY <2>1, <2>2, <2>3
<1>7. ASSUME NEW c \in Calls, Refused(c)
      PROVE  QueueInv'
  BY <1>7, <1>a, CatchEffect DEF Refused, page
<1>8. ASSUME NEW c \in Calls, Rejected(c)
      PROVE  QueueInv'
  <2>1. lost' = lost \union {call[c].id} /\ UNCHANGED <<requestQueue, ids>>
    BY <1>8 DEF Rejected, page
  <2>2. /\ call[c].pc = "post" /\ call'[c].pc # "post"
        /\ \A d \in Calls \ {c} : call'[d] = call[d]
    BY <1>8, CatchEffect DEF Rejected
  <2>3. QueueIsAccounted'
    BY <2>1, <2>2
  <2> QED
    BY <2>1, <2>2, <2>3
<1>9. ASSUME UNCHANGED <<requestQueue, ids, lost, call>>
      PROVE  QueueInv'
  BY <1>9
<1>10. ASSUME Tick \/ (\E k \in Keys : Change(k)) \/ UNCHANGED vars
       PROVE  QueueInv'
  BY <1>9, <1>10 DEF Tick, Change, vars, page
<1> QED
  BY <1>1, <1>2, <1>3, <1>4, <1>5, <1>6, <1>7, <1>8, <1>10 DEF Next

-----------------------------------------------------------------------------
(* The marks of requests in progress.                                      *)

LEMMA PendingStep == TypeInv /\ PendingIsInFlight /\ [Next]_vars => PendingIsInFlight'
<1> SUFFICES ASSUME TypeInv, PendingIsInFlight, [Next]_vars PROVE PendingIsInFlight'
  OBVIOUS
<1> USE DEF PendingIsInFlight, InFlight, At
\* Steps of a call that stays in flight, or stays out of it,
<1>a. ASSUME pendingRequests' = pendingRequests, NEW c \in Calls,
             \A d \in Calls \ {c} : call'[d] = call[d],
             c \in InFlight' <=> c \in InFlight,
             c \in InFlight => call'[c].cacheKey = call[c].cacheKey
      PROVE  PendingIsInFlight'
  <2>1. InFlight' = InFlight /\ \A d \in InFlight : call'[d].cacheKey = call[d].cacheKey
    BY <1>a
  <2> HIDE DEF InFlight
  <2> QED
    BY <1>a, <2>1
\* ... that takes off,
<1>b. ASSUME NEW c \in Calls, NEW k \in Keys, k \notin pendingRequests,
             pendingRequests' = pendingRequests \union {k},
             \A d \in Calls \ {c} : call'[d] = call[d],
             c \notin InFlight, call'[c].pc = "request", call'[c].cacheKey = k
      PROVE  PendingIsInFlight'
  <2>1. InFlight' = InFlight \union {c} /\ \A d \in InFlight : call'[d] = call[d]
    BY <1>b
  <2> HIDE DEF InFlight
  <2> QED
    BY <1>b, <2>1
\* ... and that lands.
<1>c. ASSUME NEW c \in InFlight, pendingRequests' = pendingRequests \ {call[c].cacheKey},
             \A d \in Calls \ {c} : call'[d] = call[d],
             call'[c].pc = "idle"
      PROVE  PendingIsInFlight'
  <2>1. InFlight' = InFlight \ {c} /\ \A d \in InFlight \ {c} : call'[d] = call[d]
    BY <1>c
  <2> HIDE DEF InFlight
  <2> QED
    BY <1>c, <2>1
<1>1. ASSUME NEW c \in Calls, NEW k \in Keys, GetAccountInfo(c, k),
             call[c].pc \in {"idle", "answered"}
      PROVE  PendingIsInFlight'
  <2>1. \A d \in Calls \ {c} : call'[d] = call[d]
    BY <1>1, InfoEffect
  <2>2. CASE call'[c].pc \in {"idle", "poll"} /\ pendingRequests' = pendingRequests
    BY <1>1, <1>a, <2>1, <2>2
  <2>3. CASE ~(call'[c].pc \in {"idle", "poll"} /\ pendingRequests' = pendingRequests)
    <3>1. /\ call'[c].pc = "request" /\ call'[c].cacheKey = k
          /\ k \notin pendingRequests
          /\ pendingRequests' = pendingRequests \union {k}
      BY <1>1, <2>3, InfoEffect
    <3> QED
      BY <1>1, <1>b, <2>1, <3>1
  <2> QED
    BY <2>2, <2>3
<1>2. ASSUME NEW c \in Calls,
             \/ \E k \in Keys : SwitchKey(c, k)
             \/ Refresh(c) \/ Accepted(c)
      PROVE  PendingIsInFlight'
  <2>1. publicKey \in Keys
    BY DEF TypeInv, TypeOK
  <2> QED
    BY <1>1, <1>2, <2>1 DEF SwitchKey, Refresh, Accepted
<1>3. ASSUME NEW c \in Calls, Serve(c) \/ Retry(c) \/ Poll(c) \/ Send(c) \/ Post(c) \/ Answered(c)
      PROVE  PendingIsInFlight'
  <2>1. pendingRequests' = pendingRequests
    BY <1>3 DEF Serve, Retry, Poll, Send, Post, Answered, page
  <2> QED
    BY <1>3, <1>a, <2>1, CallEffect
<1>4. ASSUME NEW c \in Calls, Reply(c)
      PROVE  PendingIsInFlight'
  <2>1. pendingRequests' = pendingRequests \ {call[c].cacheKey}
    BY <1>4 DEF Reply
  <2> QED
    BY <1>4, <1>c, <2>1, CallEffect
<1>5. ASSUME NEW c \in Calls, Fail(c)
      PROVE  PendingIsInFlight'
  <2>1. c \in InFlight
    BY <1>5 DEF Fail
  <2> QED
    BY <1>5, <1>a, <1>c, <2>1, FailEffect
<1>6. ASSUME NEW c \in Calls, Refused(c) \/ Rejected(c)
      PROVE  PendingIsInFlight'
  <2>1. pendingRequests' = pendingRequests /\ call[c].pc \in {"post", "answered"} /\ Catch(c)
    BY <1>6 DEF Refused, Rejected, page
  <2> QED
    BY <1>a, <2>1, CatchEffect
<1>7. ASSUME Tick \/ (\E k \in Keys : Change(k)) \/ UNCHANGED vars
      PROVE  PendingIsInFlight'
  BY <1>7 DEF Tick, Change, vars, page
<1> QED
  BY <1>2, <1>3, <1>4, <1>5, <1>6, <1>7 DEF Next

-----------------------------------------------------------------------------
(* The cache.                                                              *)

\* Entries grow older, and nothing else.
LEMMA TickKeepsData ==
  ASSUME TypeInv, Tick, NEW k \in Keys, requestCache'[k] # NoEntry
  PROVE  requestCache[k] # NoEntry /\ requestCache'[k].data = requestCache[k].data
<1>1. requestCache[k] # NoEntry => requestCache[k] \in Entry
  BY DEF TypeInv, TypeOK
<1> QED
  BY <1>1 DEF Tick, Older, IsFresh, Entry

LEMMA AnswersStep ==
  TypeInv /\ PendingIsInFlight /\ AnswersAreInOrder /\ [Next]_vars => AnswersAreInOrder'
<1> SUFFICES ASSUME TypeInv, PendingIsInFlight, AnswersAreInOrder, [Next]_vars
             PROVE  AnswersAreInOrder'
  OBVIOUS
<1> USE DEF AnswersAreInOrder, At
<1>0. /\ call \in [Calls -> Local] /\ server \in [Keys -> Nat]
      /\ requestCache \in [Keys -> Entry \union {NoEntry}]
      /\ \A e \in Entry : e.data.of \in Keys /\ e.data.version \in Nat
      /\ \A r \in Local :
           r.pc = "reply" => r.cacheKey \in Keys /\ r.data.of \in Keys /\ r.data.version \in Nat
  BY Constants DEF TypeInv, TypeOK, Entry, Data, Local
\* Steps that neither cache an answer nor bring one.
<1>a. ASSUME \A k \in Keys :
               requestCache'[k] # NoEntry =>
                 requestCache[k] # NoEntry /\ requestCache'[k].data = requestCache[k].data,
             \A k \in Keys : server[k] <= server'[k] /\ server'[k] \in Nat,
             \A c \in Calls : call'[c].pc = "reply" => call'[c] = call[c]
      PROVE  AnswersAreInOrder'
  <2>1. \A k \in Keys :
          requestCache'[k] # NoEntry
            => requestCache'[k].data.version <= server'[requestCache'[k].data.of]
    BY <1>0, <1>a
  <2>2. ASSUME NEW c \in Calls, call'[c].pc = "reply"
        PROVE  /\ call'[c].data.version <= server'[call'[c].data.of]
               /\ /\ requestCache'[call'[c].cacheKey] # NoEntry
                  /\ requestCache'[call'[c].cacheKey].data.of = call'[c].data.of
                  => requestCache'[call'[c].cacheKey].data.version <= call'[c].data.version
    BY <1>0, <1>a, <2>2
  <2> QED
    BY <2>1, <2>2
<1>1. ASSUME NEW c \in Calls, Serve(c)
      PROVE  AnswersAreInOrder'
  <2>1. /\ call[c].pc = "request" /\ call'[c].cacheKey = call[c].cacheKey
        /\ call'[c].data = [of |-> call[c].url, version |-> server[call[c].url]]
        /\ \A d \in Calls \ {c} : call'[d] = call[d]
        /\ UNCHANGED <<requestCache, server>>
    BY <1>1, CallEffect DEF Serve, page
  <2>2. call[c].url \in Keys /\ call[c].cacheKey \in Keys
    BY <1>0, <2>1 DEF Local
  <2>3. /\ call'[c].data.version = server[call'[c].data.of]
        /\ server[call'[c].data.of] \in Nat
    BY <1>0, <2>1, <2>2
  <2> QED
    BY <1>0, <2>1, <2>2, <2>3
<1>2. ASSUME NEW c \in Calls, Reply(c)
      PROVE  AnswersAreInOrder'
  <2> DEFINE key == call[c].cacheKey
             answer == call[c].data
  <2>1. /\ call[c].pc = "reply" /\ call'[c].pc = "idle"
        /\ \A d \in Calls \ {c} : call'[d] = call[d]
    BY <1>2, CallEffect
  <2>2. /\ key \in Keys
        /\ requestCache' = [requestCache EXCEPT ![key] = [data |-> answer, age |-> 0]]
        /\ server' = server
    BY <1>0, <1>2, <2>1 DEF Reply
  <2>3. \A d \in Calls : call'[d].pc = "reply" => call[d].pc = "reply" /\ call[d].cacheKey # key
    BY <2>1 DEF PendingIsInFlight, InFlight
  <2>4. \A k \in Keys \ {key} : requestCache'[k] = requestCache[k]
    BY <1>0, <2>2
  <2>5. requestCache'[key].data = answer
    BY <1>0, <2>2
  <2> HIDE DEF key, answer
  <2>6. \A k \in Keys :
          requestCache'[k] # NoEntry
            => requestCache'[k].data.version <= server'[requestCache'[k].data.of]
    BY <2>1, <2>2, <2>4, <2>5 DEF answer
  <2> QED
    BY <1>0, <2>1, <2>2, <2>3, <2>4, <2>6
<1>3. ASSUME NEW c \in Calls,
             \/ \E k \in Keys : SwitchKey(c, k)
             \/ Refresh(c) \/ Accepted(c) \/ Fail(c) \/ Retry(c) \/ Poll(c)
             \/ Send(c) \/ Post(c) \/ Answered(c) \/ Rejected(c) \/ Refused(c)
      PROVE  AnswersAreInOrder'
  <2>1. UNCHANGED <<requestCache, server>>
    BY <1>3
    DEF SwitchKey, Refresh, Accepted, Fail, Retry, Poll, Send, Post, Answered,
        Rejected, Refused, page
  <2>2. \A d \in Calls \ {c} : call'[d] = call[d]
    <3>1. publicKey \in Keys
      BY DEF TypeInv, TypeOK
    <3>2. CASE (\E k \in Keys : SwitchKey(c, k)) \/ Refresh(c) \/ Accepted(c)
      BY <3>1, <3>2, InfoEffect DEF SwitchKey, Refresh, Accepted
    <3>3. CASE Rejected(c) \/ Refused(c)
      BY <3>3, CatchEffect DEF Rejected, Refused
    <3>4. CASE Fail(c)
      BY <3>4, FailEffect
    <3> QED
      BY <1>3, <3>2, <3>3, <3>4, CallEffect
  <2>3. call'[c].pc # "reply"
    <3>1. publicKey \in Keys
      BY DEF TypeInv, TypeOK
    <3>2. CASE (\E k \in Keys : SwitchKey(c, k)) \/ Refresh(c) \/ Accepted(c)
      BY <3>1, <3>2, InfoEffect DEF SwitchKey, Refresh, Accepted
    <3>3. CASE Rejected(c) \/ Refused(c)
      BY <3>3, CatchEffect DEF Rejected, Refused
    <3>4. CASE Fail(c)
      BY <3>4, FailEffect
    <3> QED
      BY <1>3, <3>2, <3>3, <3>4, CallEffect
  <2> QED
    BY <1>0, <1>a, <2>1, <2>2, <2>3
<1>4. ASSUME NEW k \in Keys, Change(k)
      PROVE  AnswersAreInOrder'
  <2>1. UNCHANGED <<requestCache, call>> /\ server' = [server EXCEPT ![k] = @ + 1]
    BY <1>4 DEF Change, page
  <2>2. \A j \in Keys : server[j] <= server'[j] /\ server'[j] \in Nat
    BY <1>0, <2>1
  <2> QED
    BY <1>a, <2>1, <2>2
<1>5. CASE Tick
  <2>1. UNCHANGED <<call, server>>
    BY <1>5 DEF Tick
  <2>2. \A k \in Keys :
          requestCache'[k] # NoEntry =>
            requestCache[k] # NoEntry /\ requestCache'[k].data = requestCache[k].data
    BY <1>0, <1>5, TickKeepsData
  <2> QED
    BY <1>0, <1>a, <2>1, <2>2
<1>6. CASE UNCHANGED vars
  BY <1>0, <1>6, <1>a DEF vars, page
<1> QED
  BY <1>1, <1>2, <1>3, <1>4, <1>5, <1>6 DEF Next

\* A step from such a state writes nothing older.
LEMMA CacheStep ==
  ASSUME TypeInv, AnswersAreInOrder, [Next]_vars,
         NEW k \in Keys, requestCache[k] # NoEntry, requestCache'[k] # NoEntry,
         requestCache'[k].data.of = requestCache[k].data.of
  PROVE  requestCache'[k].data.version >= requestCache[k].data.version
<1>0. /\ requestCache \in [Keys -> Entry \union {NoEntry}]
      /\ requestCache[k].data.version \in Nat
  BY Constants DEF TypeInv, TypeOK, Entry, Data
<1>1. ASSUME NEW c \in Calls, Reply(c)
      PROVE  requestCache'[k].data.version >= requestCache[k].data.version
  <2>1. call[c].cacheKey \in Keys /\ call[c].data.version \in Nat /\ call[c].pc = "reply"
    BY <1>1, Constants DEF Reply, At, TypeInv, Local, Data
  <2>2. requestCache' = [requestCache EXCEPT ![call[c].cacheKey] =
                           [data |-> call[c].data, age |-> 0]]
    BY <1>1 DEF Reply
  <2>3. CASE k = call[c].cacheKey
    BY <1>0, <2>1, <2>2, <2>3 DEF AnswersAreInOrder, At
  <2>4. CASE k # call[c].cacheKey
    BY <1>0, <2>2, <2>4
  <2> QED
    BY <2>3, <2>4
<1>2. CASE Tick
  BY <1>0, <1>2, TickKeepsData
<1>3. CASE UNCHANGED requestCache
  BY <1>0, <1>3
<1> QED
  BY <1>1, <1>2, <1>3
  DEF Next, SwitchKey, Refresh, Serve, Fail, Retry, Poll, Send, Post, Answered,
      Rejected, Accepted, Refused, Change, vars, page
-----------------------------------------------------------------------------
(* The theorems.                                                           *)

Inv == TypeInv /\ QueueInv /\ PendingIsInFlight /\ AnswersAreInOrder

LEMMA InitInv == Init => Inv
<1> SUFFICES ASSUME Init PROVE Inv
  OBVIOUS
<1> USE Constants
<1>1. \A c \in Calls : call[c] = Idle
  BY DEF Init
<1>2. Left = {}
  BY <1>1, IdleIsLocal DEF Left
<1>3. AttemptsAreBounded
  BY <1>2, FS_EmptySet DEF AttemptsAreBounded, Init
<1>4. call \in [Calls -> Local]
  BY IdleIsLocal DEF Init
<1>5. TypeOK
  BY <1>4 DEF Init, TypeOK, Local, Locals, Labels
<1>6. \A c \in Calls : call[c].pc = "idle"
  BY <1>1, IdleIsLocal
<1>7. QueueInv /\ PendingIsInFlight /\ AnswersAreInOrder
  BY <1>6 DEF Init, QueueInv, QueueIsAccounted, IdsAreDistinct, PendingIsInFlight,
              InFlight, AnswersAreInOrder, At
<1> QED
  BY <1>3, <1>4, <1>5, <1>7 DEF Inv, TypeInv

LEMMA Invariance == Spec => []Inv
<1>1. Inv /\ [Next]_vars => Inv'
  BY TypeInvStep, QueueInvStep, PendingStep, AnswersStep DEF Inv, QueueInv
<1> QED
  BY <1>1, InitInv, PTL DEF Spec

\* Every variable has its type, and all transfers together have made at most
\* maxRetries attempts each (wallet.js:391-446).
THEOREM TypeCorrect == Spec => []TypeOK
BY Invariance, PTL DEF Inv, TypeInv

\* Whatever is refused, lost or tried again and whenever the key changes, the
\* marks are those of the calls that ask, one for each account
\* (wallet.js:278-297, 336-339).
THEOREM PendingHolds == Spec => []PendingIsInFlight
BY Invariance, PTL DEF Inv

\* The queue holds the attempts under way and those that were rejected, which
\* it keeps for good (wallet.js:401, 415, 438-439).
THEOREM QueueHolds == Spec => []QueueIsAccounted
BY Invariance, PTL DEF Inv, QueueInv

\* What is cached for an account is never replaced by what the server said
\* earlier (wallet.js:303-311).
THEOREM CacheIsInOrder == Spec => CacheNeverGoesBack
<1>1. Inv /\ [Next]_vars
        => [\A k \in Keys :
              /\ requestCache[k] # NoEntry /\ requestCache'[k] # NoEntry
              /\ requestCache'[k].data.of = requestCache[k].data.of
              => requestCache'[k].data.version >= requestCache[k].data.version]_vars
  BY CacheStep DEF Inv
<1> QED
  BY <1>1, Invariance, PTL DEF Spec, CacheNeverGoesBack

-----------------------------------------------------------------------------
(* The refinement of AccountRequests.                                      *)

\* The answer on its way for a key is that of the one call that has it.
LEMMA AnswerIs ==
  ASSUME NEW calls,
         \A c, d \in Calls : /\ calls[c].pc = "reply" /\ calls[d].pc = "reply"
                             /\ calls[c].cacheKey = calls[d].cacheKey
                             => c = d
  PROVE  /\ \A c \in Calls : calls[c].pc = "reply" /\ calls[c].cacheKey \in Keys
                               => AnswerIn(calls)[calls[c].cacheKey] = calls[c].data
         /\ \A k \in Keys : (\A c \in Calls : calls[c].pc = "reply" => calls[c].cacheKey # k)
                               => AnswerIn(calls)[k] = NoData
<1>1. ASSUME NEW c \in Calls, calls[c].pc = "reply", calls[c].cacheKey \in Keys
      PROVE  AnswerIn(calls)[calls[c].cacheKey] = calls[c].data
  <2> DEFINE k == calls[c].cacheKey
  <2>1. (CHOOSE d \in Calls : calls[d].pc = "reply" /\ calls[d].cacheKey = k) = c
    BY <1>1
  <2> QED
    BY <1>1, <2>1 DEF AnswerIn
<1> QED
  BY <1>1 DEF AnswerIn

\* How the answers on their way change with the locals of one call.
LEMMA AnswersChange ==
  ASSUME TypeInv, TypeInv', PendingIsInFlight, PendingIsInFlight',
         NEW c \in Calls, \A d \in Calls \ {c} : call'[d] = call[d]
  PROVE  /\ call[c].pc # "reply" /\ call'[c].pc # "reply"
              => AnswerIn(call)' = AnswerIn(call)
         /\ call'[c].pc = "reply" /\ call[c].pc # "reply" =>
              /\ call'[c].cacheKey \in Keys
              /\ AnswerIn(call)' =
                   [AnswerIn(call) EXCEPT ![call'[c].cacheKey] = call'[c].data]
         /\ call[c].pc = "reply" /\ call'[c].pc # "reply" =>
              /\ AnswerIn(call)[call[c].cacheKey] = call[c].data
              /\ AnswerIn(call)' = [AnswerIn(call) EXCEPT ![call[c].cacheKey] = NoData]
<1> DEFINE A == AnswerIn(call)
           B == AnswerIn(call)'
<1>1. /\ \A d \in Calls : call[d].pc = "reply" => call[d].cacheKey \in Keys
      /\ \A d \in Calls : call'[d].pc = "reply" => call'[d].cacheKey \in Keys
  BY DEF TypeInv, Local
<1>2. /\ \A b, d \in Calls : /\ call[b].pc = "reply" /\ call[d].pc = "reply"
                             /\ call[b].cacheKey = call[d].cacheKey
                             => b = d
      /\ \A b, d \in Calls : /\ call'[b].pc = "reply" /\ call'[d].pc = "reply"
                             /\ call'[b].cacheKey = call'[d].cacheKey
                             => b = d
  BY DEF PendingIsInFlight, InFlight
<1>3. /\ \A d \in Calls : call[d].pc = "reply" => A[call[d].cacheKey] = call[d].data
      /\ \A k \in Keys : (\A d \in Calls : call[d].pc = "reply" => call[d].cacheKey # k)
                           => A[k] = NoData
  BY <1>1, <1>2, AnswerIs
<1>4. /\ \A d \in Calls : call'[d].pc = "reply" => B[call'[d].cacheKey] = call'[d].data
      /\ \A k \in Keys : (\A d \in Calls : call'[d].pc = "reply" => call'[d].cacheKey # k)
                           => B[k] = NoData
  <2>1. B = AnswerIn(call')
    BY DEF AnswerIn
  <2> QED
    BY <1>1, <1>2, <2>1, AnswerIs
<1>5. A = [k \in Keys |-> A[k]] /\ B = [k \in Keys |-> B[k]]
  BY DEF AnswerIn
<1> HIDE DEF A, B
\* A key none of whose answers come from the call keeps its answer.
<1>6. ASSUME NEW k \in Keys,
             call[c].pc = "reply" => call[c].cacheKey # k,
             call'[c].pc = "reply" => call'[c].cacheKey # k
      PROVE  B[k] = A[k]
  <2>1. CASE \E d \in Calls : call[d].pc = "reply" /\ call[d].cacheKey = k
    BY <1>3, <1>4, <1>6, <2>1
  <2>2. CASE \A d \in Calls : call[d].pc = "reply" => call[d].cacheKey # k
    BY <1>3, <1>4, <1>6, <2>2
  <2> QED
    BY <2>1, <2>2
<1>7. ASSUME call[c].pc # "reply", call'[c].pc # "reply"
      PROVE  B = A
  BY <1>5, <1>6, <1>7
<1>8. ASSUME call'[c].pc = "reply", call[c].pc # "reply"
      PROVE  call'[c].cacheKey \in Keys /\ B = [A EXCEPT ![call'[c].cacheKey] = call'[c].data]
  BY <1>1, <1>4, <1>5, <1>6, <1>8
<1>9. ASSUME call[c].pc = "reply", call'[c].pc # "reply"
      PROVE  A[call[c].cacheKey] = call[c].data /\ B = [A EXCEPT ![call[c].cacheKey] = NoData]
  <2>1. \A d \in Calls : call'[d].pc = "reply" => call'[d].cacheKey # call[c].cacheKey
    BY <1>2, <1>9
  <2> QED
    BY <1>1, <1>3, <1>4, <1>5, <1>6, <1>9, <2>1
<1> QED
  BY <1>7, <1>8, <1>9 DEF A, B

requests == <<pendingRequests, AnswerIn(call), requestCache, server>>

LEMMA RequestsStep ==
  Inv /\ Inv' /\ [Next]_vars => [Requests!Next]_requests
<1> SUFFICES ASSUME Inv, Inv', [Next]_vars PROVE [Requests!Next]_requests
  OBVIOUS
<1> USE DEF Inv
<1>0. /\ publicKey \in Keys
      /\ \A c \in Calls : call[c] \in Local
      /\ \A c \in Calls : call[c].pc \in {"request", "reply", "backoff"} =>
           call[c].cacheKey \in Keys /\ call[c].cacheKey \in pendingRequests
  BY DEF TypeInv, TypeOK, Local, PendingIsInFlight, InFlight
<1>1. ASSUME NEW c \in Calls, NEW k \in Keys, GetAccountInfo(c, k),
             call[c].pc \in {"idle", "answered"}, UNCHANGED <<requestCache, server>>
      PROVE  Requests!Begin(k) \/ UNCHANGED requests
  <2>1. /\ \A d \in Calls \ {c} : call'[d] = call[d]
        /\ call'[c].pc # "reply"
        /\ \/ pendingRequests' = pendingRequests
           \/ k \notin pendingRequests /\ pendingRequests' = pendingRequests \union {k}
    BY <1>1, InfoEffect
  <2>2. AnswerIn(call)' = AnswerIn(call)
    BY <1>1, <2>1, AnswersChange
  <2>3. pendingRequests' # pendingRequests => ~IsFresh(k)
    BY <1>1 DEF GetAccountInfo, Hit, Wait, Ask
  <2> QED
    BY <1>1, <2>1, <2>2, <2>3 DEF Requests!Begin, Requests!Fresh, IsFresh, requests
<1>2. ASSUME NEW c \in Calls,
             \/ \E k \in Keys : SwitchKey(c, k)
             \/ Refresh(c) \/ Accepted(c)
      PROVE  [Requests!Next]_requests
  <2>1. PICK k \in Keys : /\ GetAccountInfo(c, k) /\ call[c].pc \in {"idle", "answered"}
                          /\ UNCHANGED <<requestCache, server>>
    BY <1>0, <1>2 DEF SwitchKey, Refresh, Accepted, At
  <2> QED
    BY <1>1, <2>1 DEF Requests!Next
<1>3. ASSUME NEW c \in Calls, Serve(c)
      PROVE  \E k, account \in Keys : Requests!Read(k, account)
  <2>1. /\ call[c].pc = "request" /\ call'[c].pc = "reply"
        /\ call'[c].cacheKey = call[c].cacheKey
        /\ call'[c].data = [of |-> call[c].url, version |-> server[call[c].url]]
        /\ \A d \in Calls \ {c} : call'[d] = call[d]
        /\ UNCHANGED <<pendingRequests, requestCache, server>>
    BY <1>3, CallEffect DEF Serve, page
  <2>2. /\ call[c].cacheKey \in Keys /\ call[c].cacheKey \in pendingRequests
        /\ call[c].url \in Keys
    BY <1>0, <2>1 DEF Local
  <2>3. AnswerIn(call)' = [AnswerIn(call) EXCEPT ![call[c].cacheKey] = call'[c].data]
    BY <2>1, AnswersChange
  <2>4. AnswerIn(call)[call[c].cacheKey] = NoData
    <3>1. \A d \in Calls : call[d].pc = "reply" => call[d].cacheKey # call[c].cacheKey
      BY <2>1 DEF PendingIsInFlight, InFlight
    <3>2. \A b, d \in Calls : /\ call[b].pc = "reply" /\ call[d].pc = "reply"
                              /\ call[b].cacheKey = call[d].cacheKey
                              => b = d
      BY DEF PendingIsInFlight, InFlight
    <3> QED
      BY <2>2, <3>1, <3>2, AnswerIs
  <2> QED
    BY <2>1, <2>2, <2>3, <2>4 DEF Requests!Read
<1>4. ASSUME NEW c \in Calls, Reply(c)
      PROVE  \E k \in Keys : Requests!End(k)
  <2>1. /\ call[c].pc = "reply" /\ call'[c].pc = "idle"
        /\ \A d \in Calls \ {c} : call'[d] = call[d]
        /\ requestCache' = [requestCache EXCEPT ![call[c].cacheKey] =
                              [data |-> call[c].data, age |-> 0]]
        /\ pendingRequests' = pendingRequests \ {call[c].cacheKey}
        /\ server' = server
    BY <1>4, CallEffect DEF Reply
  <2>2. /\ call[c].cacheKey \in Keys /\ call[c].cacheKey \in pendingRequests
        /\ call[c].data # NoData
    BY <1>0, <2>1, NoDataAssumption DEF Local
  <2>3. /\ AnswerIn(call)[call[c].cacheKey] = call[c].data
        /\ AnswerIn(call)' = [AnswerIn(call) EXCEPT ![call[c].cacheKey] = NoData]
    BY <2>1, AnswersChange
  <2> QED
    BY <2>1, <2>2, <2>3 DEF Requests!End
<1>5. ASSUME NEW c \in Calls, Fail(c)
      PROVE  [Requests!Next]_requests
  <2> DEFINE k == call[c].cacheKey
  <2>1. /\ call[c].pc \in {"request", "reply"} /\ call'[c].pc # "reply"
        /\ \A d \in Calls \ {c} : call'[d] = call[d]
        /\ UNCHANGED <<requestCache, server>>
        /\ \/ pendingRequests' = pendingRequests
           \/ pendingRequests' = pendingRequests \ {k}
    BY <1>5, FailEffect DEF Fail, At
  <2>2. k \in Keys /\ k \in pendingRequests
    BY <1>0, <2>1
  <2>3. AnswerIn(call)' = [AnswerIn(call) EXCEPT ![k] = NoData]
    <3>1. CASE call[c].pc = "reply"
      BY <2>1, <3>1, AnswersChange
    <3>2. CASE call[c].pc = "request"
      <4>1. AnswerIn(call)' = AnswerIn(call)
        BY <2>1, <3>2, AnswersChange
      <4>2. AnswerIn(call)[k] = NoData
        <5>1. \A d \in Calls : call[d].pc = "reply" => call[d].cacheKey # k
          BY <3>2 DEF PendingIsInFlight, InFlight
        <5>2. \A b, d \in Calls : /\ call[b].pc = "reply" /\ call[d].pc = "reply"
                                  /\ call[b].cacheKey = call[d].cacheKey
                                  => b = d
          BY DEF PendingIsInFlight, InFlight
        <5> QED
          BY <2>2, <5>1, <5>2, AnswerIs
      <4>3. AnswerIn(call) = [j \in Keys |-> AnswerIn(call)[j]]
        BY DEF AnswerIn
      <4> QED
        BY <2>2, <4>1, <4>2, <4>3
    <3> QED
      BY <2>1, <3>1, <3>2
  <2>4. CASE pendingRequests' = pendingRequests \ {k}
    BY <2>1, <2>2, <2>3, <2>4 DEF Requests!Next, Requests!End
  <2>5. CASE pendingRequests' = pendingRequests /\ AnswerIn(call)[k] # NoData
    BY <2>1, <2>2, <2>3, <2>5 DEF Requests!Next, Requests!Lose
  <2>6. CASE pendingRequests' = pendingRequests /\ AnswerIn(call)[k] = NoData
    <3>1. AnswerIn(call) = [j \in Keys |-> AnswerIn(call)[j]]
      BY DEF AnswerIn
    <3>2. AnswerIn(call)' = AnswerIn(call)
      BY <2>2, <2>3, <2>6, <3>1
    <3> QED
      BY <2>1, <2>6, <3>2 DEF requests
  <2> QED
    BY <2>1, <2>4, <2>5, <2>6
<1>6. ASSUME NEW c \in Calls,
             \/ Retry(c) \/ Poll(c) \/ Send(c) \/ Post(c) \/ Answered(c)
             \/ Rejected(c) \/ Refused(c)
      PROVE  UNCHANGED requests
  <2>1. UNCHANGED <<pendingRequests, requestCache, server>>
    BY <1>6 DEF Retry, Poll, Send, Post, Answered, Rejected, Refused, page
  <2>2. /\ \A d \in Calls \ {c} : call'[d] = call[d]
        /\ call[c].pc # "reply" /\ call'[c].pc # "reply"
    <3>1. CASE Rejected(c) \/ Refused(c)
      BY <3>1, CatchEffect DEF Rejected, Refused, At
    <3>2. CASE ~(Rejected(c) \/ Refused(c))
      BY <1>6, <3>2, CallEffect
    <3> QED
      BY <3>1, <3>2
  <2> QED
    BY <2>1, <2>2, AnswersChange DEF requests
<1>7. ASSUME NEW k \in Keys, Change(k)
      PROVE  Requests!Change(k)
  <2>1. AnswerIn(call)' = AnswerIn(call)
    BY <1>7 DEF Change, AnswerIn
  <2> QED
    BY <1>7, <2>1 DEF Change, page, Requests!Change
<1>8. ASSUME Tick
      PROVE  Requests!Age
  <2>1. AnswerIn(call)' = AnswerIn(call)
    BY <1>8 DEF Tick, AnswerIn
  <2> QED
    BY <1>8, <2>1 DEF Tick, Older, IsFresh, Requests!Age, Requests!Fresh
<1>9. CASE UNCHANGED vars
  <2>1. AnswerIn(call)' = AnswerIn(call)
    BY <1>9 DEF vars, AnswerIn
  <2> QED
    BY <1>9, <2>1 DEF vars, page, requests
<1> QED
  BY <1>2, <1>3, <1>4, <1>5, <1>6, <1>7, <1>8, <1>9 DEF Next, Requests!Next

\* The calls together implement AccountRequests: for each key they act as one
\* request that begins, is read, may be lost and read again, and ends
\* (wallet.js:278-339).
THEOREM CallsAreOneRequest == Spec => OneRequestEach
<1>1. Init => Requests!Init
  <2> SUFFICES ASSUME Init PROVE Requests!Init
    OBVIOUS
  <2>1. \A c \in Calls : call[c].pc = "idle"
    BY DEF Init, Idle
  <2>2. AnswerIn(call) = [k \in Keys |-> NoData]
    BY <2>1 DEF AnswerIn
  <2> QED
    BY <2>2 DEF Init, Requests!Init
<1>2. Inv /\ Inv' /\ [Next]_vars => [Requests!Next]_requests
  BY RequestsStep
<1> QED
  BY <1>1, <1>2, Invariance, PTL DEF Spec, OneRequestEach, Requests!Spec, requests

=============================================================================
