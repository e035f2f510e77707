-------------------------- MODULE LedgerCacheProofs --------------------------
(***************************************************************************)
(* The account cache, for any readers, ids, shards, capacity and batches.  *)
(* What is put in the cache is the map's entry, whose shard is locked, and *)
(* so as new as anything a reader holds of it: but for an id a reader is   *)
(* about to put, nothing a reader holds is newer than what the cache has.  *)
(***************************************************************************)
EXTENDS LedgerCache, FiniteSetTheorems, TLAPS

\* The id a call with misses is at (NextMiss), as a set.
Held(c) ==
  {c.ids[k] : k \in {k \in c.cache_miss : \A j \in c.cache_miss : k <= j}}

\* The map, the cache and the answers so far, in this order of age
Ordered(acc, cch, new) ==
  /\ acc \in [Ids -> Version] /\ new \in [Ids -> Version]
  /\ \A i \in Ids : new[i] <= acc[i]
  /\ DOMAIN cch \subseteq Ids
  /\ \A i \in DOMAIN cch : cch[i] \in 1..acc[i] /\ new[i] <= cch[i]

Places == {"idle", "call", "read", "fetch", "put", "write"}
Before == {"call", "read"}      \* a call that has looked up nothing yet
Holding == {"put", "write"}     \* a call that holds the shard of its miss

\* A call's fields, and its result between the newest answer it knew and the map
Call(c, acc, new) ==
  /\ c \in [pc : Places, ids : Seq(Ids),
            cache_miss : SUBSET DOMAIN c.ids,
            result : [DOMAIN c.result -> Version],
            newest : [DOMAIN c.newest -> Version], stored : SUBSET Ids]
  /\ DOMAIN c.result \subseteq DOMAIN c.newest /\ DOMAIN c.newest \subseteq Ids
  /\ c.pc \in Before \/ \A k \in DOMAIN c.ids : c.ids[k] \in DOMAIN c.newest
  /\ \A i \in DOMAIN c.newest : c.newest[i] <= new[i]
  /\ \A i \in DOMAIN c.result : c.newest[i] <= c.result[i] /\ c.result[i] <= acc[i]
  /\ \A i \in c.stored : acc[i] # 0

\* What the batch is to answer it has answered or will ask for.
Complete(c, misses) ==
  \A i \in c.stored : i \in DOMAIN c.result \/ \E k \in misses : c.ids[k] = i

\* No answer is newer than the cache, but those in except.
NotAhead(c, cch, except) ==
  \A i \in DOMAIN c.result \intersect DOMAIN cch :
    i \notin except => c.result[i] <= cch[i]

Reading(c, acc, cch, new) ==
  /\ Call(c, acc, new)
  /\ Complete(c, c.cache_miss)
  /\ c.pc \in Before \union {"idle"} <=> c.cache_miss = {}
  /\ c.pc \in Holding => /\ \A i \in Held(c) : /\ i \in DOMAIN c.result
                                                /\ c.result[i] = acc[i] /\ acc[i] # 0
                         /\ NotAhead(c, cch, Held(c))
  /\ c.pc \notin Holding => NotAhead(c, cch, {})

Answered == ReadsNeverGoBack /\ BatchIsComplete

IInv ==
  /\ Ordered(accounts, cache, newest)
  /\ DOMAIN reader = Readers
  /\ \A r \in Readers : Reading(reader[r], accounts, cache, newest)
  /\ Answered

-----------------------------------------------------------------------------
\* A reader that is at a miss is at no other.
LEMMA HeldIsOne ==
  ASSUME NEW r \in Readers, NEW k, NextMiss(r, k),
         reader[r].ids \in Seq(Ids), reader[r].cache_miss \subseteq DOMAIN reader[r].ids
  PROVE  Held(reader[r]) = {reader[r].ids[k]}
<1>1. \A j \in reader[r].cache_miss : j \in Nat
  OBVIOUS
<1>2. \A j \in reader[r].cache_miss :
        (\A l \in reader[r].cache_miss : j <= l) => j = k
  BY <1>1 DEF NextMiss
<1> QED
  BY <1>2 DEF Held, NextMiss

\* The answers so far only grow, and a call that was in order stays so.
LEMMA NewerAnswers ==
  ASSUME NEW acc, NEW cch, NEW new \in [Ids -> Version], NEW new2 \in [Ids -> Version],
         \A i \in Ids : new[i] <= new2[i],
         NEW c, Reading(c, acc, cch, new)
  PROVE  Reading(c, acc, cch, new2)
<1>1. Call(c, acc, new2)
  <2>1. \A i \in DOMAIN c.newest :
          /\ c.newest[i] \in Nat /\ new[i] \in Nat /\ new2[i] \in Nat
          /\ c.newest[i] <= new[i] /\ new[i] <= new2[i]
    BY DEF Reading, Call, Version
  <2> QED
    BY <2>1 DEF Reading, Call
<1> QED
  BY <1>1 DEF Reading

\* A call that goes on, or returns: what Continue leaves when the call and the
\* other readers are in order.
LEMMA ContinueKeeps ==
  ASSUME NEW r \in Readers, NEW misses, NEW call,
         Continue(r, misses, call),
         DOMAIN reader = Readers,
         Answered,
         Ordered(accounts', cache', newest),
         \A s \in Readers \ {r} : Reading(reader[s], accounts', cache', newest),
         Call(call, accounts', newest),
         \A k \in DOMAIN call.ids : call.ids[k] \in DOMAIN call.newest,
         misses \subseteq DOMAIN call.ids,
         Complete(call, misses),
         NotAhead(call, cache', {})
  PROVE  IInv'
<1>1. CASE misses # {}
  <2> DEFINE c == [call EXCEPT !.pc = "fetch", !.cache_miss = misses]
  <2>1. /\ reader' = [reader EXCEPT ![r] = c]
        /\ newest' = newest /\ returned' = returned
    BY <1>1 DEF Continue
  <2>2. /\ c.pc = "fetch" /\ c.cache_miss = misses
        /\ c.ids = call.ids /\ c.result = call.result
        /\ c.newest = call.newest /\ c.stored = call.stored
        /\ Call(c, accounts', newest)
    BY DEF Call, Places, Before
  <2>3. Reading(c, accounts', cache', newest)
    <3>1. Complete(c, c.cache_miss) /\ NotAhead(c, cache', {})
      BY <2>2 DEF Complete, NotAhead
    <3> HIDE DEF c
    <3> QED
      BY <2>2, <3>1, <1>1 DEF Reading, Before, Holding
  <2> HIDE DEF c
  <2>4. DOMAIN reader' = Readers /\ reader'[r] = c
        /\ \A s \in Readers \ {r} : reader'[s] = reader[s]
    BY <2>1
  <2>5. \A s \in Readers : Reading(reader'[s], accounts', cache', newest')
    BY <2>1, <2>3, <2>4
  <2>6. Answered'
    BY <2>1 DEF Answered, ReadsNeverGoBack, BatchIsComplete
  <2> QED
    BY <2>1, <2>4, <2>5, <2>6 DEF IInv
<1>2. CASE misses = {}
  <2>1. /\ reader' = [reader EXCEPT ![r] = Idle]
        /\ returned' = [result |-> call.result, newest |-> call.newest,
                        stored |-> call.stored]
        /\ newest' = [i \in Ids |->
                        IF i \in DOMAIN call.result /\ call.result[i] > newest[i]
                        THEN call.result[i]
                        ELSE newest[i]]
    BY <1>2 DEF Continue
  <2>2. \A i \in Ids : newest[i] \in Version /\ newest'[i] \in Version /\ newest[i] <= newest'[i]
    <3>1. \A i \in DOMAIN call.result : call.result[i] \in Version
      BY DEF Call
    <3> QED
      BY <2>1, <3>1 DEF Ordered, Version
  <2>3. Ordered(accounts', cache', newest')
    <3>1. \A i \in Ids : newest'[i] <= accounts'[i]
      BY <2>1 DEF Ordered, Call
    <3>2. \A i \in DOMAIN cache' : newest'[i] <= cache'[i]
      BY <2>1 DEF Ordered, Call, NotAhead
    <3>3. newest' \in [Ids -> Version]
      BY <2>1, <2>2
    <3> QED
      BY <3>1, <3>2, <3>3 DEF Ordered
  <2>4. Reading(Idle, accounts', cache', newest')
    <3> DEFINE none == Nothing
    <3>1. DOMAIN none = {} /\ none \in [{} -> Version]
      BY DEF Nothing
    <3>2. /\ Idle.pc = "idle" /\ Idle.ids = <<>> /\ Idle.cache_miss = {}
          /\ Idle.result = none /\ Idle.newest = none /\ Idle.stored = {}
      BY DEF Idle
    <3>3. <<>> \in Seq(Ids) /\ DOMAIN <<>> = {}
      OBVIOUS
    <3> HIDE DEF none
    <3>4. Idle \in [pc : Places, ids : Seq(Ids),
            cache_miss : SUBSET DOMAIN Idle.ids,
            result : [DOMAIN Idle.result -> Version],
            newest : [DOMAIN Idle.newest -> Version], stored : SUBSET Ids]
      BY <3>1, <3>2, <3>3 DEF Idle, none, Places
    <3> QED
      BY <3>1, <3>2, <3>3, <3>4
      DEF Reading, Call, Complete, NotAhead, Before, Holding
  <2>5. /\ DOMAIN reader' = Readers /\ reader'[r] = Idle
        /\ \A s \in Readers \ {r} : reader'[s] = reader[s]
    BY <2>1
  <2>6. \A s \in Readers \ {r} : Reading(reader[s], accounts', cache', newest')
    BY <2>2, <2>3, NewerAnswers DEF Ordered
  <2>7. Answered'
    <3>1. \A i \in DOMAIN call.result :
            /\ call.result[i] \in Nat /\ call.newest[i] \in Nat
            /\ call.newest[i] <= call.result[i]
      BY DEF Call, Version
    <3>2. \A i \in call.stored : i \in DOMAIN call.result
      BY <1>2 DEF Complete
    <3> QED
      BY <2>1, <3>1, <3>2 DEF Answered, ReadsNeverGoBack, BatchIsComplete
  <2> QED
    BY <2>3, <2>4, <2>5, <2>6, <2>7 DEF IInv
<1> QED
  BY <1>1, <1>2

-----------------------------------------------------------------------------
\* A step of one reader that leaves everything but its call alone
LEMMA MoveKeeps ==
  ASSUME IInv, NEW r \in Readers, NEW d,
         reader' = [reader EXCEPT ![r] = d],
         UNCHANGED <<accounts, cache, newest, returned>>,
         Reading(d, accounts, cache, newest)
  PROVE  IInv'
<1>1. /\ DOMAIN reader' = Readers /\ reader'[r] = d
      /\ \A s \in Readers \ {r} : reader'[s] = reader[s]
  BY DEF IInv
<1>2. \A s \in Readers : Reading(reader'[s], accounts', cache', newest')
  BY <1>1 DEF IInv
<1>3. Answered'
  BY DEF IInv, Answered, ReadsNeverGoBack, BatchIsComplete
<1> QED
  BY <1>1, <1>2, <1>3 DEF IInv

LEMMA AskKeeps ==
  ASSUME IInv, NEW r \in Readers, NEW ids \in Batches, Ask(r, ids)
  PROVE  IInv'
<1> DEFINE c == reader[r]
           d == [c EXCEPT !.pc = "call", !.ids = ids]
<1>1. /\ c.pc = "idle" /\ reader' = [reader EXCEPT ![r] = d]
      /\ UNCHANGED <<accounts, cache, newest, returned>>
  BY DEF Ask
<1>2. Call(c, accounts, newest) /\ c.cache_miss = {} /\ NotAhead(c, cache, {})
      /\ Complete(c, {})
  BY <1>1 DEF IInv, Reading, Before, Holding
<1>3. /\ d.pc = "call" /\ d.ids = ids /\ d.cache_miss = {}
      /\ d.result = c.result /\ d.newest = c.newest /\ d.stored = c.stored
      /\ d \in [pc : Places, ids : Seq(Ids), cache_miss : SUBSET DOMAIN d.ids,
                result : [DOMAIN d.result -> Version],
                newest : [DOMAIN d.newest -> Version], stored : SUBSET Ids]
  BY <1>2, BatchesAssumption DEF Call, Places
<1> HIDE DEF d
<1>4. Reading(d, accounts, cache, newest)
  <2>1. Call(d, accounts, newest)
    BY <1>2, <1>3 DEF Call, Before
  <2>2. Complete(d, d.cache_miss) /\ NotAhead(d, cache, {})
    BY <1>2, <1>3 DEF Complete, NotAhead
  <2> QED
    BY <1>3, <2>1, <2>2 DEF Reading, Before, Holding
<1> QED
  BY <1>1, <1>4, MoveKeeps

LEMMA LockKeeps ==
  ASSUME IInv, NEW r \in Readers, Lock(r)
  PROVE  IInv'
<1> DEFINE c == reader[r]
<1>1. PICK pc : /\ \/ c.pc = "call" /\ pc = "read"
                   \/ c.pc = "put" /\ pc = "write"
                /\ reader' = [reader EXCEPT ![r].pc = pc]
                /\ UNCHANGED <<accounts, cache, newest, returned>>
  BY DEF Lock, ReadLock, WriteLock, GoTo
<1> DEFINE d == [c EXCEPT !.pc = pc]
<1>2. Reading(c, accounts, cache, newest)
  BY DEF IInv
<1>3. /\ d.pc = pc /\ d.ids = c.ids /\ d.cache_miss = c.cache_miss
      /\ d.result = c.result /\ d.newest = c.newest /\ d.stored = c.stored
      /\ d \in [pc : Places, ids : Seq(Ids), cache_miss : SUBSET DOMAIN d.ids,
                result : [DOMAIN d.result -> Version],
                newest : [DOMAIN d.newest -> Version], stored : SUBSET Ids]
  BY <1>1, <1>2 DEF Reading, Call, Places
<1>4. reader' = [reader EXCEPT ![r] = d]
  BY <1>1
<1> HIDE DEF d
<1>5. Call(d, accounts, newest)
  BY <1>1, <1>2, <1>3 DEF Reading, Call, Before
<1>6. /\ Complete(d, d.cache_miss) /\ Held(d) = Held(c)
      /\ \A except : NotAhead(c, cache, except) => NotAhead(d, cache, except)
  BY <1>2, <1>3 DEF Reading, Complete, Held, NotAhead
<1>7. Reading(d, accounts, cache, newest)
  BY <1>1, <1>2, <1>3, <1>5, <1>6 DEF Reading, Before, Holding
<1> QED
  BY <1>1, <1>4, <1>7, MoveKeeps

LEMMA LookUpKeeps ==
  ASSUME IInv, NEW r \in Readers, LookUp(r)
  PROVE  IInv'
<1> DEFINE ids == reader[r].ids
           asked == {ids[k] : k \in DOMAIN ids}
           misses == {k \in DOMAIN ids : ids[k] \notin DOMAIN cache}
           answer == [i \in asked \intersect DOMAIN cache |-> cache[i]]
           known == [i \in asked |-> newest[i]]
           stored == {i \in asked : accounts[i] # 0}
           call == [pc |-> "read", ids |-> ids, cache_miss |-> {},
                    result |-> answer, newest |-> known, stored |-> stored]
<1>1. /\ Continue(r, misses, call)
      /\ accounts' = accounts /\ cache' = cache
  BY DEF LookUp
<1>2. ids \in Seq(Ids) /\ asked \subseteq Ids
  BY DEF IInv, Reading, Call
<1>3. /\ call.pc = "read" /\ call.ids = ids /\ call.cache_miss = {}
      /\ call.result = answer /\ call.newest = known /\ call.stored = stored
  OBVIOUS
<1>4. DOMAIN answer = asked \intersect DOMAIN cache /\ DOMAIN known = asked
  OBVIOUS
<1>5. answer \in [DOMAIN answer -> Version] /\ known \in [DOMAIN known -> Version]
  BY <1>2, MaxVersionAssumption DEF IInv, Ordered, Version
<1>6. Call(call, accounts, newest)
  <2>1. call \in [pc : Places, ids : Seq(Ids),
            cache_miss : SUBSET DOMAIN call.ids,
            result : [DOMAIN call.result -> Version],
            newest : [DOMAIN call.newest -> Version], stored : SUBSET Ids]
    BY <1>2, <1>3, <1>5 DEF Places
  <2>2. \A i \in DOMAIN known : known[i] <= newest[i]
    BY <1>2 DEF IInv, Ordered, Version
  <2>3. \A i \in DOMAIN answer : known[i] <= answer[i] /\ answer[i] <= accounts[i]
    BY <1>2 DEF IInv, Ordered, Version
  <2>4. \A i \in stored : accounts[i] # 0
    OBVIOUS
  <2>5. \A k \in DOMAIN ids : ids[k] \in DOMAIN known
    OBVIOUS
  <2> HIDE DEF asked, answer, known, stored, call
  <2> QED
    BY <1>2, <1>3, <1>4, <2>1, <2>2, <2>3, <2>4, <2>5 DEF Call
<1>7. Complete(call, misses)
  BY <1>3, <1>4 DEF Complete
<1>8. NotAhead(call, cache, {})
  BY <1>3, <1>4 DEF NotAhead, IInv, Ordered, Version
<1>9. /\ misses \subseteq DOMAIN call.ids
      /\ \A k \in DOMAIN call.ids : call.ids[k] \in DOMAIN call.newest
  OBVIOUS
<1> HIDE DEF call, misses
<1> QED
  BY <1>1, <1>6, <1>7, <1>8, <1>9, ContinueKeeps DEF IInv

LEMMA FetchNothingKeeps ==
  ASSUME IInv, NEW r \in Readers, NEW k \in reader[r].cache_miss, FetchNothing(r, k)
  PROVE  IInv'
<1> DEFINE c == reader[r]
           misses == c.cache_miss \ {k}
<1>1. /\ Continue(r, misses, c) /\ c.pc = "fetch" /\ accounts[c.ids[k]] = 0
      /\ accounts' = accounts /\ cache' = cache
  BY DEF FetchNothing
<1>2. Reading(c, accounts, cache, newest)
  BY DEF IInv
<1>3. Call(c, accounts, newest) /\ NotAhead(c, cache, {})
  BY <1>1, <1>2 DEF Reading, Holding
<1>4. /\ misses \subseteq DOMAIN c.ids
      /\ \A j \in DOMAIN c.ids : c.ids[j] \in DOMAIN c.newest
  BY <1>1, <1>3 DEF Call, Before
<1>5. Complete(c, misses)
  <2>1. c.ids[k] \notin c.stored
    BY <1>1, <1>3 DEF Call
  <2> QED
    BY <1>2, <2>1 DEF Complete, Reading
<1> HIDE DEF c, misses
<1> QED
  BY <1>1, <1>3, <1>4, <1>5, ContinueKeeps DEF IInv

LEMMA FetchKeeps ==
  ASSUME IInv, NEW r \in Readers, NEW k \in reader[r].cache_miss, Fetch(r, k)
  PROVE  IInv'
<1> DEFINE c == reader[r]
           i == c.ids[k]
           answer == [j \in DOMAIN c.result \union {i} |->
                        IF j = i THEN accounts[i] ELSE c.result[j]]
           d == [c EXCEPT !.pc = "put", !.result = answer]
<1>1. /\ c.pc = "fetch" /\ NextMiss(r, k) /\ accounts[i] # 0
      /\ reader' = [reader EXCEPT ![r].pc = "put", ![r].result = answer]
      /\ UNCHANGED <<accounts, cache, newest, returned>>
  BY DEF Fetch
<1>2. Reading(c, accounts, cache, newest) /\ Ordered(accounts, cache, newest)
  BY DEF IInv
<1>3. Call(c, accounts, newest) /\ NotAhead(c, cache, {}) /\ Complete(c, c.cache_miss)
  BY <1>1, <1>2 DEF Reading, Holding
<1>4. /\ d.pc = "put" /\ d.ids = c.ids /\ d.cache_miss = c.cache_miss
      /\ d.result = answer /\ d.newest = c.newest /\ d.stored = c.stored
  BY <1>3 DEF Call
<1>5. i \in DOMAIN c.newest /\ i \in Ids
  BY <1>1, <1>3 DEF Call, Before
<1>6. Held(d) = {i}
  BY <1>1, <1>3, <1>4, HeldIsOne DEF Call, Held
<1>7. /\ DOMAIN answer = DOMAIN c.result \union {i} /\ answer[i] = accounts[i]
      /\ \A j \in DOMAIN c.result \ {i} : answer[j] = c.result[j]
  OBVIOUS
<1>8. answer \in [DOMAIN answer -> Version]
  BY <1>2, <1>3, <1>5 DEF Call, Ordered
<1>9. Call(d, accounts, newest)
  <2>1. d \in [pc : Places, ids : Seq(Ids),
            cache_miss : SUBSET DOMAIN d.ids,
            result : [DOMAIN d.result -> Version],
            newest : [DOMAIN d.newest -> Version], stored : SUBSET Ids]
    BY <1>3, <1>4, <1>8 DEF Call, Places
  <2>2. c.newest[i] <= answer[i] /\ answer[i] <= accounts[i]
    <3>1. /\ c.newest[i] \in Nat /\ newest[i] \in Nat /\ accounts[i] \in Nat
          /\ c.newest[i] <= newest[i] /\ newest[i] <= accounts[i]
      BY <1>2, <1>3, <1>5 DEF Call, Ordered, Version
    <3> QED
      BY <1>7, <3>1
  <2> HIDE DEF c, i, answer, d
  <2> QED
    BY <1>1, <1>3, <1>4, <1>5, <1>7, <2>1, <2>2 DEF Call, Before
<1>10. Reading(d, accounts, cache, newest)
  <2>1. Complete(d, d.cache_miss)
    BY <1>3, <1>4, <1>7 DEF Complete
  <2>2. NotAhead(d, cache, Held(d))
    BY <1>3, <1>4, <1>6, <1>7 DEF NotAhead
  <2>3. d.cache_miss # {}
    BY <1>4
  <2> HIDE DEF c, i, answer, d
  <2> QED
    BY <1>1, <1>4, <1>6, <1>7, <1>9, <2>1, <2>2, <2>3 DEF Reading, Before, Holding
<1>11. /\ DOMAIN reader' = Readers /\ reader'[r] = d
       /\ \A s \in Readers \ {r} : reader'[s] = reader[s]
  BY <1>1 DEF IInv
<1>12. Answered'
  BY <1>1 DEF IInv, Answered, ReadsNeverGoBack, BatchIsComplete
<1> HIDE DEF c, i, answer, d
<1> QED
  BY <1>1, <1>10, <1>11, <1>12 DEF IInv

LEMMA PutKeeps ==
  ASSUME IInv, NEW r \in Readers, NEW k \in reader[r].cache_miss, Put(r, k)
  PROVE  IInv'
<1> DEFINE c == reader[r]
           i == c.ids[k]
           misses == c.cache_miss \ {k}
<1>1. /\ c.pc = "write" /\ NextMiss(r, k)
      /\ Continue(r, misses, c) /\ accounts' = accounts
  BY DEF Put
<1>2. PICK keep \in Kept(i) :
        cache' = [j \in keep \union {i} |-> IF j = i THEN c.result[i] ELSE cache[j]]
  BY DEF Put
<1>3. keep \subseteq DOMAIN cache
  BY <1>2 DEF Kept
<1>4. Reading(c, accounts, cache, newest) /\ Ordered(accounts, cache, newest)
  BY DEF IInv
<1>5. Call(c, accounts, newest) /\ NotAhead(c, cache, Held(c)) /\ Complete(c, c.cache_miss)
  BY <1>1, <1>4 DEF Reading, Holding
<1>6. Held(c) = {i}
  BY <1>1, <1>5, HeldIsOne DEF Call
<1>7. /\ i \in DOMAIN c.result /\ c.result[i] = accounts[i] /\ accounts[i] # 0
      /\ i \in Ids /\ accounts[i] \in 1..accounts[i] /\ newest[i] <= accounts[i]
  <2>1. /\ i \in DOMAIN c.result /\ c.result[i] = accounts[i] /\ accounts[i] # 0
    BY <1>1, <1>4, <1>6 DEF Reading, Holding
  <2>2. i \in Ids
    BY <1>5, <2>1 DEF Call
  <2> QED
    BY <1>4, <2>1, <2>2 DEF Ordered, Version
<1>8. /\ DOMAIN cache' = keep \union {i} /\ cache'[i] = accounts[i]
      /\ \A j \in keep \ {i} : cache'[j] = cache[j]
  BY <1>2, <1>7
<1>9. Ordered(accounts, cache', newest)
  BY <1>3, <1>4, <1>7, <1>8 DEF Ordered
<1>10. NotAhead(c, cache', {})
  <2>1. ASSUME NEW j \in DOMAIN c.result \intersect DOMAIN cache'
        PROVE  c.result[j] <= cache'[j]
    <3>1. CASE j = i
      BY <3>1, <1>7, <1>8 
    <3>2. CASE j # i
      BY <3>2, <1>3, <1>5, <1>6, <1>8 DEF NotAhead
    <3> QED
      BY <3>1, <3>2
  <2> QED
    BY <2>1 DEF NotAhead
<1>11. ASSUME NEW s \in Readers \ {r}
       PROVE  Reading(reader[s], accounts, cache', newest)
  <2>1. Reading(reader[s], accounts, cache, newest)
    BY DEF IInv
  <2>2. ASSUME NEW except, NotAhead(reader[s], cache, except)
        PROVE  NotAhead(reader[s], cache', except)
    <3>1. \A j \in DOMAIN reader[s].result : reader[s].result[j] <= accounts[j]
      BY <2>1 DEF Reading, Call
    <3> QED
      BY <1>3, <1>8, <2>2, <3>1 DEF NotAhead
  <2> QED
    BY <2>1, <2>2 DEF Reading
<1>12. /\ misses \subseteq DOMAIN c.ids
       /\ \A j \in DOMAIN c.ids : c.ids[j] \in DOMAIN c.newest
  BY <1>1, <1>5 DEF Call, Before
<1>13. Complete(c, misses)
  BY <1>5, <1>7 DEF Complete
<1>14. Answered /\ DOMAIN reader = Readers
  BY DEF IInv
<1> HIDE DEF c, i, misses
<1> QED
  BY <1>1, <1>5, <1>9, <1>10, <1>11, <1>12, <1>13, <1>14, ContinueKeeps

LEMMA InsertKeeps ==
  ASSUME IInv, NEW i \in Ids, Insert(i)
  PROVE  IInv'
<1>1. /\ accounts[i] < MaxVersion
      /\ accounts' = [accounts EXCEPT ![i] = @ + 1]
      /\ UNCHANGED <<cache, reader, newest, returned>>
  BY DEF Insert
<1>2. Ordered(accounts, cache, newest) /\ accounts[i] \in Nat
  BY DEF IInv, Ordered, Version
<1>3. /\ accounts' \in [Ids -> Version] /\ accounts'[i] = accounts[i] + 1
      /\ \A j \in Ids \ {i} : accounts'[j] = accounts[j]
  BY <1>1, <1>2, MaxVersionAssumption DEF Ordered, Version
<1>4. \A j \in Ids : /\ accounts[j] \in Nat /\ accounts'[j] \in Nat
                     /\ accounts[j] <= accounts'[j]
  BY <1>2, <1>3 DEF Ordered, Version
<1>5. Ordered(accounts', cache, newest)
  BY <1>2, <1>3, <1>4 DEF Ordered, Version
<1>6. ASSUME NEW s \in Readers
      PROVE  Reading(reader[s], accounts', cache, newest)
  <2> DEFINE c == reader[s]
  <2>1. Reading(c, accounts, cache, newest)
    BY DEF IInv
  <2>2. Call(c, accounts', newest)
    <3>1. \A j \in DOMAIN c.result :
            /\ c.result[j] \in Nat /\ j \in Ids /\ c.result[j] <= accounts[j]
      BY <2>1 DEF Reading, Call, Version
    <3>2. \A j \in DOMAIN c.result : c.result[j] <= accounts'[j]
      BY <1>4, <3>1
    <3>3. \A j \in c.stored : accounts'[j] # 0
      BY <1>2, <1>3, <2>1 DEF Reading, Call
    <3> HIDE DEF c
    <3> QED
      BY <2>1, <3>2, <3>3 DEF Reading, Call
  <2>3. CASE c.pc \in Holding
    <3>1. c.ids \in Seq(Ids) /\ c.cache_miss \subseteq DOMAIN c.ids
      BY <2>1 DEF Reading, Call
    <3>2. \A j \in Held(c) : j \in Ids \ {i}
      BY <2>3, <3>1 DEF Insert, Held, NextMiss, Holding
    <3> QED
      BY <1>3, <2>1, <2>2, <2>3, <3>2 DEF Reading
  <2>4. CASE c.pc \notin Holding
    BY <2>1, <2>2, <2>4 DEF Reading
  <2> QED
    BY <2>3, <2>4
<1>7. Answered'
  BY <1>1 DEF IInv, Answered, ReadsNeverGoBack, BatchIsComplete
<1> QED
  BY <1>1, <1>5, <1>6, <1>7 DEF IInv

-----------------------------------------------------------------------------
THEOREM Invariance == Spec => []IInv
<1>1. Init => IInv
  <2> SUFFICES ASSUME Init PROVE IInv
    OBVIOUS
  <2> DEFINE none == Nothing
  <2>1. DOMAIN none = {} /\ none \in [{} -> Version]
    BY DEF Nothing
  <2>2. /\ accounts = [i \in Ids |-> 0] /\ newest = [i \in Ids |-> 0]
        /\ cache = none /\ reader = [r \in Readers |-> Idle]
        /\ returned = [result |-> none, newest |-> none, stored |-> {}]
    BY DEF Init
  <2>3. /\ Idle.pc = "idle" /\ Idle.ids = <<>> /\ Idle.cache_miss = {}
        /\ Idle.result = none /\ Idle.newest = none /\ Idle.stored = {}
        /\ Idle = [pc |-> "idle", ids |-> <<>>, cache_miss |-> {}, result |-> none,
                   newest |-> none, stored |-> {}]
    BY DEF Idle
  <2>4. <<>> \in Seq(Ids) /\ DOMAIN <<>> = {}
    OBVIOUS
  <2> HIDE DEF none
  <2>5. Ordered(accounts, cache, newest)
    BY <2>1, <2>2, MaxVersionAssumption DEF Ordered, Version
  <2>6. Reading(Idle, accounts, cache, newest)
    BY <2>1, <2>2, <2>3, <2>4
    DEF Reading, Call, Complete, NotAhead, Places, Before, Holding
  <2>7. Answered
    BY <2>1, <2>2 DEF Answered, ReadsNeverGoBack, BatchIsComplete
  <2> QED
    BY <2>2, <2>5, <2>6, <2>7 DEF IInv
<1>2. IInv /\ [Next]_vars => IInv'
  <2> SUFFICES ASSUME IInv, [Next]_vars PROVE IInv'
    OBVIOUS
  <2>1. ASSUME NEW r \in Readers, NEW ids \in Batches, Ask(r, ids)
        PROVE  IInv'
    BY <2>1, AskKeeps
  <2>2. ASSUME NEW r \in Readers, Read(r)
        PROVE  IInv'
    BY <2>2, LookUpKeeps, FetchNothingKeeps, FetchKeeps, PutKeeps DEF Read
  <2>3. ASSUME NEW i \in Ids, Insert(i)
        PROVE  IInv'
    BY <2>3, InsertKeeps
  <2>4. CASE UNCHANGED vars
    BY <2>4 DEF vars, IInv, Answered, ReadsNeverGoBack, BatchIsComplete
  <2>5. ASSUME NEW r \in Readers, Lock(r)
        PROVE  IInv'
    BY <2>5, LockKeeps
  <2> QED
    BY <2>1, <2>2, <2>3, <2>4, <2>5 DEF Next
<1> QED
  BY <1>1, <1>2, PTL DEF Spec

\* No read answers an account older than one already answered, whatever is
\* cached, evicted or inserted meanwhile (types.rs:256-258, 286-292).
THEOREM ReadsAreInOrder == Spec => []ReadsNeverGoBack
<1>1. IInv => ReadsNeverGoBack
  BY DEF IInv, Answered
<1> QED
  BY <1>1, Invariance, PTL

\* A batch answers every account there was when it began (types.rs:266-299).
THEOREM BatchesAreComplete == Spec => []BatchIsComplete
<1>1. IInv => BatchIsComplete
  BY DEF IInv, Answered
<1> QED
  BY <1>1, Invariance, PTL

\* What is put in the cache never makes it larger than its capacity.
Room == IsFiniteSet(DOMAIN cache) /\ Cardinality(DOMAIN cache) <= Capacity

LEMMA PutFits ==
  ASSUME Room, NEW r \in Readers, NEW k, Put(r, k)
  PROVE  Room'
<1> DEFINE i == reader[r].ids[k]
<1>1. PICK keep \in Kept(i) : DOMAIN cache' = keep \union {i}
  BY DEF Put
<1>2. CASE i \in DOMAIN cache
  BY <1>1, <1>2 DEF Kept, Room
<1>3. CASE i \notin DOMAIN cache /\ Cardinality(DOMAIN cache) < Capacity
  <2>1. keep = DOMAIN cache
    BY <1>1, <1>3 DEF Kept
  <2>2. /\ IsFiniteSet(keep \union {i})
        /\ Cardinality(keep \union {i}) = Cardinality(keep) + 1
    BY <1>3, <2>1, FS_AddElement DEF Room
  <2>3. Cardinality(DOMAIN cache) \in Nat
    BY FS_CardinalityType DEF Room
  <2> QED
    BY <1>1, <1>3, <2>1, <2>2, <2>3, CapacityAssumption DEF Room
<1>4. CASE i \notin DOMAIN cache /\ ~(Cardinality(DOMAIN cache) < Capacity)
  <2>1. PICK victim \in DOMAIN cache : keep = DOMAIN cache \ {victim}
    BY <1>1, <1>4 DEF Kept
  <2>2. IsFiniteSet(keep) /\ Cardinality(keep) = Cardinality(DOMAIN cache) - 1
    BY <2>1, FS_RemoveElement DEF Room
  <2>3. IsFiniteSet(keep \union {i}) /\ Cardinality(keep \union {i}) = Cardinality(keep) + 1
    BY <1>4, <2>1, <2>2, FS_AddElement
  <2> QED
    BY <1>1, <2>2, <2>3, FS_CardinalityType DEF Room
<1> QED
  BY <1>2, <1>3, <1>4

THEOREM RoomHolds == Spec => []Room
<1>1. Init => Room
  BY FS_EmptySet, CapacityAssumption DEF Init, Nothing, Room
<1>2. Room /\ [Next]_vars => Room'
  <2> SUFFICES ASSUME Room, [Next]_vars PROVE Room'
    OBVIOUS
  <2>1. CASE UNCHANGED cache
    BY <2>1 DEF Room
  <2>2. ASSUME NEW r \in Readers, NEW k, Put(r, k)
        PROVE  Room'
    BY <2>2, PutFits
  <2> QED
    BY <2>1, <2>2
    DEF Next, Read, Ask, Lock, ReadLock, WriteLock, GoTo, LookUp, FetchNothing, Fetch,
        Insert, vars
<1> QED
  BY <1>1, <1>2, PTL DEF Spec

\* Every variable has its type, and the cache its capacity.
THEOREM TypeCorrect == Spec => []TypeOK
<1>1. IInv /\ Room => TypeOK
  <2> SUFFICES ASSUME IInv, Room PROVE TypeOK
    OBVIOUS
  <2>1. \A r \in Readers : /\ Call(reader[r], accounts, newest)
                           /\ reader[r].pc \in {"idle", "call", "read"}
                                <=> reader[r].cache_miss = {}
    BY DEF IInv, Reading, Before
  <2> QED
    BY <2>1 DEF IInv, Room, Ordered, Call, TypeOK, Places
<1> QED
  BY <1>1, Invariance, RoomHolds, PTL

=============================================================================
