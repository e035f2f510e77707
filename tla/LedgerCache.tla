---------------------------- MODULE LedgerCache ----------------------------
(***************************************************************************)
(* The account cache of Ledger (src/types.rs): get_account and             *)
(* get_accounts_batch read through an LruCache behind a RwLock, while      *)
(* other threads insert into the DashMap without a word to the cache.      *)
(*                                                                         *)
(* An account is its version: how many inserts the entry has seen.  The    *)
(* RwLock is modelled by where the readers are: one looks up what it is    *)
(* asked for in the shared mode (lines 247-254, 271-282), and puts a miss  *)
(* in the exclusive one (257-258, 291-292).  DashMap::get returns a guard  *)
(* of the entry's shard, and the reader holds it while it waits for the    *)
(* cache and puts the account there: an insert into the shard waits for    *)
(* the reader.  The two counters of hits and misses are left out.          *)
(***************************************************************************)
EXTENDS Naturals, Sequences, FiniteSets

CONSTANTS
  Readers,      \* threads that call get_account or get_accounts_batch
  Ids,          \* account ids
  Batches,      \* the argument sequences; get_account's has one id
  Shard,        \* the shard of the DashMap that holds an id
  Capacity,     \* entries of the LruCache
  MaxVersion    \* bound: how often an account is written

ASSUME BatchesAssumption == Batches \subseteq Seq(Ids)
ASSUME CapacityAssumption == Capacity \in Nat \ {0}
ASSUME MaxVersionAssumption == MaxVersion \in Nat
ASSUME ShardAssumption == DOMAIN Shard = Ids

VARIABLES
  accounts,   \* the DashMap: the version of each entry, 0 if there is none
  cache,      \* the LruCache: versions of the ids it holds
  reader,     \* each reader: where it is in its call, and its locals
  newest,     \* history: newest version of each id a finished call returned
  returned    \* history: what the last call returned, and remembered

vars == <<accounts, cache, reader, newest, returned>>

Version == 0..MaxVersion
Nothing == [i \in {} |-> 0]

\* A thread between two calls.  cache_miss has the positions of a batch's misses.
\* For the properties a call remembers, of the ids it is asked for, what newest
\* was and which the map held as it looked them up.
Idle == [pc |-> "idle", ids |-> <<>>, cache_miss |-> {}, result |-> Nothing,
         newest |-> Nothing, stored |-> {}]

\* Mutant: the shared mode is kept while the map is read.
SharedTillPut == {r \in Readers : reader[r].pc \in {"read", "fetch", "put"}}

\* The readers that hold the cache's lock, in its shared and its exclusive mode
Shared == {r \in Readers : reader[r].pc = "read"}
Exclusive == {r \in Readers : reader[r].pc = "write"}

-----------------------------------------------------------------------------
Init ==
  /\ accounts = [i \in Ids |-> 0]
  /\ cache = Nothing
  /\ reader = [r \in Readers |-> Idle]
  /\ newest = [i \in Ids |-> 0]
  /\ returned = [result |-> Nothing, newest |-> Nothing, stored |-> {}]

\* The call goes on with its misses, or returns its result.
Continue(r, misses, call) ==
  IF misses # {}
  THEN /\ reader' = [reader EXCEPT ![r] =
                       [call EXCEPT !.pc = "fetch", !.cache_miss = misses]]
       /\ UNCHANGED <<newest, returned>>
  ELSE /\ reader' = [reader EXCEPT ![r] = Idle]
       /\ returned' = [result |-> call.result, newest |-> call.newest,
                        stored |-> call.stored]
       /\ newest' = [i \in Ids |->
                       IF i \in DOMAIN call.result /\ call.result[i] > newest[i]
                       THEN call.result[i]
                       ELSE newest[i]]

GoTo(r, pc) ==
  /\ reader' = [reader EXCEPT ![r].pc = pc]
  /\ UNCHANGED <<accounts, cache, newest, returned>>

\* get_account or get_accounts_batch is called.
Ask(r, ids) ==
  /\ reader[r].pc = "idle"
  /\ reader' = [reader EXCEPT ![r].pc = "call", ![r].ids = ids]
  /\ UNCHANGED <<accounts, cache, newest, returned>>

ReadLock(r) ==
  /\ reader[r].pc = "call" /\ Exclusive = {}
  /\ GoTo(r, "read")

\* Hits go to the result, the other positions are kept; the lock is dropped.
LookUp(r) ==
  LET ids == reader[r].ids
      asked == {ids[k] : k \in DOMAIN ids}
  IN  /\ reader[r].pc = "read"
      /\ Continue(r, {k \in DOMAIN ids : ids[k] \notin DOMAIN cache},
           [pc |-> "read", ids |-> ids, cache_miss |-> {},
            result |-> [i \in asked \intersect DOMAIN cache |-> cache[i]],
            newest |-> [i \in asked |-> newest[i]],
            stored |-> {i \in asked : accounts[i] # 0}])
      /\ UNCHANGED <<accounts, cache>>

\* The misses are taken in their order.
NextMiss(r, k) ==
  k \in reader[r].cache_miss /\ \A j \in reader[r].cache_miss : k <= j

\* Mutant: an id that has no account ends the batch.
FetchNothingReturns(r, k) ==
  /\ reader[r].pc = "fetch" /\ NextMiss(r, k)
  /\ accounts[reader[r].ids[k]] = 0
  /\ Continue(r, {}, reader[r])
  /\ UNCHANGED <<accounts, cache>>

\* Mutant: an id that has no account is asked for again.
FetchNothingRetries(r, k) ==
  /\ reader[r].pc = "fetch" /\ NextMiss(r, k)
  /\ accounts[reader[r].ids[k]] = 0
  /\ Continue(r, reader[r].cache_miss, reader[r])
  /\ UNCHANGED <<accounts, cache>>

\* accounts.get of the next miss finds no entry.
FetchNothing(r, k) ==
  /\ reader[r].pc = "fetch" /\ NextMiss(r, k)
  /\ accounts[reader[r].ids[k]] = 0
  /\ Continue(r, reader[r].cache_miss \ {k}, reader[r])
  /\ UNCHANGED <<accounts, cache>>

\* accounts.get of the next miss finds the entry; its shard stays locked.
Fetch(r, k) ==
  LET i == reader[r].ids[k]
  IN  /\ reader[r].pc = "fetch" /\ NextMiss(r, k)
      /\ accounts[i] # 0
      /\ reader' = [reader EXCEPT
                      ![r].pc = "put",
                      ![r].result = [j \in DOMAIN @ \union {i} |->
                                       IF j = i THEN accounts[i] ELSE @[j]]]
      /\ UNCHANGED <<accounts, cache, newest, returned>>

WriteLock(r) ==
  /\ reader[r].pc = "put" /\ Shared \union Exclusive = {}
  /\ GoTo(r, "write")

\* The entries that stay when i is put in the cache: which one a full cache
\* drops depends on the order of its uses, and may be any.
Kept(i) ==
  IF i \in DOMAIN cache \/ Cardinality(DOMAIN cache) < Capacity
  THEN {DOMAIN cache}
  ELSE {DOMAIN cache \ {victim} : victim \in DOMAIN cache}

\* cache.put of the clone, then the cache and the shard are unlocked.
Put(r, k) ==
  LET i == reader[r].ids[k]
  IN  /\ reader[r].pc = "write" /\ NextMiss(r, k)
      /\ \E keep \in Kept(i) :
           cache' = [j \in keep \union {i} |->
                       IF j = i THEN reader[r].result[i] ELSE cache[j]]
      /\ Continue(r, reader[r].cache_miss \ {k}, reader[r])
      /\ UNCHANGED accounts

\* Mutant: the clone is put in the cache without the shard's guard, so that an
\* insert may come between.
InsertUnguarded(i) ==
  /\ accounts[i] < MaxVersion
  /\ accounts' = [accounts EXCEPT ![i] = @ + 1]
  /\ UNCHANGED <<cache, reader, newest, returned>>

\* A thread inserts a new value of an account, once the shard is free.  The
\* cache is not told.
Insert(i) ==
  /\ accounts[i] < MaxVersion
  /\ \A r \in Readers : \A k \in reader[r].cache_miss :
       reader[r].pc \in {"put", "write"} /\ NextMiss(r, k)
         => Shard[reader[r].ids[k]] # Shard[i]
  /\ accounts' = [accounts EXCEPT ![i] = @ + 1]
  /\ UNCHANGED <<cache, reader, newest, returned>>

Lock(r) == ReadLock(r) \/ WriteLock(r)

Read(r) ==
  \/ LookUp(r)
  \/ \E k \in reader[r].cache_miss : FetchNothing(r, k) \/ Fetch(r, k) \/ Put(r, k)

Next ==
  \/ \E r \in Readers, ids \in Batches : Ask(r, ids)
  \/ \E r \in Readers : Lock(r) \/ Read(r)
  \/ \E i \in Ids : Insert(i)

Spec == Init /\ [][Next]_vars

\* A call is a loop of short critical sections: its thread runs on, and the
\* cache's lock, which is parking_lot's, keeps no reader and no writer waiting
\* for good.
FairSpec == Spec /\ \A r \in Readers : WF_vars(Read(r)) /\ SF_vars(Lock(r))

-----------------------------------------------------------------------------
\* Every variable has its type: the cache keeps its capacity, whatever is put
\* there, and never has an entry the map lacks (lines 256-258, 286-292).
TypeOK ==
  /\ accounts \in [Ids -> Version]
  /\ DOMAIN cache \subseteq Ids
  /\ IsFiniteSet(DOMAIN cache) /\ Cardinality(DOMAIN cache) <= Capacity
  /\ \A i \in DOMAIN cache : cache[i] \in 1..accounts[i]
  /\ DOMAIN reader = Readers
  /\ \A r \in Readers :
       /\ reader[r] \in [pc : {"idle", "call", "read", "fetch", "put", "write"},
                         ids : Seq(Ids),
                         cache_miss : SUBSET DOMAIN reader[r].ids,
                         result : [DOMAIN reader[r].result -> Version],
                         newest : [DOMAIN reader[r].newest -> Version],
                         stored : SUBSET Ids]
       /\ reader[r].pc \in {"idle", "call", "read"} <=> reader[r].cache_miss = {}
  /\ newest \in [Ids -> Version]

\* A read never answers an account older than one that a read finished earlier
\* has answered, whichever of them was a hit, and although nothing invalidates
\* the cache: what is put there is current, since the shard is locked till then
\* (lines 256-258, 286-292).
ReadsNeverGoBack ==
  \A i \in DOMAIN returned.result : returned.result[i] >= returned.newest[i]

\* A batch answers every account that existed when it was asked for, whatever
\* is evicted between its read of the cache and its read of the map.
BatchIsComplete == returned.stored \subseteq DOMAIN returned.result

\* Every call returns, however the map and the cache change under it: a miss is
\* asked for once (lines 285-294).
CallsReturn == \A r \in Readers : reader[r].pc # "idle" ~> reader[r].pc = "idle"

=============================================================================
