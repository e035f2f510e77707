----------------------------- MODULE WalletKeys -----------------------------
(***************************************************************************)
(* The key of the wallet's user (wallet/wallet.js): how it is generated,   *)
(* imported, kept in the browser's storage and restored with the page.  It *)
(* is in three places: WALLET.keyPair signs, WALLET.publicKey names the    *)
(* account, and the storage has a copy of both.  The page is one thread: a *)
(* step is what a function does from one await to the next, and between two*)
(* steps any other call may come, or the page may be loaded anew.          *)
(*                                                                         *)
(* The browser is external: its key operations end in any order; exporting *)
(* an extractable key and reading back a text it exported do not fail.     *)
(***************************************************************************)
EXTENDS Naturals

CONSTANTS
  Keys,         \* private keys; their texts have the same names
  NoKey,        \* null, or a text that is no key
  Calls,        \* generateNewKeyPair, importPrivateKey that may run at a time
  MaxReloads    \* bound: how often the page is loaded anew

ASSUME ReloadsAssumption == MaxReloads \in Nat
ASSUME NoKeyAssumption == NoKey \notin Keys

\* An account's name: the public key of a private key, or the first bytes of
\* the private key's own text.
Accounts == [of : Keys, derived : {"public key", "first bytes"}]
NoAccount == [of |-> NoKey, derived |-> "public key"]

VARIABLES
  keyPair,      \* WALLET.keyPair: its private key
  publicKey,    \* WALLET.publicKey
  stored,       \* localStorage's hancoinKeyPair
  call,         \* where each call is, and the key it holds
  reloads,      \* what MaxReloads counts
  made,         \* history: all keys there are
  ours,         \* history: the keys this page has generated
  overlapped    \* history: two calls of this page have run at a time

wallet == <<keyPair, publicKey>>
history == <<made, ours, overlapped>>
vars == <<wallet, stored, call, reloads, history>>

Public(k) == [of |-> k, derived |-> "public key"]
FirstBytes(k) == [of |-> k, derived |-> "first bytes"]

Nothing == [privateKey |-> NoKey, publicKey |-> NoAccount]
Idle == [pc |-> "idle", key |-> NoKey]

Labels == {"idle", "generating", "exporting", "importing", "saving"}

At(c, label) == call[c].pc = label
Quiet == \A c \in Calls : At(c, "idle")

Goto(c, label, k) == call' = [call EXCEPT ![c] = [pc |-> label, key |-> k]]
Return(c) == call' = [call EXCEPT ![c] = Idle]

Init ==
  /\ keyPair = NoKey
  /\ publicKey = NoAccount
  /\ stored = Nothing
  /\ call = [c \in Calls |-> Idle]
  /\ reloads = 0
  /\ made = {} /\ ours = {} /\ overlapped = FALSE

-----------------------------------------------------------------------------
(* The page's functions.  A call of the user's comes beside others.        *)

Begin(c, label, k) ==
  /\ At(c, "idle")
  /\ Goto(c, label, k)
  /\ overlapped' = (overlapped \/ ~Quiet)

\* generateNewKeyPair, up to its first await
GenerateNewKeyPair(c) ==
  /\ Begin(c, "generating", NoKey)
  /\ UNCHANGED <<wallet, stored, reloads, made, ours>>

\* ... the browser has made a key: the page signs with it from now on,
Generated(c) ==
  /\ At(c, "generating")
  /\ \E k \in Keys \ made :
       /\ keyPair' = k
       /\ Goto(c, "exporting", k)
       /\ made' = made \union {k}
       /\ ours' = ours \union {k}
  /\ UNCHANGED <<publicKey, stored, reloads, overlapped>>

\* saveKeyToLocalStorage, up to its await: it exports the key there is now.
\* Nobody waits for it.
SaveKeyToLocalStorage(c, k) == Goto(c, "saving", k)

\* Mutant: the key is not saved.
ExportedUnsaved(c) ==
  /\ At(c, "exporting")
  /\ publicKey' = Public(call[c].key)
  /\ Return(c)
  /\ UNCHANGED <<keyPair, stored, reloads, history>>

\* ... and its public key is known.
Exported(c) ==
  /\ At(c, "exporting")
  /\ publicKey' = Public(call[c].key)
  /\ SaveKeyToLocalStorage(c, keyPair)
  /\ UNCHANGED <<keyPair, stored, reloads, history>>

\* importPrivateKey, of any text: of a key from elsewhere, of one of the
\* page's, of no key
ImportPrivateKey(c, k) ==
  /\ Begin(c, "importing", k)
  /\ made' = made \union ({k} \ {NoKey})
  /\ UNCHANGED <<wallet, stored, reloads, ours>>

\* Mutant: the public key that belongs to the private one.
PublicKeyOfDerived(k) == Public(k)

\* What importPrivateKey takes for the public key
PublicKeyOf(k) == FirstBytes(k)

\* Mutant: the account's name stays.
ImportedUnnamed(c) ==
  /\ At(c, "importing") /\ call[c].key # NoKey
  /\ keyPair' = call[c].key
  /\ SaveKeyToLocalStorage(c, call[c].key)
  /\ UNCHANGED <<publicKey, stored, reloads, history>>

\* ... the browser has read it, twice: both places change together.
Imported(c) ==
  /\ At(c, "importing") /\ call[c].key # NoKey
  /\ keyPair' = call[c].key
  /\ publicKey' = PublicKeyOf(call[c].key)
  /\ SaveKeyToLocalStorage(c, call[c].key)
  /\ UNCHANGED <<stored, reloads, history>>

\* The browser has no such keys, or takes the text for none, or what stands for
\* the public key: nothing changes.
Fails(c) ==
  /\ At(c, "generating") \/ At(c, "importing")
  /\ Return(c)
  /\ UNCHANGED <<wallet, stored, reloads, history>>

\* Mutant: the public key of the time before the await is stored, as that of
\* the exported key.
SavedEarlier(c) ==
  /\ At(c, "saving")
  /\ stored' = [privateKey |-> call[c].key,
                publicKey |-> IF publicKey.of = call[c].key THEN publicKey
                              ELSE stored.publicKey]
  /\ Return(c)
  /\ UNCHANGED <<wallet, reloads, history>>

\* saveKeyToLocalStorage, after its await: the key it exported, beside the
\* public key of this moment.
Saved(c) ==
  /\ At(c, "saving")
  /\ stored' = [privateKey |-> call[c].key, publicKey |-> publicKey]
  /\ Return(c)
  /\ UNCHANGED <<wallet, reloads, history>>

-----------------------------------------------------------------------------
\* The page is loaded anew: what ran is gone, the storage stays.  initWallet
\* starts to import the stored key and goes on at once, to connectWebSocket,
\* which finds no public key, for it is there when the import ends, and returns.
InitWallet ==
  /\ reloads < MaxReloads
  /\ reloads' = reloads + 1
  /\ keyPair' = NoKey
  /\ publicKey' = NoAccount
  /\ \E c \in Calls :
       call' = [d \in Calls |->
                  IF d = c /\ stored.privateKey # NoKey
                  THEN [pc |-> "importing", key |-> stored.privateKey]
                  ELSE Idle]
  /\ ours' = {} /\ overlapped' = FALSE
  /\ UNCHANGED <<stored, made>>

Continue(c) == Generated(c) \/ Exported(c) \/ Imported(c) \/ Fails(c) \/ Saved(c)

Next ==
  \/ \E c \in Calls : GenerateNewKeyPair(c) \/ Continue(c)
  \/ \E c \in Calls, k \in Keys \union {NoKey} : ImportPrivateKey(c, k)
  \/ InitWallet

Spec == Init /\ [][Next]_vars

\* The browser's operations come to an end.
Fairness == \A c \in Calls : WF_vars(Continue(c))

FairSpec == Spec /\ Fairness

-----------------------------------------------------------------------------
\* Every variable has its type, a call holds a key there is, and one that
\* exports holds a key its page has generated (lines 61-80).
TypeOK ==
  /\ keyPair \in made \union {NoKey}
  /\ publicKey \in Accounts \union {NoAccount}
  /\ stored \in [privateKey : made \union {NoKey},
                publicKey : Accounts \union {NoAccount}]
  /\ call \in [Calls -> [pc : Labels, key : made \union {NoKey}]]
  /\ \A c \in Calls : At(c, "exporting") => call[c].key \in ours
  /\ overlapped \in BOOLEAN
  /\ reloads \in 0..MaxReloads
  /\ ours \subseteq made /\ made \subseteq Keys

\* Once all calls are over, the three places agree: the page signs with the key
\* of the account it names, and the storage has both (lines 15-16, 214-228).
\* Only when no two calls have overlapped: a call sets the key before its
\* await and the public key after it, and saves the key there is then, so that
\* two that overlap can leave the key of one and the account of the other, and
\* the storage with whichever save came last.
PlacesAgree ==
  keyPair # NoKey
    => /\ publicKey.of = keyPair
       /\ stored = [privateKey |-> keyPair, publicKey |-> publicKey]

OneAtATimeAgrees == (Quiet /\ ~overlapped) => PlacesAgree

\* However calls and reloads overlap, once all is quiet the storage names the
\* account the page shows: a save reads the public key when it ends, and every
\* change of it starts a save (lines 77-80, 167-170, 220-228).
StoredAccountIsShown ==
  (Quiet /\ publicKey # NoAccount) => stored.publicKey = publicKey

\* The account of a generated key ends with its page: what the storage gives
\* back of it is named by the first bytes of its text, another account, as if
\* these were the public key (lines 148-150, 167, 193-201).
AccountEndsWithPage ==
  publicKey.derived = "public key" => publicKey.of \in ours \union {NoKey}

\* A key the page signs with gets into the storage, unless another one takes its
\* place or the page is left before (lines 73-80, 162-170), and stays there while
\* it signs.  Only when no calls have overlapped: else the save of a key that is
\* used no more may come last, and the key in use is nowhere but in this page.
KeysAreSaved ==
  /\ \A k \in Keys :
       keyPair = k ~> (stored.privateKey = k \/ keyPair # k \/ overlapped)
  /\ [][\A k \in Keys :
          /\ stored.privateKey = k
          /\ keyPair = k /\ keyPair' = k /\ ~overlapped'
          => stored'.privateKey = k]_vars

=============================================================================
