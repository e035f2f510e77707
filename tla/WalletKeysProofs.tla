-------------------------- MODULE WalletKeysProofs --------------------------
(***************************************************************************)
(* Where the wallet's key is, for any keys, any number of calls at a time  *)
(* and any number of reloads: that the three places of it agree after calls*)
(* that have not overlapped, that the storage names the account of the page*)
(* whatever has overlapped, and that an account does not outlive its page. *)
(***************************************************************************)
EXTENDS WalletKeys, TLAPS

LEMMA NoAccountIsOfNoKey == NoAccount.of = NoKey /\ NoAccount.derived = "public key"
BY DEF NoAccount

-----------------------------------------------------------------------------
\* The types hold.
THEOREM TypeCorrect == Spec => []TypeOK
<1>1. Init => TypeOK
  <2> SUFFICES ASSUME Init PROVE TypeOK
    OBVIOUS
  <2>1. /\ keyPair = NoKey /\ publicKey = NoAccount /\ stored = Nothing
        /\ made = {} /\ ours = {} /\ reloads = 0 /\ call = [c \in Calls |-> Idle]
    BY DEF Init
  <2>2. overlapped \in BOOLEAN
    BY DEF Init
  <2>3. \A c \in Calls : ~At(c, "exporting")
    BY <2>1 DEF At, Idle
  <2>4. call \in [Calls -> [pc : Labels, key : made \union {NoKey}]]
    BY <2>1 DEF Idle, Labels
  <2>5. stored \in [privateKey : made \union {NoKey},
                   publicKey : Accounts \union {NoAccount}]
    BY <2>1 DEF Nothing
  <2>6. reloads \in 0..MaxReloads
    BY <2>1, ReloadsAssumption
  <2>7. ours \subseteq made /\ made \subseteq Keys
    BY <2>1
  <2>8. keyPair \in made \union {NoKey} /\ publicKey \in Accounts \union {NoAccount}
    BY <2>1
  <2>9. \A c \in Calls : At(c, "exporting") => call[c].key \in ours
    BY <2>3
  <2> QED
    BY <2>2, <2>4, <2>5, <2>6, <2>8, <2>9, <2>7, Zenon DEF TypeOK
<1>2. TypeOK /\ [Next]_vars => TypeOK'
  <2> SUFFICES ASSUME TypeOK, [Next]_vars PROVE TypeOK'
    OBVIOUS
  <2> USE DEF TypeOK, Labels, At, Goto, Idle, Begin, Return, SaveKeyToLocalStorage
  <2>1. ASSUME NEW c \in Calls, GenerateNewKeyPair(c)
        PROVE  TypeOK'
    BY <2>1 DEF GenerateNewKeyPair, wallet
  <2>2. ASSUME NEW c \in Calls, Generated(c)
        PROVE  TypeOK'
    <3>1. PICK k \in Keys \ made :
            /\ keyPair' = k /\ call' = [call EXCEPT ![c] = [pc |-> "exporting", key |-> k]]
            /\ made' = made \union {k} /\ ours' = ours \union {k}
      BY <2>2 DEF Generated
    <3> QED
      BY <2>2, <3>1 DEF Generated
  <2>3. ASSUME NEW c \in Calls, Exported(c)
        PROVE  TypeOK'
    <3>1. publicKey' \in Accounts
      BY <2>3 DEF Exported, Public, Accounts
    <3> QED
      BY <2>3, <3>1 DEF Exported, history
  <2>4. ASSUME NEW c \in Calls, NEW k \in Keys \union {NoKey}, ImportPrivateKey(c, k)
        PROVE  TypeOK'
    BY <2>4 DEF ImportPrivateKey, wallet
  <2>5. ASSUME NEW c \in Calls, Imported(c)
        PROVE  TypeOK'
    <3>1. publicKey' \in Accounts /\ keyPair' \in made
      BY <2>5 DEF Imported, PublicKeyOf, FirstBytes, Accounts
    <3> QED
      BY <2>5, <3>1 DEF Imported, history
  <2>6. ASSUME NEW c \in Calls, Fails(c) \/ Saved(c)
        PROVE  TypeOK'
    BY <2>6 DEF Fails, Saved, wallet, history
  <2>7. CASE InitWallet
    <3>1. PICK c \in Calls :
            call' = [d \in Calls |->
                       IF d = c /\ stored.privateKey # NoKey
                       THEN [pc |-> "importing", key |-> stored.privateKey]
                       ELSE Idle]
      BY <2>7 DEF InitWallet
    <3>2. /\ keyPair' = NoKey /\ publicKey' = NoAccount /\ stored' = stored
          /\ made' = made /\ ours' = {} /\ reloads' = reloads + 1 /\ reloads < MaxReloads
      BY <2>7 DEF InitWallet
    <3>3. overlapped' \in BOOLEAN
      BY <2>7 DEF InitWallet
    <3>4. /\ call' \in [Calls -> [pc : Labels, key : made' \union {NoKey}]]
          /\ \A d \in Calls : call'[d].pc = "exporting" => call'[d].key \in ours'
      BY <3>1, <3>2
    <3>5. /\ keyPair' \in made' \union {NoKey} /\ publicKey' \in Accounts \union {NoAccount}
          /\ stored' \in [privateKey : made' \union {NoKey},
                         publicKey : Accounts \union {NoAccount}]
          /\ ours' \subseteq made' /\ made' \subseteq Keys
      BY <3>2
    <3>6. reloads' \in 0..MaxReloads
      BY <3>2, ReloadsAssumption DEF TypeOK
    <3> QED
      BY <3>3, <3>4, <3>5, <3>6, Zenon
  <2>8. CASE UNCHANGED vars
    BY <2>8 DEF vars, wallet, history
  <2> QED
    BY <2>1, <2>2, <2>3, <2>4, <2>5, <2>6, <2>7, <2>8 DEF Next, Continue
<1> QED
  BY <1>1, <1>2, PTL DEF Spec

-----------------------------------------------------------------------------
\* What holds of the one call that runs, while no two have overlapped.
AloneInv ==
  ~overlapped =>
    /\ \A c, d \in Calls : (~At(c, "idle") /\ ~At(d, "idle")) => c = d
    /\ \A c \in Calls : At(c, "exporting") => call[c].key = keyPair
    /\ \A c \in Calls : At(c, "saving") => /\ call[c].key = keyPair
                                           /\ publicKey.of = keyPair
    /\ (\A c \in Calls : ~At(c, "exporting") /\ ~At(c, "saving")) => PlacesAgree

\* The page signs with the key whose account it names, and both are stored, once
\* calls that have not overlapped are over (wallet.js:73-80, 162-170, 220-228).
THEOREM PlacesDoAgree == Spec => []OneAtATimeAgrees
<1>1. Init => AloneInv
  <2> SUFFICES ASSUME Init PROVE AloneInv
    OBVIOUS
  <2>1. keyPair = NoKey /\ call = [c \in Calls |-> Idle]
    BY DEF Init
  <2>2. \A c \in Calls : call[c].pc = "idle"
    BY <2>1 DEF Idle
  <2> QED
    BY <2>1, <2>2 DEF AloneInv, PlacesAgree, At
<1>2. TypeOK /\ AloneInv /\ [Next]_vars => AloneInv'
  <2> SUFFICES ASSUME TypeOK, AloneInv, [Next]_vars, ~overlapped'
               PROVE  AloneInv'
    BY DEF AloneInv
  <2> USE DEF AloneInv, Labels, PlacesAgree, At, Goto, Idle, Return, SaveKeyToLocalStorage
  <2>0. call \in [Calls -> [pc : Labels, key : made \union {NoKey}]]
    BY DEF TypeOK
  <2>1. ASSUME NEW c \in Calls,
               GenerateNewKeyPair(c) \/ \E k \in Keys \union {NoKey} : ImportPrivateKey(c, k)
        PROVE  AloneInv'
    <3>1. PICK label \in {"generating", "importing"}, k \in Keys \union {NoKey} :
            Begin(c, label, k)
      BY <2>1 DEF GenerateNewKeyPair, ImportPrivateKey
    <3>2. Quiet /\ ~overlapped
      BY <3>1 DEF Begin
    <3>3. keyPair' = keyPair /\ publicKey' = publicKey /\ stored' = stored
      BY <2>1 DEF GenerateNewKeyPair, ImportPrivateKey, wallet
    <3> QED
      BY <2>0, <3>1, <3>2, <3>3 DEF Begin, Quiet
  <2>2. ASSUME NEW c \in Calls, Generated(c)
        PROVE  AloneInv'
    <3>1. PICK k \in Keys \ made :
            keyPair' = k /\ call' = [call EXCEPT ![c] = [pc |-> "exporting", key |-> k]]
      BY <2>2 DEF Generated
    <3> QED
      BY <2>0, <2>2, <3>1 DEF Generated
  <2>3. ASSUME NEW c \in Calls, Exported(c)
        PROVE  AloneInv'
    BY <2>0, <2>3 DEF Exported, Public, history
  <2>4. ASSUME NEW c \in Calls, Imported(c)
        PROVE  AloneInv'
    BY <2>0, <2>4 DEF Imported, PublicKeyOf, FirstBytes, history
  <2>5. ASSUME NEW c \in Calls, Fails(c)
        PROVE  AloneInv'
    BY <2>0, <2>5 DEF Fails, wallet, history
  <2>6. ASSUME NEW c \in Calls, Saved(c)
        PROVE  AloneInv'
    BY <2>0, <2>6 DEF Saved, wallet, history
  <2>7. CASE InitWallet
    BY <2>7 DEF InitWallet
  <2>8. CASE UNCHANGED vars
    BY <2>8 DEF vars, wallet, history
  <2> QED
    BY <2>1, <2>2, <2>3, <2>4, <2>5, <2>6, <2>7, <2>8 DEF Next, Continue
<1>3. AloneInv => OneAtATimeAgrees
  BY DEF AloneInv, OneAtATimeAgrees, Quiet, At
<1> QED
  BY <1>1, <1>2, <1>3, TypeCorrect, PTL DEF Spec

-----------------------------------------------------------------------------
\* The storage names the page's account, or a save is on its way.
ShownInv ==
  publicKey = NoAccount \/ stored.publicKey = publicKey \/ \E c \in Calls : At(c, "saving")

\* Once all is quiet the storage names the account the page shows, whatever
\* calls and reloads have overlapped (wallet.js:77-80, 167-170, 220-228).
THEOREM ShownIsStored == Spec => []StoredAccountIsShown
<1>1. Init => ShownInv
  BY DEF Init, ShownInv
<1>2. TypeOK /\ ShownInv /\ [Next]_vars => ShownInv'
  <2> SUFFICES ASSUME TypeOK, ShownInv, [Next]_vars PROVE ShownInv'
    OBVIOUS
  <2> USE DEF ShownInv, Labels, At, Goto, Idle, Begin, Return, SaveKeyToLocalStorage
  <2>0. call \in [Calls -> [pc : Labels, key : made \union {NoKey}]]
    BY DEF TypeOK
  <2>1. ASSUME NEW c \in Calls, Exported(c) \/ Imported(c)
        PROVE  ShownInv'
    BY <2>0, <2>1 DEF Exported, Imported
  <2>2. ASSUME NEW c \in Calls, Saved(c)
        PROVE  ShownInv'
    BY <2>0, <2>2 DEF Saved, wallet
  <2>3. ASSUME NEW c \in Calls,
               \/ GenerateNewKeyPair(c) \/ Generated(c) \/ Fails(c)
               \/ \E k \in Keys \union {NoKey} : ImportPrivateKey(c, k)
        PROVE  ShownInv'
    <3>1. publicKey' = publicKey /\ stored' = stored /\ ~At(c, "saving")
      BY <2>3 DEF GenerateNewKeyPair, Generated, Fails, ImportPrivateKey, wallet
    <3>2. \A d \in Calls : d # c => call'[d] = call[d]
      BY <2>0, <2>3 DEF GenerateNewKeyPair, Generated, Fails, ImportPrivateKey
    <3> QED
      BY <3>1, <3>2
  <2>4. CASE InitWallet
    BY <2>4 DEF InitWallet
  <2>5. CASE UNCHANGED vars
    BY <2>5 DEF vars, wallet
  <2> QED
    BY <2>1, <2>2, <2>3, <2>4, <2>5 DEF Next, Continue
<1>3. ShownInv => StoredAccountIsShown
  BY DEF ShownInv, StoredAccountIsShown, Quiet, At
<1> QED
  BY <1>1, <1>2, <1>3, TypeCorrect, PTL DEF Spec

-----------------------------------------------------------------------------
\* No page has the account of a key that an earlier one generated
\* (wallet.js:148-150, 167, 193-201).
THEOREM AccountsEnd == Spec => []AccountEndsWithPage
<1>1. Init => AccountEndsWithPage
  BY NoAccountIsOfNoKey DEF Init, AccountEndsWithPage
<1>2. TypeOK /\ AccountEndsWithPage /\ [Next]_vars => AccountEndsWithPage'
  <2> SUFFICES ASSUME TypeOK, AccountEndsWithPage, [Next]_vars
               PROVE  AccountEndsWithPage'
    OBVIOUS
  <2> USE DEF AccountEndsWithPage
  <2>1. ASSUME NEW c \in Calls, Exported(c)
        PROVE  AccountEndsWithPage'
    BY <2>1 DEF Exported, Public, TypeOK, history
  <2>2. ASSUME NEW c \in Calls, Imported(c)
        PROVE  AccountEndsWithPage'
    BY <2>2 DEF Imported, PublicKeyOf, FirstBytes, history
  <2>3. ASSUME NEW c \in Calls,
               \/ GenerateNewKeyPair(c) \/ Generated(c) \/ Fails(c) \/ Saved(c)
               \/ \E k \in Keys \union {NoKey} : ImportPrivateKey(c, k)
        PROVE  AccountEndsWithPage'
    <3>1. publicKey' = publicKey /\ ours \subseteq ours'
      BY <2>3 DEF GenerateNewKeyPair, Generated, Fails, Saved, ImportPrivateKey, wallet, history
    <3> QED
      BY <3>1
  <2>4. CASE InitWallet
    BY <2>4, NoAccountIsOfNoKey DEF InitWallet
  <2>5. CASE UNCHANGED vars
    BY <2>5 DEF vars, wallet, history
  <2> QED
    BY <2>1, <2>2, <2>3, <2>4, <2>5 DEF Next, Continue
<1> QED
  BY <1>1, <1>2, TypeCorrect, PTL DEF Spec

=============================================================================
