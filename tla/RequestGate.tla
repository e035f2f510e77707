---------------------------- MODULE RequestGate ----------------------------
(***************************************************************************)
(* What the handlers of src/main.rs ask of a request before they act on    *)
(* the ledger, and which accounts can come to exist: the id and signature  *)
(* checks of handle_faucet, handle_balance, and the part of handle_transfer*)
(* that the repository holds (the file ends inside that function).  What   *)
(* follows a verified claim is in Faucet; all that counts here is that the *)
(* account exists from then on.                                            *)
(*                                                                         *)
(* A text is its length and the least of the alphabets below that holds    *)
(* its characters: all that is_valid_account_id and hex::decode look at.   *)
(***************************************************************************)
EXTENDS Naturals

CONSTANTS
  Lengths,   \* the lengths of the texts a client sends
  Absent     \* a field that is missing, or that is not a JSON string

ASSUME LengthsAssumption == Lengths \subseteq Nat

Alphabets == {
  "hex",      \* hexadecimal digits other than 0, all of them base-58 too
  "hex0",     \* hexadecimal digits with a 0, which base-58 leaves out
  "base58",   \* base-58 digits, one of them beyond f
  "other"}

\* JSON's null is none of the answers.
ASSUME AbsentAssumption == Absent \notin {"verified", "ok", "to verify"}

\* valid_key: whether the bytes of the text are a point of the curve.
Text == [alphabet : Alphabets, length : Lengths, valid_key : BOOLEAN]

\* genuine: whether the bytes are the claim signed with the key of the id.
Signed == [alphabet : Alphabets, length : Lengths, genuine : BOOLEAN]

VARIABLES
  opened,    \* the ids in Ledger.accounts
  request,   \* the last request
  reply      \* ... and how it was answered

gate == <<opened, request, reply>>

-----------------------------------------------------------------------------
\* Mutant: the length of the ids is that of 32 bytes in hexadecimal.
IsValidAccountIdOfKeys(id) ==
  id.alphabet \in {"hex", "hex0", "base58"} /\ id.length \in 32..64

\* is_valid_account_id: ^[1-9A-HJ-NP-Za-km-z]{32,44}$
IsValidAccountId(id) ==
  id.alphabet \in {"hex", "base58"} /\ id.length \in 32..44

\* hex::decode succeeds, and with how many bytes.
Decodes(text) == text.alphabet \in {"hex", "hex0"} /\ text.length % 2 = 0
Bytes(text) == text.length \div 2

\* The checks of handle_faucet, in their order.  try_into().unwrap() panics on
\* any number of bytes but the key's 32 and the signature's 64.
Verdict(id, signature) ==
  CASE id = Absent -> "MissingAccountId"
    [] id # Absent /\ signature = Absent -> "MissingSignature"
    [] OTHER ->
         IF ~IsValidAccountId(id) \/ ~Decodes(id) THEN "InvalidAccountIdFormat"
         ELSE IF Bytes(id) # 32 THEN "panic"
         ELSE IF ~id.valid_key THEN "InvalidPublicKey"
         ELSE IF ~Decodes(signature) THEN "InvalidSignatureFormat"
         ELSE IF Bytes(signature) # 64 THEN "panic"
         ELSE IF ~signature.genuine THEN "InvalidSignature"
         ELSE "verified"

-----------------------------------------------------------------------------
GateInit ==
  /\ opened = {}
  /\ request = Absent
  /\ reply = Absent

\* handle_faucet: a verified claim opens the account if there is none.
Claim(id, signature) ==
  /\ request' = <<"faucet", id, signature>>
  /\ reply' = Verdict(id, signature)
  /\ opened' = IF Verdict(id, signature) = "verified"
                 THEN opened \union {id}
                 ELSE opened

\* handle_balance
Balance(id) ==
  /\ request' = <<"balance", id>>
  /\ reply' = IF id \in opened THEN "ok" ELSE "AccountNotFound"
  /\ UNCHANGED opened

\* What handle_transfer may answer, up to where its text ends: it looks at the
\* fields, the account, its balance (which may or may not cover the amount) and
\* the key.
TransferReplies(from, complete) ==
  IF from = Absent \/ ~complete THEN {"InvalidTransaction"}
  ELSE IF from \notin opened THEN {"AccountNotFound"}
  ELSE {"InvalidTransaction",
        IF ~Decodes(from) THEN "InvalidAccountIdFormat"
        ELSE IF Bytes(from) # 32 THEN "panic"
        ELSE IF ~from.valid_key THEN "InvalidPublicKey"
        ELSE "to verify"}

\* complete: the fields other than from are there, with their types.
Transfer(from, complete) ==
  /\ request' = <<"transfer", from, complete>>
  /\ reply' \in TransferReplies(from, complete)
  /\ UNCHANGED opened

GateNext ==
  \/ \E id \in Text \union {Absent}, signature \in Signed \union {Absent} :
       Claim(id, signature)
  \/ \E id \in Text : Balance(id)
  \/ \E from \in Text \union {Absent}, complete \in BOOLEAN :
       Transfer(from, complete)

GateSpec == GateInit /\ [][GateNext]_gate

-----------------------------------------------------------------------------
\* Every variable has its type: only texts that a client sent become accounts, and
\* only after the checks of lines 182-210.
GateTypeOK ==
  /\ opened \subseteq Text
  /\ reply \in {Absent, "MissingAccountId", "MissingSignature",
               "InvalidAccountIdFormat", "InvalidPublicKey",
               "InvalidSignatureFormat", "InvalidSignature", "verified",
               "panic", "ok", "AccountNotFound", "InvalidTransaction",
               "to verify"}

\* The id that the checks of lines 191 and 197-198 would have to agree on does
\* not exist: 32 to 44 base-58 digits are 16 to 22 bytes in hexadecimal, never
\* a key's 32.  So no account is ever opened, and no balance or transfer gets
\* past AccountNotFound.
NothingGetsThrough ==
  /\ opened = {}
  /\ reply \notin {"verified", "ok", "to verify"}

=============================================================================
