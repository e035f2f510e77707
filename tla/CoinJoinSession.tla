--------------------------- MODULE CoinJoinSession ---------------------------
(***************************************************************************)
(* One CoinJoin session of src/coinjoin.rs: the methods of CoinJoinSession *)
(* as operators from a session to the session they leave, and the machine  *)
(* of all their calls.  A session is an entry of a DashMap, inside a       *)
(* manager behind a Mutex: a call has it to itself, so a call is a step.   *)
(*                                                                         *)
(* The methods answer false, and change nothing, where the guard fails.    *)
(* Times enter only as now - last_active, so that is what a session keeps, *)
(* as idle; it is negative when the clock has been set back.               *)
(***************************************************************************)
EXTENDS Integers, Sequences, FiniteSets

CONSTANTS
  People,       \* participant ids
  Inputs,       \* TxInputs
  Outputs,      \* TxOutputs
  Txids,        \* ids of broadcast transactions
  NoTxid,       \* final_txid's None
  Minima,       \* min_participants a request may ask for
  Maxima,       \* max_participants a request may ask for
  Timeout,      \* timeout in seconds
  MaxBacksteps  \* bound: how often the system clock is set back

ASSUME NumbersAssumption ==
  /\ Minima \subseteq Nat /\ Maxima \subseteq Nat
  /\ Timeout \in Nat /\ MaxBacksteps \in Nat
ASSUME PeopleAssumption == IsFiniteSet(People)
ASSUME NoTxidAssumption == NoTxid \notin Txids

Open == {"Waiting", "CollectingInputs", "CollectingOutputs",
         "CollectingSignatures", "Broadcasting"}
Status == Open \union {"Completed", "Failed", "TimedOut"}

-----------------------------------------------------------------------------
(* The methods of a session.                                               *)

\* CoinJoinSession::new
NewSession(min, max) ==
  [status |-> "Waiting", min_participants |-> min, max_participants |-> max,
   participants |-> {}, inputs |-> <<>>, outputs |-> <<>>, signatures |-> <<>>,
   final_txid |-> NoTxid, idle |-> 0]

\* add_participant
WithParticipant(s, p) ==
  LET joined == s.participants \union {p}
  IN  [s EXCEPT !.participants = joined,
                !.idle = 0,
                !.status = IF Cardinality(joined) >= s.min_participants
                           THEN "CollectingInputs" ELSE @]

\* add_input
WithInput(s, input) ==
  LET pushed == Append(s.inputs, input)
  IN  [s EXCEPT !.inputs = pushed,
                !.idle = 0,
                !.status = IF Len(pushed) >= Cardinality(s.participants)
                           THEN "CollectingOutputs" ELSE @]

\* Mutant: the stage asks for one output too many.
WithOutputBeyond(s, output) ==
  LET pushed == Append(s.outputs, output)
  IN  [s EXCEPT !.outputs = pushed,
                !.idle = 0,
                !.status = IF Len(pushed) > Cardinality(s.participants)
                           THEN "CollectingSignatures" ELSE @]

\* add_output
WithOutput(s, output) ==
  LET pushed == Append(s.outputs, output)
  IN  [s EXCEPT !.outputs = pushed,
                !.idle = 0,
                !.status = IF Len(pushed) >= Cardinality(s.participants)
                           THEN "CollectingSignatures" ELSE @]

\* add_signature: of a signature only the input's index is ever looked at.
WithSignature(s, input_index) ==
  LET pushed == Append(s.signatures, input_index)
  IN  [s EXCEPT !.signatures = pushed,
                !.idle = 0,
                !.status = IF Len(pushed) >= Len(s.inputs)
                           THEN "Broadcasting" ELSE @]

\* check_timeout: now - last_active wraps around when it is negative.
IsExpired(s) == s.idle > Timeout \/ s.idle < 0

\* create_session: the creator is the first participant.
Created(min, max, creator) == WithParticipant(NewSession(min, max), creator)

-----------------------------------------------------------------------------
VARIABLES
  session,
  backsteps   \* what MaxBacksteps counts

vars == <<session, backsteps>>

Init ==
  /\ \E min \in Minima, max \in Maxima, creator \in People :
       session = Created(min, max, creator)
  /\ backsteps = 0

AddParticipant(p) ==
  /\ session.status = "Waiting"
  /\ session' = WithParticipant(session, p)
  /\ UNCHANGED backsteps

\* The manager asks that the sender be a participant, not that the input be
\* the sender's.
AddInput(p, input) ==
  /\ p \in session.participants
  /\ session.status = "CollectingInputs"
  /\ session' = WithInput(session, input)
  /\ UNCHANGED backsteps

\* Mutant: an output is also accepted while signatures are collected.
AddOutputLate(output) ==
  /\ session.status \in {"CollectingOutputs", "CollectingSignatures"}
  /\ session' = WithOutput(session, output)
  /\ UNCHANGED backsteps

AddOutput(output) ==
  /\ session.status = "CollectingOutputs"
  /\ session' = WithOutput(session, output)
  /\ UNCHANGED backsteps

\* Mutant: the index may be one past the inputs.
AddSignaturePast(input_index) ==
  /\ session.status = "CollectingSignatures"
  /\ input_index <= Len(session.inputs)
  /\ session' = WithSignature(session, input_index)
  /\ UNCHANGED backsteps

AddSignature(input_index) ==
  /\ session.status = "CollectingSignatures"
  /\ input_index < Len(session.inputs)
  /\ session' = WithSignature(session, input_index)
  /\ UNCHANGED backsteps

\* Mutant: a session can be completed while signatures are missing.
CompleteEarly(txid) ==
  /\ session.status \in {"CollectingSignatures", "Broadcasting"}
  /\ session' = [session EXCEPT !.final_txid = txid, !.status = "Completed",
                                !.idle = 0]
  /\ UNCHANGED backsteps

\* Mutant: a session that has timed out can be completed.
CompleteLate(txid) ==
  /\ session.status \in {"Broadcasting", "TimedOut"}
  /\ session' = [session EXCEPT !.final_txid = txid, !.status = "Completed",
                                !.idle = 0]
  /\ UNCHANGED backsteps

Complete(txid) ==
  /\ session.status = "Broadcasting"
  /\ session' = [session EXCEPT !.final_txid = txid, !.status = "Completed",
                                !.idle = 0]
  /\ UNCHANGED backsteps

\* fail has no guard: whatever the session's status was, it is lost.
Fail ==
  /\ session' = [session EXCEPT !.status = "Failed", !.idle = 0]
  /\ UNCHANGED backsteps

\* Nor does check_timeout look at the status.
CheckTimeout ==
  /\ IsExpired(session)
  /\ session' = [session EXCEPT !.status = "TimedOut"]
  /\ UNCHANGED backsteps

\* A second passes; beyond the timeout all ages are alike.
Tick ==
  /\ session.idle <= Timeout
  /\ session' = [session EXCEPT !.idle = @ + 1]
  /\ UNCHANGED backsteps

\* The system clock is set back by a second.
StepBack ==
  /\ backsteps < MaxBacksteps
  /\ session' = [session EXCEPT !.idle = @ - 1]
  /\ backsteps' = backsteps + 1

Next ==
  \/ \E p \in People : AddParticipant(p)
  \/ \E p \in People, input \in Inputs : AddInput(p, input)
  \/ \E output \in Outputs : AddOutput(output)
  \/ \E input_index \in 0..Cardinality(People) : AddSignature(input_index)
  \/ \E txid \in Txids : Complete(txid)
  \/ Fail
  \/ CheckTimeout
  \/ Tick
  \/ StepBack

Spec == Init /\ [][Next]_vars

-----------------------------------------------------------------------------
\* Every variable has its type; a signature's index is that of an input.
TypeOK ==
  /\ session \in [status : Status, min_participants : Minima,
                  max_participants : Maxima, participants : SUBSET People,
                  inputs : Seq(Inputs), outputs : Seq(Outputs),
                  signatures : Seq(Nat), final_txid : Txids \union {NoTxid},
                  idle : Int]
  /\ \A n \in DOMAIN session.signatures :
       session.signatures[n] < Len(session.inputs)
  /\ backsteps \in 0..MaxBacksteps

Joined == Cardinality(session.participants)

\* Each stage starts with the one before it full and ends when it is full: a
\* session never skips a stage nor takes one entry too many, and a session that
\* failed or timed out was in one of these stages (lines 142-225).
StagesFillInOrder ==
  /\ Len(session.inputs) <= Joined
  /\ Len(session.outputs) <= Joined
  /\ Len(session.signatures) <= Len(session.inputs)
  /\ session.inputs # <<>> => Joined >= session.min_participants
  /\ session.outputs # <<>> => Len(session.inputs) = Joined
  /\ session.signatures # <<>> => Len(session.outputs) = Joined

\* A session has a transaction id only if it went through all the stages, also
\* when fail or check_timeout has overwritten its status since.
TransactionIsComplete ==
  session.final_txid # NoTxid
    => /\ Joined >= session.min_participants
       /\ Len(session.inputs) = Joined
       /\ Len(session.outputs) = Joined
       /\ Len(session.signatures) = Joined

\* What has been signed does not change any more: no input or output joins the
\* transaction after its first signature, and no signature's index loses its
\* input (lines 159-212).
SignedIsFrozen ==
  [][session.signatures # <<>>
       => /\ session'.participants = session.participants
          /\ session'.inputs = session.inputs
          /\ session'.outputs = session.outputs]_vars

\* The id of the final transaction is set once: a session that fails or times
\* out after it was completed cannot be completed again.
TxidIsSetOnce ==
  [][session.final_txid # NoTxid => session'.final_txid = session.final_txid]_vars

-----------------------------------------------------------------------------
(* What a comment of coinjoin.rs says of it.                               *)

\* "If all the inputs are signed, go to the next stage" (line 206).
EveryInputIsSigned ==
  session.status = "Broadcasting"
    => \A k \in DOMAIN session.inputs :
         \E n \in DOMAIN session.signatures : session.signatures[n] = k - 1

=============================================================================
