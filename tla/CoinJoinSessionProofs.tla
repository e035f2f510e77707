------------------------ MODULE CoinJoinSessionProofs ------------------------
(***************************************************************************)
(* Proofs about CoinJoinSession, for any people, inputs, outputs and       *)
(* timeout, and any number of clock changes.  The counts are kept in order *)
(* because each stage ends at the first call that fills it: StageInv says  *)
(* of every open stage how full each list is.                              *)
(***************************************************************************)
EXTENDS CoinJoinSession, FiniteSetTheorems, TLAPS

Unsigned == session.signatures = <<>> /\ session.final_txid = NoTxid

StageInv ==
  /\ Joined \in Nat \ {0}
  /\ session.status \in Open \ {"Waiting"} => Joined >= session.min_participants
  /\ session.status = "Waiting"
       => Unsigned /\ session.inputs = <<>> /\ session.outputs = <<>>
  /\ session.status = "CollectingInputs"
       => Unsigned /\ Len(session.inputs) < Joined /\ session.outputs = <<>>
  /\ session.status = "CollectingOutputs"
       => Unsigned /\ Len(session.inputs) = Joined /\ Len(session.outputs) < Joined
  /\ session.status = "CollectingSignatures"
       => /\ session.final_txid = NoTxid
          /\ Len(session.inputs) = Joined
          /\ Len(session.outputs) = Joined
          /\ Len(session.signatures) < Joined
  /\ session.status = "Broadcasting"
       => /\ session.final_txid = NoTxid
          /\ Len(session.inputs) = Joined
          /\ Len(session.outputs) = Joined
          /\ Len(session.signatures) = Joined

IInv == TypeOK /\ StageInv /\ StagesFillInOrder /\ TransactionIsComplete

-----------------------------------------------------------------------------
(* Facts about one session, whoever calls its methods.                     *)

SessionType ==
  [status : Status, min_participants : Minima,
   max_participants : Maxima, participants : SUBSET People,
   inputs : Seq(Inputs), outputs : Seq(Outputs),
   signatures : Seq(Nat), final_txid : Txids \union {NoTxid},
   idle : Int]

LEMMA ZeroIsInt == 0 \in Int
OBVIOUS

LEMMA NewSessionType ==
  ASSUME NEW min \in Minima, NEW max \in Maxima
  PROVE  NewSession(min, max) \in SessionType
BY DEF NewSession, SessionType, Status, Open

LEMMA JoiningCounts ==
  ASSUME NEW s \in SessionType, NEW p \in People
  PROVE  Cardinality(s.participants \union {p}) \in Nat \ {0}
<1> DEFINE joined == s.participants \union {p}
<1>1. joined \subseteq People
  BY DEF SessionType
<1>2. IsFiniteSet(joined)
  BY <1>1, PeopleAssumption, FS_Subset
<1>3. Cardinality(joined) \in Nat
  BY <1>2, FS_CardinalityType
<1>4. Cardinality(joined) # 0
  BY <1>2, FS_EmptySet
<1> QED
  BY <1>3, <1>4

LEMMA WithParticipantEffect ==
  ASSUME NEW s \in SessionType, NEW p \in People
  PROVE  LET t == WithParticipant(s, p)
         IN  /\ t \in SessionType
             /\ t.inputs = s.inputs /\ t.outputs = s.outputs
             /\ t.signatures = s.signatures /\ t.final_txid = s.final_txid
             /\ t.min_participants = s.min_participants
             /\ Cardinality(t.participants) \in Nat \ {0}
             /\ \/ t.status = s.status
                \/ /\ t.status = "CollectingInputs"
                   /\ Cardinality(t.participants) >= s.min_participants
<1> DEFINE joined == s.participants \union {p}
           t == WithParticipant(s, p)
<1>1. joined \subseteq People
  BY DEF SessionType
<1>2. t.participants = joined
  BY DEF WithParticipant, SessionType
<1>3. t \in SessionType
  <2> DEFINE status == IF Cardinality(joined) >= s.min_participants
                       THEN "CollectingInputs" ELSE s.status
  <2>1. status \in Status
    BY DEF SessionType, Status, Open
  <2>2. t = [s EXCEPT !.participants = joined, !.idle = 0, !.status = status]
    BY DEF WithParticipant
  <2> HIDE DEF joined, status, t
  <2> QED
    BY <1>1, <2>1, <2>2, ZeroIsInt, Zenon DEF SessionType
<1>4. Cardinality(joined) \in Nat \ {0}
  BY JoiningCounts
<1>5. /\ t.inputs = s.inputs /\ t.outputs = s.outputs
      /\ t.signatures = s.signatures /\ t.final_txid = s.final_txid
      /\ t.min_participants = s.min_participants
  BY DEF WithParticipant, SessionType
<1>6. \/ t.status = s.status
      \/ /\ t.status = "CollectingInputs"
         /\ Cardinality(joined) >= s.min_participants
  BY DEF WithParticipant, SessionType
<1> QED
  BY <1>2, <1>3, <1>4, <1>5, <1>6

LEMMA WithInputEffect ==
  ASSUME NEW s \in SessionType, NEW input \in Inputs
  PROVE  LET t == WithInput(s, input)
         IN  /\ t \in SessionType
             /\ Len(t.inputs) = Len(s.inputs) + 1
             /\ t.participants = s.participants
             /\ t.min_participants = s.min_participants
             /\ t.outputs = s.outputs /\ t.signatures = s.signatures
             /\ t.final_txid = s.final_txid
             /\ t.status = IF Len(t.inputs) >= Cardinality(s.participants)
                           THEN "CollectingOutputs" ELSE s.status
<1> DEFINE t == WithInput(s, input)
           pushed == Append(s.inputs, input)
<1>1. pushed \in Seq(Inputs) /\ Len(pushed) = Len(s.inputs) + 1
  BY DEF SessionType
<1>2. t.inputs = pushed
  BY DEF WithInput, SessionType
<1> HIDE DEF pushed
<1>3. t \in SessionType
  <2> DEFINE status == IF Len(pushed) >= Cardinality(s.participants)
                       THEN "CollectingOutputs" ELSE s.status
  <2>1. status \in Status
    BY DEF SessionType, Status, Open
  <2>2. t = [s EXCEPT !.inputs = pushed, !.idle = 0, !.status = status]
    BY DEF WithInput, pushed
  <2> HIDE DEF status, t
  <2> QED
    BY <1>1, <2>1, <2>2, ZeroIsInt, Zenon DEF SessionType
<1>4. /\ t.participants = s.participants
      /\ t.min_participants = s.min_participants
      /\ t.outputs = s.outputs /\ t.signatures = s.signatures
      /\ t.final_txid = s.final_txid
  BY DEF WithInput, SessionType
<1>5. t.status = IF Len(pushed) >= Cardinality(s.participants) THEN "CollectingOutputs" ELSE s.status
  BY DEF WithInput, pushed, SessionType
<1> QED
  BY <1>1, <1>2, <1>3, <1>4, <1>5

LEMMA WithOutputEffect ==
  ASSUME NEW s \in SessionType, NEW output \in Outputs
  PROVE  LET t == WithOutput(s, output)
         IN  /\ t \in SessionType
             /\ Len(t.outputs) = Len(s.outputs) + 1
             /\ t.participants = s.participants
             /\ t.min_participants = s.min_participants
             /\ t.inputs = s.inputs /\ t.signatures = s.signatures
             /\ t.final_txid = s.final_txid
             /\ t.status = IF Len(t.outputs) >= Cardinality(s.participants)
                           THEN "CollectingSignatures" ELSE s.status
<1> DEFINE t == WithOutput(s, output)
           pushed == Append(s.outputs, output)
<1>1. pushed \in Seq(Outputs) /\ Len(pushed) = Len(s.outputs) + 1
  BY DEF SessionType
<1>2. t.outputs = pushed
  BY DEF WithOutput, SessionType
<1> HIDE DEF pushed
<1>3. t \in SessionType
  <2> DEFINE status == IF Len(pushed) >= Cardinality(s.participants)
                       THEN "CollectingSignatures" ELSE s.status
  <2>1. status \in Status
    BY DEF SessionType, Status, Open
  <2>2. t = [s EXCEPT !.outputs = pushed, !.idle = 0, !.status = status]
    BY DEF WithOutput, pushed
  <2> HIDE DEF status, t
  <2> QED
    BY <1>1, <2>1, <2>2, ZeroIsInt, Zenon DEF SessionType
<1>4. /\ t.participants = s.participants
      /\ t.min_participants = s.min_participants
      /\ t.inputs = s.inputs /\ t.signatures = s.signatures
      /\ t.final_txid = s.final_txid
  BY DEF WithOutput, SessionType
<1>5. t.status = IF Len(pushed) >= Cardinality(s.participants) THEN "CollectingSignatures" ELSE s.status
  BY DEF WithOutput, pushed, SessionType
<1> QED
  BY <1>1, <1>2, <1>3, <1>4, <1>5

LEMMA WithSignatureEffect ==
  ASSUME NEW s \in SessionType, NEW input_index \in Nat
  PROVE  LET t == WithSignature(s, input_index)
         IN  /\ t \in SessionType
             /\ Len(t.signatures) = Len(s.signatures) + 1
             /\ t.participants = s.participants
             /\ t.min_participants = s.min_participants
             /\ t.inputs = s.inputs /\ t.outputs = s.outputs
             /\ t.final_txid = s.final_txid
             /\ t.status = IF Len(t.signatures) >= Len(s.inputs)
                           THEN "Broadcasting" ELSE s.status
<1> DEFINE t == WithSignature(s, input_index)
           pushed == Append(s.signatures, input_index)
<1>1. pushed \in Seq(Nat) /\ Len(pushed) = Len(s.signatures) + 1
  BY DEF SessionType
<1>2. t.signatures = pushed
  BY DEF WithSignature, SessionType
<1> HIDE DEF pushed
<1>3. t \in SessionType
  <2> DEFINE status == IF Len(pushed) >= Len(s.inputs)
                       THEN "Broadcasting" ELSE s.status
  <2>1. status \in Status
    BY DEF SessionType, Status, Open
  <2>2. t = [s EXCEPT !.signatures = pushed, !.idle = 0, !.status = status]
    BY DEF WithSignature, pushed
  <2> HIDE DEF status, t
  <2> QED
    BY <1>1, <2>1, <2>2, ZeroIsInt, Zenon DEF SessionType
<1>4. /\ t.participants = s.participants
      /\ t.min_participants = s.min_participants
      /\ t.inputs = s.inputs /\ t.outputs = s.outputs
      /\ t.final_txid = s.final_txid
  BY DEF WithSignature, SessionType
<1>5. t.status = IF Len(pushed) >= Len(s.inputs) THEN "Broadcasting" ELSE s.status
  BY DEF WithSignature, pushed, SessionType
<1> QED
  BY <1>1, <1>2, <1>3, <1>4, <1>5

-----------------------------------------------------------------------------
LEMMA InitIInv == Init => IInv
<1> SUFFICES ASSUME Init PROVE IInv
  OBVIOUS
<1>1. PICK min \in Minima, max \in Maxima, creator \in People :
        session = WithParticipant(NewSession(min, max), creator)
  BY DEF Init, Created
<1>2. /\ session \in SessionType
      /\ Joined \in Nat \ {0}
      /\ session.inputs = <<>> /\ session.outputs = <<>> /\ Unsigned
      /\ \/ session.status = "Waiting"
         \/ /\ session.status = "CollectingInputs"
            /\ Joined >= session.min_participants
  BY <1>1, NewSessionType, WithParticipantEffect DEF NewSession, Joined, Unsigned
<1>3. TypeOK
  BY <1>2, NumbersAssumption DEF Init, TypeOK, SessionType, Unsigned
<1>4. StageInv
  BY <1>2 DEF StageInv, Open
<1>5. StagesFillInOrder /\ TransactionIsComplete
  BY <1>2 DEF StagesFillInOrder, TransactionIsComplete, Unsigned
<1> QED
  BY <1>3, <1>4, <1>5 DEF IInv

LEMMA IInvStep == IInv /\ [Next]_vars => IInv'
<1> SUFFICES ASSUME IInv, [Next]_vars PROVE IInv'
  OBVIOUS
<1>0. session \in SessionType /\ Joined \in Nat /\ session.min_participants \in Nat
  BY NumbersAssumption DEF IInv, TypeOK, SessionType, StageInv
<1>1. ASSUME NEW p \in People, AddParticipant(p)
      PROVE  IInv'
  <2>1. /\ session' \in SessionType
        /\ Joined' \in Nat \ {0}
        /\ session'.inputs = <<>> /\ session'.outputs = <<>> /\ Unsigned'
        /\ \/ session'.status = "Waiting"
           \/ /\ session'.status = "CollectingInputs"
              /\ Joined' >= session'.min_participants
    BY <1>0, <1>1, WithParticipantEffect
    DEF AddParticipant, IInv, StageInv, Unsigned, Joined
  <2>2. TypeOK'
    BY <1>1, <2>1 DEF AddParticipant, IInv, TypeOK, SessionType, Unsigned
  <2>3. StageInv'
    BY <2>1 DEF StageInv, Open
  <2>4. StagesFillInOrder' /\ TransactionIsComplete'
    BY <2>1 DEF StagesFillInOrder, TransactionIsComplete, Unsigned
  <2> QED
    BY <2>2, <2>3, <2>4 DEF IInv
<1>2. ASSUME NEW p \in People, NEW input \in Inputs, AddInput(p, input)
      PROVE  IInv'
  <2>1. /\ session' \in SessionType
        /\ Len(session'.inputs) = Len(session.inputs) + 1
        /\ session'.participants = session.participants
        /\ session'.min_participants = session.min_participants
        /\ session'.outputs = session.outputs
        /\ session'.signatures = session.signatures
        /\ session'.final_txid = session.final_txid
        /\ session'.status = IF Len(session'.inputs) >= Joined
                             THEN "CollectingOutputs" ELSE "CollectingInputs"
    BY <1>0, <1>2, WithInputEffect DEF AddInput, Joined
  <2>2. TypeOK'
    BY <1>2, <2>1 DEF AddInput, IInv, TypeOK, SessionType
  <2>3. Joined' = Joined /\ Len(session.inputs) \in Nat
    BY <1>0, <2>1 DEF Joined, SessionType
  <2>4. /\ Unsigned /\ Len(session.inputs) < Joined /\ session.outputs = <<>>
        /\ Joined >= session.min_participants /\ Joined \in Nat \ {0}
    BY <1>2 DEF AddInput, IInv, StageInv, Open
  <2>5. StageInv'
    BY <1>0, <2>1, <2>3, <2>4 DEF StageInv, Open, Unsigned
  <2>6. StagesFillInOrder' /\ TransactionIsComplete'
    BY <1>0, <2>1, <2>3, <2>4 DEF StagesFillInOrder, TransactionIsComplete, Unsigned
  <2> QED
    BY <2>2, <2>5, <2>6 DEF IInv
<1>3. ASSUME NEW output \in Outputs, AddOutput(output)
      PROVE  IInv'
  <2>1. /\ session' \in SessionType
        /\ Len(session'.outputs) = Len(session.outputs) + 1
        /\ session'.participants = session.participants
        /\ session'.min_participants = session.min_participants
        /\ session'.inputs = session.inputs
        /\ session'.signatures = session.signatures
        /\ session'.final_txid = session.final_txid
        /\ session'.status = IF Len(session'.outputs) >= Joined
                             THEN "CollectingSignatures" ELSE "CollectingOutputs"
    BY <1>0, <1>3, WithOutputEffect DEF AddOutput, Joined
  <2>2. TypeOK'
    BY <1>3, <2>1 DEF AddOutput, IInv, TypeOK, SessionType
  <2>3. Joined' = Joined /\ Len(session.outputs) \in Nat
    BY <1>0, <2>1 DEF Joined, SessionType
  <2>4. /\ Unsigned /\ Len(session.inputs) = Joined
        /\ Len(session.outputs) < Joined
        /\ Joined >= session.min_participants /\ Joined \in Nat \ {0}
    BY <1>3 DEF AddOutput, IInv, StageInv, Open
  <2>5. StageInv'
    BY <1>0, <2>1, <2>3, <2>4 DEF StageInv, Open, Unsigned
  <2>6. StagesFillInOrder' /\ TransactionIsComplete'
    BY <1>0, <2>1, <2>3, <2>4 DEF StagesFillInOrder, TransactionIsComplete, Unsigned
  <2> QED
    BY <2>2, <2>5, <2>6 DEF IInv
<1>4. ASSUME NEW input_index \in 0..Cardinality(People), AddSignature(input_index)
      PROVE  IInv'
  <2>0. input_index \in Nat
    OBVIOUS
  <2>1. /\ session' \in SessionType
        /\ Len(session'.signatures) = Len(session.signatures) + 1
        /\ session'.participants = session.participants
        /\ session'.min_participants = session.min_participants
        /\ session'.inputs = session.inputs
        /\ session'.outputs = session.outputs
        /\ session'.final_txid = session.final_txid
        /\ session'.status = IF Len(session'.signatures) >= Len(session.inputs)
                             THEN "Broadcasting" ELSE "CollectingSignatures"
    BY <1>0, <1>4, <2>0, WithSignatureEffect DEF AddSignature, Joined
  <2>2. TypeOK'
    <3>1. /\ session.signatures \in Seq(Nat)
          /\ session'.signatures = Append(session.signatures, input_index)
          /\ input_index < Len(session'.inputs)
      BY <1>0, <1>4, <2>1 DEF AddSignature, WithSignature, SessionType
    <3>2. \A n \in DOMAIN session.signatures :
            session.signatures[n] < Len(session'.inputs)
      BY <2>1 DEF IInv, TypeOK
    <3>3. \A n \in DOMAIN session'.signatures :
            session'.signatures[n] < Len(session'.inputs)
      BY <2>0, <3>1, <3>2
    <3> QED
      BY <1>4, <2>1, <3>3 DEF AddSignature, IInv, TypeOK, SessionType
  <2>3. Joined' = Joined /\ Len(session.signatures) \in Nat
    BY <1>0, <2>1 DEF Joined, SessionType
  <2>4. /\ session.final_txid = NoTxid
        /\ Len(session.inputs) = Joined /\ Len(session.outputs) = Joined
        /\ Len(session.signatures) < Joined
        /\ Joined >= session.min_participants /\ Joined \in Nat \ {0}
    BY <1>4 DEF AddSignature, IInv, StageInv, Open
  <2>5. StageInv'
    BY <1>0, <2>1, <2>3, <2>4 DEF StageInv, Open
  <2>6. StagesFillInOrder' /\ TransactionIsComplete'
    BY <1>0, <2>1, <2>3, <2>4 DEF StagesFillInOrder, TransactionIsComplete
  <2> QED
    BY <2>2, <2>5, <2>6 DEF IInv
\* The other steps leave the lists alone and close the session, or age it.
<1>5. ASSUME session' \in SessionType, backsteps' \in 0..MaxBacksteps,
             session'.participants = session.participants,
             session'.min_participants = session.min_participants,
             session'.inputs = session.inputs,
             session'.outputs = session.outputs,
             session'.signatures = session.signatures
      PROVE  /\ TypeOK' /\ StagesFillInOrder' /\ Joined' = Joined
             /\ session'.final_txid = session.final_txid => TransactionIsComplete'
             /\ session'.status \notin Open => StageInv'
             /\ session'.status = session.status
                /\ session'.final_txid = session.final_txid => StageInv'
  <2>1. Joined' = Joined
    BY <1>5 DEF Joined
  <2>2. TypeOK'
    <3>1. \A n \in DOMAIN session'.signatures :
            session'.signatures[n] < Len(session'.inputs)
      BY <1>5 DEF IInv, TypeOK
    <3> QED
      BY <1>5, <3>1 DEF TypeOK, SessionType
  <2>3. session'.status \notin Open => StageInv'
    BY <2>1 DEF IInv, StageInv, Open
  <2>4. session'.status = session.status
        /\ session'.final_txid = session.final_txid => StageInv'
    BY <1>5, <2>1 DEF IInv, StageInv, Unsigned
  <2>5. StagesFillInOrder'
    BY <1>5, <2>1 DEF IInv, StagesFillInOrder
  <2>6. session'.final_txid = session.final_txid => TransactionIsComplete'
    BY <1>5, <2>1 DEF IInv, TransactionIsComplete
  <2> QED
    BY <2>1, <2>2, <2>3, <2>4, <2>5, <2>6
<1>6. ASSUME NEW txid \in Txids, Complete(txid)
      PROVE  IInv'
  <2>1. /\ session' \in SessionType /\ backsteps' \in 0..MaxBacksteps
        /\ session'.status \notin Open
    <3>1. session' \in SessionType
      <4>1. txid \in Txids \union {NoTxid} /\ "Completed" \in Status
        BY DEF Status
      <4> QED
        BY <1>0, <1>6, <4>1, ZeroIsInt, Zenon DEF Complete, SessionType
    <3> QED
      BY <1>0, <1>6, <3>1 DEF Complete, SessionType, Open, IInv, TypeOK
  <2>2. /\ session'.participants = session.participants
        /\ session'.min_participants = session.min_participants
        /\ session'.inputs = session.inputs
        /\ session'.outputs = session.outputs
        /\ session'.signatures = session.signatures
    BY <1>0, <1>6 DEF Complete, SessionType
  <2>3. TypeOK' /\ StagesFillInOrder' /\ StageInv' /\ Joined' = Joined
    BY <1>5, <2>1, <2>2
  <2>4. TransactionIsComplete'
    BY <1>6, <2>2, <2>3
    DEF Complete, IInv, StageInv, TransactionIsComplete, Open
  <2> QED
    BY <2>3, <2>4 DEF IInv
<1>7. CASE Fail \/ CheckTimeout
  <2>1. /\ session' \in SessionType /\ backsteps' \in 0..MaxBacksteps
        /\ session'.status \notin Open
    <3>1. session' \in SessionType
      <4>1. "Failed" \in Status /\ "TimedOut" \in Status
        BY DEF Status
      <4> QED
        BY <1>0, <1>7, <4>1, ZeroIsInt, Zenon DEF Fail, CheckTimeout, SessionType
    <3> QED
      BY <1>0, <1>7, <3>1 DEF Fail, CheckTimeout, SessionType, Open, IInv, TypeOK
  <2>2. /\ session'.participants = session.participants
        /\ session'.min_participants = session.min_participants
        /\ session'.inputs = session.inputs
        /\ session'.outputs = session.outputs
        /\ session'.signatures = session.signatures
        /\ session'.final_txid = session.final_txid
    BY <1>0, <1>7 DEF Fail, CheckTimeout, SessionType
  <2> QED
    BY <1>5, <2>1, <2>2 DEF IInv
<1>8. CASE Tick \/ StepBack
  <2>1. session' \in SessionType
    <3>1. session.idle + 1 \in Int /\ session.idle - 1 \in Int
      BY <1>0 DEF SessionType
    <3> QED
      BY <1>0, <1>8, <3>1, Zenon DEF Tick, StepBack, SessionType
  <2>2. backsteps' \in 0..MaxBacksteps
    BY <1>8, NumbersAssumption DEF Tick, StepBack, IInv, TypeOK
  <2>3. /\ session'.participants = session.participants
        /\ session'.min_participants = session.min_participants
        /\ session'.inputs = session.inputs
        /\ session'.outputs = session.outputs
        /\ session'.signatures = session.signatures
        /\ session'.final_txid = session.final_txid
        /\ session'.status = session.status
    BY <1>0, <1>8 DEF Tick, StepBack, SessionType
  <2> QED
    BY <1>5, <2>1, <2>2, <2>3 DEF IInv
<1>9. CASE UNCHANGED vars
  <2>1. session' = session /\ backsteps' = backsteps
    BY <1>9 DEF vars
  <2> QED
    BY <1>0, <1>5, <2>1 DEF IInv, TypeOK
<1> QED
  BY <1>1, <1>2, <1>3, <1>4, <1>6, <1>7, <1>8, <1>9 DEF Next

LEMMA Invariance == Spec => []IInv
BY InitIInv, IInvStep, PTL DEF Spec

\* Every variable has its type.
THEOREM TypeCorrect == Spec => []TypeOK
BY Invariance, PTL DEF IInv

\* The stages fill in their order and to their size (coinjoin.rs:142-225).
THEOREM StagesHold == Spec => []StagesFillInOrder
BY Invariance, PTL DEF IInv

\* Only a session that went through every stage gets a transaction id
\* (coinjoin.rs:215-225).
THEOREM TransactionHolds == Spec => []TransactionIsComplete
BY Invariance, PTL DEF IInv

-----------------------------------------------------------------------------
\* Nothing joins a transaction that someone has signed (coinjoin.rs:159-212).
THEOREM FrozenOnceSigned == Spec => SignedIsFrozen
<1> DEFINE Frozen ==
      session.signatures # <<>>
        => /\ session'.participants = session.participants
           /\ session'.inputs = session.inputs
           /\ session'.outputs = session.outputs
<1>1. IInv /\ [Next]_vars => [Frozen]_vars
  <2> SUFFICES ASSUME IInv, [Next]_vars, session.signatures # <<>>
               PROVE  /\ session'.participants = session.participants
                      /\ session'.inputs = session.inputs
                      /\ session'.outputs = session.outputs
    OBVIOUS
  <2>1. session \in SessionType
    BY DEF IInv, TypeOK, SessionType
  <2>2. session.status \notin {"Waiting", "CollectingInputs", "CollectingOutputs"}
    BY DEF IInv, StageInv, Unsigned
  <2> QED
    BY <2>1, <2>2
    DEF Next, AddParticipant, AddInput, AddOutput, AddSignature, WithSignature,
        Complete, Fail, CheckTimeout, Tick, StepBack, vars, SessionType
<1> QED
  BY <1>1, Invariance, PTL DEF Spec, SignedIsFrozen

\* A transaction id is final (coinjoin.rs:215-231).
THEOREM TxidIsFinal == Spec => TxidIsSetOnce
<1> DEFINE Final ==
      session.final_txid # NoTxid => session'.final_txid = session.final_txid
<1>1. IInv /\ [Next]_vars => [Final]_vars
  <2> SUFFICES ASSUME IInv, [Next]_vars, session.final_txid # NoTxid
               PROVE  session'.final_txid = session.final_txid
    OBVIOUS
  <2>1. session \in SessionType
    BY DEF IInv, TypeOK, SessionType
  <2>2. session.status \notin Open
    BY <2>1 DEF IInv, StageInv, Unsigned, Open
  <2> QED
    BY <2>1, <2>2
    DEF Next, AddParticipant, AddInput, AddOutput, AddSignature, Open,
        Complete, Fail, CheckTimeout, Tick, StepBack, vars, SessionType
<1> QED
  BY <1>1, Invariance, PTL DEF Spec, TxidIsSetOnce

=============================================================================
