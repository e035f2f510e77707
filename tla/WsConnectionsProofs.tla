------------------------- MODULE WsConnectionsProofs -------------------------
(***************************************************************************)
(* The counters of the WebSocket server for any number of connections, any *)
(* limit and rate, and any secrets and restarts: that a slot is neither    *)
(* lost nor handed out twice, and that all the connections together stay   *)
(* within the rate limiter.  A step changes the set of admitted tasks only *)
(* where it changes the counter.                                           *)
(***************************************************************************)
EXTENDS WsConnections, FiniteSetTheorems, TLAPS

CountInv == TypeOK /\ SlotsAreCounted

-----------------------------------------------------------------------------
LEMMA Constants ==
  /\ MaxConnections \in Nat /\ Quota \in Nat /\ MaxRefills \in Nat /\ MaxRestarts \in Nat
  /\ IsFiniteSet(Connections)
BY NumbersAssumption, ConnectionsAssumption, RestartsAssumption

\* A task that goes from one label to another, as the set of admitted tasks sees it.
LEMMA Moves ==
  ASSUME TypeOK, NEW c \in Connections, NEW label \in Tasks, Goto(c, label)
  PROVE  /\ task' \in [Connections -> Tasks]
         /\ Admitted' = IF label \in {"select", "count", "complaint", "reply", "leave"}
                        THEN Admitted \union {c} ELSE Admitted \ {c}
BY DEF TypeOK, Goto, Admitted

LEMMA Counting ==
  /\ IsFiniteSet(Admitted) /\ Cardinality(Admitted) \in Nat
  /\ \A c \in Connections :
       /\ c \notin Admitted => Cardinality(Admitted \union {c}) = Cardinality(Admitted) + 1
       /\ c \in Admitted => Cardinality(Admitted \ {c}) = Cardinality(Admitted) - 1
<1>1. IsFiniteSet(Admitted)
  BY Constants, FS_Subset DEF Admitted
<1> QED
  BY <1>1, FS_CardinalityType, FS_AddElement, FS_RemoveElement

\* The types hold, and the counter is the number of the admitted tasks.
LEMMA CountIsInductive == Spec => []CountInv
<1>1. Init => CountInv
  <2>1. Init => Admitted = {}
    BY DEF Init, Admitted
  <2> QED
    BY <2>1, Constants, FS_EmptySet DEF Init, ValidatorInit, CountInv, TypeOK, ValidatorTypeOK,
                            SlotsAreCounted, Tasks
<1>2. CountInv /\ [Next]_vars => CountInv'
  <2> SUFFICES ASSUME CountInv, [Next]_vars PROVE CountInv'
    OBVIOUS
  <2> USE DEF CountInv
  \* A step that moves an admitted task within the loop, or another outside it.
  <2>0. ASSUME NEW c \in Connections, NEW label \in Tasks, Goto(c, label),
               (c \in Admitted) <=> (label \in {"select", "count", "complaint", "reply", "leave"}),
               active_connections' = active_connections
        PROVE  task' \in [Connections -> Tasks] /\ SlotsAreCounted'
    <3>1. Admitted' = Admitted
      BY <2>0, Moves
    <3> QED
      BY <2>0, <3>1, Moves DEF SlotsAreCounted
  <2>1. ASSUME NEW c \in Connections,
               NEW tokens \in {{}} \union {{t} : t \in Token}, NEW expired \in BOOLEAN,
               Upgrade(c, tokens, expired)
        PROVE  CountInv'
    <3>1. c \notin Admitted
      BY <2>1 DEF Upgrade, At, Admitted
    <3>2. PICK label \in {"start", "goodbye"} : Goto(c, label)
      BY <2>1 DEF Upgrade
    <3>3. task' \in [Connections -> Tasks] /\ SlotsAreCounted'
      BY <2>1, <3>1, <3>2, <2>0 DEF Upgrade, state, Tasks
    <3> QED
      BY <2>1, <3>3 DEF Upgrade, TypeOK, ValidatorTypeOK, state, limiter, validator
  <2>2. ASSUME NEW c \in Connections, Admit(c)
        PROVE  CountInv'
    <3>1. c \notin Admitted
      BY <2>2 DEF Admit, At, Admitted
    <3>2. CASE active_connections >= MaxConnections
      <4>1. Goto(c, "goodbye") /\ active_connections' = active_connections
        BY <2>2, <3>2 DEF Admit
      <4>2. task' \in [Connections -> Tasks] /\ SlotsAreCounted'
        BY <4>1, <3>1, <2>0 DEF Tasks
      <4> QED
        BY <2>2, <4>1, <4>2 DEF Admit, TypeOK, ValidatorTypeOK, limiter, validator
    <3>3. CASE ~(active_connections >= MaxConnections)
      <4>1. Goto(c, "select") /\ active_connections' = active_connections + 1
        BY <2>2, <3>3 DEF Admit
      <4>2. task' \in [Connections -> Tasks] /\ Admitted' = Admitted \union {c}
        BY <4>1, Moves DEF Tasks
      <4>3. SlotsAreCounted'
        BY <3>1, <3>3, <4>1, <4>2, Constants, Counting DEF SlotsAreCounted, TypeOK
      <4> QED
        BY <2>2, <4>1, <4>2, <4>3, Constants DEF Admit, TypeOK, ValidatorTypeOK, limiter, validator
    <3> QED
      BY <3>2, <3>3
  <2>3. ASSUME NEW c \in Connections, Receive(c)
        PROVE  CountInv'
    <3>1. c \in Admitted
      BY <2>3 DEF Receive, At, Admitted
    <3>2. PICK label \in {"count", "complaint", "leave", "select"} : Goto(c, label)
      BY <2>3 DEF Receive, Passes, Answer, TypeOK, Message
    <3>3. task' \in [Connections -> Tasks] /\ SlotsAreCounted'
      BY <2>3, <3>1, <3>2, <2>0 DEF Receive, Tasks, state
    <3>4. cells' \in 0..Quota
      BY <2>3, Constants DEF Receive, CellsAfter, Passes, TypeOK
    <3> QED
      BY <2>3, <3>3, <3>4 DEF Receive, TypeOK, ValidatorTypeOK, state, validator
  <2>4. ASSUME NEW c \in Connections, StreamEnds(c) \/ Sent(c) \/ Heartbeat(c)
        PROVE  CountInv'
    <3>1. PICK label \in Tasks :
            /\ Goto(c, label)
            /\ (c \in Admitted) <=> (label \in {"select", "count", "complaint", "reply", "leave"})
      BY <2>4 DEF StreamEnds, Sent, Heartbeat, At, Admitted, Tasks
    <3>2. task' \in [Connections -> Tasks] /\ SlotsAreCounted'
      BY <2>4, <3>1, <2>0 DEF StreamEnds, Sent, Heartbeat, state
    <3> QED
      BY <2>4, <3>2 DEF StreamEnds, Sent, Heartbeat, TypeOK, ValidatorTypeOK,
                        state, limiter, validator
  <2>5. ASSUME NEW c \in Connections, Leave(c)
        PROVE  CountInv'
    <3>1. c \in Admitted
      BY <2>5 DEF Leave, At, Admitted
    <3>2. task' \in [Connections -> Tasks] /\ Admitted' = Admitted \ {c}
      BY <2>5, Moves DEF Leave, Tasks
    <3>3. Cardinality(Admitted) # 0
      BY <3>1, Counting, FS_EmptySet
    <3>4. SlotsAreCounted' /\ active_connections' \in Nat
      BY <2>5, <3>1, <3>2, <3>3, Constants, Counting DEF Leave, SlotsAreCounted, TypeOK
    <3> QED
      BY <2>5, <3>2, <3>4 DEF Leave, TypeOK, ValidatorTypeOK, limiter, validator
  <2>6. ASSUME NEW c \in Connections,
               \/ \E message \in Message : Send(c, message)
               \/ \E turn \in {"reads", "stalls", "gone"} : PeerTurns(c, turn)
        PROVE  CountInv'
    BY <2>6 DEF Send, PeerTurns, TypeOK, ValidatorTypeOK, SlotsAreCounted, Admitted,
                state, limiter, validator
  <2>7. CASE Refill
    BY <2>7, Constants DEF Refill, TypeOK, ValidatorTypeOK, SlotsAreCounted, Admitted, state, validator
  <2>8. ASSUME NEW token \in Token, Revoke(token)
        PROVE  CountInv'
    BY <2>8 DEF Revoke, RevokeToken, TypeOK, ValidatorTypeOK, SlotsAreCounted, Admitted,
                state, limiter
  <2>9. CASE Restart
    <3>1. Admitted' = {}
      BY <2>9 DEF Restart, Admitted, At
    <3>2. SlotsAreCounted'
      BY <2>9, <3>1, Constants, FS_EmptySet DEF Restart, SlotsAreCounted
    <3>3. task' \in [Connections -> Tasks]
      BY <2>9 DEF Restart, Tasks
    <3> QED
      BY <2>9, <3>2, <3>3, Constants DEF Restart, NewValidator, TypeOK, ValidatorTypeOK
  <2>11. ASSUME NEW c \in Connections, Count(c)
        PROVE  CountInv'
    <3>1. c \in Admitted /\ Goto(c, "reply") /\ active_connections' = active_connections
      BY <2>11 DEF Count, At, Admitted
    <3>2. task' \in [Connections -> Tasks] /\ SlotsAreCounted'
      BY <3>1, <2>0 DEF Tasks
    <3>3. message_count' \in Nat
      BY <2>11 DEF Count, TypeOK
    <3> QED
      BY <2>11, <3>2, <3>3 DEF Count, TypeOK, ValidatorTypeOK, limiter, validator
  <2>10. CASE UNCHANGED vars
    BY <2>10 DEF vars, TypeOK, ValidatorTypeOK, SlotsAreCounted, Admitted,
                 state, limiter, validator
  <2> QED
    BY <2>1, <2>2, <2>3, <2>4, <2>5, <2>6, <2>7, <2>8, <2>9, <2>10, <2>11 DEF Next, Handle
<1> QED
  BY <1>1, <1>2, PTL DEF Spec

THEOREM TypeCorrect == Spec => []TypeOK
BY CountIsInductive, PTL DEF CountInv

\* However connections are admitted, end, or go with the process, the counter is
\* their number and within the limit (ws.rs:198-208, 274).
THEOREM SlotsCount == Spec => []SlotsAreCounted
BY CountIsInductive, PTL DEF CountInv

-----------------------------------------------------------------------------
\* The tasks between the limiter and the count, as a step moves one of them.
LEMMA PassedMoves ==
  ASSUME TypeOK, NEW c \in Connections, NEW label, Goto(c, label)
  PROVE  Passed' = IF label = "count" THEN Passed \union {c} ELSE Passed \ {c}
BY DEF TypeOK, Goto, Passed, At

LEMMA PassedCounting ==
  /\ IsFiniteSet(Passed) /\ Cardinality(Passed) \in Nat
  /\ \A c \in Connections :
       /\ c \notin Passed => Cardinality(Passed \union {c}) = Cardinality(Passed) + 1
       /\ c \in Passed => Cardinality(Passed \ {c}) = Cardinality(Passed) - 1
       /\ Cardinality(Passed \ {c}) \in Nat
       /\ Cardinality(Passed \ {c}) <= Cardinality(Passed)
<1>1. IsFiniteSet(Passed)
  BY Constants, FS_Subset DEF Passed
<1> QED
  BY <1>1, FS_CardinalityType, FS_AddElement, FS_RemoveElement, FS_Subset

\* All connections together are answered at most the limiter's burst and what
\* was refilled: a text that is past the limiter has its cell, whoever counts
\* first (ws.rs:237-251).
THEOREM RateHolds == Spec => []RateIsShared
<1>1. Init => RateIsShared
  <2>1. Init => Passed = {}
    BY DEF Init, Passed, At
  <2> QED
    BY <2>1, Constants, FS_EmptySet DEF Init, RateIsShared
<1>2. TypeOK /\ RateIsShared /\ [Next]_vars => RateIsShared'
  <2> SUFFICES ASSUME TypeOK, RateIsShared, [Next]_vars PROVE RateIsShared'
    OBVIOUS
  <2> DEFINE n == Cardinality(Passed)
  <2>0. /\ message_count \in Nat /\ cells \in Nat /\ refills \in Nat /\ n \in Nat
        /\ Quota \in Nat /\ message_count + n + cells <= Quota + refills
    BY Constants, PassedCounting DEF TypeOK, RateIsShared
  <2>1. ASSUME NEW c \in Connections, Receive(c)
        PROVE  RateIsShared'
    <3>1. c \notin Passed
      BY <2>1 DEF Receive, Passed, At
    <3>2. CASE Passes(inbox[c])
      <4>1. /\ cells > 0 /\ cells' = cells - 1
            /\ message_count' = message_count /\ refills' = refills
        BY <2>1, <3>2 DEF Receive, CellsAfter, Passes, state
      <4>2. Passed' = Passed \union {c} \/ Passed' = Passed \ {c}
        BY <2>1, <3>2, PassedMoves DEF Receive
      <4>3. Cardinality(Passed') \in {n, n + 1}
        BY <3>1, <4>2, PassedCounting
      <4> HIDE DEF n
      <4> QED
        BY <2>0, <4>1, <4>3 DEF RateIsShared
    <3>3. CASE ~Passes(inbox[c])
      <4>1. /\ cells' = cells /\ message_count' = message_count /\ refills' = refills
            /\ Goto(c, "complaint")
        BY <2>1, <3>3 DEF Receive, CellsAfter, state
      <4>2. Passed' = Passed
        BY <3>1, <4>1, PassedMoves
      <4> QED
        BY <4>1, <4>2 DEF RateIsShared
    <3> QED
      BY <3>2, <3>3
  <2>2. ASSUME NEW c \in Connections, Count(c)
        PROVE  RateIsShared'
    <3>1. /\ c \in Passed /\ Goto(c, "reply") /\ message_count' = message_count + 1
          /\ cells' = cells /\ refills' = refills
      BY <2>2 DEF Count, Passed, At, limiter
    <3>2. Cardinality(Passed') = n - 1
      BY <3>1, PassedMoves, PassedCounting
    <3> HIDE DEF n
    <3> QED
      BY <2>0, <3>1, <3>2 DEF RateIsShared
  <2>3. CASE Refill
    <3>1. Passed' = Passed
      BY <2>3 DEF Refill, Passed, At
    <3> QED
      BY <2>0, <2>3, <3>1 DEF Refill, RateIsShared, state
  <2>4. CASE Restart
    <3>1. Passed' = {}
      BY <2>4 DEF Restart, Passed, At
    <3>2. Cardinality(Passed') = 0
      BY <3>1, FS_EmptySet
    <3> QED
      BY <2>0, <2>4, <3>2 DEF Restart, RateIsShared
  <2>5. ASSUME UNCHANGED <<message_count, limiter>>,
               \/ UNCHANGED task
               \/ \E c \in Connections, label \in Tasks \ {"count"} : Goto(c, label)
        PROVE  RateIsShared'
    <3>1. Cardinality(Passed') \in Nat /\ Cardinality(Passed') <= n
      <4>1. CASE UNCHANGED task
        <5>1. Passed' = Passed
          BY <4>1 DEF Passed, At
        <5> QED
          BY <5>1, <2>0
      <4>2. ASSUME NEW c \in Connections, NEW label \in Tasks \ {"count"}, Goto(c, label)
            PROVE  Cardinality(Passed') \in Nat /\ Cardinality(Passed') <= n
        BY <4>2, PassedMoves, PassedCounting
      <4> QED
        BY <2>5, <4>1, <4>2
    <3> HIDE DEF n
    <3> QED
      BY <2>0, <2>5, <3>1 DEF RateIsShared, limiter
  <2>6. ASSUME NEW c \in Connections,
               \/ Admit(c) \/ StreamEnds(c) \/ Sent(c) \/ Leave(c) \/ Heartbeat(c)
               \/ \E tokens \in {{}} \union {{t} : t \in Token}, expired \in BOOLEAN :
                    Upgrade(c, tokens, expired)
        PROVE  RateIsShared'
    <3>1. UNCHANGED <<message_count, limiter>>
      BY <2>6 DEF Admit, StreamEnds, Sent, Leave, Heartbeat, Upgrade, state
    <3>2. PICK label \in Tasks \ {"count"} : Goto(c, label)
      BY <2>6 DEF Admit, StreamEnds, Sent, Leave, Heartbeat, Upgrade, Tasks
    <3> QED
      BY <2>5, <3>1, <3>2
  <2>7. CASE \/ \E c \in Connections, message \in Message : Send(c, message)
             \/ \E c \in Connections, turn \in {"reads", "stalls", "gone"} : PeerTurns(c, turn)
             \/ \E token \in Token : Revoke(token)
             \/ UNCHANGED vars
    <3>1. UNCHANGED <<message_count, limiter, task>>
      BY <2>7 DEF Send, PeerTurns, Revoke, state, vars
    <3> QED
      BY <2>5, <3>1
  <2> QED
    BY <2>1, <2>2, <2>3, <2>4, <2>6, <2>7 DEF Next, Handle
<1> QED
  BY <1>1, <1>2, TypeCorrect, PTL DEF Spec

\* Every step but a revocation and a start leaves the validator alone, and with
\* it what is accepted.
LEMMA ValidatorEffect ==
  [Next]_vars => \/ UNCHANGED validator
                 \/ \E token \in Token : RevokeToken(token)
                 \/ NewValidator
BY DEF Next, Upgrade, Handle, Admit, Receive, Count, StreamEnds, Sent, Leave, Heartbeat, Send,
       PeerTurns, Refill, Revoke, Restart, vars

\* A revoked token is accepted again only after a start, and one that was accepted
\* is refused only if it was revoked or its secret has left the environment
\* (ws.rs:105-126, 166-169).
THEOREM TokensEnd == Spec => TokensEndForAReason
<1> DEFINE Reasons ==
      \A token \in Token :
        /\ (token \in revoked_tokens /\ ValidateToken(token)') => restarts' # restarts
        /\ (ValidateToken(token) /\ ~ValidateToken(token)')
             => \/ token \in revoked_tokens'
                \/ token.secret \notin secrets'.previous \union {secrets'.current}
<1>1. TypeOK /\ [Next]_vars => Reasons
  <2> SUFFICES ASSUME TypeOK, [Next]_vars PROVE Reasons
    OBVIOUS
  <2>1. CASE UNCHANGED validator
    BY <2>1 DEF validator, ValidateToken, TryValidate
  <2>2. CASE \E token \in Token : RevokeToken(token)
    BY <2>2 DEF RevokeToken, ValidateToken, TryValidate
  <2>3. CASE NewValidator
    <3>1. restarts' # restarts
      BY <2>3, Constants DEF NewValidator, TypeOK, ValidatorTypeOK
    <3>2. ASSUME NEW token \in Token, ValidateToken(token), ~ValidateToken(token)'
          PROVE  token.secret \notin secrets'.previous \union {secrets'.current}
      BY <2>3, <3>2 DEF NewValidator, ValidateToken, TryValidate
    <3> QED
      BY <3>1, <3>2
  <2> QED
    BY <2>1, <2>2, <2>3, ValidatorEffect
<1> QED
  BY <1>1, TypeCorrect, PTL DEF Spec, TokensEndForAReason

=============================================================================
