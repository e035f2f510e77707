------------------------- MODULE WalletSocketProofs -------------------------
(***************************************************************************)
(* The wallet's connection and its messages, for any bound on troubles and *)
(* messages, any limit of missed heartbeats and any length of the queue.   *)
(***************************************************************************)
EXTENDS WalletSocket, FiniteSetTheorems, SequenceTheorems, TLAPS

\* The messages that wait are the latest, later than what was handled.
IsLatest(q, rec, hnd) ==
  /\ q \in Seq(Nat) /\ Len(q) <= Limit
  /\ \A i \in 1..Len(q) : q[i] = rec - Len(q) + i /\ q[i] > hnd

MessagesInv ==
  /\ received \in 0..MaxMessages
  /\ handled \in 0..received
  /\ frames \in 0..1
  /\ \/ messageQueue = NoQueue /\ frames = 0 /\ received = 0
     \/ messageQueue \in Seq(Nat) /\ IsLatest(messageQueue, received, handled)

\* What is cut is the front of the queue.
LEMMA CutKeepsTheEnd ==
  ASSUME NEW q \in Seq(Nat)
  PROVE  /\ Cut(q) \in Seq(Nat)
         /\ Len(Cut(q)) <= Limit /\ Len(Cut(q)) <= Len(q)
         /\ \A i \in 1..Len(Cut(q)) : Cut(q)[i] = q[Len(q) - Len(Cut(q)) + i]
<1>1. Keep \in Nat \ {0} /\ Limit \in Nat \ {0} /\ Keep <= Limit /\ Len(q) \in Nat
  BY QueueAssumption
<1>2. CASE Len(q) > Limit
  <2> DEFINE cut == SubSeq(q, Len(q) - Keep + 1, Len(q))
  <2>1. Cut(q) = cut
    BY <1>2 DEF Cut
  <2>2. \A i \in (Len(q) - Keep + 1)..Len(q) : q[i] \in Nat
    BY <1>1, <1>2
  <2>3. /\ cut \in Seq(Nat) /\ Len(cut) = Keep
        /\ \A i \in 1..Keep : cut[i] = q[Len(q) - Keep + i]
    BY <1>1, <1>2, <2>2
  <2> HIDE DEF cut
  <2> QED
    BY <1>1, <1>2, <2>1, <2>3
<1>3. CASE ~(Len(q) > Limit)
  BY <1>1, <1>3 DEF Cut
<1> QED
  BY <1>2, <1>3

LEMMA HandleMessageKeeps ==
  ASSUME MessagesInv, HandleMessage
  PROVE  MessagesInv'
<1> DEFINE q == Append(Waiting, received')
<1>1. /\ received < MaxMessages /\ received' = received + 1
      /\ messageQueue' = Cut(q) /\ frames' = FramesAfterArrival
      /\ handled' = handled
  BY DEF HandleMessage
<1>2. received \in Nat /\ handled \in Nat /\ MaxMessages \in Nat /\ handled <= received
  BY QueueAssumption DEF MessagesInv
<1>3. /\ Waiting \in Seq(Nat)
      /\ \A i \in 1..Len(Waiting) :
           Waiting[i] = received - Len(Waiting) + i /\ Waiting[i] > handled
  <2>1. CASE messageQueue = NoQueue
    BY <2>1 DEF Waiting
  <2>2. CASE messageQueue # NoQueue
    BY <2>2 DEF Waiting, MessagesInv, IsLatest
  <2> QED
    BY <2>1, <2>2
<1>4. /\ q \in Seq(Nat) /\ Len(q) = Len(Waiting) + 1
      /\ \A i \in 1..Len(q) : q[i] = received' - Len(q) + i /\ q[i] > handled
  BY <1>1, <1>2, <1>3
<1>5. frames' \in 0..1
  BY <1>1, NoQueueAssumption DEF FramesAfterArrival, MessagesInv
<1> HIDE DEF q
<1>6. IsLatest(Cut(q), received', handled')
  <2> DEFINE c == Cut(q)
  <2>1. /\ c \in Seq(Nat) /\ Len(c) \in Nat /\ Len(q) \in Nat
        /\ Len(c) <= Limit /\ Len(c) <= Len(q)
        /\ \A i \in 1..Len(c) : c[i] = q[Len(q) - Len(c) + i]
    BY <1>4, CutKeepsTheEnd
  <2>2. ASSUME NEW i \in 1..Len(c)
        PROVE  c[i] = received' - Len(c) + i /\ c[i] > handled'
    <3>1. Len(q) - Len(c) + i \in 1..Len(q)
      BY <2>1
    <3>2. c[i] = received' - Len(q) + (Len(q) - Len(c) + i) /\ c[i] > handled
      BY <1>4, <2>1, <3>1
    <3> QED
      BY <1>1, <1>2, <2>1, <3>2
  <2> HIDE DEF c
  <2>3. IsLatest(c, received', handled')
    BY <2>1, <2>2 DEF IsLatest
  <2> QED
    BY <2>3 DEF c
<1>7. Cut(q) \in Seq(Nat)
  BY <1>4, CutKeepsTheEnd
<1> QED
  BY <1>1, <1>2, <1>5, <1>6, <1>7 DEF MessagesInv

LEMMA ProcessKeeps ==
  ASSUME MessagesInv, ProcessMessageQueue
  PROVE  MessagesInv'
<1>1. PICK n \in 1..Len(messageQueue) :
        /\ handled' = messageQueue[n]
        /\ messageQueue' = SubSeq(messageQueue, n + 1, Len(messageQueue))
  BY DEF ProcessMessageQueue
<1>2. frames > 0 /\ frames' \in {frames, frames - 1} /\ received' = received
  BY DEF ProcessMessageQueue
<1> DEFINE q == messageQueue
           rest == SubSeq(q, n + 1, Len(q))
<1>3. /\ q \in Seq(Nat) /\ Len(q) \in Nat /\ n \in 1..Len(q)
      /\ received \in Nat /\ handled \in Nat
      /\ Len(q) <= Limit /\ Limit \in Nat
      /\ \A i \in 1..Len(q) : q[i] = received - Len(q) + i /\ q[i] > handled
  BY <1>2, QueueAssumption DEF MessagesInv, IsLatest
<1>4. \A i \in (n + 1)..Len(q) : q[i] \in Nat
  BY <1>3
<1>5. /\ rest \in Seq(Nat) /\ Len(rest) = Len(q) - n
      /\ \A i \in 1..Len(rest) : rest[i] = q[n + i]
  BY <1>3, <1>4
<1>6. q[n] \in Nat /\ q[n] <= received /\ q[n] = received - Len(q) + n
  BY <1>3
<1> HIDE DEF q, rest
<1>7. \A i \in 1..Len(rest) : rest[i] = received - Len(rest) + i /\ rest[i] > q[n]
  <2> SUFFICES ASSUME NEW i \in 1..Len(rest)
               PROVE  rest[i] = received - Len(rest) + i /\ rest[i] > q[n]
    OBVIOUS
  <2>1. n + i \in 1..Len(q) /\ rest[i] = q[n + i]
    BY <1>3, <1>5
  <2>2. q[n + i] = received - Len(q) + (n + i)
    BY <1>3, <2>1
  <2> QED
    BY <1>3, <1>5, <1>6, <2>1, <2>2
<1>8. IsLatest(rest, received, q[n])
  BY <1>3, <1>5, <1>7 DEF IsLatest
<1>9. frames' \in 0..1
  BY <1>2 DEF MessagesInv
<1>10. messageQueue' = rest /\ handled' = q[n]
  BY <1>1 DEF q, rest
<1> QED
  BY <1>2, <1>5, <1>6, <1>8, <1>9, <1>10 DEF MessagesInv

LEMMA MessagesInvMeans == MessagesInv => MessagesTypeOK /\ LatestWait
<1> SUFFICES ASSUME MessagesInv PROVE MessagesTypeOK /\ LatestWait
  OBVIOUS
<1>1. MaxMessages \in Nat
  BY QueueAssumption
<1>2. CASE messageQueue = NoQueue
  BY <1>1, <1>2 DEF MessagesInv, MessagesTypeOK, LatestWait
<1>3. CASE messageQueue # NoQueue
  <2>1. IsLatest(messageQueue, received, handled)
    BY <1>3 DEF MessagesInv
  <2>2. \A i \in 1..Len(messageQueue) : messageQueue[i] \in 1..MaxMessages
    BY <1>1, <2>1 DEF IsLatest, MessagesInv
  <2>3. messageQueue \in Seq(1..MaxMessages) /\ DOMAIN messageQueue = 1..Len(messageQueue)
    <3>1. Len(messageQueue) \in Nat /\ messageQueue \in [1..Len(messageQueue) -> Nat]
      BY <2>1, LenProperties DEF IsLatest
    <3>2. messageQueue \in [1..Len(messageQueue) -> 1..MaxMessages]
      BY <2>2, <3>1
    <3> QED
      BY <3>1, <3>2, SeqDef
  <2> QED
    BY <1>1, <1>3, <2>1, <2>3 DEF IsLatest, MessagesInv, MessagesTypeOK, LatestWait
<1> QED
  BY <1>2, <1>3

-----------------------------------------------------------------------------
SocketInv ==
  /\ ws \in Sockets
  /\ socket \in [Sockets -> {"none", "connecting", "open", "closing", "failing"}]
  /\ beating \subseteq Used
  /\ missed \in [Sockets -> 0..MaxMissed]
  /\ timers \in Nat
  /\ troubles \in 0..MaxTroubles
  /\ OneConnection

IInv == MessagesInv /\ SocketInv /\ LoopsAreCounted

LEMMA SocketsAreFinite ==
  ASSUME NEW S \in SUBSET Sockets
  PROVE  /\ IsFiniteSet(S) /\ Cardinality(S) \in Nat
         /\ Cardinality(S) <= MaxTroubles => S # Sockets
<1>1. /\ IsFiniteSet(Sockets) /\ Cardinality(Sockets) = MaxTroubles + 1
      /\ MaxTroubles \in Nat
  <2>1. MaxTroubles \in Nat /\ 1 \in Int /\ MaxTroubles + 1 \in Int
    BY SocketAssumption
  <2>2. /\ IsFiniteSet(1..(MaxTroubles + 1))
        /\ Cardinality(1..(MaxTroubles + 1)) =
             IF 1 > MaxTroubles + 1 THEN 0 ELSE (MaxTroubles + 1) - 1 + 1
    BY <2>1, FS_Interval
  <2> QED
    BY <2>1, <2>2 DEF Sockets
<1> QED
  BY <1>1, FS_Subset, FS_CardinalityType

\* A socket takes its place among those in use, or leaves it.
LEMMA OneMore ==
  ASSUME NEW S \in SUBSET Sockets, NEW s \in Sockets \ S
  PROVE  Cardinality(S \union {s}) = Cardinality(S) + 1
BY SocketsAreFinite, FS_AddElement

LEMMA OneLess ==
  ASSUME NEW S \in SUBSET Sockets, NEW s \in S
  PROVE  Cardinality(S \ {s}) = Cardinality(S) - 1
BY SocketsAreFinite, FS_RemoveElement

\* There is always a number for a new socket.
LEMMA UnusedIsFree ==
  ASSUME SocketInv, Cardinality(Used) <= MaxTroubles
  PROVE  Unused \in Sockets /\ socket[Unused] = "none"
<1>1. Used \in SUBSET Sockets
  BY DEF Used
<1>2. \E s \in Sockets : s \notin Used
  BY <1>1, SocketsAreFinite
<1>3. Unused \in Sockets /\ Unused \notin Used
  BY <1>2 DEF Unused
<1> QED
  BY <1>3 DEF Used

\* connectWebSocket: one socket more; the one that was connecting will fail.
LEMMA ConnectKeeps ==
  ASSUME SocketInv, ConnectWebSocket, Cardinality(Used) <= MaxTroubles
  PROVE  /\ ws' \in Sockets
         /\ socket' \in [Sockets -> {"none", "connecting", "open", "closing", "failing"}]
         /\ missed' \in [Sockets -> 0..MaxMissed]
         /\ \A s \in Sockets : Live(s)' => s = ws'
         /\ \A s \in Sockets : socket'[s] # "open"
         /\ Used \subseteq Used'
         /\ Cardinality(Used') = Cardinality(Used) + 1
         /\ Cardinality(Failing') = Cardinality(Failing) + TroubleOfClosing
         /\ TroubleOfClosing \in 0..1
<1> DEFINE u == Unused
<1>1. u \in Sockets /\ socket[u] = "none"
  BY UnusedIsFree
<1>2. /\ ws' = u
      /\ socket' = [socket EXCEPT ![ws] = ClosedByPage(@), ![u] = "connecting"]
      /\ missed' = [missed EXCEPT ![u] = 0]
  BY DEF ConnectWebSocket
<1> HIDE DEF u
<1>3. /\ socket'[u] = "connecting"
      /\ \A s \in Sockets \ {u, ws} : socket'[s] = socket[s]
      /\ ws # u => socket'[ws] = ClosedByPage(socket[ws])
      /\ socket' \in [Sockets -> {"none", "connecting", "open", "closing", "failing"}]
  <2>1. ClosedByPage(socket[ws]) \in {"none", "connecting", "open", "closing", "failing"}
    BY DEF ClosedByPage, SocketInv
  <2> QED
    BY <1>1, <1>2, <2>1 DEF SocketInv
<1>4. missed' \in [Sockets -> 0..MaxMissed]
  <2>1. MaxMissed \in Nat /\ 0 \in 0..MaxMissed
    BY SocketAssumption
  <2> QED
    BY <1>1, <1>2, <2>1 DEF SocketInv
<1>5. \A s \in Sockets : Live(s)' => s = u
  BY <1>1, <1>3 DEF Live, SocketInv, OneConnection, ClosedByPage
<1>6. \A s \in Sockets : socket'[s] # "open"
  BY <1>3, <1>5 DEF Live
<1>7. Used' = Used \union {u} /\ u \notin Used
  BY <1>1, <1>3 DEF Used, SocketInv, ClosedByPage
<1>8. Cardinality(Used') = Cardinality(Used) + 1
  BY <1>1, <1>7, OneMore DEF Used
<1>9. CASE socket[ws] = "connecting"
  <2>1. Failing' = Failing \union {ws} /\ ws \notin Failing /\ ws \in Sockets
    BY <1>1, <1>3, <1>9 DEF Failing, SocketInv, ClosedByPage
  <2>2. Cardinality(Failing') = Cardinality(Failing) + 1
    BY <2>1, OneMore DEF Failing
  <2> QED
    BY <1>1, <1>2, <1>3, <1>4, <1>5, <1>6, <1>7, <1>8, <1>9, <2>2 DEF TroubleOfClosing
<1>10. CASE socket[ws] # "connecting"
  <2>1. Failing' = Failing
    BY <1>1, <1>3, <1>10 DEF Failing, SocketInv, ClosedByPage
  <2>2. Cardinality(Failing) \in Nat
    BY SocketsAreFinite DEF Failing
  <2> QED
    BY <1>1, <1>2, <1>3, <1>4, <1>5, <1>6, <1>7, <1>8, <1>10, <2>1, <2>2 DEF TroubleOfClosing
<1> QED
  BY <1>9, <1>10

\* What is counted is never more than the troubles and one.
LEMMA CountFits ==
  ASSUME SocketInv, LoopsAreCounted
  PROVE  /\ Cardinality(Used) \in Nat /\ Cardinality(Failing) \in Nat
         /\ timers + Cardinality(Used) + Cardinality(Failing) = troubles + 1
         /\ timers \in Nat /\ troubles \in Nat /\ MaxTroubles \in Nat
         /\ troubles <= MaxTroubles
BY SocketsAreFinite, SocketAssumption DEF SocketInv, LoopsAreCounted, Used, Failing

LEMMA TimerFiresKeeps ==
  ASSUME SocketInv, LoopsAreCounted, TimerFires
  PROVE  SocketInv' /\ LoopsAreCounted'
<1>1. /\ timers > 0 /\ troubles + TroubleOfClosing <= MaxTroubles
      /\ timers' = timers - 1 /\ troubles' = troubles + TroubleOfClosing
      /\ ConnectWebSocket /\ beating' = beating
  BY DEF TimerFires
<1>2. Cardinality(Used) <= MaxTroubles
  BY <1>1, CountFits
<1>3. /\ timers' \in Nat /\ troubles' \in 0..MaxTroubles
      /\ timers' + Cardinality(Used') + Cardinality(Failing') = troubles' + 1
  BY <1>1, <1>2, CountFits, ConnectKeeps
<1>4. SocketInv'
  BY <1>1, <1>2, <1>3, ConnectKeeps DEF SocketInv, OneConnection
<1> QED
  BY <1>3, <1>4 DEF LoopsAreCounted

LEMMA HeartbeatLostKeeps ==
  ASSUME SocketInv, LoopsAreCounted, NEW s \in Sockets, HeartbeatLost(s)
  PROVE  SocketInv' /\ LoopsAreCounted'
<1>1. /\ socket[ws] = "open" /\ troubles < MaxTroubles
      /\ troubles' = troubles + 1 /\ timers' = timers
      /\ beating' = beating \ {s} /\ ConnectWebSocket
  BY DEF HeartbeatLost
<1>2. Cardinality(Used) <= MaxTroubles /\ TroubleOfClosing = 0
  BY <1>1, CountFits DEF TroubleOfClosing
<1>3. /\ timers' \in Nat /\ troubles' \in 0..MaxTroubles
      /\ timers' + Cardinality(Used') + Cardinality(Failing') = troubles' + 1
  BY <1>1, <1>2, CountFits, ConnectKeeps
<1>4. SocketInv'
  BY <1>1, <1>2, <1>3, ConnectKeeps DEF SocketInv, OneConnection
<1> QED
  BY <1>3, <1>4 DEF LoopsAreCounted

LEMMA OpensKeeps ==
  ASSUME SocketInv, LoopsAreCounted, NEW s \in Sockets, Opens(s)
  PROVE  SocketInv' /\ LoopsAreCounted'
<1>1. /\ socket[s] = "connecting" /\ socket' = [socket EXCEPT ![s] = "open"]
      /\ beating' = beating \union {s}
      /\ UNCHANGED <<ws, missed, timers, troubles>>
  BY DEF Opens
<1>2. Used' = Used /\ Failing' = Failing /\ s \in Used
  BY <1>1 DEF Used, Failing, SocketInv
<1>3. OneConnection'
  BY <1>1 DEF OneConnection, Live, SocketInv
<1>4. SocketInv'
  BY <1>1, <1>2, <1>3 DEF SocketInv
<1> QED
  BY <1>1, <1>2, <1>4 DEF LoopsAreCounted

LEMMA ClosesKeeps ==
  ASSUME SocketInv, LoopsAreCounted, NEW s \in Sockets, Closes(s)
  PROVE  SocketInv' /\ LoopsAreCounted'
<1>1. /\ socket[s] \in {"open", "closing"} /\ socket' = [socket EXCEPT ![s] = "none"]
      /\ beating' = beating \ {s} /\ timers' = timers + 1
      /\ UNCHANGED <<ws, missed, troubles>>
  BY DEF Closes
<1>2. Used' = Used \ {s} /\ Failing' = Failing /\ s \in Used
  BY <1>1 DEF Used, Failing, SocketInv
<1>3. Cardinality(Used') = Cardinality(Used) - 1
  BY <1>2, OneLess DEF Used
<1>4. OneConnection'
  BY <1>1 DEF OneConnection, Live, SocketInv
<1>5. SocketInv'
  BY <1>1, <1>2, <1>4 DEF SocketInv
<1> QED
  BY <1>1, <1>2, <1>3, <1>5, CountFits DEF LoopsAreCounted

LEMMA ErrsKeeps ==
  ASSUME SocketInv, LoopsAreCounted, NEW s \in Sockets, Errs(s)
  PROVE  SocketInv' /\ LoopsAreCounted'
<1>1. /\ socket' = [socket EXCEPT ![s] = "closing"]
      /\ beating' = beating \ {s} /\ timers' = timers + 1
      /\ UNCHANGED <<ws, missed>>
  BY DEF Errs
<1>2. socket[s] \in {"connecting", "open", "failing"}
  BY DEF Errs, Live
<1>3. Used' = Used /\ Failing' = Failing \ {s}
  BY <1>1, <1>2 DEF Used, Failing, SocketInv
<1>4. OneConnection'
  BY <1>1 DEF OneConnection, Live, SocketInv
<1>5. CASE Live(s) /\ troubles < MaxTroubles /\ troubles' = troubles + 1
  <2>1. Failing' = Failing
    BY <1>3, <1>5 DEF Failing, Live
  <2>2. timers' \in Nat /\ troubles' \in 0..MaxTroubles
    BY <1>1, <1>5, CountFits
  <2>3. SocketInv'
    BY <1>1, <1>3, <1>4, <2>2 DEF SocketInv
  <2> QED
    BY <1>1, <1>3, <1>5, <2>1, <2>3, CountFits DEF LoopsAreCounted
<1>6. CASE socket[s] = "failing" /\ troubles' = troubles
  <2>1. Cardinality(Failing') = Cardinality(Failing) - 1
    BY <1>3, <1>6, OneLess DEF Failing
  <2>2. SocketInv'
    BY <1>1, <1>3, <1>4, <1>6 DEF SocketInv
  <2> QED
    BY <1>1, <1>3, <1>6, <2>1, <2>2, CountFits DEF LoopsAreCounted
<1> QED
  BY <1>5, <1>6 DEF Errs

LEMMA MissesKeep ==
  ASSUME SocketInv, LoopsAreCounted, NEW s \in Sockets, Heartbeat(s) \/ Pong(s)
  PROVE  SocketInv' /\ LoopsAreCounted'
<1>1. UNCHANGED <<ws, socket, beating, timers, troubles>>
  BY DEF Heartbeat, Pong
<1>2. Used' = Used /\ Failing' = Failing /\ OneConnection'
  BY <1>1 DEF Used, Failing, OneConnection, Live, SocketInv
<1>3. missed' \in [Sockets -> 0..MaxMissed]
  <2>1. MaxMissed \in Nat
    BY SocketAssumption
  <2>2. CASE Heartbeat(s)
    BY <2>1, <2>2 DEF Heartbeat, SocketInv
  <2>3. CASE Pong(s)
    BY <2>1, <2>3 DEF Pong, SocketInv
  <2> QED
    BY <2>2, <2>3
<1> QED
  BY <1>1, <1>2, <1>3 DEF SocketInv, LoopsAreCounted

LEMMA SocketsStay ==
  ASSUME SocketInv, LoopsAreCounted, UNCHANGED socketVars
  PROVE  SocketInv' /\ LoopsAreCounted'
BY DEF socketVars, SocketInv, OneConnection, Live, LoopsAreCounted, Used, Failing

-----------------------------------------------------------------------------
THEOREM Invariance == Spec => []IInv
<1>1. Init => IInv
  <2> SUFFICES ASSUME Init PROVE IInv
    OBVIOUS
  <2>1. MessagesInv
    BY QueueAssumption DEF Init, MessagesInit, MessagesInv
  <2>2. /\ ws = 1 /\ socket = [s \in Sockets |-> "none"] /\ beating = {}
        /\ missed = [s \in Sockets |-> 0] /\ timers = 1 /\ troubles = 0
    BY DEF Init
  <2>3. MaxMissed \in Nat /\ MaxTroubles \in Nat
    BY SocketAssumption
  <2>4. Used = {} /\ Failing = {} /\ Cardinality({}) = 0
    BY <2>2, FS_EmptySet DEF Used, Failing
  <2>5. SocketInv
    BY <2>2, <2>3, <2>4 DEF SocketInv, Sockets, OneConnection, Live
  <2>6. LoopsAreCounted
    BY <2>2, <2>4 DEF LoopsAreCounted
  <2> QED
    BY <2>1, <2>5, <2>6 DEF IInv
<1>2. IInv /\ [Next]_vars => IInv'
  <2> SUFFICES ASSUME IInv, [Next]_vars PROVE IInv'
    OBVIOUS
  <2>1. MessagesInv /\ SocketInv /\ LoopsAreCounted
    BY DEF IInv
  <2>2. ASSUME UNCHANGED messageVars PROVE MessagesInv'
    BY <2>1, <2>2 DEF messageVars, MessagesInv, IsLatest
  <2>3. CASE TimerFires
    BY <2>1, <2>2, <2>3, TimerFiresKeeps DEF TimerFires, IInv
  <2>4. ASSUME NEW s \in Sockets, Opens(s) PROVE IInv'
    BY <2>1, <2>2, <2>4, OpensKeeps DEF Opens, IInv
  <2>5. ASSUME NEW s \in Sockets, Heartbeat(s) \/ Pong(s) PROVE IInv'
    BY <2>1, <2>2, <2>5, MissesKeep DEF Heartbeat, Pong, IInv
  <2>6. ASSUME NEW s \in Sockets, HeartbeatLost(s) PROVE IInv'
    BY <2>1, <2>2, <2>6, HeartbeatLostKeeps DEF HeartbeatLost, IInv
  <2>7. ASSUME NEW s \in Sockets, Message(s) PROVE IInv'
    BY <2>1, <2>7, HandleMessageKeeps, SocketsStay DEF Message, IInv
  <2>8. ASSUME NEW s \in Sockets, Closes(s) PROVE IInv'
    BY <2>1, <2>2, <2>8, ClosesKeeps DEF Closes, IInv
  <2>9. ASSUME NEW s \in Sockets, Errs(s) PROVE IInv'
    BY <2>1, <2>2, <2>9, ErrsKeeps DEF Errs, IInv
  <2>10. CASE Frame
    BY <2>1, <2>10, ProcessKeeps, SocketsStay DEF Frame, IInv
  <2>11. CASE UNCHANGED vars
    BY <2>1, <2>2, <2>11, SocketsStay DEF vars, IInv
  <2> QED
    BY <2>3, <2>4, <2>5, <2>6, <2>7, <2>8, <2>9, <2>10, <2>11 DEF Next
<1> QED
  BY <1>1, <1>2, PTL DEF Spec

\* The page has one connection, and its heartbeat runs, whatever timers fire and
\* whatever late events old sockets have (wallet.js:510-592).
THEOREM OneConnectionHolds == Spec => []OneConnection
<1>1. IInv => OneConnection
  BY DEF IInv, SocketInv
<1> QED
  BY <1>1, Invariance, PTL

\* As many loops connect again as there were errors and lost heartbeats, and one
\* more; none of them ever ends (wallet.js:568-592).
THEOREM LoopsNeverEnd == Spec => []LoopsAreCounted
<1>1. IInv => LoopsAreCounted
  BY DEF IInv
<1> QED
  BY <1>1, Invariance, PTL

\* What waits is a run of the latest messages, in order and none of it handled,
\* however often the queue was cut (wallet.js:596-655).
THEOREM LatestDoWait == Spec => []LatestWait
<1>1. IInv => LatestWait
  BY MessagesInvMeans DEF IInv
<1> QED
  BY <1>1, Invariance, PTL

\* Every variable has its type, and no more timers run than there were troubles.
THEOREM TypeCorrect == Spec => []TypeOK
<1>1. IInv => TypeOK
  <2> SUFFICES ASSUME IInv PROVE TypeOK
    OBVIOUS
  <2>1. SocketInv /\ MessagesTypeOK
    BY MessagesInvMeans DEF IInv
  <2>2. timers \in 0..(MaxTroubles + 1)
    BY CountFits DEF IInv
  <2> QED
    BY <2>1, <2>2 DEF SocketInv, TypeOK
<1> QED
  BY <1>1, Invariance, PTL

\* Once there is a queue and no frame has been asked for, none is ever again, and
\* no message is handled (wallet.js:598-601).
THEOREM TheFirstBurstOnly == Spec => OnlyTheFirstBurst
<1>1. [Next]_vars => [messageQueue # NoQueue /\ frames = 0
                        => frames' = 0 /\ handled' = handled]_messageVars
  <2> SUFFICES ASSUME [Next]_vars, messageQueue # NoQueue, frames = 0,
                      ~UNCHANGED messageVars
               PROVE  frames' = 0 /\ handled' = handled
    OBVIOUS
  <2>1. ASSUME NEW s \in Sockets, Message(s)
        PROVE  frames' = 0 /\ handled' = handled
    BY <2>1 DEF Message, HandleMessage, FramesAfterArrival
  <2>2. ~Frame
    BY DEF Frame, ProcessMessageQueue
  <2> QED
    BY <2>1, <2>2 DEF Next, TimerFires, Opens, Heartbeat, HeartbeatLost, Pong,
                      Closes, Errs, vars
<1> QED
  BY <1>1, PTL DEF Spec, OnlyTheFirstBurst

=============================================================================
