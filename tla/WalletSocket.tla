----------------------------- MODULE WalletSocket -----------------------------
(***************************************************************************)
(* The wallet's connection to the node (wallet/wallet.js,                  *)
(* connectWebSocket): the socket of the page and those it has closed whose *)
(* events are still to come, their heartbeats, and the timers that connect *)
(* again.  The page calls connectWebSocket once, for a user with a key.    *)
(*                                                                         *)
(* The browser, the network and the server are external: a socket opens,   *)
(* fails or closes at any time.  A socket that is closed before it is open *)
(* has an error event and then a close event, an open one a close event.   *)
(***************************************************************************)
EXTENDS WalletMessages, FiniteSets

CONSTANTS
  MaxMissed,    \* 2: how many heartbeats may be missed
  MaxTroubles   \* bound: errors and lost heartbeats

ASSUME SocketAssumption == {MaxMissed, MaxTroubles} \subseteq Nat \ {0}

\* A socket's number is used again after its close event.
Sockets == 1..(MaxTroubles + 1)

VARIABLES
  ws,         \* WALLET.ws
  socket,     \* state of each socket
  beating,    \* the sockets whose heartbeatInterval runs
  missed,     \* their missedHeartbeats
  timers,     \* timeouts that will call connectWebSocket
  troubles    \* history: errors and lost heartbeats

socketVars == <<ws, socket, beating, missed, timers, troubles>>
vars == <<messageVars, socketVars>>

Init ==
  /\ MessagesInit
  /\ ws = 1
  /\ socket = [s \in Sockets |-> "none"]
  /\ beating = {}
  /\ missed = [s \in Sockets |-> 0]
  /\ timers = 1              \* the page's own call
  /\ troubles = 0

Live(s) == socket[s] \in {"connecting", "open"}
Used == {s \in Sockets : socket[s] # "none"}
Failing == {s \in Sockets : socket[s] = "failing"}

Unused == CHOOSE s \in Sockets : s \notin Used

-----------------------------------------------------------------------------
(* connectWebSocket, and what it leaves behind.                            *)

\* Mutant: the socket there is stays open.
ClosedByPageNot(state) == state

\* A socket's state after close().
ClosedByPage(state) ==
  CASE state = "open" -> "closing"
    [] state = "connecting" -> "failing"
    [] OTHER -> state

\* A socket that is closed while it connects has an error to come.
TroubleOfClosing == IF socket[ws] = "connecting" THEN 1 ELSE 0

\* The socket there is is closed, another one takes its place.
ConnectWebSocket ==
  /\ ws' = Unused
  /\ socket' = [socket EXCEPT ![ws] = ClosedByPage(@), ![Unused] = "connecting"]
  /\ missed' = [missed EXCEPT ![Unused] = 0]

TimerFires ==
  /\ timers > 0
  /\ troubles + TroubleOfClosing <= MaxTroubles
  /\ timers' = timers - 1
  /\ troubles' = troubles + TroubleOfClosing
  /\ ConnectWebSocket
  /\ UNCHANGED <<beating, messageVars>>

\* onopen
Opens(s) ==
  /\ socket[s] = "connecting"
  /\ socket' = [socket EXCEPT ![s] = "open"]
  /\ beating' = beating \union {s}
  /\ UNCHANGED <<ws, missed, timers, troubles, messageVars>>

\* heartbeatInterval: a socket's own count, a ping to the socket of the page.
Heartbeat(s) ==
  /\ s \in beating /\ socket[ws] = "open" /\ missed[s] < MaxMissed
  /\ missed' = [missed EXCEPT ![s] = @ + 1]
  /\ UNCHANGED <<ws, socket, beating, timers, troubles, messageVars>>

\* One more is too many: the page connects again.
HeartbeatLost(s) ==
  /\ s \in beating /\ socket[ws] = "open" /\ missed[s] = MaxMissed
  /\ troubles < MaxTroubles
  /\ troubles' = troubles + 1
  /\ beating' = beating \ {s}
  /\ ConnectWebSocket
  /\ UNCHANGED <<timers, messageVars>>

\* onmessage: an answer to a ping,
Pong(s) ==
  /\ socket[s] = "open"
  /\ missed' = [missed EXCEPT ![s] = 0]
  /\ UNCHANGED <<ws, socket, beating, timers, troubles, messageVars>>

\* ... or any other message.
Message(s) ==
  /\ socket[s] = "open"
  /\ HandleMessage
  /\ UNCHANGED socketVars

\* Mutant: only the socket of the page starts a timer.
ClosesOfPage(s) ==
  /\ socket[s] \in {"open", "closing"}
  /\ socket' = [socket EXCEPT ![s] = "none"]
  /\ beating' = beating \ {s}
  /\ timers' = IF s = ws THEN timers + 1 ELSE timers
  /\ UNCHANGED <<ws, missed, troubles, messageVars>>

\* Mutant: nothing is done about it.
ClosesForGood(s) ==
  /\ socket[s] \in {"open", "closing"}
  /\ socket' = [socket EXCEPT ![s] = "none"]
  /\ beating' = beating \ {s}
  /\ UNCHANGED <<ws, missed, timers, troubles, messageVars>>

\* onclose: also of a socket that the page has closed itself.
Closes(s) ==
  /\ socket[s] \in {"open", "closing"}
  /\ socket' = [socket EXCEPT ![s] = "none"]
  /\ beating' = beating \ {s}
  /\ timers' = timers + 1
  /\ UNCHANGED <<ws, missed, troubles, messageVars>>

\* onerror: the socket's close event is still to come.
Errs(s) ==
  /\ \/ Live(s) /\ troubles < MaxTroubles /\ troubles' = troubles + 1
     \/ socket[s] = "failing" /\ UNCHANGED troubles
  /\ socket' = [socket EXCEPT ![s] = "closing"]
  /\ beating' = beating \ {s}
  /\ timers' = timers + 1
  /\ UNCHANGED <<ws, missed, messageVars>>

Frame ==
  /\ ProcessMessageQueue
  /\ UNCHANGED socketVars

Next ==
  \/ TimerFires
  \/ \E s \in Sockets :
       \/ Opens(s) \/ Heartbeat(s) \/ HeartbeatLost(s) \/ Pong(s) \/ Message(s)
       \/ Closes(s) \/ Errs(s)
  \/ Frame

Spec == Init /\ [][Next]_vars

\* Timers fire, and a socket the page has closed has its events.
Fairness ==
  /\ WF_vars(TimerFires)
  /\ \A s \in Sockets :
       /\ WF_vars(socket[s] = "closing" /\ Closes(s))
       /\ WF_vars(socket[s] = "failing" /\ Errs(s))

FairSpec == Spec /\ Fairness

-----------------------------------------------------------------------------
\* Every variable has its type; a heartbeat runs only until its socket's close
\* event (lines 568-573).
TypeOK ==
  /\ MessagesTypeOK
  /\ ws \in Sockets
  /\ socket \in [Sockets -> {"none", "connecting", "open", "closing", "failing"}]
  /\ beating \subseteq Used
  /\ missed \in [Sockets -> 0..MaxMissed]
  /\ timers \in 0..(MaxTroubles + 1)
  /\ troubles \in 0..MaxTroubles

\* However many timers there are, the page has one connection: a socket that
\* connects or is open is the one in WALLET.ws (lines 516-518), and its
\* heartbeat runs when it is open, whatever sockets have closed before
\* (lines 568-570).
OneConnection ==
  /\ \A s \in Sockets : Live(s) => s = ws
  /\ \A s \in Sockets : socket[s] = "open" => s \in beating

\* The page connects again and again in as many loops as there have been errors
\* and lost heartbeats, and one more: none of them ever ends.  An error starts
\* a timer and so does the close event that follows it; a connection the page
\* itself replaces has a close event that starts a timer.
LoopsAreCounted ==
  timers + Cardinality(Used) + Cardinality(Failing) = troubles + 1

\* A page that has lost its connection tries another one.
ConnectsAgain == []<>Live(ws)

\* After one error or lost heartbeat no connection lasts, however well the
\* network and the node behave: the next timer closes it (lines 573-575).
NothingLasts == [](troubles > 0 => []<>(socket[ws] # "open"))

=============================================================================
