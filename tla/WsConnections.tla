--------------------------- MODULE WsConnections ---------------------------
(***************************************************************************)
(* The WebSocket connections of src/ws.rs: chat_routes upgrades a request, *)
(* handle_ws runs one task per connection, and all of them share WsState   *)
(* (behind a Mutex) and one rate limiter.  The tasks run on several threads*)
(* of the runtime: a step is one access to what they share, or a send,     *)
(* which is an await, and while a task waits in one it looks neither at its*)
(* heartbeat nor at its stream.                                            *)
(*                                                                         *)
(* The peer at the other end is external: it reads or not, and may go      *)
(* away, after which a send may fail and the stream ends, once what is left*)
(* in it is delivered.  The process may end and start again: nothing of its*)
(* state is kept, and its connections are gone.                            *)
(***************************************************************************)
EXTENDS JwtValidator, Integers, FiniteSets

CONSTANTS
  Connections,      \* WebSocket requests, one task each
  MaxConnections,   \* MAX_CONNECTIONS
  Quota,            \* cells of the rate limiter: its burst
  MaxRefills        \* bound: how many cells are refilled

ASSUME NumbersAssumption ==
  MaxConnections \in Nat /\ Quota \in Nat /\ MaxRefills \in Nat
ASSUME ConnectionsAssumption == IsFiniteSet(Connections)

\* What a client sends: text, binary, a close frame, a ping or pong, and
\* anything longer than MAX_MESSAGE_SIZE.
Message == {"text", "binary", "close", "control", "large"}

VARIABLES
  active_connections,   \* WsState.active_connections
  message_count,        \* WsState.message_count
  cells,                \* cells the rate limiter has left
  refills,              \* what MaxRefills counts
  task,                 \* where each connection's task is
  peer,                 \* each peer: "reads", "stalls" or is "gone"
  inbox                 \* the message at the head of each stream, or "none"

state == <<active_connections, message_count>>
limiter == <<cells, refills>>
vars == <<state, limiter, task, peer, inbox, validator>>

Tasks == {
  "requested",   \* not upgraded yet
  "start",       \* upgraded, before the check of the limit
  "select",      \* in tokio::select!
  "count",       \* past the limiter with a text, before the count of it
  "complaint",   \* in a send whose result is ignored, then back to select
  "reply",       \* in a send whose failure ends the loop: an echo or a ping
  "goodbye",     \* in the last send of a connection that was turned away
  "leave",       \* after the loop, before the counter is lowered
  "done"}

Init ==
  /\ ValidatorInit
  /\ active_connections = 0
  /\ message_count = 0
  /\ cells = Quota
  /\ refills = 0
  /\ task = [c \in Connections |-> "requested"]
  /\ peer = [c \in Connections |-> "reads"]
  /\ inbox = [c \in Connections |-> "none"]

At(c, label) == task[c] = label
Goto(c, label) == task' = [task EXCEPT ![c] = label]

-----------------------------------------------------------------------------
\* chat_routes: the request is upgraded with or without a valid token; without
\* one, or with one whose time is over, the task only says so.
Upgrade(c, tokens, expired) ==
  /\ At(c, "requested")
  /\ Goto(c, IF \E token \in tokens : ValidateToken(token) /\ ~expired
             THEN "start" ELSE "goodbye")
  /\ UNCHANGED <<state, limiter, peer, inbox, validator>>

\* The check of the limit and the count, in one critical section.
Admit(c) ==
  /\ At(c, "start")
  /\ IF active_connections >= MaxConnections
     THEN Goto(c, "goodbye") /\ UNCHANGED active_connections
     ELSE Goto(c, "select") /\ active_connections' = active_connections + 1
  /\ UNCHANGED <<message_count, limiter, peer, inbox, validator>>

\* The heartbeat's tick comes first: a ping is sent.
Heartbeat(c) ==
  /\ At(c, "select")
  /\ Goto(c, "reply")
  /\ UNCHANGED <<state, limiter, peer, inbox, validator>>

\* The limiter's answer to a message; a long one is turned away before it.
Passes(message) == message # "large" /\ cells > 0

\* Mutant: a message that passes takes no cell.
CellsAfterFree(message) == cells

CellsAfter(message) == IF Passes(message) THEN cells - 1 ELSE cells

\* What follows a message that passes
Answer == [text |-> "count", binary |-> "complaint", close |-> "leave", control |-> "select"]

\* The stream yields a message.  A long one is not counted by the limiter;
\* every other one is, a ping, a pong and a close frame too, and without a cell
\* a close frame is answered like the rest.
Receive(c) ==
  LET message == inbox[c]
  IN  /\ At(c, "select")
      /\ message # "none"
      /\ inbox' = [inbox EXCEPT ![c] = "none"]
      /\ cells' = CellsAfter(message)
      /\ Goto(c, IF Passes(message) THEN Answer[message] ELSE "complaint")
      /\ UNCHANGED <<state, refills, peer, validator>>

\* A text is counted under the lock of the state, and its echo is sent.
Count(c) ==
  /\ At(c, "count")
  /\ message_count' = message_count + 1
  /\ Goto(c, "reply")
  /\ UNCHANGED <<active_connections, limiter, peer, inbox, validator>>

\* Mutant: the task returns at once, past the line that lowers the counter.
StreamEndsReturn(c) ==
  /\ At(c, "select")
  /\ peer[c] = "gone" /\ inbox[c] = "none"
  /\ Goto(c, "done")
  /\ UNCHANGED <<state, limiter, peer, inbox, validator>>

\* Mutant: an error of the stream does not end the loop.
StreamEndsContinue(c) ==
  /\ At(c, "select")
  /\ peer[c] = "gone" /\ inbox[c] = "none"
  /\ Goto(c, "select")
  /\ UNCHANGED <<state, limiter, peer, inbox, validator>>

\* The stream of a peer that is gone yields an error or its end.
StreamEnds(c) ==
  /\ At(c, "select")
  /\ peer[c] = "gone" /\ inbox[c] = "none"
  /\ Goto(c, "leave")
  /\ UNCHANGED <<state, limiter, peer, inbox, validator>>

\* A send returns: Ok once the peer reads; Ok or Err when it is gone.
Sent(c) ==
  /\ peer[c] # "stalls"
  /\ \/ At(c, "complaint") /\ Goto(c, "select")
     \/ At(c, "reply") /\ Goto(c, "select")
     \/ At(c, "reply") /\ peer[c] = "gone" /\ Goto(c, "leave")
     \/ At(c, "goodbye") /\ Goto(c, "done")
  /\ UNCHANGED <<state, limiter, peer, inbox, validator>>

\* The loop is over: the counter is lowered.
Leave(c) ==
  /\ At(c, "leave")
  /\ active_connections' = active_connections - 1
  /\ Goto(c, "done")
  /\ UNCHANGED <<message_count, limiter, peer, inbox, validator>>

-----------------------------------------------------------------------------
(* The peers and the clock.                                                *)

Send(c, message) ==
  /\ peer[c] # "gone" /\ task[c] \in {"select", "count", "complaint", "reply"}
  /\ inbox[c] = "none"
  /\ inbox' = [inbox EXCEPT ![c] = message]
  /\ UNCHANGED <<state, limiter, task, peer, validator>>

\* The peer stops reading, reads again, or goes away for good.
PeerTurns(c, turn) ==
  /\ peer[c] # "gone" /\ ~At(c, "requested") /\ turn # peer[c]
  /\ peer' = [peer EXCEPT ![c] = turn]
  /\ UNCHANGED <<state, limiter, task, inbox, validator>>

\* A tenth of a second passes: the limiter gains a cell.
Refill ==
  /\ refills < MaxRefills /\ cells < Quota
  /\ cells' = cells + 1
  /\ refills' = refills + 1
  /\ UNCHANGED <<state, task, peer, inbox, validator>>

\* Somebody asks for the revocation of a token the node has signed.
Revoke(token) ==
  /\ token.claims
  /\ RevokeToken(token)
  /\ UNCHANGED <<state, limiter, task, peer, inbox>>

\* The process ends, with every connection there is, and starts again.
Restart ==
  /\ NewValidator
  /\ active_connections' = 0
  /\ message_count' = 0
  /\ cells' = Quota
  /\ task' = [c \in Connections |-> IF At(c, "requested") THEN "requested" ELSE "done"]
  /\ inbox' = [c \in Connections |-> "none"]
  /\ UNCHANGED <<refills, peer>>

Handle(c) == Admit(c) \/ Receive(c) \/ Count(c) \/ StreamEnds(c) \/ Sent(c) \/ Leave(c)

Next ==
  \/ \E c \in Connections, tokens \in {{}} \union {{t} : t \in Token}, expired \in BOOLEAN :
       Upgrade(c, tokens, expired)
  \/ \E c \in Connections : Handle(c) \/ Heartbeat(c)
  \/ \E c \in Connections, message \in Message : Send(c, message)
  \/ \E c \in Connections, turn \in {"reads", "stalls", "gone"} : PeerTurns(c, turn)
  \/ Refill
  \/ \E token \in Token : Revoke(token)
  \/ Restart

Spec == Init /\ [][Next]_vars

\* The runtime polls a task that can go on, and select! picks a ready branch at
\* random, so the stream's turn comes although the heartbeat is ready as well.
Fairness ==
  \A c \in Connections :
    /\ WF_vars(Handle(c))
    /\ SF_vars(Receive(c))
    /\ SF_vars(StreamEnds(c))

FairSpec == Spec /\ Fairness

-----------------------------------------------------------------------------
\* Every variable has its type (lines 16-22, 69-74).
TypeOK ==
  /\ ValidatorTypeOK
  /\ active_connections \in Nat
  /\ message_count \in Nat
  /\ cells \in 0..Quota
  /\ refills \in 0..MaxRefills
  /\ task \in [Connections -> Tasks]
  /\ peer \in [Connections -> {"reads", "stalls", "gone"}]
  /\ inbox \in [Connections -> Message \union {"none"}]

Admitted ==
  {c \in Connections : task[c] \in {"select", "count", "complaint", "reply", "leave"}}

\* The counter is the number of tasks in their loop, whichever way they enter
\* and leave it, and never above the limit: a slot is neither lost nor handed
\* out twice (lines 198-208, 274).
SlotsAreCounted ==
  /\ active_connections = Cardinality(Admitted)
  /\ active_connections <= MaxConnections

Passed == {c \in Connections : At(c, "count")}

\* All connections together are answered no more texts than the limiter has
\* given out cells, although each asks the limiter in one step and counts in
\* another one (lines 237-251).
RateIsShared == message_count + Cardinality(Passed) + cells <= Quota + refills

\* A connection whose peer is gone gives its slot back, whatever it was doing:
\* the sends whose failure is ignored lead back to the stream, which has ended
\* (lines 220-274).
SlotIsGivenBack ==
  \A c \in Connections : (peer[c] = "gone" /\ c \in Admitted) ~> c \notin Admitted

\* A token is refused once it is revoked, whichever secret has signed it, until
\* the process starts again, which forgets that it was; and one that is accepted
\* stays so, over a rotation too, until it is revoked or its secret is left out
\* (lines 105-126, 166-169).
TokensEndForAReason ==
  [][\A token \in Token :
       /\ (token \in revoked_tokens /\ ValidateToken(token)') => restarts' # restarts
       /\ (ValidateToken(token) /\ ~ValidateToken(token)')
            => \/ token \in revoked_tokens'
               \/ token.secret \notin secrets'.previous \union {secrets'.current}]_vars

=============================================================================
