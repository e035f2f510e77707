---------------------------- MODULE WalletMessages ----------------------------
(***************************************************************************)
(* The queue of messages the wallet's page has received and not yet shown  *)
(* (wallet/wallet.js, handleWebSocketMessage and processMessageQueue).     *)
(* A message is its number in the order of arrival: what is shown for it   *)
(* is left out.  The queue is handled in animation frames, for which the   *)
(* page has to ask the browser.                                            *)
(***************************************************************************)
EXTENDS Naturals, Sequences

CONSTANTS
  NoQueue,      \* WALLET.messageQueue before the first message
  Limit,        \* 100: a longer queue is cut
  Keep,         \* 50: how many messages are left of it
  MaxMessages   \* bound: how many messages arrive

ASSUME QueueAssumption ==
  /\ {Limit, Keep, MaxMessages} \subseteq Nat \ {0}
  /\ Keep <= Limit
ASSUME NoQueueAssumption == NoQueue \notin Seq(Nat)

VARIABLES
  messageQueue,   \* WALLET.messageQueue
  frames,         \* calls of requestAnimationFrame not yet answered
  received,       \* messages so far
  handled         \* the last message that was handled

messageVars == <<messageQueue, frames, received, handled>>

MessagesInit ==
  /\ messageQueue = NoQueue
  /\ frames = 0
  /\ received = 0
  /\ handled = 0

Waiting == IF messageQueue = NoQueue THEN <<>> ELSE messageQueue

\* Mutant: a frame is asked for whenever the queue was empty.
FramesAfterArrivalIfEmpty ==
  IF Waiting = <<>> THEN frames + 1 ELSE frames

\* A frame is asked for when there was no queue.
FramesAfterArrival == IF messageQueue = NoQueue THEN frames + 1 ELSE frames

\* Mutant: the first messages of a queue that is too long are kept.
CutFirst(q) == IF Len(q) > Limit THEN SubSeq(q, 1, Keep) ELSE q

\* Only the last messages of a queue that is too long are kept.
Cut(q) == IF Len(q) > Limit THEN SubSeq(q, Len(q) - Keep + 1, Len(q)) ELSE q

\* handleWebSocketMessage
HandleMessage ==
  /\ received < MaxMessages
  /\ received' = received + 1
  /\ messageQueue' = Cut(Append(Waiting, received'))
  /\ frames' = FramesAfterArrival
  /\ UNCHANGED handled

\* processMessageQueue: as many messages as there is time for, one at least;
\* what is left waits for another frame.
ProcessMessageQueue ==
  /\ frames > 0
  /\ \E n \in 1..Len(messageQueue) :
       /\ handled' = messageQueue[n]
       /\ messageQueue' = SubSeq(messageQueue, n + 1, Len(messageQueue))
  /\ frames' = IF messageQueue' = <<>> THEN frames - 1 ELSE frames
  /\ UNCHANGED received

-----------------------------------------------------------------------------
\* The types, and at most one frame is asked for at a time.
MessagesTypeOK ==
  /\ messageQueue = NoQueue \/ messageQueue \in Seq(1..MaxMessages)
  /\ frames \in 0..1
  /\ received \in 0..MaxMessages
  /\ handled \in 0..MaxMessages

\* The page handles messages in their order and none twice: what waits is a run
\* of the latest messages, later than all that were handled (lines 602-616).
LatestWait ==
  messageQueue # NoQueue =>
    /\ Len(messageQueue) <= Limit
    /\ \A i \in DOMAIN messageQueue :
         /\ messageQueue[i] = received - Len(messageQueue) + i
         /\ messageQueue[i] > handled

\* Only the first burst of messages is ever handled: the queue that has been
\* emptied once is still there (line 598 finds it), so no frame is asked for
\* again and no message that comes later is shown.
OnlyTheFirstBurst ==
  [][messageQueue # NoQueue /\ frames = 0 => frames' = 0 /\ handled' = handled]_messageVars

=============================================================================
