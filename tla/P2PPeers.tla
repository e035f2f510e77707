------------------------------ MODULE P2PPeers ------------------------------
(***************************************************************************)
(* The peer table of src/p2p.rs: P2PState.active_peers, the event loop that*)
(* fills it from the events of the libp2p swarm, and the cleanup task.  The*)
(* loop and the task share the table behind a Mutex: each holds it for one *)
(* event, or for one sweep.  Instants enter only as ages, so the table     *)
(* keeps ages.  message_count and last_message_time are left out: nothing  *)
(* but a log line reads them.                                              *)
(*                                                                         *)
(* The swarm is external: two nodes may have several connections at a time,*)
(* and it reports what happens to each of them in order, through a queue.  *)
(* A connection begins as a socket that the TCP transport dials or accepts *)
(* directly, with Tor enabled too; what becomes of it says TorTransport.   *)
(* A message that its validator refuses (lines 168-182) is no event.       *)
(***************************************************************************)
EXTENDS TorTransport, Naturals, Sequences, FiniteSets

CONSTANTS
  Peers,
  NoAge,            \* the age of a peer that is not in the table
  MaxConnections,   \* bound: connections to one peer at a time
  MaxSockets,       \* bound: sockets that are being set up at a time
  MaxQueue,         \* bound: events the loop has not taken yet
  PeerTimeout,      \* P2PConfig.peer_timeout
  Period            \* the interval of the cleanup task

ASSUME NumbersAssumption ==
  /\ {MaxConnections, MaxSockets, MaxQueue} \subseteq Nat
  /\ {PeerTimeout, Period} \subseteq Nat \ {0}
ASSUME NoAgeAssumption == NoAge \notin Nat

VARIABLES
  tor_config,      \* TorConfig: enabled, and whether proxy_addr parses
  sockets,         \* the transport: direct sockets that are being set up
  connections,     \* the swarm: connections to each peer
  events,          \* the swarm: events not taken yet
  active_peers,    \* the table: age of each peer's last_seen
  due              \* time until the cleanup task's next sweep

vars == <<tor_config, sockets, connections, events, active_peers, due>>

Event == [kind : {"Established", "Closed", "Message", "Error"}, peer : Peers]

\* The first tick of a tokio interval is immediate.
Init ==
  /\ tor_config \in [enabled : BOOLEAN, proxy_addr : BOOLEAN]
  /\ sockets = {}
  /\ connections = [p \in Peers |-> 0]
  /\ events = <<>>
  /\ active_peers = [p \in Peers |-> NoAge]
  /\ due = 0

-----------------------------------------------------------------------------
(* The swarm and the clock.                                                *)

Report(kind, p) ==
  /\ Len(events) < MaxQueue
  /\ events' = Append(events, [kind |-> kind, peer |-> p])

\* One of the two nodes dials the other: its transport gets a socket, or the
\* attempt is an error.
Dial(p, point) ==
  /\ Cardinality(sockets) < MaxSockets
  /\ sockets' = sockets \union {<<p, point>>}
  /\ UNCHANGED <<tor_config, connections, events, active_peers, due>>

DialFails(p) ==
  /\ Report("Error", p)
  /\ UNCHANGED <<tor_config, sockets, connections, active_peers, due>>

\* The socket becomes a connection, or what comes after it is an error.
Connect(p, point, reached) ==
  /\ <<p, point>> \in sockets /\ connections[p] < MaxConnections
  /\ sockets' = sockets \ {<<p, point>>}
  /\ IF Opens(tor_config.enabled, tor_config.proxy_addr, reached, point)
     THEN /\ connections' = [connections EXCEPT ![p] = @ + 1]
          /\ Report("Established", p)
     ELSE Report("Error", p) /\ UNCHANGED connections
  /\ UNCHANGED <<tor_config, active_peers, due>>

Disconnect(p) ==
  /\ connections[p] > 0
  /\ connections' = [connections EXCEPT ![p] = @ - 1]
  /\ Report("Closed", p)
  /\ UNCHANGED <<tor_config, sockets, active_peers, due>>

Deliver(p) ==
  /\ connections[p] > 0
  /\ Report("Message", p)
  /\ UNCHANGED <<tor_config, sockets, connections, active_peers, due>>

\* Time passes, up to the next sweep, which is on time.
Tick ==
  /\ due > 0
  /\ due' = due - 1
  /\ active_peers' = [p \in Peers |->
                        IF active_peers[p] = NoAge THEN NoAge ELSE active_peers[p] + 1]
  /\ UNCHANGED <<tor_config, sockets, connections, events>>

-----------------------------------------------------------------------------
(* The two tasks.                                                          *)

\* Mutant: a peer that disconnects is left to the cleanup task.
AfterEventSticky(event) ==
  IF event.kind = "Established"
  THEN [active_peers EXCEPT ![event.peer] = 0]
  ELSE active_peers

\* The table after an event: a peer enters when a connection opens and leaves
\* when one closes, whatever other connections it has; a message is counted,
\* and leaves the peer's last_seen as it is; an error is logged.
AfterEvent(event) ==
  CASE event.kind = "Established" -> [active_peers EXCEPT ![event.peer] = 0]
    [] event.kind = "Closed" -> [active_peers EXCEPT ![event.peer] = NoAge]
    [] event.kind \in {"Message", "Error"} -> active_peers

\* The event loop takes the next event of the swarm.
TakeEvent ==
  /\ events # <<>>
  /\ active_peers' = AfterEvent(Head(events))
  /\ events' = Tail(events)
  /\ UNCHANGED <<tor_config, sockets, connections, due>>

\* Mutant: an entry as old as the timeout is kept.
SweepInclusive ==
  /\ due = 0
  /\ active_peers' = [p \in Peers |->
                        IF active_peers[p] # NoAge /\ active_peers[p] <= PeerTimeout
                        THEN active_peers[p]
                        ELSE NoAge]
  /\ due' = Period
  /\ UNCHANGED <<tor_config, sockets, connections, events>>

\* The cleanup task keeps the entries younger than peer_timeout.
Sweep ==
  /\ due = 0
  /\ active_peers' = [p \in Peers |->
                        IF active_peers[p] # NoAge /\ active_peers[p] < PeerTimeout
                        THEN active_peers[p]
                        ELSE NoAge]
  /\ due' = Period
  /\ UNCHANGED <<tor_config, sockets, connections, events>>

Next ==
  \/ \E p \in Peers, point \in Points :
       Dial(p, point) \/ \E reached \in BOOLEAN : Connect(p, point, reached)
  \/ \E p \in Peers : DialFails(p) \/ Disconnect(p) \/ Deliver(p)
  \/ Tick
  \/ TakeEvent
  \/ Sweep

Spec == Init /\ [][Next]_vars

-----------------------------------------------------------------------------
\* Every variable has its type; the cleanup task's next tick is never further
\* away than its period (lines 258-262).
TypeOK ==
  /\ tor_config \in [enabled : BOOLEAN, proxy_addr : BOOLEAN]
  /\ sockets \subseteq Peers \X Points
  /\ connections \in [Peers -> 0..MaxConnections]
  /\ events \in Seq(Event) /\ Len(events) <= MaxQueue
  /\ active_peers \in [Peers -> Nat \union {NoAge}]
  /\ due \in 0..Period

\* A peer in the table is connected, or the closing of its last connection is
\* still on its way to the loop: no order of openings, closings and sweeps
\* leaves a peer behind that is gone (lines 234-241).
ListedIsConnected ==
  \A p \in Peers :
    active_peers[p] # NoAge
      => \/ connections[p] > 0
         \/ \E k \in DOMAIN events : events[k] = [kind |-> "Closed", peer |-> p]

\* An entry is never older than a timeout and a period: one that a sweep finds
\* too young for it is gone with the next.  It is as old as its connection, so
\* this is how long a peer is listed, however many messages it goes on sending
\* (lines 219-236 and 260-270): the sweep is announced as one of inactive peers
\* (line 265).
EntriesExpire ==
  \A p \in Peers : active_peers[p] # NoAge => active_peers[p] < PeerTimeout + Period

\* With Tor enabled no connection ever comes to be and no peer is ever listed,
\* although sockets to peers do: TorConnector parses host:port, while what it is
\* given is a multiaddress, or the word "listener", and every one of them is an
\* error (p2p.rs:94-112, tor.rs:73-88).
TorIsolates ==
  tor_config.enabled
    => \A p \in Peers : connections[p] = 0 /\ active_peers[p] = NoAge

=============================================================================
