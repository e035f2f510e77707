--------------------------- MODULE P2PPeersProofs ---------------------------
(***************************************************************************)
(* The peer table for any peers, any timeout and period, and however many  *)
(* connections and events there are.  The bound on the age of an entry     *)
(* holds between sweeps because an entry ages only as much as the next     *)
(* sweep comes nearer.  No entry of a peer that is gone stays for good,    *)
(* because every opening in the swarm's queue, like every entry, has its   *)
(* connection still or a closing behind it.  With Tor no opening is ever   *)
(* reported.                                                               *)
(***************************************************************************)
EXTENDS P2PPeers, TLAPS

AgesAreTyped ==
  /\ active_peers \in [Peers -> Nat \union {NoAge}]
  /\ due \in 0..Period
  /\ events \in Seq(Event)

SweepIsDue ==
  \A p \in Peers :
    active_peers[p] # NoAge => active_peers[p] + due < PeerTimeout + Period

AgeInv == AgesAreTyped /\ SweepIsDue

-----------------------------------------------------------------------------
\* The table after an event holds only entries that were there or are new.
LEMMA AfterEventAges ==
  ASSUME AgesAreTyped, NEW event \in Event
  PROVE  /\ AfterEvent(event) \in [Peers -> Nat \union {NoAge}]
         /\ \A p \in Peers :
              AfterEvent(event)[p] \in {active_peers[p], 0, NoAge}
BY DEF AgesAreTyped, Event, AfterEvent

\* Every entry is gone at the latest a timeout and a period after its peer
\* connected (p2p.rs:258-275).
THEOREM EntriesDoExpire == Spec => []EntriesExpire
<1>0. PeerTimeout \in Nat \ {0} /\ Period \in Nat \ {0} /\ NoAge \notin Nat
  BY NumbersAssumption, NoAgeAssumption
<1>1. Init => AgeInv
  BY <1>0 DEF Init, AgeInv, AgesAreTyped, SweepIsDue
<1>2. AgeInv /\ [Next]_vars => AgeInv'
  <2> SUFFICES ASSUME AgeInv, [Next]_vars PROVE AgeInv'
    OBVIOUS
  <2> USE <1>0 DEF AgeInv
  <2>1. ASSUME NEW p \in Peers,
               \/ \E point \in Points, reached \in BOOLEAN : Connect(p, point, reached)
               \/ DialFails(p) \/ Disconnect(p) \/ Deliver(p)
        PROVE  AgeInv'
    <3>1. PICK kind \in {"Established", "Closed", "Message", "Error"} : Report(kind, p)
      BY <2>1 DEF Connect, DialFails, Disconnect, Deliver
    <3>2. [kind |-> kind, peer |-> p] \in Event
      BY DEF Event
    <3>3. events' \in Seq(Event)
      BY <3>1, <3>2 DEF Report, AgesAreTyped
    <3> QED
      BY <2>1, <3>3 DEF Connect, DialFails, Disconnect, Deliver, AgesAreTyped, SweepIsDue
  <2>2. CASE Tick
    BY <2>2 DEF Tick, AgesAreTyped, SweepIsDue
  <2>3. CASE TakeEvent
    <3>1. Head(events) \in Event /\ events' \in Seq(Event)
      BY <2>3 DEF TakeEvent, AgesAreTyped
    <3>2. /\ active_peers' \in [Peers -> Nat \union {NoAge}]
          /\ \A p \in Peers : active_peers'[p] \in {active_peers[p], 0, NoAge}
          /\ due' = due
      BY <2>3, <3>1, AfterEventAges DEF TakeEvent
    <3> QED
      BY <3>1, <3>2 DEF AgesAreTyped, SweepIsDue
  <2>4. CASE Sweep
    BY <2>4 DEF Sweep, AgesAreTyped, SweepIsDue
  <2>5. CASE UNCHANGED vars
    BY <2>5 DEF vars, AgesAreTyped, SweepIsDue
  <2>6. ASSUME NEW p \in Peers, NEW point \in Points, Dial(p, point)
        PROVE  AgeInv'
    BY <2>6 DEF Dial, AgesAreTyped, SweepIsDue
  <2> QED
    BY <2>1, <2>2, <2>3, <2>4, <2>5, <2>6 DEF Next
<1>3. AgeInv => EntriesExpire
  BY <1>0 DEF AgeInv, AgesAreTyped, SweepIsDue, EntriesExpire
<1> QED
  BY <1>1, <1>2, <1>3, PTL DEF Spec

-----------------------------------------------------------------------------
QueueIsTyped == connections \in [Peers -> Nat] /\ events \in Seq(Event)

ClosingFollows(p, k) ==
  \E j \in DOMAIN events : j > k /\ events[j] = [kind |-> "Closed", peer |-> p]

\* An opening in the queue has its connection, or a closing behind it.
OpeningsAreCurrent ==
  \A k \in DOMAIN events, p \in Peers :
    events[k] = [kind |-> "Established", peer |-> p]
      => connections[p] > 0 \/ ClosingFollows(p, k)

ListedInv ==
  /\ QueueIsTyped
  /\ active_peers \in [Peers -> Nat \union {NoAge}]
  /\ ListedIsConnected
  /\ OpeningsAreCurrent


\* What a report does to the queue.
LEMMA ReportAppends ==
  ASSUME QueueIsTyped, NEW kind \in {"Established", "Closed", "Message", "Error"},
         NEW p \in Peers, Report(kind, p)
  PROVE  LET n == Len(events) + 1
         IN  /\ events' \in Seq(Event)
             /\ DOMAIN events' = 1..n /\ DOMAIN events = 1..(n - 1) /\ n \in Nat \ {0}
             /\ events'[n] = [kind |-> kind, peer |-> p]
             /\ \A k \in DOMAIN events : events'[k] = events[k]
<1>1. [kind |-> kind, peer |-> p] \in Event
  BY DEF Event
<1> QED
  BY <1>1 DEF QueueIsTyped, Report

\* What the loop's taking an event does to it.
LEMMA TakenIsFirst ==
  ASSUME events \in Seq(Event), events # <<>>, events' = Tail(events)
  PROVE  LET n == Len(events)
         IN  /\ events' \in Seq(Event) /\ n \in Nat \ {0}
             /\ DOMAIN events' = 1..(n - 1) /\ DOMAIN events = 1..n
             /\ Head(events) = events[1] /\ events[1] \in Event
             /\ \A k \in 1..(n - 1) : events'[k] = events[k + 1]
OBVIOUS

\* No peer in the table is gone without its closing on the way to the loop
\* (p2p.rs:234-241).
THEOREM ListedAreConnected == Spec => []ListedIsConnected
<1>1. Init => ListedInv
  BY DEF Init, ListedInv, QueueIsTyped, ListedIsConnected, OpeningsAreCurrent
<1>2. ListedInv /\ [Next]_vars => ListedInv'
  <2> SUFFICES ASSUME ListedInv, [Next]_vars PROVE ListedInv'
    OBVIOUS
  <2> USE DEF ListedInv
  <2>1. ASSUME NEW p \in Peers,
               \/ \E point \in Points, reached \in BOOLEAN : Connect(p, point, reached)
               \/ DialFails(p) \/ Disconnect(p) \/ Deliver(p)
        PROVE  ListedInv'
    <3>1. PICK kind \in {"Established", "Closed", "Message", "Error"} :
            /\ Report(kind, p)
            /\ kind = "Established" => connections' = [connections EXCEPT ![p] = @ + 1]
            /\ kind = "Closed" => connections' = [connections EXCEPT ![p] = @ - 1]
                                 /\ connections[p] > 0
            /\ kind \in {"Message", "Error"} => connections' = connections
            /\ active_peers' = active_peers
      BY <2>1 DEF Connect, DialFails, Disconnect, Deliver
    <3> DEFINE n == Len(events) + 1
    <3>2. /\ events' \in Seq(Event)
          /\ DOMAIN events' = 1..n /\ DOMAIN events = 1..(n - 1) /\ n \in Nat \ {0}
          /\ events'[n] = [kind |-> kind, peer |-> p]
          /\ \A k \in DOMAIN events : events'[k] = events[k]
      BY <3>1, ReportAppends
    <3> HIDE DEF n
    <3>3. /\ connections' \in [Peers -> Nat]
          /\ \A q \in Peers : connections[q] > 0 /\ ~(kind = "Closed" /\ q = p)
                               => connections'[q] > 0
          /\ kind = "Established" => connections'[p] > 0
      BY <3>1 DEF QueueIsTyped
    <3>4. ListedIsConnected'
      <4> SUFFICES ASSUME NEW q \in Peers, active_peers'[q] # NoAge
                   PROVE  \/ connections'[q] > 0
                          \/ \E k \in DOMAIN events' :
                               events'[k] = [kind |-> "Closed", peer |-> q]
        BY DEF ListedIsConnected
      <4>1. CASE kind = "Closed" /\ q = p
        BY <4>1, <3>2
      <4>2. CASE ~(kind = "Closed" /\ q = p)
        BY <4>2, <3>1, <3>2, <3>3 DEF ListedIsConnected
      <4> QED
        BY <4>1, <4>2
    <3>5. OpeningsAreCurrent'
      <4> SUFFICES ASSUME NEW k \in DOMAIN events', NEW q \in Peers,
                          events'[k] = [kind |-> "Established", peer |-> q]
                   PROVE  connections'[q] > 0 \/ ClosingFollows(q, k)'
        BY DEF OpeningsAreCurrent
      <4>1. CASE k = n
        BY <4>1, <3>2, <3>3
      <4>2. CASE k # n
        <5>1. k \in DOMAIN events /\ k < n
          BY <4>2, <3>2
        <5>2. connections[q] > 0 \/ ClosingFollows(q, k)
          BY <5>1, <3>2 DEF OpeningsAreCurrent
        <5>3. CASE kind = "Closed" /\ q = p
          BY <5>1, <5>3, <3>2 DEF ClosingFollows
        <5>4. CASE ~(kind = "Closed" /\ q = p)
          BY <5>1, <5>2, <5>4, <3>2, <3>3 DEF ClosingFollows
        <5> QED
          BY <5>3, <5>4
      <4> QED
        BY <4>1, <4>2
    <3> QED
      BY <3>1, <3>2, <3>3, <3>4, <3>5 DEF QueueIsTyped
  <2>2. CASE Tick
    BY <2>2 DEF Tick, QueueIsTyped, ListedIsConnected, OpeningsAreCurrent, ClosingFollows
  <2>3. CASE TakeEvent
    <3> DEFINE n == Len(events)
               e == events[1]
    <3>1. /\ events' \in Seq(Event) /\ n \in Nat \ {0}
          /\ DOMAIN events' = 1..(n - 1) /\ DOMAIN events = 1..n
          /\ e \in Event
          /\ \A k \in 1..(n - 1) : events'[k] = events[k + 1]
          /\ connections' = connections
          /\ active_peers' = AfterEvent(e)
      BY <2>3, TakenIsFirst DEF TakeEvent, QueueIsTyped
    <3> HIDE DEF n, e
    <3>2. /\ active_peers' \in [Peers -> Nat \union {NoAge}]
          /\ \A q \in Peers : active_peers'[q] # NoAge
                 => \/ e = [kind |-> "Established", peer |-> q]
                    \/ active_peers[q] # NoAge /\ e # [kind |-> "Closed", peer |-> q]
      BY <3>1 DEF AfterEvent, Event
    \* What follows an event in the queue still does.
    <3>3. ASSUME NEW q \in Peers, NEW k \in 0..n,
                 \E j \in 1..n : j > k /\ j > 1 /\ events[j] = [kind |-> "Closed", peer |-> q]
          PROVE  \E j \in DOMAIN events' :
                   j >= k /\ events'[j] = [kind |-> "Closed", peer |-> q]
      <4>1. PICK j \in 1..n : j > k /\ j > 1 /\ events[j] = [kind |-> "Closed", peer |-> q]
        BY <3>3
      <4>2. /\ j - 1 \in 1..(n - 1) /\ j - 1 >= k
            /\ events'[j - 1] = [kind |-> "Closed", peer |-> q]
        BY <4>1, <3>1
      <4> QED
        BY <4>2, <3>1
    <3>4. ListedIsConnected'
      <4> SUFFICES ASSUME NEW q \in Peers, active_peers'[q] # NoAge, ~(connections[q] > 0)
                   PROVE  \E k \in DOMAIN events' :
                            events'[k] = [kind |-> "Closed", peer |-> q]
        BY <3>1 DEF ListedIsConnected
      <4>1. CASE e = [kind |-> "Established", peer |-> q]
        <5>1. ClosingFollows(q, 1)
          BY <4>1, <3>1 DEF OpeningsAreCurrent, e
        <5> QED
          BY <5>1, <3>1, <3>3 DEF ClosingFollows
      <4>2. CASE active_peers[q] # NoAge /\ e # [kind |-> "Closed", peer |-> q]
        <5>1. PICK j \in 1..n : events[j] = [kind |-> "Closed", peer |-> q]
          BY <4>2, <3>1 DEF ListedIsConnected
        <5>2. j > 1
          BY <5>1, <4>2, <3>1 DEF e
        <5> QED
          BY <5>1, <5>2, <3>1, <3>3
      <4> QED
        BY <4>1, <4>2, <3>2
    <3>5. OpeningsAreCurrent'
      <4> SUFFICES ASSUME NEW k \in DOMAIN events', NEW q \in Peers,
                          events'[k] = [kind |-> "Established", peer |-> q],
                          ~(connections[q] > 0)
                   PROVE  ClosingFollows(q, k)'
        BY <3>1 DEF OpeningsAreCurrent
      <4>1. k + 1 \in 1..n /\ k \in 1..(n - 1)
            /\ events[k + 1] = [kind |-> "Established", peer |-> q]
        BY <3>1
      <4>2. PICK j \in 1..n : j > k + 1 /\ events[j] = [kind |-> "Closed", peer |-> q]
        BY <4>1, <3>1 DEF OpeningsAreCurrent, ClosingFollows
      <4>3. \E i \in DOMAIN events' :
               i >= k + 1 /\ events'[i] = [kind |-> "Closed", peer |-> q]
        <5>1. k + 1 \in 0..n /\ j > 1
          BY <4>1, <4>2, <3>1
        <5> QED
          BY <5>1, <4>2, <3>3
      <4> QED
        BY <4>1, <4>3, <3>1 DEF ClosingFollows
    <3> QED
      BY <3>1, <3>2, <3>4, <3>5 DEF QueueIsTyped
  <2>4. CASE Sweep
    BY <2>4 DEF Sweep, QueueIsTyped, ListedIsConnected, OpeningsAreCurrent, ClosingFollows
  <2>5. CASE UNCHANGED vars
    BY <2>5 DEF vars, QueueIsTyped, ListedIsConnected, OpeningsAreCurrent, ClosingFollows
  <2>6. ASSUME NEW p \in Peers, NEW point \in Points, Dial(p, point)
        PROVE  ListedInv'
    BY <2>6 DEF Dial, QueueIsTyped, ListedIsConnected, OpeningsAreCurrent, ClosingFollows
  <2> QED
    BY <2>1, <2>2, <2>3, <2>4, <2>5, <2>6 DEF Next
<1>3. ListedInv => ListedIsConnected
  BY DEF ListedInv
<1> QED
  BY <1>1, <1>2, <1>3, PTL DEF Spec

-----------------------------------------------------------------------------
IsolationInv ==
  /\ tor_config.enabled \in BOOLEAN
  /\ tor_config.enabled =>
       /\ connections = [p \in Peers |-> 0]
       /\ active_peers = [p \in Peers |-> NoAge]
       /\ events \in Seq([kind : {"Error"}, peer : Peers])

\* TorConnector finds no port in the text of any point.
LEMMA TorNeverOpens ==
  ASSUME NEW enabled, enabled, NEW proxy, NEW reached, NEW point
  PROVE  ~Opens(enabled, proxy, reached, point)
BY DEF Opens, TorConnects, TextOf, IsOnionAddress

\* With Tor enabled the node is alone for good (p2p.rs:94-112, tor.rs:73-88).
THEOREM TorIsolatesTheNode == Spec => []TorIsolates
<1>1. Init => IsolationInv
  BY DEF Init, IsolationInv
<1>2. IsolationInv /\ [Next]_vars => IsolationInv'
  <2> SUFFICES ASSUME IsolationInv, [Next]_vars PROVE IsolationInv'
    OBVIOUS
  <2> USE DEF IsolationInv
  <2>1. ASSUME NEW p \in Peers, NEW point \in Points, NEW reached \in BOOLEAN,
               Connect(p, point, reached)
        PROVE  IsolationInv'
    <3>1. CASE ~tor_config.enabled
      BY <3>1, <2>1 DEF Connect
    <3>2. CASE tor_config.enabled
      <4>1. ~Opens(tor_config.enabled, tor_config.proxy_addr, reached, point)
        BY <3>2, TorNeverOpens
      <4>2. [kind |-> "Error", peer |-> p] \in [kind : {"Error"}, peer : Peers]
        OBVIOUS
      <4>3. /\ events' = Append(events, [kind |-> "Error", peer |-> p])
            /\ tor_config' = tor_config /\ connections' = connections
            /\ active_peers' = active_peers
        BY <4>1, <2>1 DEF Connect, Report
      <4>4. events' \in Seq([kind : {"Error"}, peer : Peers])
        BY <3>2, <4>2, <4>3
      <4> QED
        BY <3>2, <4>3, <4>4
    <3> QED
      BY <3>1, <3>2
  <2>2. ASSUME NEW p \in Peers, Disconnect(p) \/ Deliver(p)
        PROVE  IsolationInv'
    BY <2>2 DEF Disconnect, Deliver
  <2>7. ASSUME NEW p \in Peers, NEW point \in Points, Dial(p, point)
        PROVE  IsolationInv'
    BY <2>7 DEF Dial
  <2>8. ASSUME NEW p \in Peers, DialFails(p)
        PROVE  IsolationInv'
    <3>1. /\ events' = Append(events, [kind |-> "Error", peer |-> p])
          /\ tor_config' = tor_config /\ connections' = connections
          /\ active_peers' = active_peers
      BY <2>8 DEF DialFails, Report
    <3>2. [kind |-> "Error", peer |-> p] \in [kind : {"Error"}, peer : Peers]
      OBVIOUS
    <3>3. tor_config.enabled => events' \in Seq([kind : {"Error"}, peer : Peers])
      BY <3>1, <3>2
    <3> QED
      BY <3>1, <3>3
  <2>3. CASE Tick
    BY <2>3 DEF Tick
  <2>4. CASE TakeEvent
    <3>1. CASE ~tor_config.enabled
      BY <3>1, <2>4 DEF TakeEvent
    <3>2. CASE tor_config.enabled
      <4> DEFINE Errors == [kind : {"Error"}, peer : Peers]
      <4>0. events \in Seq(Errors) /\ events # <<>>
        BY <3>2, <2>4 DEF TakeEvent
      <4> HIDE DEF Errors
      <4>1. Head(events) \in Errors /\ Tail(events) \in Seq(Errors)
        BY <4>0
      <4> USE DEF Errors
      <4>2. active_peers' = active_peers
        BY <4>1, <2>4 DEF TakeEvent, AfterEvent
      <4>3. /\ events' \in Seq([kind : {"Error"}, peer : Peers])
            /\ tor_config' = tor_config /\ connections' = connections
        BY <4>1, <2>4 DEF TakeEvent
      <4> QED
        BY <3>2, <4>2, <4>3
    <3> QED
      BY <3>1, <3>2
  <2>5. CASE Sweep
    BY <2>5 DEF Sweep
  <2>6. CASE UNCHANGED vars
    BY <2>6 DEF vars
  <2> QED
    BY <2>1, <2>2, <2>3, <2>4, <2>5, <2>6, <2>7, <2>8 DEF Next
<1>3. IsolationInv => TorIsolates
  BY DEF IsolationInv, TorIsolates
<1> QED
  BY <1>1, <1>2, <1>3, PTL DEF Spec

-----------------------------------------------------------------------------
\* Every variable has its type: the swarm's numbers stay within their bounds and
\* the next sweep is never further away than a period (p2p.rs:207-275).
THEOREM TypeCorrect == Spec => []TypeOK
<1>0. /\ MaxConnections \in Nat /\ MaxQueue \in Nat /\ Period \in Nat \ {0}
      /\ NoAge \notin Nat
  BY NumbersAssumption, NoAgeAssumption
<1>1. Init => TypeOK
  BY <1>0 DEF Init, TypeOK
<1>2. TypeOK /\ [Next]_vars => TypeOK'
  <2> SUFFICES ASSUME TypeOK, [Next]_vars PROVE TypeOK'
    OBVIOUS
  <2> USE <1>0 DEF TypeOK
  <2>1. ASSUME NEW p \in Peers,
               \/ \E point \in Points, reached \in BOOLEAN : Connect(p, point, reached)
               \/ DialFails(p) \/ Disconnect(p) \/ Deliver(p)
        PROVE  TypeOK'
    <3>1. PICK kind \in {"Established", "Closed", "Message", "Error"} : Report(kind, p)
      BY <2>1 DEF Connect, DialFails, Disconnect, Deliver
    <3>2. events' \in Seq(Event) /\ Len(events') <= MaxQueue
      <4>1. [kind |-> kind, peer |-> p] \in Event
        BY DEF Event
      <4> QED
        BY <3>1, <4>1 DEF Report
    <3>3. connections' \in [Peers -> 0..MaxConnections]
      <4>1. \/ UNCHANGED connections
            \/ /\ connections[p] < MaxConnections
               /\ connections' = [connections EXCEPT ![p] = @ + 1]
            \/ /\ connections[p] > 0
               /\ connections' = [connections EXCEPT ![p] = @ - 1]
        BY <2>1 DEF Connect, DialFails, Disconnect, Deliver
      <4> QED
        BY <4>1
    <3>4. /\ sockets' \subseteq sockets
          /\ UNCHANGED <<tor_config, active_peers, due>>
      BY <2>1 DEF Connect, DialFails, Disconnect, Deliver
    <3> QED
      BY <3>2, <3>3, <3>4
  <2>2. CASE Tick
    BY <2>2 DEF Tick
  <2>3. CASE TakeEvent
    <3>1. /\ Head(events) \in Event /\ events' \in Seq(Event)
          /\ Len(events') <= MaxQueue
      BY <2>3 DEF TakeEvent
    <3> QED
      BY <2>3, <3>1, AfterEventAges DEF TakeEvent, AgesAreTyped
  <2>4. CASE Sweep
    BY <2>4 DEF Sweep
  <2>5. CASE UNCHANGED vars
    BY <2>5 DEF vars
  <2>6. ASSUME NEW p \in Peers, NEW point \in Points, Dial(p, point)
        PROVE  TypeOK'
    BY <2>6 DEF Dial
  <2> QED
    BY <2>1, <2>2, <2>3, <2>4, <2>5, <2>6 DEF Next
<1> QED
  BY <1>1, <1>2, PTL DEF Spec

=============================================================================
