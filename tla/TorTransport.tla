---------------------------- MODULE TorTransport ----------------------------
(***************************************************************************)
(* How src/p2p.rs sets up a connection once the TCP transport has dialled  *)
(* or accepted a socket: without Tor that socket is upgraded; with Tor     *)
(* enabled a closure (lines 97-123) leaves it aside, takes a text of the   *)
(* point it connects to TorConnector::connect (src/tor.rs), which parses it*)
(* as host:port, and goes on with the stream to the proxy.  A text is what *)
(* the two of them ask of it.                                              *)
(*                                                                         *)
(* The transport is external: it dials addresses of IPv4 and IPv6 only.    *)
(***************************************************************************)

\* A point: an address that was dialled, or the listener's end of a connection.
Points == {"ip4", "ip6", "listener"}

\* Mutant: the text is host:port.
TextOfSocket(point) == [onion |-> FALSE, colon |-> TRUE, port |-> TRUE]

\* A multiaddress, /ip4/198.51.100.7/tcp/4001 or /ip6/2001:db8::7/tcp/4001, or
\* the word "listener": whether it has ".onion:", whether it has a colon, and
\* whether what follows the last one is a port.
TextOf(point) == [onion |-> FALSE, colon |-> (point = "ip6"), port |-> FALSE]

IsOnionAddress(text) == text.onion

\* TorConnector::connect: the proxy's address parses and so does the target's,
\* and the proxy reaches the target.
TorConnects(text, proxy, reached) == proxy /\ text.colon /\ text.port /\ reached

\* The outcome for a socket that connects the point: without a TorConnector the
\* transport is the plain one; with one the closure asks it for onion services
\* and whenever Tor is enabled, so for every point.
Opens(enabled, proxy, reached, point) ==
  LET text == TextOf(point)
  IN  IF enabled /\ (IsOnionAddress(text) \/ enabled)
      THEN TorConnects(text, proxy, reached)
      ELSE reached

=============================================================================
