---------------------------- MODULE DriverChannel ----------------------------
(***************************************************************************)
(* The drivers' own connections, /ws/driver: at most one registered per       *)
(* driver, a throttle for each that lets a position through at once or keeps  *)
(* the newest for a timer, and the heartbeat that finds out that a peer is    *)
(* gone.  A driver may have several pages open, a page has one connection at  *)
(* a time, and a connection the page has left may still have messages under   *)
(* way.                                                                      *)
(*                                                                           *)
(* Positions are numbered in the order a driver's pages send them.  Time is   *)
(* what the throttle can tell of it: how many ticks ago a connection last     *)
(* released a position and in how many its timer is due.  A due timer may be  *)
(* late.                                                                     *)
(***************************************************************************)
EXTENDS Naturals, Sequences

CONSTANTS
  Drivers,
  Pages, DriverOf,   \* the pages and the driver each one belongs to
  Conns, NoConn,     \* connections of GET /ws/driver, each used once
  Window,            \* WS_DRIVER_THROTTLE_MS, in ticks
  MaxUpdates,        \* bound on the positions a driver sends
  MaxQueue,          \* bound on the messages under way on a connection
  Faults             \* may the server restart?

ASSUME DriverOfAssumption == DriverOf \in [Pages -> Drivers]
ASSUME ConnsAssumption == Conns \subseteq Nat  \* numbered in the order they are asked for
ASSUME NoConnAssumption == NoConn \notin Conns
ASSUME WindowAssumption == Window \in Nat \ {0}
ASSUME BoundsAssumption == MaxUpdates \in Nat /\ MaxQueue \in Nat
ASSUME FaultsAssumption == Faults \in BOOLEAN

VARIABLES
  sock,         \* "unused", "asked", "open", "lost", "closing" or "closed"
  owner,        \* the page of a connection
  conn,         \* the page's connection, NoConn while it waits to reconnect
  sent,         \* how many positions a driver's pages have sent
  up,           \* messages on a connection not handled yet
  connections,  \* the connection registered for a driver
  since,        \* ticks since lastProcessedAt; Window for that many, for more, and for never
  pending,      \* ThrottleState.pending, 0 for none
  timer,        \* ticks until flushTimer is due, NoTimer for none
  tracked,      \* the heartbeat's record: "no", "alive" or "pinged" and not answered yet
  latest        \* the last position handed to enqueueLocationUpdate, and whose

pageVars == <<conn, sent, owner>>
throttleVars == <<since, pending, timer, latest>>
vars == <<sock, up, connections, tracked, pageVars, throttleVars>>

NoTimer == Window + 1
Updates == 1 .. MaxUpdates
NeverReleased == [from |-> NoConn, n |-> 0]

TypeOK ==
  /\ sock \in [Conns -> {"unused", "asked", "open", "lost", "closing", "closed"}]
  /\ owner \in [Conns -> Pages]
  /\ conn \in [Pages -> Conns \cup {NoConn}]
  /\ sent \in [Drivers -> 0 .. MaxUpdates]
  /\ up \in [Conns -> Seq(Updates)]
  /\ connections \in [Drivers -> Conns \cup {NoConn}]
  /\ since \in [Conns -> 0 .. Window]
  /\ pending \in [Conns -> 0 .. MaxUpdates]
  /\ timer \in [Conns -> 0 .. NoTimer]
  /\ tracked \in [Conns -> {"no", "alive", "pinged"}]
  /\ latest \in [Drivers -> [from : Conns \cup {NoConn}, n : 0 .. MaxUpdates]]

DriverFor(s) == DriverOf[owner[s]]
Held(s) == \E p \in Pages : conn[p] = s

Init ==
  /\ sock = [s \in Conns |-> "unused"]
  /\ owner \in [Conns -> Pages]
  /\ conn = [p \in Pages |-> NoConn]
  /\ sent = [d \in Drivers |-> 0]
  /\ up = [s \in Conns |-> <<>>]
  /\ connections = [d \in Drivers |-> NoConn]
  /\ since = [s \in Conns |-> Window]
  /\ pending = [s \in Conns |-> 0]
  /\ timer = [s \in Conns |-> NoTimer]
  /\ tracked = [s \in Conns |-> "no"]
  /\ latest = [d \in Drivers |-> NeverReleased]

-----------------------------------------------------------------------------
(***************************************************************************)
(* A driver's page: useDriverConnection, DriverSocket.                       *)
(***************************************************************************)
\* The upgrade is asked for; preValidation looks the driver up before it answers.
Connect(p, s) ==
  /\ conn[p] = NoConn
  /\ sock[s] = "unused" /\ owner[s] = p
  /\ sock' = [sock EXCEPT ![s] = "asked"]
  /\ conn' = [conn EXCEPT ![p] = s]
  /\ UNCHANGED <<up, connections, tracked, sent, owner, throttleVars>>

\* DriverSocket.sendLocation
Transmit(s, n) == up' = [up EXCEPT ![s] = Append(@, n)]

\* A position of geolocation or of the driver's own hand is sent over an established connection;
\* the server may be closing it already.
SendLocation(p) ==
  LET s == conn[p]  d == DriverOf[p] IN
  /\ s # NoConn /\ sock[s] \in {"open", "closing"}
  /\ sent[d] < MaxUpdates /\ Len(up[s]) < MaxQueue
  /\ sent' = [sent EXCEPT ![d] = @ + 1]
  /\ Transmit(s, sent[d] + 1)
  /\ UNCHANGED <<sock, connections, tracked, conn, owner, throttleVars>>

\* The page closes its connection, or learns that it is broken or closed by the server.
LeaveConnection(p) ==
  /\ conn[p] # NoConn
  /\ conn' = [conn EXCEPT ![p] = NoConn]
  /\ sock' = [s \in Conns |-> IF s = conn[p] /\ sock[s] = "open" THEN "lost" ELSE sock[s]]
  /\ UNCHANGED <<up, connections, tracked, sent, owner, throttleVars>>

-----------------------------------------------------------------------------
(***************************************************************************)
(* The server: driver-connections.ts.                                       *)
(***************************************************************************)
\* handleDriverConnection: the driver's previous connection is closed and forgotten.  The page may
\* have given this one up while the driver was looked up.
HandleDriverConnection(s) ==
  LET old == connections[DriverFor(s)] IN
  /\ sock' = [t \in Conns |-> CASE t = s -> IF Held(s) THEN "open" ELSE "lost"
                                [] t = old -> "closing"
                                [] OTHER -> sock[t]]
  /\ timer' = [t \in Conns |-> IF t = old THEN NoTimer ELSE timer[t]]
  /\ tracked' = [t \in Conns |-> CASE t = s -> "alive" [] t = old -> "no" [] OTHER -> tracked[t]]
  /\ connections' = [connections EXCEPT ![DriverFor(s)] = s]

\* preValidation has found the driver: the upgrade completes.
Accept(s) ==
  /\ sock[s] = "asked"
  /\ HandleDriverConnection(s)
  /\ UNCHANGED <<up, pageVars, since, pending, latest>>

MutRelease(s, n) ==
  /\ since' = [since EXCEPT ![s] = 0]
  /\ latest' = [latest EXCEPT ![DriverFor(s)] = [from |-> s, n |-> n]]
  /\ UNCHANGED pending

\* enqueueLocationUpdate, with the two assignments that come before it.
Release(s, n) ==
  /\ since' = [since EXCEPT ![s] = 0]
  /\ pending' = [pending EXCEPT ![s] = 0]
  /\ latest' = [latest EXCEPT ![DriverFor(s)] = [from |-> s, n |-> n]]

MutCoalesce(s, n) ==
  /\ pending' = [pending EXCEPT ![s] = n]
  /\ timer' = [timer EXCEPT ![s] = IF @ = NoTimer THEN @ ELSE Window - since[s]]
  /\ UNCHANGED <<since, latest>>

\* Within the window the newest position waits; a timer that is still set is left alone.
Coalesce(s, n) ==
  /\ pending' = [pending EXCEPT ![s] = n]
  /\ timer' = [timer EXCEPT ![s] = IF @ = NoTimer THEN Window - since[s] ELSE @]
  /\ UNCHANGED <<since, latest>>

\* The message listener, for a position: anything malformed is answered and dropped.  A connection
\* that is being closed still delivers what it has received.
HandleLocation(s) ==
  /\ sock[s] \in {"open", "lost", "closing"}
  /\ up[s] # <<>>
  /\ up' = [up EXCEPT ![s] = Tail(@)]
  /\ \/ since[s] = Window /\ Release(s, Head(up[s])) /\ UNCHANGED timer
     \/ since[s] < Window /\ Coalesce(s, Head(up[s]))
  /\ UNCHANGED <<sock, connections, tracked, pageVars>>

\* The callback of flushTimer.
TimerFires(s) ==
  /\ timer[s] = 0
  /\ timer' = [timer EXCEPT ![s] = NoTimer]
  /\ \/ pending[s] # 0 /\ Release(s, pending[s])
     \/ pending[s] = 0 /\ UNCHANGED <<since, pending, latest>>
  /\ UNCHANGED <<sock, up, connections, tracked, pageVars>>

MutCloseEvent(s) ==
  /\ sock[s] = "closing"
  /\ sock' = [sock EXCEPT ![s] = "closed"]
  /\ up' = [up EXCEPT ![s] = <<>>]
  /\ timer' = [timer EXCEPT ![s] = NoTimer]
  /\ tracked' = [tracked EXCEPT ![s] = "no"]
  /\ connections' = [connections EXCEPT ![DriverFor(s)] = NoConn]
  /\ UNCHANGED <<pageVars, since, pending, latest>>

\* The close event; what had not been received by then never is.
CloseEvent(s) ==
  /\ sock[s] = "closing"
  /\ sock' = [sock EXCEPT ![s] = "closed"]
  /\ up' = [up EXCEPT ![s] = <<>>]
  /\ timer' = [timer EXCEPT ![s] = NoTimer]
  /\ tracked' = [tracked EXCEPT ![s] = "no"]
  /\ connections' = [connections EXCEPT ![DriverFor(s)] = IF @ = s THEN NoConn ELSE @]
  /\ UNCHANGED <<pageVars, since, pending, latest>>

-----------------------------------------------------------------------------
(***************************************************************************)
(* heartbeat.ts, time and the network.                                      *)
(***************************************************************************)
MutSweep ==
  /\ tracked' = [s \in Conns |-> CASE tracked[s] = "alive" -> "pinged"
                                   [] tracked[s] = "pinged" -> "no"
                                   [] OTHER -> "no"]
  /\ UNCHANGED <<sock, up, connections, pageVars, throttleVars>>

\* runHeartbeatSweep: whoever has not answered the last ping is terminated, the others are pinged.
HeartbeatSweep ==
  /\ tracked' = [s \in Conns |-> IF tracked[s] = "alive" THEN "pinged" ELSE "no"]
  /\ sock' = [s \in Conns |-> IF tracked[s] = "pinged" THEN "closing" ELSE sock[s]]
  /\ UNCHANGED <<up, connections, pageVars, throttleVars>>

\* A page that is there answers a ping, the browser does it.
Pong(s) ==
  /\ tracked[s] = "pinged" /\ sock[s] = "open"
  /\ tracked' = [tracked EXCEPT ![s] = "alive"]
  /\ UNCHANGED <<sock, up, connections, pageVars, throttleVars>>

\* The server is told that the page is gone; after a silent failure it never is.
CloseArrives(s) ==
  /\ sock[s] = "lost"
  /\ sock' = [sock EXCEPT ![s] = "closing"]
  /\ UNCHANGED <<up, connections, tracked, pageVars, throttleVars>>

Tick ==
  /\ since' = [s \in Conns |-> IF since[s] < Window THEN since[s] + 1 ELSE Window]
  /\ timer' = [s \in Conns |-> IF timer[s] \in 1 .. Window THEN timer[s] - 1 ELSE timer[s]]
  /\ UNCHANGED <<sock, up, connections, tracked, pageVars, pending, latest>>

\* The process ends and starts again, with or without closeAllDriverConnections.
Restart ==
  /\ Faults
  /\ sock' = [s \in Conns |-> IF sock[s] = "unused" THEN "unused" ELSE "closed"]
  /\ conn' = [p \in Pages |-> NoConn]
  /\ up' = [s \in Conns |-> <<>>]
  /\ connections' = [d \in Drivers |-> NoConn]
  /\ since' = [s \in Conns |-> Window]
  /\ pending' = [s \in Conns |-> 0]
  /\ timer' = [s \in Conns |-> NoTimer]
  /\ tracked' = [s \in Conns |-> "no"]
  /\ UNCHANGED <<sent, owner, latest>>

Next ==
  \/ \E p \in Pages : SendLocation(p) \/ LeaveConnection(p) \/ \E s \in Conns : Connect(p, s)
  \/ \E s \in Conns :
       Accept(s) \/ HandleLocation(s) \/ TimerFires(s) \/ CloseEvent(s) \/ Pong(s) \/ CloseArrives(s)
  \/ HeartbeatSweep \/ Tick \/ Restart

Spec == Init /\ [][Next]_vars

\* Time passes, timers and intervals fire, and a socket that is being closed does close.
FairSpec ==
  /\ Spec
  /\ WF_vars(Tick) /\ WF_vars(HeartbeatSweep)
  /\ \A s \in Conns : WF_vars(TimerFires(s)) /\ WF_vars(CloseEvent(s))

-----------------------------------------------------------------------------
(***************************************************************************)
(* Properties.                                                              *)
(***************************************************************************)
\* A connection the server takes for open is the one registered for its driver: an offer never
\* misses a driver who is connected, and no two connections speak for one driver, in whatever
\* order they are accepted, replaced and closed (driver-connections.ts:29, 105-116, 159-168).
OpenIsRegistered ==
  \A s \in Conns : sock[s] \in {"open", "lost"} => connections[DriverFor(s)] = s

\* A position kept for later on a registered connection has a timer that will release it: it is
\* coalesced, not dropped (driver-connections.ts:65-70).
PendingIsTimed ==
  \A s \in Conns : pending[s] # 0 /\ connections[DriverFor(s)] = s => timer[s] # NoTimer

\* No throttle timer outlives its connection (docs/websockets.md:123-125), not even one set by a
\* message that arrived after the connection was replaced.
TimersClosed ==
  \A s \in Conns : sock[s] = "closed" => timer[s] = NoTimer

\* What a connection releases is newer than what it released before: no timer brings back a
\* position that a later one has overtaken (driver-connections.ts:80-98).
LastValueWins ==
  [][\A d \in Drivers :
       latest'[d] # latest[d] /\ latest'[d].from = latest[d].from => latest'[d].n > latest[d].n]_vars

\* A position that has to wait is released, or a newer one of its driver, unless the connection ends.
CoalescedIsReleased ==
  \A s \in Conns, n \in Updates :
    pending[s] = n /\ connections[DriverFor(s)] = s
      ~> latest[DriverFor(s)].n >= n \/ connections[DriverFor(s)] # s

\* A peer that is gone without a word does not stay registered (heartbeat.ts:3-5).
SilentIsDropped ==
  \A s \in Conns : sock[s] = "lost" ~> connections[DriverFor(s)] # s

=============================================================================
