-------------------------- MODULE DriverChannelProofs --------------------------
(***************************************************************************)
(* What holds of the drivers' connections for any number of drivers, pages   *)
(* and connections, and any window.                                          *)
(***************************************************************************)
EXTENDS DriverChannel, TLAPS

\* A connection that has not been accepted has kept nothing.
FreshInv == \A s \in Conns : sock[s] \in {"unused", "asked"} => pending[s] = 0

\* Only a connection that was accepted is registered, and for its own driver.
RegisteredInv ==
  \A d \in Drivers : connections[d] # NoConn =>
    DriverFor(connections[d]) = d /\ sock[connections[d]] \in {"open", "lost", "closing"}

ChannelInv ==
  TypeOK /\ FreshInv /\ RegisteredInv /\ OpenIsRegistered /\ PendingIsTimed /\ TimersClosed

-----------------------------------------------------------------------------
\* The first message of a queue is a message, and what is left is a queue.
LEMMA QueueTail ==
  ASSUME NEW S, NEW q \in Seq(S), q # <<>>
  PROVE  Head(q) \in S /\ Tail(q) \in Seq(S)
  OBVIOUS

\* A longer queue is a queue.
LEMMA QueueAppend ==
  ASSUME NEW S, NEW q \in Seq(S), NEW x \in S
  PROVE  Append(q, x) \in Seq(S)
  OBVIOUS

\* The driver of a connection is a driver.
LEMMA DriverForType ==
  ASSUME TypeOK, NEW s \in Conns
  PROVE  DriverFor(s) \in Drivers
  BY DriverOfAssumption DEF TypeOK, DriverFor

\* At the start nothing is registered, kept or timed.
LEMMA ChannelInit == Init => ChannelInv
<1> SUFFICES ASSUME Init PROVE ChannelInv
  OBVIOUS
<1> USE WindowAssumption, BoundsAssumption, NoConnAssumption, DriverOfAssumption
<1>1. TypeOK
  BY DEF Init, TypeOK, NeverReleased, NoTimer, Updates
<1>2. FreshInv /\ TimersClosed
  BY DEF Init, FreshInv, TimersClosed
<1>3. RegisteredInv
  BY DEF Init, RegisteredInv
<1>4. OpenIsRegistered /\ PendingIsTimed
  BY DEF Init, OpenIsRegistered, PendingIsTimed
<1> QED BY <1>1, <1>2, <1>3, <1>4 DEF ChannelInv

\* A release leaves well-formed records behind.
LEMMA ReleaseTypes ==
  ASSUME TypeOK, NEW s \in Conns, NEW n \in 0 .. MaxUpdates, Release(s, n)
  PROVE  /\ since' \in [Conns -> 0 .. Window]
         /\ pending' \in [Conns -> 0 .. MaxUpdates]
         /\ latest' \in [Drivers -> [from : Conns \cup {NoConn}, n : 0 .. MaxUpdates]]
<1>1. since' \in [Conns -> 0 .. Window] /\ pending' \in [Conns -> 0 .. MaxUpdates]
  BY WindowAssumption, BoundsAssumption DEF Release, TypeOK
<1>2. DriverFor(s) \in Drivers
  BY DriverForType
<1>3. latest' \in [Drivers -> [from : Conns \cup {NoConn}, n : 0 .. MaxUpdates]]
  BY <1>2 DEF Release, TypeOK
<1> QED BY <1>1, <1>3

-----------------------------------------------------------------------------
\* Every operation keeps the types.
LEMMA TypesPreserved == TypeOK /\ [Next]_vars => TypeOK'
<1> SUFFICES ASSUME TypeOK, [Next]_vars PROVE TypeOK'
  OBVIOUS
<1> USE WindowAssumption, BoundsAssumption, NoConnAssumption, DriverOfAssumption
<1>1. ASSUME NEW p \in Pages, SendLocation(p) PROVE TypeOK'
  <2> DEFINE s == conn[p]
             n == sent[DriverOf[p]] + 1
  <2>1. s \in Conns /\ n \in Updates /\ sent' \in [Drivers -> 0 .. MaxUpdates]
    BY <1>1 DEF SendLocation, Transmit, TypeOK, Updates
  <2>2. Append(up[s], n) \in Seq(Updates)
    BY <2>1, QueueAppend DEF TypeOK
  <2>3. up' \in [Conns -> Seq(Updates)]
    BY <1>1, <2>1, <2>2 DEF SendLocation, Transmit, TypeOK
  <2> QED BY <1>1, <2>1, <2>3 DEF SendLocation, Transmit, TypeOK, throttleVars
<1>2. ASSUME NEW p \in Pages, LeaveConnection(p) PROVE TypeOK'
  BY <1>2 DEF LeaveConnection, TypeOK, throttleVars
<1>3. ASSUME NEW p \in Pages, NEW s \in Conns, Connect(p, s) PROVE TypeOK'
  BY <1>3 DEF Connect, TypeOK, throttleVars
<1>4. ASSUME NEW s \in Conns, Accept(s) PROVE TypeOK'
  <2>1. sock' \in [Conns -> {"unused", "asked", "open", "lost", "closing", "closed"}]
    BY <1>4 DEF Accept, HandleDriverConnection, TypeOK
  <2>2. timer' \in [Conns -> 0 .. NoTimer]
    BY <1>4 DEF Accept, HandleDriverConnection, TypeOK, NoTimer
  <2>3. tracked' \in [Conns -> {"no", "alive", "pinged"}]
    BY <1>4 DEF Accept, HandleDriverConnection, TypeOK
  <2>4. connections' \in [Drivers -> Conns \cup {NoConn}]
    BY <1>4 DEF Accept, HandleDriverConnection, TypeOK
  <2> QED BY <1>4, <2>1, <2>2, <2>3, <2>4 DEF Accept, HandleDriverConnection, TypeOK, pageVars
<1>5. ASSUME NEW s \in Conns, HandleLocation(s) PROVE TypeOK'
  <2>1. Head(up[s]) \in Updates /\ Tail(up[s]) \in Seq(Updates)
    BY <1>5, QueueTail DEF HandleLocation, TypeOK
  <2>2. up' \in [Conns -> Seq(Updates)]
    BY <1>5, <2>1 DEF HandleLocation, TypeOK
  <2>3. CASE Release(s, Head(up[s])) /\ UNCHANGED timer
    <3>1. Head(up[s]) \in 0 .. MaxUpdates
      BY <2>1 DEF Updates
    <3> QED BY <1>5, <2>2, <2>3, <3>1, ReleaseTypes DEF HandleLocation, TypeOK, pageVars
  <2>4. CASE since[s] < Window /\ Coalesce(s, Head(up[s]))
    BY <1>5, <2>1, <2>2, <2>4
    DEF HandleLocation, Coalesce, TypeOK, Updates, NoTimer, pageVars
  <2> QED BY <1>5, <2>3, <2>4 DEF HandleLocation
<1>6. ASSUME NEW s \in Conns, TimerFires(s) PROVE TypeOK'
  <2>1. timer' \in [Conns -> 0 .. NoTimer] /\ pending[s] \in 0 .. MaxUpdates
    BY <1>6 DEF TimerFires, TypeOK, NoTimer
  <2>2. CASE Release(s, pending[s])
    BY <1>6, <2>1, <2>2, ReleaseTypes DEF TimerFires, TypeOK, pageVars
  <2>3. CASE UNCHANGED <<since, pending, latest>>
    BY <1>6, <2>1, <2>3 DEF TimerFires, TypeOK, pageVars
  <2> QED BY <1>6, <2>2, <2>3 DEF TimerFires
<1>7. ASSUME NEW s \in Conns, CloseEvent(s) PROVE TypeOK'
  <2>1. <<>> \in Seq(Updates) /\ DriverFor(s) \in Drivers
    BY DriverForType
  <2>2. up' \in [Conns -> Seq(Updates)]
    BY <1>7, <2>1 DEF CloseEvent, TypeOK
  <2>3. /\ sock' \in [Conns -> {"unused", "asked", "open", "lost", "closing", "closed"}]
        /\ tracked' \in [Conns -> {"no", "alive", "pinged"}]
    BY <1>7 DEF CloseEvent, TypeOK
  <2>4. timer' \in [Conns -> 0 .. NoTimer]
    BY <1>7 DEF CloseEvent, TypeOK, NoTimer
  <2>5. connections' \in [Drivers -> Conns \cup {NoConn}]
    BY <1>7, <2>1 DEF CloseEvent, TypeOK
  <2> QED BY <1>7, <2>2, <2>3, <2>4, <2>5 DEF CloseEvent, TypeOK, pageVars
<1>8. ASSUME NEW s \in Conns, Pong(s) PROVE TypeOK'
  BY <1>8 DEF Pong, TypeOK, throttleVars, pageVars
<1>9. ASSUME NEW s \in Conns, CloseArrives(s) PROVE TypeOK'
  BY <1>9 DEF CloseArrives, TypeOK, throttleVars, pageVars
<1>10. ASSUME HeartbeatSweep PROVE TypeOK'
  BY <1>10 DEF HeartbeatSweep, TypeOK, throttleVars, pageVars
<1>11. ASSUME Tick PROVE TypeOK'
  BY <1>11 DEF Tick, TypeOK, NoTimer, pageVars
<1>12. ASSUME Restart PROVE TypeOK'
  BY <1>12 DEF Restart, TypeOK, NoTimer
<1>13. CASE UNCHANGED vars
  BY <1>13 DEF vars, TypeOK, throttleVars, pageVars
<1> QED BY <1>1, <1>2, <1>3, <1>4, <1>5, <1>6, <1>7, <1>8, <1>9, <1>10, <1>11, <1>12, <1>13 DEF Next
-----------------------------------------------------------------------------
\* Every operation keeps the rest of the invariant.
LEMMA RegistryPreserved == ChannelInv /\ [Next]_vars => (FreshInv /\ RegisteredInv /\ OpenIsRegistered)'
<1> SUFFICES ASSUME ChannelInv, [Next]_vars PROVE (FreshInv /\ RegisteredInv /\ OpenIsRegistered)'
  OBVIOUS
<1> USE DriverOfAssumption, NoConnAssumption
<1>0. TypeOK /\ FreshInv /\ RegisteredInv /\ OpenIsRegistered
  BY DEF ChannelInv
<1>1. ASSUME NEW p \in Pages, SendLocation(p)
      PROVE  (FreshInv /\ RegisteredInv /\ OpenIsRegistered)'
  BY <1>0, <1>1 DEF FreshInv, RegisteredInv, OpenIsRegistered, SendLocation, Transmit, throttleVars, DriverFor
<1>2. ASSUME NEW p \in Pages, LeaveConnection(p)
      PROVE  (FreshInv /\ RegisteredInv /\ OpenIsRegistered)'
  BY <1>0, <1>2 DEF FreshInv, RegisteredInv, OpenIsRegistered, LeaveConnection, throttleVars, DriverFor, TypeOK
<1>3. ASSUME NEW p \in Pages, NEW s \in Conns, Connect(p, s)
      PROVE  (FreshInv /\ RegisteredInv /\ OpenIsRegistered)'
  BY <1>0, <1>3 DEF FreshInv, RegisteredInv, OpenIsRegistered, Connect, throttleVars, DriverFor, TypeOK
<1>4. ASSUME NEW s \in Conns, Accept(s)
      PROVE  (FreshInv /\ RegisteredInv /\ OpenIsRegistered)'
  <2>1. \A t \in Conns \ {s} :
          sock'[t] = IF t = connections[DriverFor(s)] THEN "closing" ELSE sock[t]
    <3> SUFFICES ASSUME NEW t \in Conns, t # s
                 PROVE  sock'[t] = IF t = connections[DriverFor(s)] THEN "closing" ELSE sock[t]
      OBVIOUS
    <3>1. sock'[t] = CASE t = s -> IF Held(s) THEN "open" ELSE "lost"
                       [] t = connections[DriverFor(s)] -> "closing"
                       [] OTHER -> sock[t]
      BY <1>4 DEF Accept, HandleDriverConnection
    <3> QED BY <3>1
  <2>2. sock'[s] \in {"open", "lost"} /\ pending' = pending
    <3>1. sock'[s] = CASE s = s -> IF Held(s) THEN "open" ELSE "lost"
                       [] s = connections[DriverFor(s)] -> "closing"
                       [] OTHER -> sock[s]
      BY <1>4 DEF Accept, HandleDriverConnection
    <3>2. sock'[s] = IF Held(s) THEN "open" ELSE "lost"
      <4>1. CASE connections[DriverFor(s)] = s
        <5> QED BY <1>0, <1>4, <4>1, DriverForType, NoConnAssumption DEF Accept, HandleDriverConnection, RegisteredInv
      <4>2. CASE connections[DriverFor(s)] # s
        BY <3>1, <4>2
      <4> QED BY <4>1, <4>2
    <3> QED BY <1>4, <3>2 DEF Accept, HandleDriverConnection
  <2>3. /\ connections'[DriverFor(s)] = s
        /\ \A d \in Drivers : d # DriverFor(s) => connections'[d] = connections[d]
    BY <1>0, <1>4, DriverForType DEF Accept, HandleDriverConnection, TypeOK
  <2>4. \A t \in Conns : DriverFor(t)' = DriverFor(t) /\ DriverFor(t) \in Drivers
    BY <1>0, <1>4, DriverForType DEF Accept, HandleDriverConnection, DriverFor, pageVars
  <2>5. FreshInv'
    BY <1>0, <1>4, <2>1, <2>2 DEF Accept, HandleDriverConnection, FreshInv
  <2>6. OpenIsRegistered'
    BY <1>0, <2>1, <2>2, <2>3, <2>4 DEF OpenIsRegistered
  <2>7. RegisteredInv'
    <3> SUFFICES ASSUME NEW d \in Drivers, (connections[d] # NoConn)'
                 PROVE  (/\ DriverFor(connections[d]) = d
                         /\ sock[connections[d]] \in {"open", "lost", "closing"})'
      BY DEF RegisteredInv
    <3>1. CASE d = DriverFor(s)
      BY <2>2, <2>3, <2>4, <3>1
    <3>2. CASE d # DriverFor(s)
      <4>1. connections'[d] = connections[d] /\ connections[d] \in Conns \ {s}
        <5>1. connections'[d] = connections[d] /\ connections[d] \in Conns
          BY <1>0, <2>3, <3>2 DEF TypeOK
        <5> QED BY <1>0, <2>3, <3>2, <5>1 DEF RegisteredInv
      <4> QED BY <1>0, <2>1, <2>4, <3>2, <4>1 DEF RegisteredInv
    <3> QED BY <3>1, <3>2
  <2> QED BY <2>5, <2>6, <2>7
<1>5. ASSUME NEW s \in Conns, HandleLocation(s)
      PROVE  (FreshInv /\ RegisteredInv /\ OpenIsRegistered)'
  BY <1>0, <1>5 DEF FreshInv, RegisteredInv, OpenIsRegistered, HandleLocation, Release, Coalesce, DriverFor, TypeOK, pageVars
<1>6. ASSUME NEW s \in Conns, TimerFires(s)
      PROVE  (FreshInv /\ RegisteredInv /\ OpenIsRegistered)'
  BY <1>0, <1>6 DEF FreshInv, RegisteredInv, OpenIsRegistered, TimerFires, Release, DriverFor, TypeOK, pageVars
<1>7. ASSUME NEW s \in Conns, CloseEvent(s)
      PROVE  (FreshInv /\ RegisteredInv /\ OpenIsRegistered)'
  BY <1>0, <1>7, DriverForType DEF FreshInv, RegisteredInv, OpenIsRegistered, CloseEvent, DriverFor, TypeOK, pageVars
<1>8. ASSUME NEW s \in Conns, Pong(s)
      PROVE  (FreshInv /\ RegisteredInv /\ OpenIsRegistered)'
  BY <1>0, <1>8 DEF FreshInv, RegisteredInv, OpenIsRegistered, Pong, throttleVars, pageVars, DriverFor
<1>9. ASSUME NEW s \in Conns, CloseArrives(s)
      PROVE  (FreshInv /\ RegisteredInv /\ OpenIsRegistered)'
  BY <1>0, <1>9 DEF FreshInv, RegisteredInv, OpenIsRegistered, CloseArrives, throttleVars, pageVars, DriverFor, TypeOK
<1>10. ASSUME HeartbeatSweep
       PROVE  (FreshInv /\ RegisteredInv /\ OpenIsRegistered)'
  BY <1>0, <1>10 DEF FreshInv, RegisteredInv, OpenIsRegistered, HeartbeatSweep, throttleVars, pageVars, DriverFor, TypeOK
<1>11. ASSUME Tick
       PROVE  (FreshInv /\ RegisteredInv /\ OpenIsRegistered)'
  BY <1>0, <1>11 DEF FreshInv, RegisteredInv, OpenIsRegistered, Tick, pageVars, DriverFor
<1>12. ASSUME Restart
       PROVE  (FreshInv /\ RegisteredInv /\ OpenIsRegistered)'
  BY <1>0, <1>12 DEF FreshInv, RegisteredInv, OpenIsRegistered, Restart, TypeOK
<1>13. CASE UNCHANGED vars
  BY <1>0, <1>13 DEF FreshInv, RegisteredInv, OpenIsRegistered, vars, throttleVars, pageVars, DriverFor
<1> QED BY <1>1, <1>2, <1>3, <1>4, <1>5, <1>6, <1>7, <1>8, <1>9, <1>10, <1>11, <1>12, <1>13 DEF Next
\* No operation leaves a position behind without a timer, or a timer on a closed connection.
LEMMA TimersPreserved == ChannelInv /\ [Next]_vars => (PendingIsTimed /\ TimersClosed)'
<1> SUFFICES ASSUME ChannelInv, [Next]_vars PROVE (PendingIsTimed /\ TimersClosed)'
  OBVIOUS
<1> USE DriverOfAssumption, NoConnAssumption, WindowAssumption, BoundsAssumption
<1> USE DEF PendingIsTimed, TimersClosed
<1>0. TypeOK /\ FreshInv /\ RegisteredInv /\ PendingIsTimed /\ TimersClosed
  BY DEF ChannelInv
<1>1. ASSUME NEW p \in Pages, SendLocation(p) PROVE (PendingIsTimed /\ TimersClosed)'
  BY <1>0, <1>1 DEF SendLocation, Transmit, throttleVars, DriverFor
<1>2. ASSUME NEW p \in Pages, LeaveConnection(p) PROVE (PendingIsTimed /\ TimersClosed)'
  BY <1>0, <1>2 DEF LeaveConnection, throttleVars, DriverFor
<1>3. ASSUME NEW p \in Pages, NEW s \in Conns, Connect(p, s) PROVE (PendingIsTimed /\ TimersClosed)'
  BY <1>0, <1>3 DEF Connect, throttleVars, DriverFor, TypeOK
<1>4. ASSUME NEW s \in Conns, Accept(s) PROVE (PendingIsTimed /\ TimersClosed)'
  <2>1. /\ timer' = [t \in Conns |-> IF t = connections[DriverFor(s)] THEN NoTimer ELSE timer[t]]
        /\ connections' = [connections EXCEPT ![DriverFor(s)] = s]
        /\ pending' = pending /\ owner' = owner
        /\ pending[s] = 0
    BY <1>0, <1>4 DEF Accept, HandleDriverConnection, FreshInv, pageVars
  <2>2. \A t \in Conns : DriverFor(t)' = DriverFor(t) /\ DriverFor(t) \in Drivers
    BY <1>0, <2>1, DriverForType DEF DriverFor
  <2>3. PendingIsTimed'
    <3> SUFFICES ASSUME NEW t \in Conns,
                        (pending[t] # 0 /\ connections[DriverFor(t)] = t)'
                 PROVE  timer'[t] # NoTimer
      OBVIOUS
    <3>1. t # s /\ DriverFor(t) # DriverFor(s) /\ connections[DriverFor(t)] = t
      BY <1>0, <2>1, <2>2 DEF TypeOK
    <3>2. connections[DriverFor(s)] # t
      BY <1>0, <2>2, <3>1 DEF RegisteredInv
    <3> QED BY <1>0, <2>1, <3>1, <3>2
  <2>4. TimersClosed'
    <3> SUFFICES ASSUME NEW t \in Conns, sock'[t] = "closed" PROVE timer'[t] = NoTimer
      OBVIOUS
    <3>1. CASE t = connections[DriverFor(s)]
      BY <2>1, <3>1
    <3>2. CASE t # connections[DriverFor(s)] /\ t # s
      <4>1. sock'[t] = CASE t = s -> IF Held(s) THEN "open" ELSE "lost"
                         [] t = connections[DriverFor(s)] -> "closing"
                         [] OTHER -> sock[t]
        BY <1>4 DEF Accept, HandleDriverConnection
      <4> QED BY <1>0, <2>1, <3>2, <4>1
    <3>3. CASE t # connections[DriverFor(s)] /\ t = s
      BY <1>0, <1>4, <2>1, <3>3 DEF Accept, HandleDriverConnection
    <3> QED BY <3>1, <3>2, <3>3
  <2> QED BY <2>3, <2>4
<1>5. ASSUME NEW s \in Conns, HandleLocation(s) PROVE (PendingIsTimed /\ TimersClosed)'
  <2>1. CASE Release(s, Head(up[s])) /\ UNCHANGED timer
    BY <1>0, <1>5, <2>1 DEF HandleLocation, Release, DriverFor, TypeOK, pageVars
  <2>2. CASE since[s] < Window /\ Coalesce(s, Head(up[s]))
    <3>1. Window - since[s] # NoTimer
      BY <1>0, <2>2 DEF TypeOK, NoTimer
    <3>2. /\ timer'[s] # NoTimer
          /\ \A t \in Conns \ {s} : timer'[t] = timer[t] /\ pending'[t] = pending[t]
      BY <1>0, <2>2, <3>1 DEF Coalesce, TypeOK
    <3>3. /\ sock[s] # "closed" /\ sock' = sock /\ connections' = connections
          /\ owner' = owner
      BY <1>5 DEF HandleLocation, pageVars
    <3> QED BY <1>0, <3>2, <3>3 DEF DriverFor
  <2> QED BY <1>5, <2>1, <2>2 DEF HandleLocation
<1>6. ASSUME NEW s \in Conns, TimerFires(s) PROVE (PendingIsTimed /\ TimersClosed)'
  BY <1>0, <1>6 DEF TimerFires, Release, DriverFor, TypeOK, pageVars
<1>7. ASSUME NEW s \in Conns, CloseEvent(s) PROVE (PendingIsTimed /\ TimersClosed)'
  BY <1>0, <1>7, DriverForType DEF CloseEvent, DriverFor, TypeOK, pageVars
<1>8. ASSUME NEW s \in Conns, Pong(s) PROVE (PendingIsTimed /\ TimersClosed)'
  BY <1>0, <1>8 DEF Pong, throttleVars, pageVars, DriverFor
<1>9. ASSUME NEW s \in Conns, CloseArrives(s) PROVE (PendingIsTimed /\ TimersClosed)'
  BY <1>0, <1>9 DEF CloseArrives, throttleVars, pageVars, DriverFor, TypeOK
<1>10. ASSUME HeartbeatSweep PROVE (PendingIsTimed /\ TimersClosed)'
  BY <1>0, <1>10 DEF HeartbeatSweep, throttleVars, pageVars, DriverFor, TypeOK
<1>11. ASSUME Tick PROVE (PendingIsTimed /\ TimersClosed)'
  BY <1>0, <1>11 DEF Tick, pageVars, DriverFor, TypeOK, NoTimer
<1>12. ASSUME Restart PROVE (PendingIsTimed /\ TimersClosed)'
  BY <1>0, <1>12 DEF Restart, TypeOK
<1>13. CASE UNCHANGED vars
  BY <1>0, <1>13 DEF vars, throttleVars, pageVars, DriverFor
<1> QED BY <1>1, <1>2, <1>3, <1>4, <1>5, <1>6, <1>7, <1>8, <1>9, <1>10, <1>11, <1>12, <1>13 DEF Next

-----------------------------------------------------------------------------
\* The invariant holds throughout.
LEMMA Inductive == Spec => []ChannelInv
<1>1. ChannelInv /\ [Next]_vars => ChannelInv'
  <2> SUFFICES ASSUME ChannelInv, [Next]_vars PROVE ChannelInv'
    OBVIOUS
  <2>1. TypeOK'
    BY TypesPreserved DEF ChannelInv
  <2>2. (FreshInv /\ RegisteredInv /\ OpenIsRegistered)'
    BY RegistryPreserved
  <2>3. (PendingIsTimed /\ TimersClosed)'
    BY TimersPreserved
  <2> QED BY <2>1, <2>2, <2>3 DEF ChannelInv
<1> QED BY <1>1, ChannelInit, PTL DEF Spec

\* The state of driver-connections.ts and heartbeat.ts is well formed throughout.
THEOREM ChannelTypeCorrect == Spec => []TypeOK
<1>1. ChannelInv => TypeOK
  BY DEF ChannelInv
<1> QED BY <1>1, Inductive, PTL

\* However connections are accepted, replaced, broken and closed, only the registered connection of
\* a driver counts as open (driver-connections.ts:105-116, 159-168).
THEOREM OneConnectionPerDriver == Spec => []OpenIsRegistered
<1>1. ChannelInv => OpenIsRegistered
  BY DEF ChannelInv
<1> QED BY <1>1, Inductive, PTL

\* A position that waits on the registered connection has a timer, and a closed connection has none
\* (driver-connections.ts:87-98, 159-161).
THEOREM TimersMatchPending == Spec => [](PendingIsTimed /\ TimersClosed)
<1>1. ChannelInv => PendingIsTimed /\ TimersClosed
  BY DEF ChannelInv
<1> QED BY <1>1, Inductive, PTL

-----------------------------------------------------------------------------
(***************************************************************************)
(* The order of positions.  On a connection they run, oldest first, from the *)
(* one it has released through the one it has kept to those not handled yet, *)
(* and the pages of its driver have sent none that is newer.                 *)
(***************************************************************************)
SentInOrder(s) ==
  /\ \A i \in DOMAIN up[s] : up[s][i] <= sent[DriverFor(s)] /\ pending[s] < up[s][i]
  /\ \A i, j \in DOMAIN up[s] : i < j => up[s][i] < up[s][j]
  /\ pending[s] <= sent[DriverFor(s)]

ReleasedFirst(s, d) ==
  latest[d].from = s =>
    /\ latest[d].n <= sent[DriverFor(s)]
    /\ pending[s] # 0 => latest[d].n < pending[s]
    /\ \A i \in DOMAIN up[s] : latest[d].n < up[s][i]

OwnConnection == \A p \in Pages : conn[p] # NoConn => owner[conn[p]] = p

OrderInv ==
  /\ OwnConnection
  /\ \A s \in Conns : SentInOrder(s) /\ \A d \in Drivers : ReleasedFirst(s, d)

\* A message more,
LEMMA Appended ==
  ASSUME NEW S, NEW q \in Seq(S), NEW x \in S
  PROVE  /\ DOMAIN Append(q, x) = DOMAIN q \cup {Len(q) + 1}
         /\ \A i \in DOMAIN q : i < Len(q) + 1 /\ ~(Len(q) + 1 < i) /\ Append(q, x)[i] = q[i]
         /\ Append(q, x)[Len(q) + 1] = x
         /\ ~(Len(q) + 1 < Len(q) + 1)
OBVIOUS

\* and one less.
LEMMA Tailed ==
  ASSUME NEW S, NEW q \in Seq(S), q # <<>>
  PROVE  /\ 1 \in DOMAIN q /\ Head(q) = q[1]
         /\ \A i \in DOMAIN Tail(q) : i \in Nat /\ 1 < i + 1 /\ i + 1 \in DOMAIN q /\ Tail(q)[i] = q[i + 1]
OBVIOUS

\* Connections nothing is done to keep their order.
LEMMA OrderKept ==
  ASSUME NEW s \in Conns, SentInOrder(s), \A d \in Drivers : ReleasedFirst(s, d), TypeOK, TypeOK',
         UNCHANGED owner, up'[s] = up[s] \/ up'[s] = <<>>, pending'[s] = pending[s],
         \A d \in Drivers : sent[d] <= sent'[d],
         \A d \in Drivers : latest'[d] = latest[d] \/ latest'[d].from # s
  PROVE  SentInOrder(s)' /\ \A d \in Drivers : ReleasedFirst(s, d)'
<1>1. DriverFor(s)' = DriverFor(s) /\ DriverFor(s) \in Drivers
  BY DriverForType DEF DriverFor
<1>2. /\ sent[DriverFor(s)] \in Nat /\ sent'[DriverFor(s)] \in Nat
      /\ sent[DriverFor(s)] <= sent'[DriverFor(s)]
      /\ pending[s] \in Nat
      /\ \A i \in DOMAIN up[s] : up[s][i] \in Nat
      /\ \A d \in Drivers : latest[d].n \in Nat
  BY <1>1, BoundsAssumption DEF TypeOK, Updates
<1>3. DOMAIN <<>> = {}
  OBVIOUS
<1>4. SentInOrder(s)'
  BY <1>1, <1>2, <1>3 DEF SentInOrder
<1>5. ASSUME NEW d \in Drivers PROVE ReleasedFirst(s, d)'
  BY <1>1, <1>2, <1>3, <1>5 DEF ReleasedFirst
<1> QED BY <1>4, <1>5

LEMMA OrderInit == Init => OrderInv
<1> SUFFICES ASSUME Init PROVE OrderInv
  OBVIOUS
<1>1. DOMAIN <<>> = {}
  OBVIOUS
<1>2. ASSUME NEW s \in Conns PROVE SentInOrder(s)
  <2>1. DriverFor(s) \in Drivers
    BY DriverOfAssumption DEF Init, DriverFor
  <2> QED BY <1>1, <2>1 DEF Init, SentInOrder
<1>3. ASSUME NEW s \in Conns, NEW d \in Drivers PROVE ReleasedFirst(s, d)
  BY NoConnAssumption DEF Init, ReleasedFirst, NeverReleased
<1>4. OwnConnection
  BY DEF Init, OwnConnection
<1> QED BY <1>2, <1>3, <1>4 DEF OrderInv

\* What a connection releases is newer than what it released before, and older than the rest.
LEMMA ReleaseInOrder ==
  ASSUME TypeOK, OrderInv, NEW s \in Conns, NEW n \in Updates, Release(s, n), UNCHANGED <<sent, owner>>,
         n <= sent[DriverFor(s)],
         \A d \in Drivers : latest[d].from = s => latest[d].n < n,
         \A i \in DOMAIN up'[s] : up'[s][i] \in Nat /\ n < up'[s][i] /\ up'[s][i] <= sent[DriverFor(s)],
         \A i, j \in DOMAIN up'[s] : i < j => up'[s][i] < up'[s][j]
  PROVE  SentInOrder(s)' /\ \A d \in Drivers : ReleasedFirst(s, d)'
<1>1. DriverFor(s)' = DriverFor(s) /\ DriverFor(s) \in Drivers
  BY DriverForType DEF DriverFor
<1>2. /\ sent[DriverFor(s)] \in Nat /\ pending'[s] = 0 /\ n \in Nat
      /\ \A d \in Drivers : latest[d].n \in Nat
      /\ \A d \in Drivers : latest'[d] = IF d = DriverFor(s) THEN [from |-> s, n |-> n] ELSE latest[d]
  BY <1>1, BoundsAssumption DEF TypeOK, Updates, Release
<1>3. \A i \in DOMAIN up'[s] : 0 < up'[s][i]
  BY <1>2
<1>4. SentInOrder(s)'
  BY <1>1, <1>2, <1>3 DEF SentInOrder
<1>5. ASSUME NEW d \in Drivers PROVE ReleasedFirst(s, d)'
  <2>1. CASE d = DriverFor(s)
    BY <1>1, <1>2, <2>1 DEF ReleasedFirst
  <2>2. CASE d # DriverFor(s)
    <3>1. latest'[d] = latest[d]
      BY <1>2, <2>2
    <3>2. latest[d].from = s => /\ latest[d].n < n /\ latest[d].n <= sent[DriverFor(s)]
                                /\ \A i \in DOMAIN up'[s] : latest[d].n < up'[s][i]
      BY <1>2
    <3> QED BY <1>1, <1>2, <3>1, <3>2 DEF ReleasedFirst
  <2> QED BY <2>1, <2>2
<1> QED BY <1>4, <1>5

\* What the next message of a connection finds.
LEMMA NextMessage ==
  ASSUME TypeOK, OrderInv, NEW s \in Conns, up[s] # <<>>
  PROVE  /\ Head(up[s]) \in Updates /\ Head(up[s]) <= sent[DriverFor(s)] /\ pending[s] < Head(up[s])
         /\ \A d \in Drivers : latest[d].from = s => latest[d].n < Head(up[s])
         /\ \A i \in DOMAIN Tail(up[s]) : /\ Tail(up[s])[i] \in Nat /\ Head(up[s]) < Tail(up[s])[i]
                                          /\ Tail(up[s])[i] <= sent[DriverFor(s)]
         /\ \A i, j \in DOMAIN Tail(up[s]) : i < j => Tail(up[s])[i] < Tail(up[s])[j]
<1> DEFINE q == up[s]
<1>1. q \in Seq(Updates) /\ q # <<>>
  BY DEF TypeOK
<1>2. \A i \in DOMAIN q : q[i] \in Updates /\ i \in Nat
  BY <1>1
<1>3. /\ SentInOrder(s) /\ \A d \in Drivers : ReleasedFirst(s, d)
  BY DEF OrderInv
<1>4. /\ \A i \in DOMAIN q : q[i] <= sent[DriverFor(s)] /\ pending[s] < q[i]
      /\ \A i, j \in DOMAIN q : i < j => q[i] < q[j]
      /\ \A d \in Drivers : latest[d].from = s => \A i \in DOMAIN q : latest[d].n < q[i]
  BY <1>3 DEF SentInOrder, ReleasedFirst
<1> HIDE DEF q
<1>5. /\ 1 \in DOMAIN q /\ Head(q) = q[1]
      /\ \A i \in DOMAIN Tail(q) : i \in Nat /\ 1 < i + 1 /\ i + 1 \in DOMAIN q /\ Tail(q)[i] = q[i + 1]
  BY <1>1, Tailed
<1>6. \A i, j \in DOMAIN Tail(q) : i < j => i + 1 < j + 1
  BY <1>5
<1>7. /\ Head(q) \in Updates /\ Head(q) <= sent[DriverFor(s)] /\ pending[s] < Head(q)
      /\ \A d \in Drivers : latest[d].from = s => latest[d].n < Head(q)
  BY <1>2, <1>4, <1>5
<1>8. \A i \in DOMAIN Tail(q) : Tail(q)[i] \in Nat /\ Head(q) < Tail(q)[i] /\ Tail(q)[i] <= sent[DriverFor(s)]
  BY <1>2, <1>4, <1>5 DEF Updates
<1>9. \A i, j \in DOMAIN Tail(q) : i < j => Tail(q)[i] < Tail(q)[j]
  BY <1>4, <1>5, <1>6
<1> QED BY <1>7, <1>8, <1>9 DEF q

\* Every operation keeps the order, and releases no position that a later one has overtaken.
LEMMA OrderPreserved ==
  ASSUME TypeOK, TypeOK', OrderInv, [Next]_vars
  PROVE  /\ OrderInv'
         /\ \A d \in Drivers :
              latest'[d] # latest[d] /\ latest'[d].from = latest[d].from => latest'[d].n > latest[d].n
<1> DEFINE Newer == \A d \in Drivers :
              latest'[d] # latest[d] /\ latest'[d].from = latest[d].from => latest'[d].n > latest[d].n
           InOrder(s) == SentInOrder(s) /\ \A d \in Drivers : ReleasedFirst(s, d)
<1> USE WindowAssumption, BoundsAssumption, NoConnAssumption, DriverOfAssumption
<1>0. OwnConnection /\ \A s \in Conns : SentInOrder(s) /\ \A d \in Drivers : ReleasedFirst(s, d)
  BY DEF OrderInv
<1>1. ASSUME NEW p \in Pages, SendLocation(p) PROVE OrderInv' /\ Newer
  <2> DEFINE n == sent[DriverOf[p]] + 1
             e == DriverOf[p]
  <2>1. PICK t \in Conns :
        /\ t = conn[p] /\ e \in Drivers /\ DriverFor(t) = e /\ n \in Updates
        /\ UNCHANGED <<conn, owner, pending, latest>>
        /\ sent' = [sent EXCEPT ![e] = n] /\ up' = [up EXCEPT ![t] = Append(up[t], n)]
    <3>1. /\ conn[p] \in Conns /\ e \in Drivers /\ DriverFor(conn[p]) = e
          /\ n \in Updates
      BY <1>0, <1>1 DEF SendLocation, TypeOK, Updates, OwnConnection, DriverFor
    <3>2. /\ UNCHANGED <<conn, owner, pending, latest>>
          /\ sent' = [sent EXCEPT ![e] = n] /\ up' = [up EXCEPT ![conn[p]] = Append(up[conn[p]], n)]
      BY <1>1, <3>1 DEF SendLocation, Transmit, throttleVars, TypeOK
    <3> QED BY <3>1, <3>2
  <2>2. \A d \in Drivers : sent[d] \in Nat /\ sent'[d] \in Nat /\ sent[d] <= sent'[d]
    BY <2>1 DEF TypeOK, Updates
  <2>3. OwnConnection'
    BY <1>0, <2>1 DEF OwnConnection
  <2>4. ASSUME NEW s \in Conns, s # t PROVE SentInOrder(s)' /\ \A d \in Drivers : ReleasedFirst(s, d)'
    <3>1. up'[s] = up[s] /\ pending'[s] = pending[s]
      BY <2>1, <2>4 DEF TypeOK
    <3> QED BY <1>0, <2>1, <2>2, <3>1, OrderKept
  <2>5. /\ up[t] \in Seq(Updates) /\ up'[t] = Append(up[t], n)
        /\ sent'[e] = n /\ n = sent[e] + 1 /\ sent[e] \in Nat
        /\ pending'[t] = pending[t] /\ pending[t] \in Nat
        /\ DriverFor(t)' = e
    BY <2>1, <2>2 DEF TypeOK, DriverFor
  <2>6. \A i \in DOMAIN up[t] : up[t][i] \in Nat /\ up[t][i] <= sent[e] /\ pending[t] < up[t][i] /\ up[t][i] < n
    <3>1. \A i \in DOMAIN up[t] : up[t][i] \in Nat
      BY <2>5 DEF Updates
    <3>2. \A i \in DOMAIN up[t] : up[t][i] <= sent[e] /\ pending[t] < up[t][i]
      BY <1>0, <2>1 DEF SentInOrder
    <3> QED BY <2>5, <3>1, <3>2
  <2>7. /\ DOMAIN up'[t] = DOMAIN up[t] \cup {Len(up[t]) + 1}
        /\ \A i \in DOMAIN up[t] : i < Len(up[t]) + 1 /\ ~(Len(up[t]) + 1 < i) /\ up'[t][i] = up[t][i]
        /\ up'[t][Len(up[t]) + 1] = n
        /\ ~(Len(up[t]) + 1 < Len(up[t]) + 1)
    BY <2>1, <2>5, Appended
  <2>8. SentInOrder(t)'
    <3>1. pending[t] <= sent[e] /\ \A i, j \in DOMAIN up[t] : i < j => up[t][i] < up[t][j]
      BY <1>0, <2>1 DEF SentInOrder
    <3>2. \A i \in DOMAIN up'[t] : up'[t][i] <= n /\ pending[t] < up'[t][i]
      BY <2>5, <2>6, <2>7, <3>1
    <3>3. \A i, j \in DOMAIN up'[t] : i < j => up'[t][i] < up'[t][j]
      BY <2>6, <2>7, <3>1
    <3>4. pending[t] <= n
      BY <2>5, <3>1
    <3> QED BY <2>5, <3>2, <3>3, <3>4 DEF SentInOrder
  <2>9. ASSUME NEW d \in Drivers, latest[d].from = t PROVE ReleasedFirst(t, d)'
    <3>1. /\ latest[d].n <= sent[e] /\ latest[d].n \in Nat
          /\ pending[t] # 0 => latest[d].n < pending[t]
          /\ \A i \in DOMAIN up[t] : latest[d].n < up[t][i]
      BY <1>0, <2>1, <2>9 DEF ReleasedFirst, TypeOK
    <3>2. latest[d].n <= n /\ latest[d].n < n
      BY <2>5, <3>1
    <3>3. \A i \in DOMAIN up'[t] : latest[d].n < up'[t][i]
      BY <2>7, <3>1, <3>2
    <3> QED BY <2>1, <2>5, <3>1, <3>2, <3>3 DEF ReleasedFirst
  <2>10. \A d \in Drivers : ReleasedFirst(t, d)'
    BY <2>1, <2>9 DEF ReleasedFirst
  <2>11. \A s \in Conns : SentInOrder(s)' /\ \A d \in Drivers : ReleasedFirst(s, d)'
    BY <2>4, <2>8, <2>10
  <2> QED BY <2>1, <2>3, <2>11 DEF OrderInv
<1>2. ASSUME NEW s \in Conns, NEW n \in Updates, Release(s, n), UNCHANGED <<conn, sent, owner>>,
             \A t \in Conns \ {s} : up'[t] = up[t],
             SentInOrder(s)', \A d \in Drivers : ReleasedFirst(s, d)',
             \A d \in Drivers : latest[d].from = s => latest[d].n < n
      PROVE  OrderInv' /\ Newer
  <2>1. /\ \A d \in Drivers : latest'[d] = latest[d] \/ latest'[d] = [from |-> s, n |-> n]
        /\ \A t \in Conns \ {s} : pending'[t] = pending[t]
    BY <1>2, DriverForType DEF Release, TypeOK
  <2>2. OwnConnection'
    BY <1>0, <1>2 DEF OwnConnection
  <2>3. ASSUME NEW t \in Conns, t # s PROVE SentInOrder(t)' /\ \A d \in Drivers : ReleasedFirst(t, d)'
    <3>1. \A d \in Drivers : sent[d] <= sent'[d]
      BY <1>2 DEF TypeOK
    <3>2. \A d \in Drivers : latest'[d] = latest[d] \/ latest'[d].from # t
      BY <2>1, <2>3
    <3> QED BY <1>0, <1>2, <2>1, <2>3, <3>1, <3>2, OrderKept
  <2>4. Newer
    <3> SUFFICES ASSUME NEW d \in Drivers, latest'[d] # latest[d], latest'[d].from = latest[d].from
                 PROVE  latest'[d].n > latest[d].n
      OBVIOUS
    <3>1. latest'[d] = [from |-> s, n |-> n]
      BY <2>1
    <3>2. latest[d].n < n /\ latest[d].n \in Nat /\ n \in Nat
      BY <1>2, <3>1 DEF TypeOK, Updates
    <3> QED BY <3>1, <3>2
  <2>5. \A t \in Conns : SentInOrder(t)' /\ \A d \in Drivers : ReleasedFirst(t, d)'
    BY <1>2, <2>3
  <2> QED BY <2>2, <2>4, <2>5 DEF OrderInv
<1>3. ASSUME NEW s \in Conns, HandleLocation(s) PROVE OrderInv' /\ Newer
  <2> DEFINE n == Head(up[s])
  <2>1. /\ UNCHANGED <<conn, sent, owner>> /\ up[s] # <<>>
        /\ up'[s] = Tail(up[s]) /\ \A t \in Conns \ {s} : up'[t] = up[t]
    BY <1>3 DEF HandleLocation, TypeOK, pageVars
  <2>2. /\ n \in Updates /\ n <= sent[DriverFor(s)] /\ pending[s] < n
        /\ \A d \in Drivers : latest[d].from = s => latest[d].n < n
        /\ \A i \in DOMAIN up'[s] : up'[s][i] \in Nat /\ n < up'[s][i] /\ up'[s][i] <= sent[DriverFor(s)]
        /\ \A i, j \in DOMAIN up'[s] : i < j => up'[s][i] < up'[s][j]
    BY <2>1, NextMessage
  <2> HIDE DEF n
  <2>3. CASE Release(s, n)
    <3>1. SentInOrder(s)' /\ \A d \in Drivers : ReleasedFirst(s, d)'
      BY <2>1, <2>2, <2>3, ReleaseInOrder
    <3> QED BY <1>2, <2>1, <2>2, <2>3, <3>1
  <2>4. CASE Coalesce(s, n)
    <3>1. /\ UNCHANGED latest /\ pending'[s] = n
          /\ \A t \in Conns \ {s} : pending'[t] = pending[t]
      BY <2>4 DEF Coalesce, TypeOK
    <3>2. OwnConnection'
      BY <1>0, <2>1 DEF OwnConnection
    <3>3. DriverFor(s)' = DriverFor(s)
      BY <2>1 DEF DriverFor
    <3>4. SentInOrder(s)'
      BY <2>1, <2>2, <3>1, <3>3 DEF SentInOrder
    <3>5. ASSUME NEW d \in Drivers PROVE ReleasedFirst(s, d)'
      <4>1. latest[d].from = s => latest[d].n < n /\ latest[d].n <= sent[DriverFor(s)]
        BY <1>0, <2>2 DEF ReleasedFirst
      <4>2. latest[d].from = s => \A i \in DOMAIN up'[s] : latest[d].n < up'[s][i]
        BY <2>2, <4>1 DEF TypeOK, Updates
      <4> QED BY <2>1, <3>1, <3>3, <4>1, <4>2 DEF ReleasedFirst
    <3>6. ASSUME NEW t \in Conns, t # s PROVE SentInOrder(t)' /\ \A d \in Drivers : ReleasedFirst(t, d)'
      <4>1. \A d \in Drivers : sent[d] <= sent'[d]
        BY <2>1 DEF TypeOK
      <4> QED BY <1>0, <2>1, <3>1, <3>6, <4>1, OrderKept
    <3>7. \A t \in Conns : SentInOrder(t)' /\ \A d \in Drivers : ReleasedFirst(t, d)'
      BY <3>4, <3>5, <3>6
    <3> QED BY <3>1, <3>2, <3>7 DEF OrderInv
  <2> QED BY <1>3, <2>3, <2>4 DEF HandleLocation, n
<1>4. ASSUME UNCHANGED <<sent, owner, pending, latest>>, OwnConnection',
             \A s \in Conns : up'[s] = up[s] \/ up'[s] = <<>>
      PROVE  OrderInv' /\ Newer
  <2>1. \A d \in Drivers : sent[d] <= sent'[d]
    BY <1>4 DEF TypeOK
  <2>2. ASSUME NEW s \in Conns PROVE SentInOrder(s)' /\ \A d \in Drivers : ReleasedFirst(s, d)'
    BY <1>0, <1>4, <2>1, OrderKept
  <2> QED BY <1>4, <2>2 DEF OrderInv
<1>5. ASSUME NEW s \in Conns, TimerFires(s) PROVE OrderInv' /\ Newer
  <2>1. UNCHANGED <<conn, sent, owner, up>>
    BY <1>5 DEF TimerFires, pageVars
  <2>2. CASE pending[s] # 0 /\ Release(s, pending[s])
    <3>1. /\ SentInOrder(s) /\ \A d \in Drivers : ReleasedFirst(s, d)
          /\ pending[s] \in Updates
      BY <1>0, <2>2 DEF TypeOK, Updates
    <3>2. /\ pending[s] <= sent[DriverFor(s)]
          /\ \A d \in Drivers : latest[d].from = s => latest[d].n < pending[s]
          /\ \A i \in DOMAIN up'[s] :
               up'[s][i] \in Nat /\ pending[s] < up'[s][i] /\ up'[s][i] <= sent[DriverFor(s)]
          /\ \A i, j \in DOMAIN up'[s] : i < j => up'[s][i] < up'[s][j]
      BY <2>1, <2>2, <3>1 DEF SentInOrder, ReleasedFirst, TypeOK, Updates
    <3>3. SentInOrder(s)' /\ \A d \in Drivers : ReleasedFirst(s, d)'
      BY <2>1, <2>2, <3>1, <3>2, ReleaseInOrder
    <3> QED BY <1>2, <2>1, <2>2, <3>1, <3>2, <3>3
  <2>3. CASE UNCHANGED <<since, pending, latest>>
    <3>1. OwnConnection'
      BY <1>0, <2>1 DEF OwnConnection
    <3> QED BY <1>4, <2>1, <2>3, <3>1
  <2> QED BY <1>5, <2>2, <2>3 DEF TimerFires
<1>6. ASSUME NEW p \in Pages, LeaveConnection(p) \/ \E s \in Conns : Connect(p, s) PROVE OrderInv' /\ Newer
  <2>1. OwnConnection'
    <3>1. CASE LeaveConnection(p)
      BY <1>0, <3>1 DEF OwnConnection, LeaveConnection, TypeOK
    <3>2. ASSUME NEW s \in Conns, Connect(p, s) PROVE OwnConnection'
      <4>1. owner[s] = p /\ owner' = owner /\ \A q \in Pages : conn'[q] = IF q = p THEN s ELSE conn[q]
        BY <3>2 DEF Connect, TypeOK
      <4> QED BY <1>0, <4>1 DEF OwnConnection
    <3> QED BY <1>6, <3>1, <3>2
  <2>2. UNCHANGED <<up, sent, owner, pending, latest>>
    BY <1>6 DEF LeaveConnection, Connect, throttleVars
  <2> QED BY <1>4, <2>1, <2>2
<1>7. ASSUME NEW s \in Conns, Accept(s) \/ CloseEvent(s) \/ Pong(s) \/ CloseArrives(s) PROVE OrderInv' /\ Newer
  <2>1. UNCHANGED <<conn, sent, owner, pending, latest>>
    BY <1>7 DEF Accept, CloseEvent, Pong, CloseArrives, pageVars, throttleVars
  <2>2. OwnConnection'
    BY <1>0, <2>1 DEF OwnConnection
  <2>3. \A t \in Conns : up'[t] = up[t] \/ up'[t] = <<>>
    BY <1>7 DEF Accept, CloseEvent, Pong, CloseArrives, TypeOK
  <2> QED BY <1>4, <2>1, <2>2, <2>3
<1>8. CASE HeartbeatSweep \/ Tick \/ UNCHANGED vars
  <2>1. UNCHANGED <<conn, sent, owner, up, pending, latest>>
    BY <1>8 DEF HeartbeatSweep, Tick, vars, pageVars, throttleVars
  <2>2. OwnConnection'
    BY <1>0, <2>1 DEF OwnConnection
  <2> QED BY <1>4, <2>1, <2>2
<1>9. CASE Restart
  <2>1. /\ UNCHANGED <<sent, owner, latest>>
        /\ \A s \in Conns : up'[s] = <<>> /\ pending'[s] = 0
        /\ \A p \in Pages : conn'[p] = NoConn
    BY <1>9 DEF Restart
  <2>2. OwnConnection'
    BY <2>1 DEF OwnConnection
  <2>3. DOMAIN <<>> = {}
    OBVIOUS
  <2>4. ASSUME NEW s \in Conns PROVE SentInOrder(s)' /\ \A d \in Drivers : ReleasedFirst(s, d)'
    <3>1. DriverFor(s)' = DriverFor(s) /\ sent[DriverFor(s)] \in Nat
      BY <2>1, DriverForType DEF DriverFor, TypeOK
    <3> QED BY <1>0, <2>1, <2>3, <3>1 DEF SentInOrder, ReleasedFirst
  <2> QED BY <2>1, <2>2, <2>4 DEF OrderInv
<1> QED BY <1>1, <1>3, <1>5, <1>6, <1>7, <1>8, <1>9 DEF Next

\* No timer brings back a position that a later one of its connection has overtaken
\* (driver-connections.ts:80-98).
THEOREM NoPositionReturns == Spec => LastValueWins
<1>1. TypeOK /\ TypeOK' /\ OrderInv /\ [Next]_vars =>
        OrderInv' /\ [\A d \in Drivers : latest'[d] # latest[d] /\ latest'[d].from = latest[d].from
                                           => latest'[d].n > latest[d].n]_vars
  BY OrderPreserved
<1> QED BY <1>1, OrderInit, ChannelTypeCorrect, PTL DEF Spec, LastValueWins
================================================================================
