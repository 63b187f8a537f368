------------------------- MODULE TripTrackingProofs -------------------------
(***************************************************************************)
(* For any number of pages, trips, drivers and connections: the registry's    *)
(* two indices and its per-socket map agree; what is stored, sent and shown   *)
(* is typed; a delta fits the position of the page that decodes it; and how   *)
(* far that page may be from what was sent.                                  *)
(*                                                                           *)
(* Agreement alone is inductive only for typed keys, and a key travels from   *)
(* the page's wish through a queue, a query and a row before it is used:      *)
(* RowsTyped and KeysTyped say that each of those holds trips and drivers.    *)
(***************************************************************************)
EXTENDS TripTracking, Integers, TLAPS

TripKeys == Trips \cup {NoTrip}
DriverKeys == Drivers \cup {NoDriver}
Said == Wishes \cup {Nothing}
Answers == Rows \cup [trip : {NoTrip}, driver : Drivers]

\* The registry's own state is typed.
RegistryTyped ==
  /\ info \in [Conns -> [trip : TripKeys, driver : DriverKeys, lastSent : Places \cup {Nowhere}]]
  /\ byTrip \in [Trips -> SUBSET Conns]
  /\ byDriver \in [Drivers -> SUBSET Conns]

\* The rows are typed, and a matched trip has a driver.
RowsTyped ==
  /\ tripStatus \in [Trips -> TripStates]
  /\ tripDriver \in [Trips -> DriverKeys]
  /\ tripReason \in [Trips -> Reasons]
  /\ \A t \in Trips : tripStatus[t] = "matched" => tripDriver[t] \in Drivers

\* Everything else a key is taken from is typed.
KeysTyped ==
  /\ up \in [Conns -> Seq(Said)]
  /\ reads \in [Conns -> SUBSET Answers]
  /\ wants \in [Pages -> Said]
  /\ posting \in [Riders -> TripKeys]

IInv == RegistryTyped /\ IndicesAgree /\ RowsTyped /\ KeysTyped

-----------------------------------------------------------------------------
(***************************************************************************)
(* One lemma per function of ws/subscriptions.ts.                            *)
(***************************************************************************)
\* Registering a connection, whatever it followed before, keeps the indices in agreement.
LEMMA RegisterAgrees ==
  ASSUME RegistryTyped, IndicesAgree, NEW s \in Conns, NEW t \in TripKeys, NEW d \in DriverKeys,
         Register(s, t, d)
  PROVE  RegistryTyped' /\ IndicesAgree'
<1>1. /\ info' = [info EXCEPT ![s] = [trip |-> t, driver |-> d, lastSent |-> Nowhere]]
      /\ byTrip' = Add(TripIndexWithout(s), t, {s})
      /\ byDriver' = Add(DriverIndexWithout(s), d, {s})
  BY DEF Register
<1>2. byTrip' = [k \in Trips |-> IF k = t THEN (IF k = info[s].trip THEN byTrip[k] \ {s} ELSE byTrip[k]) \cup {s}
                                 ELSE IF k = info[s].trip THEN byTrip[k] \ {s} ELSE byTrip[k]]
  BY <1>1 DEF RegistryTyped, Add, Remove, TripIndexWithout
<1>3. byDriver' = [k \in Drivers |-> IF k = d THEN (IF k = info[s].driver THEN byDriver[k] \ {s} ELSE byDriver[k]) \cup {s}
                                 ELSE IF k = info[s].driver THEN byDriver[k] \ {s} ELSE byDriver[k]]
  BY <1>1 DEF RegistryTyped, Add, Remove, DriverIndexWithout
<1> DEFINE new == [trip |-> t, driver |-> d, lastSent |-> Nowhere]
<1>4. RegistryTyped'
  <2>1. new \in [trip : TripKeys, driver : DriverKeys, lastSent : Places \cup {Nowhere}]
    OBVIOUS
  <2>2. info' \in [Conns -> [trip : TripKeys, driver : DriverKeys, lastSent : Places \cup {Nowhere}]]
    BY <1>1, <2>1 DEF RegistryTyped
  <2>3. byTrip' \in [Trips -> SUBSET Conns] /\ byDriver' \in [Drivers -> SUBSET Conns]
    BY <1>2, <1>3 DEF RegistryTyped
  <2>4. QED
    BY <2>2, <2>3 DEF RegistryTyped
<1>5. \A c \in Conns : info'[c] = IF c = s THEN new ELSE info[c]
  BY <1>1 DEF RegistryTyped
<1>6. ASSUME NEW k \in Trips PROVE byTrip'[k] = {c \in Conns : info'[c].trip = k}
  <2>1. byTrip[k] = {c \in Conns : info[c].trip = k}
    BY DEF IndicesAgree
  <2>2. \A c \in Conns : info'[c].trip = IF c = s THEN t ELSE info[c].trip
    BY <1>5
  <2>3. QED
    BY <1>2, <2>1, <2>2
<1>7. ASSUME NEW k \in Drivers PROVE byDriver'[k] = {c \in Conns : info'[c].driver = k}
  <2>1. byDriver[k] = {c \in Conns : info[c].driver = k}
    BY DEF IndicesAgree
  <2>2. \A c \in Conns : info'[c].driver = IF c = s THEN d ELSE info[c].driver
    BY <1>5
  <2>3. QED
    BY <1>3, <2>1, <2>2
<1>8. QED
  BY <1>4, <1>6, <1>7 DEF IndicesAgree

\* So does detaching one, known or not.
LEMMA UnsubscribeAgrees ==
  ASSUME RegistryTyped, IndicesAgree, NEW s \in Conns, Unsubscribe(s)
  PROVE  RegistryTyped' /\ IndicesAgree'
<1>1. byTrip' = [k \in Trips |-> IF k = info[s].trip THEN byTrip[k] \ {s} ELSE byTrip[k]]
  BY DEF Unsubscribe, RegistryTyped, Remove, TripIndexWithout
<1>2. byDriver' = [k \in Drivers |-> IF k = info[s].driver THEN byDriver[k] \ {s} ELSE byDriver[k]]
  BY DEF Unsubscribe, RegistryTyped, Remove, DriverIndexWithout
<1>3. RegistryTyped'
  BY <1>1, <1>2 DEF Unsubscribe, Unregistered, RegistryTyped, TripKeys, DriverKeys
<1>4. ASSUME NEW k \in Trips PROVE byTrip'[k] = {c \in Conns : info'[c].trip = k}
  BY <1>1, NoTripAssumption DEF Unsubscribe, Unregistered, RegistryTyped, IndicesAgree
<1>5. ASSUME NEW k \in Drivers PROVE byDriver'[k] = {c \in Conns : info'[c].driver = k}
  BY <1>2, NoDriverAssumption DEF Unsubscribe, Unregistered, RegistryTyped, IndicesAgree
<1>6. QED
  BY <1>3, <1>4, <1>5 DEF IndicesAgree

\* Moving a matched trip's followers onto its driver.
LEMMA NotifyMatchedAgrees ==
  ASSUME RegistryTyped, IndicesAgree, NEW t \in Trips, NEW d \in Drivers, NotifyTripMatched(t, d)
  PROVE  RegistryTyped' /\ IndicesAgree'
<1> DEFINE moved == {s \in byTrip[t] : info[s].driver # d}
<1>1. /\ info' = [s \in Conns |-> IF s \in moved THEN [info[s] EXCEPT !.driver = d] ELSE info[s]]
      /\ byDriver' = [e \in Drivers |-> IF e = d THEN byDriver[e] \cup moved
                                        ELSE byDriver[e] \ {s \in moved : info[s].driver = e}]
      /\ byTrip' = byTrip
  BY DEF NotifyTripMatched
<1>2. moved \subseteq Conns
  BY DEF RegistryTyped
<1>3. RegistryTyped'
  BY <1>1, <1>2 DEF RegistryTyped, DriverKeys
<1>4. \A s \in Conns : info'[s].trip = info[s].trip
  BY <1>1 DEF RegistryTyped
<1>5. ASSUME NEW e \in Drivers PROVE byDriver'[e] = {c \in Conns : info'[c].driver = e}
  <2>1. \A c \in Conns : info'[c].driver = IF c \in moved THEN d ELSE info[c].driver
    BY <1>1 DEF RegistryTyped
  <2>2. byDriver[e] = {c \in Conns : info[c].driver = e}
    BY DEF IndicesAgree
  <2> HIDE DEF moved
  <2>3. CASE e = d
    BY <1>1, <1>2, <2>1, <2>2, <2>3
  <2>4. CASE e # d
    BY <1>1, <1>2, <2>1, <2>2, <2>4
  <2>5. QED
    BY <2>3, <2>4
<1>6. QED
  BY <1>1, <1>3, <1>4, <1>5 DEF IndicesAgree

\* Detaching a cancelled trip's followers.
LEMMA NotifyCancelledAgrees ==
  ASSUME RegistryTyped, IndicesAgree, NEW t \in Trips, NotifyTripCancelled(t)
  PROVE  RegistryTyped' /\ IndicesAgree'
<1>1. /\ info' = [s \in Conns |-> IF s \in byTrip[t] THEN Unregistered ELSE info[s]]
      /\ byDriver' = [d \in Drivers |-> byDriver[d] \ {s \in byTrip[t] : info[s].driver = d}]
  BY DEF NotifyTripCancelled
<1>2. byTrip' = [k \in Trips |-> IF k = t THEN {} ELSE byTrip[k]]
  BY DEF NotifyTripCancelled, Remove, RegistryTyped
<1>3. RegistryTyped'
  BY <1>1, <1>2 DEF RegistryTyped, Unregistered, TripKeys, DriverKeys
<1>4. ASSUME NEW k \in Trips PROVE byTrip'[k] = {c \in Conns : info'[c].trip = k}
  BY <1>1, <1>2, NoTripAssumption DEF RegistryTyped, IndicesAgree, Unregistered
<1>5. ASSUME NEW d \in Drivers PROVE byDriver'[d] = {c \in Conns : info'[c].driver = d}
  BY <1>1, NoDriverAssumption DEF RegistryTyped, IndicesAgree, Unregistered
<1>6. QED
  BY <1>3, <1>4, <1>5 DEF IndicesAgree

\* A broadcast only remembers what was sent.
LEMMA BroadcastAgrees ==
  ASSUME RegistryTyped, IndicesAgree, NEW d \in Drivers, NEW place \in Places,
         BroadcastDriverLocation(d, place)
  PROVE  RegistryTyped' /\ IndicesAgree'
<1>1. /\ info' = [s \in Conns |-> IF s \in byDriver[d] THEN [info[s] EXCEPT !.lastSent = place] ELSE info[s]]
      /\ byTrip' = byTrip /\ byDriver' = byDriver
  BY DEF BroadcastDriverLocation
<1>2. RegistryTyped'
  BY <1>1 DEF RegistryTyped
<1>3. \A s \in Conns : info'[s].trip = info[s].trip /\ info'[s].driver = info[s].driver
  BY <1>1 DEF RegistryTyped
<1>4. QED
  BY <1>1, <1>2, <1>3 DEF IndicesAgree

-----------------------------------------------------------------------------
(***************************************************************************)
(* The rest of the invariant.                                               *)
(***************************************************************************)
LEMMA InitIInv == Init => IInv
<1> SUFFICES ASSUME Init PROVE IInv
  OBVIOUS
<1>1. RegistryTyped
  BY DEF Init, RegistryInit, RegistryTyped, Unregistered, TripKeys, DriverKeys
<1>2. IndicesAgree
  BY NoTripAssumption, NoDriverAssumption DEF Init, RegistryInit, IndicesAgree, Unregistered
<1>3. RowsTyped
  BY DEF Init, Assignment!Init, RowsTyped, TripStates, Reasons, DriverKeys
<1>4. KeysTyped
  BY DEF Init, KeysTyped, Said, TripKeys
<1>5. QED
  BY <1>1, <1>2, <1>3, <1>4 DEF IInv

\* What a page says goes to the end of its connection's queue.
LEMMA SaidTyped ==
  ASSUME KeysTyped, NEW p, NEW messages \in Seq(Said), up' = SaidBy(p, messages)
  PROVE  up' \in [Conns -> Seq(Said)]
<1>1. ASSUME NEW q \in Seq(Said) PROVE q \o messages \in Seq(Said)
  OBVIOUS
<1>2. CASE conn[p] = NoConn
  BY <1>2 DEF KeysTyped, SaidBy
<1>3. CASE conn[p] # NoConn
  <2>1. up' = [c \in Conns |-> IF c = conn[p] THEN up[c] \o messages ELSE up[c]]
    BY <1>3 DEF KeysTyped, SaidBy
  <2>2. \A c \in Conns : up[c] \in Seq(Said)
    BY DEF KeysTyped
  <2>3. QED
    BY <1>1, <2>1, <2>2
<1>4. QED
  BY <1>2, <1>3

\* Steps of a page and of its connection leave the registry alone.
LEMMA PageKeeps ==
  ASSUME IInv, NEW p \in Pages,
         \/ PageStep(p) \/ Lose(p)
         \/ p \in Riders /\ (RequestAnother(p) \/ \E t \in Trips : PostTrip(p, t))
         \/ p \in Watchers /\ \E d \in Drivers : Watch(p, d)
  PROVE  IInv'
<1> USE DEF registryVars, tripVars
<1>1. UNCHANGED registryVars => RegistryTyped' /\ IndicesAgree'
  BY DEF IInv, RegistryTyped, IndicesAgree
<1>2. UNCHANGED tripVars => RowsTyped'
  BY DEF IInv, RowsTyped
<1>3. UNCHANGED <<up, reads, wants, posting>> => KeysTyped'
  BY DEF IInv, KeysTyped
<1>4. CASE Receive(p)
  BY <1>1, <1>2, <1>3, <1>4 DEF Receive, IInv
<1>5. ASSUME NEW s \in Conns, Open(p, s) PROVE IInv'
  <2>1. up' \in [Conns -> Seq(Said)]
    <3>1. <<>> \in Seq(Said) /\ <<wants[p]>> \in Seq(Said)
      BY DEF IInv, KeysTyped
    <3>2. QED
      BY <1>5, <3>1 DEF Open, Resubscription, IInv, KeysTyped
  <2>2. QED
    BY <1>1, <1>2, <1>5, <2>1 DEF Open, Resubscription, IInv, KeysTyped
<1>6. CASE p \in Riders /\ TrackTrip(p)
  <2> DEFINE wish == [trip |-> posting[p], driver |-> NoDriver]
  <2>1. wish \in Said
    BY <1>6 DEF TrackTrip, SetSubscription, IInv, KeysTyped, Said, Wishes, TripKeys
  <2>2. up' \in [Conns -> Seq(Said)]
    <3>1. <<wish>> \in Seq(Said) /\ up' = SaidBy(p, <<wish>>)
      BY <1>6, <2>1 DEF TrackTrip, SetSubscription
    <3>2. QED
      BY <3>1, SaidTyped DEF IInv
  <2>3. wants' \in [Pages -> Said] /\ posting' \in [Riders -> TripKeys]
    BY <1>6, <2>1 DEF TrackTrip, SetSubscription, IInv, KeysTyped, TripKeys
  <2>4. QED
    BY <1>1, <1>2, <1>6, <2>2, <2>3 DEF TrackTrip, SetSubscription, IInv, KeysTyped
<1>7. ASSUME p \in Riders, NEW f \in fetches[p], FetchRead(p, f) \/ FetchApplied(p, f) PROVE IInv'
  BY <1>1, <1>2, <1>3, <1>7 DEF FetchRead, FetchApplied, IInv
<1>8. CASE Lose(p)
  BY <1>1, <1>2, <1>3, <1>8 DEF Lose, IInv
<1>9. CASE p \in Riders /\ RequestAnother(p)
  <2>1. up' \in [Conns -> Seq(Said)]
    <3>1. <<Nothing>> \in Seq(Said) /\ up' = SaidBy(p, <<Nothing>>)
      BY <1>9 DEF RequestAnother, SetSubscription, Said
    <3>2. QED
      BY <3>1, SaidTyped DEF IInv
  <2>2. wants' \in [Pages -> Said]
    BY <1>9 DEF RequestAnother, SetSubscription, IInv, KeysTyped, Said
  <2>3. QED
    BY <1>1, <1>2, <1>9, <2>1, <2>2 DEF RequestAnother, SetSubscription, IInv, KeysTyped
<1>10. ASSUME p \in Riders, NEW t \in Trips, PostTrip(p, t) PROVE IInv'
  <2>1. RowsTyped'
    BY <1>10 DEF PostTrip, Assignment!Request, IInv, RowsTyped, TripStates
  <2>2. KeysTyped'
    BY <1>10 DEF PostTrip, IInv, KeysTyped, TripKeys
  <2>3. QED
    BY <1>1, <1>10, <2>1, <2>2 DEF PostTrip, IInv
<1>11. ASSUME p \in Watchers, NEW d \in Drivers, Watch(p, d) PROVE IInv'
  <2>1. wants' \in [Pages -> Said]
    BY <1>11 DEF Watch, IInv, KeysTyped, Said, Wishes
  <2>2. QED
    BY <1>1, <1>2, <1>11, <2>1 DEF Watch, IInv, KeysTyped
<1>12. QED
  BY <1>4, <1>5, <1>6, <1>7, <1>8, <1>9, <1>10, <1>11 DEF PageStep

\* So do the server's steps, each of which calls one function of the registry or none.
LEMMA ServerKeeps ==
  ASSUME IInv,
         \/ ServerStep \/ Restart
         \/ \E d \in Drivers, place \in Places : Broadcast(d, place)
  PROVE  IInv'
<1> USE DEF registryVars, tripVars, pageVars
<1>1. UNCHANGED registryVars => RegistryTyped' /\ IndicesAgree'
  BY DEF IInv, RegistryTyped, IndicesAgree
<1>2. UNCHANGED tripVars => RowsTyped'
  BY DEF IInv, RowsTyped
<1>3. UNCHANGED <<up, reads, wants, posting>> => KeysTyped'
  BY DEF IInv, KeysTyped
<1>4. ASSUME NEW s \in Conns, Handle(s) PROVE IInv'
  <2> DEFINE m == Head(up[s])
  <2>1. m \in Said /\ up' \in [Conns -> Seq(Said)]
    BY <1>4 DEF Handle, IInv, KeysTyped
  <2>2. CASE m = Nothing
    BY <1>2, <1>4, <2>1, <2>2, UnsubscribeAgrees DEF Handle, IInv, KeysTyped
  <2>3. CASE m # Nothing
    <3> DEFINE answer == IF m.driver # NoDriver THEN m ELSE Row(m.trip)
    <3>1. answer \in Answers
      <4>1. m \in Wishes
        BY <2>1, <2>3 DEF Said
      <4>2. CASE m.driver # NoDriver
        <5>1. m \in [trip : {NoTrip}, driver : Drivers]
          BY <4>1, <4>2 DEF Wishes
        <5>2. QED
          BY <4>2, <5>1 DEF Answers
      <4>3. CASE m.driver = NoDriver
        <5>1. m.trip \in Trips
          BY <4>1, <4>3, NoDriverAssumption DEF Wishes
        <5>2. Row(m.trip) \in Rows
          BY <5>1 DEF Row, Rows, IInv, RowsTyped, DriverKeys
        <5>3. QED
          BY <4>3, <5>2 DEF Answers
      <4>4. QED
        BY <4>2, <4>3
    <3>2. reads' \in [Conns -> SUBSET Answers]
      <4>1. reads' = [reads EXCEPT ![s] = @ \cup {answer}]
        BY <1>4, <2>3 DEF Handle
      <4> HIDE DEF answer
      <4>2. QED
        BY <3>1, <4>1 DEF IInv, KeysTyped
    <3>3. QED
      BY <1>1, <1>2, <1>4, <2>1, <2>3, <3>2 DEF Handle, IInv, KeysTyped
  <2>4. QED
    BY <2>2, <2>3
<1>5. ASSUME NEW s \in Conns, NEW r \in reads[s], ReadReturns(s, r) PROVE IInv'
  <2>1. r \in Answers /\ reads' \in [Conns -> SUBSET Answers]
    BY <1>5 DEF ReadReturns, IInv, KeysTyped
  <2>2. KeysTyped' /\ RowsTyped'
    BY <1>2, <1>5, <2>1 DEF ReadReturns, IInv, KeysTyped
  <2>3. r.trip \in TripKeys /\ r.driver \in DriverKeys
    BY <2>1 DEF Answers, Rows, TripKeys, DriverKeys
  <2>4. UNCHANGED registryVars \/ Register(s, NoTrip, r.driver) \/ Register(s, r.trip, r.driver)
    BY <1>5 DEF ReadReturns, Follow, SubscribeToDriver, SubscribeToTrip
  <2>5. RegistryTyped' /\ IndicesAgree'
    BY <1>1, <2>3, <2>4, RegisterAgrees DEF IInv, TripKeys
  <2>6. QED
    BY <2>2, <2>5 DEF IInv
<1>6. ASSUME NEW s \in Conns, SocketClosed(s) PROVE IInv'
  <2>1. up' \in [Conns -> Seq(Said)]
    BY <1>6 DEF SocketClosed, IInv, KeysTyped
  <2>2. QED
    BY <1>2, <1>6, <2>1, UnsubscribeAgrees DEF SocketClosed, IInv, KeysTyped
<1>7. ASSUME NEW t \in Trips, Decide(t) PROVE IInv'
  <2>1. RowsTyped'
    BY <1>7 DEF Decide, Assignment!Resolve, Assignment!Assign, Assignment!Cancel,
                IInv, RowsTyped, TripStates, Reasons, DriverKeys
  <2>2. QED
    BY <1>1, <1>3, <1>7, <2>1 DEF Decide, IInv
<1>8. ASSUME NEW t \in Trips, Announce(t) PROVE IInv'
  <2>1. \/ NotifyTripMatched(t, tripDriver[t]) /\ tripDriver[t] \in Drivers
        \/ NotifyTripCancelled(t)
    BY <1>8 DEF Announce, IInv, RowsTyped
  <2>2. RegistryTyped' /\ IndicesAgree'
    BY <2>1, NotifyMatchedAgrees, NotifyCancelledAgrees DEF IInv
  <2>3. QED
    BY <1>2, <1>3, <1>8, <2>2 DEF Announce, IInv
<1>9. CASE Restart
  <2>1. RegistryTyped'
    BY <1>9 DEF Restart, RegistryTyped, Unregistered, TripKeys, DriverKeys
  <2>2. IndicesAgree'
    BY <1>9, NoTripAssumption, NoDriverAssumption DEF Restart, IndicesAgree, Unregistered
  <2>3. KeysTyped'
    BY <1>9 DEF Restart, IInv, KeysTyped, TripKeys
  <2>4. QED
    BY <1>2, <1>9, <2>1, <2>2, <2>3 DEF Restart, IInv
<1>10. ASSUME NEW d \in Drivers, NEW place \in Places, Broadcast(d, place) PROVE IInv'
  <2>1. RegistryTyped' /\ IndicesAgree'
    BY <1>10, BroadcastAgrees DEF Broadcast, IInv
  <2>2. QED
    BY <1>2, <1>3, <1>10, <2>1 DEF Broadcast, IInv
<1>11. QED
  BY <1>4, <1>5, <1>6, <1>7, <1>8, <1>9, <1>10 DEF ServerStep

LEMMA StutterKeeps == IInv /\ UNCHANGED vars => IInv'
BY DEF vars, tripVars, pageVars, IInv, RegistryTyped, IndicesAgree, RowsTyped, KeysTyped

-----------------------------------------------------------------------------
\* Through subscriptions that race matches and cancellations, broken connections and restarts, the
\* indices of ws/subscriptions.ts:21-23 list exactly the connections whose info names their key.
THEOREM RegistryConsistent == Spec => []IndicesAgree
<1>1. IInv /\ [Next]_vars => IInv'
  BY PageKeeps, ServerKeeps, StutterKeeps DEF Next, Pages
<1>2. IInv => IndicesAgree
  BY DEF IInv
<1>3. QED
  BY InitIInv, <1>1, <1>2, PTL DEF Spec

-----------------------------------------------------------------------------
(***************************************************************************)
(* Types of what the page shows and of what is on its way to it.  Together    *)
(* with IInv, from which a handler takes what it sends, they are TypeOK.      *)
(***************************************************************************)
ShownTyped ==
  /\ sock \in [Conns -> {"unused", "open", "lost", "closed"}]
  /\ down \in [Conns -> Seq(Messages)]
  /\ available \subseteq Drivers
  /\ run \in [Trips -> {"none", "search", "announce", "over"}]
  /\ conn \in [Pages -> Conns \cup {NoConn}]
  /\ view \in [Pages -> Views]
  /\ fetches \in [Riders -> SUBSET (Rows \cup {Asked(t) : t \in Trips})]

\* Whatever is sent to a set of connections, messages stay messages.
LEMMA SentTyped ==
  ASSUME ShownTyped, NEW conns, NEW msg \in [Conns -> Messages],
         down' = [s \in Conns |-> IF s \in conns /\ sock[s] = "open"
                                  THEN Append(down[s], msg[s]) ELSE down[s]]
  PROVE  down' \in [Conns -> Seq(Messages)]
<1>1. ASSUME NEW s \in Conns PROVE Append(down[s], msg[s]) \in Seq(Messages) /\ down[s] \in Seq(Messages)
  <2>1. down[s] \in Seq(Messages) /\ msg[s] \in Messages
    BY DEF ShownTyped
  <2> QED BY <2>1
<1> QED BY <1>1

\* So the functions of the registry send messages.
LEMMA RegistrySends ==
  ASSUME RegistryTyped, ShownTyped,
         \/ \E s \in Conns, t \in TripKeys, d \in DriverKeys : Register(s, t, d)
         \/ \E t \in Trips, d \in Drivers : NotifyTripMatched(t, d)
         \/ \E t \in Trips : NotifyTripCancelled(t)
         \/ \E d \in Drivers, place \in Places : BroadcastDriverLocation(d, place)
  PROVE  down' \in [Conns -> Seq(Messages)]
<1>1. ASSUME NEW s \in Conns, NEW t \in TripKeys, NEW d \in DriverKeys, Register(s, t, d)
      PROVE  down' \in [Conns -> Seq(Messages)]
  <2> DEFINE msg == [c \in Conns |-> [kind |-> "subscribed", driver |-> d]]
  <2>1. msg \in [Conns -> Messages]
    BY DEF Messages, DriverKeys
  <2>2. down' = [c \in Conns |-> IF c \in {s} /\ sock[c] = "open" THEN Append(down[c], msg[c]) ELSE down[c]]
    BY <1>1 DEF Register, Sent
  <2> HIDE DEF msg
  <2> QED BY <2>1, <2>2, SentTyped
<1>2. ASSUME NEW t \in Trips, NEW d \in Drivers, NotifyTripMatched(t, d)
      PROVE  down' \in [Conns -> Seq(Messages)]
  <2> DEFINE msg == [c \in Conns |-> [kind |-> "trip_matched", driver |-> d]]
  <2>1. msg \in [Conns -> Messages]
    BY DEF Messages
  <2>2. down' = [c \in Conns |-> IF c \in byTrip[t] /\ sock[c] = "open" THEN Append(down[c], msg[c]) ELSE down[c]]
    BY <1>2 DEF NotifyTripMatched, Sent
  <2> HIDE DEF msg
  <2> QED BY <2>1, <2>2, SentTyped
<1>3. ASSUME NEW t \in Trips, NotifyTripCancelled(t)
      PROVE  down' \in [Conns -> Seq(Messages)]
  <2> DEFINE msg == [c \in Conns |-> [kind |-> "trip_cancelled"]]
  <2>1. msg \in [Conns -> Messages]
    BY DEF Messages
  <2>2. down' = [c \in Conns |-> IF c \in byTrip[t] /\ sock[c] = "open" THEN Append(down[c], msg[c]) ELSE down[c]]
    BY <1>3 DEF NotifyTripCancelled, Sent
  <2> HIDE DEF msg
  <2> QED BY <2>1, <2>2, SentTyped
<1>4. ASSUME NEW d \in Drivers, NEW place \in Places, BroadcastDriverLocation(d, place)
      PROVE  down' \in [Conns -> Seq(Messages)]
  <2> DEFINE msg == [c \in Conns |->
               IF info[c].lastSent = Nowhere THEN [kind |-> "location", driver |-> d, to |-> place]
               ELSE [kind |-> "delta", driver |-> d, from |-> info[c].lastSent, to |-> place]]
  <2>1. ASSUME NEW c \in Conns PROVE msg[c] \in Messages
    <3>1. info[c].lastSent \in Places \cup {Nowhere}
      BY DEF RegistryTyped
    <3>2. CASE info[c].lastSent = Nowhere
      BY <3>2 DEF Messages
    <3>3. CASE info[c].lastSent # Nowhere
      BY <3>1, <3>3 DEF Messages
    <3> QED BY <3>2, <3>3
  <2>2. down' = [c \in Conns |-> IF c \in byDriver[d] /\ sock[c] = "open" THEN Append(down[c], msg[c]) ELSE down[c]]
    BY <1>4 DEF BroadcastDriverLocation, Sent
  <2> HIDE DEF msg
  <2>3. msg \in [Conns -> Messages]
    BY <2>1 DEF msg
  <2> QED BY <2>2, <2>3, SentTyped
<1> QED BY <1>1, <1>2, <1>3, <1>4

\* A message leaves a view a view.
LEMMA AppliedTyped ==
  ASSUME NEW v \in Views, NEW m \in Messages
  PROVE  Applied(v, m) \in Views
<1>1. CASE m \in [kind : {"subscribed", "trip_matched"}, driver : DriverKeys]
  BY <1>1 DEF Applied, Views, TripStates, DriverKeys
<1>2. CASE m \in [kind : {"trip_cancelled", "already_ended"}]
  BY <1>2 DEF Applied, Views, TripStates
<1>3. CASE m \in [kind : {"location"}, driver : Drivers, to : Places]
  BY <1>3 DEF Applied, Located, Views
<1>4. CASE m \in [kind : {"delta"}, driver : Drivers, from : Places, to : Places]
  BY <1>4 DEF Applied, Located, Views
<1> QED BY <1>1, <1>2, <1>3, <1>4 DEF Messages, DriverKeys

\* An answer the server gave is a row.
LEMMA AnswersAreRows ==
  ASSUME ShownTyped, NEW p \in Riders, NEW f \in fetches[p]
  PROVE  /\ f.status # "asked" => f \in Rows
         /\ f.trip \in Trips
<1>1. f \in Rows \cup {Asked(t) : t \in Trips}
  BY DEF ShownTyped
<1>2. CASE f \in Rows
  BY <1>2 DEF Rows
<1>3. CASE f \in {Asked(t) : t \in Trips}
  BY <1>3 DEF Asked
<1> QED BY <1>1, <1>2, <1>3

\* A broken connection leaves the rest in order.
LEMMA HangupTyped ==
  ASSUME ShownTyped, NEW p \in Pages, Hangup(p)
  PROVE  /\ conn' \in [Pages -> Conns \cup {NoConn}]
         /\ sock' \in [Conns -> {"unused", "open", "lost", "closed"}]
         /\ down' \in [Conns -> Seq(Messages)]
<1>1. <<>> \in Seq(Messages)
  OBVIOUS
<1> QED BY <1>1 DEF Hangup, ShownTyped

\* Every step of a page or of its connection.
LEMMA PageShows ==
  ASSUME IInv, ShownTyped, NEW p \in Pages,
         \/ PageStep(p) \/ Lose(p)
         \/ p \in Riders /\ (RequestAnother(p) \/ \E t \in Trips : PostTrip(p, t))
         \/ p \in Watchers /\ \E d \in Drivers : Watch(p, d)
  PROVE  ShownTyped'
<1> USE DEF tripVars
<1>1. CASE Receive(p)
  <2> DEFINE m == Head(down[conn[p]])
             asks == wants[p].trip # NoTrip /\ m.kind \in {"trip_cancelled", "already_ended"}
  <2>1. conn[p] \in Conns
    BY <1>1 DEF Receive, ShownTyped
  <2>2. m \in Messages /\ Tail(down[conn[p]]) \in Seq(Messages)
    <3>1. down[conn[p]] \in Seq(Messages) /\ down[conn[p]] # <<>>
      BY <1>1, <2>1 DEF Receive, ShownTyped
    <3> QED BY <3>1
  <2>3. down' \in [Conns -> Seq(Messages)]
    BY <1>1, <2>2 DEF Receive, ShownTyped
  <2>4. view' \in [Pages -> Views]
    <3>1. view[p] \in Views
      BY DEF ShownTyped
    <3>2. Applied(view[p], m) \in Views
      BY <2>2, <3>1, AppliedTyped
    <3>3. view' = [view EXCEPT ![p] = IF p \in Riders \/ m.kind \in {"location", "delta"}
                                      THEN Applied(@, m) ELSE @]
      BY <1>1 DEF Receive
    <3> HIDE DEF m
    <3> QED BY <3>1, <3>2, <3>3 DEF ShownTyped
  <2>5. fetches' \in [Riders -> SUBSET (Rows \cup {Asked(t) : t \in Trips})]
    <3>1. fetches' = [q \in Riders |-> IF q = p /\ asks THEN fetches[q] \cup {Asked(wants[p].trip)}
                                       ELSE fetches[q]]
      BY <1>1 DEF Receive
    <3>2. wants[p].trip # NoTrip => wants[p].trip \in Trips
      BY DEF IInv, KeysTyped, Said, Wishes, Nothing
    <3>3. asks => Asked(wants[p].trip) \in {Asked(t) : t \in Trips}
      BY <3>2
    <3> HIDE DEF asks
    <3> QED BY <3>1, <3>3 DEF ShownTyped
  <2> QED BY <1>1, <2>3, <2>4, <2>5 DEF Receive, ShownTyped
<1>2. ASSUME NEW s \in Conns, Open(p, s) PROVE ShownTyped'
  BY <1>2 DEF Open, ShownTyped
<1>3. CASE p \in Riders /\ TrackTrip(p)
  <2>1. Blank \in Views
    BY DEF Blank, Views, TripStates, Reasons
  <2> QED BY <1>3, <2>1 DEF TrackTrip, ShownTyped
<1>4. ASSUME p \in Riders, NEW f \in fetches[p], FetchRead(p, f) PROVE ShownTyped'
  <2>1. Row(f.trip) \in Rows
    BY <1>4, AnswersAreRows DEF Row, Rows, IInv, RowsTyped, DriverKeys
  <2>2. fetches' \in [Riders -> SUBSET (Rows \cup {Asked(t) : t \in Trips})]
    BY <1>4, <2>1 DEF FetchRead, ShownTyped
  <2> QED BY <1>4, <2>2 DEF FetchRead, ShownTyped
<1>5. ASSUME p \in Riders, NEW f \in fetches[p], FetchApplied(p, f) PROVE ShownTyped'
  <2>1. f \in Rows
    BY <1>5, AnswersAreRows DEF FetchApplied
  <2>2. [view[p] EXCEPT !.status = f.status, !.driver = f.driver, !.reason = f.reason] \in Views
    <3>1. view[p] \in Views
      BY DEF ShownTyped
    <3>2. f.status \in TripStates /\ f.driver \in DriverKeys /\ f.reason \in Reasons
      BY <2>1 DEF Rows, DriverKeys
    <3> QED BY <3>1, <3>2 DEF Views, DriverKeys
  <2>3. view' \in [Pages -> Views]
    BY <1>5, <2>2 DEF FetchApplied, ShownTyped
  <2>4. fetches' \in [Riders -> SUBSET (Rows \cup {Asked(t) : t \in Trips})]
    BY <1>5 DEF FetchApplied, ShownTyped
  <2> QED BY <1>5, <2>3, <2>4 DEF FetchApplied, ShownTyped
<1>6. CASE Lose(p)
  BY <1>6, HangupTyped DEF Lose, ShownTyped
<1>7. CASE p \in Riders /\ RequestAnother(p)
  <2>1. Blank \in Views
    BY DEF Blank, Views, TripStates, Reasons
  <2> QED BY <1>7, <2>1 DEF RequestAnother, ShownTyped
<1>8. ASSUME p \in Riders, NEW t \in Trips, PostTrip(p, t) PROVE ShownTyped'
  BY <1>8 DEF PostTrip, Assignment!Request, ShownTyped
<1>9. ASSUME p \in Watchers, NEW d \in Drivers, Watch(p, d) PROVE ShownTyped'
  <2>1. [Blank EXCEPT !.driver = d] \in Views
    BY DEF Blank, Views, TripStates, Reasons
  <2> QED BY <1>9, <2>1, HangupTyped DEF Watch, ShownTyped
<1> QED BY <1>1, <1>2, <1>3, <1>4, <1>5, <1>6, <1>7, <1>8, <1>9 DEF PageStep

\* Every step of the server.
LEMMA ServerShows ==
  ASSUME IInv, ShownTyped,
         \/ ServerStep \/ Restart
         \/ \E d \in Drivers, place \in Places : Broadcast(d, place)
  PROVE  ShownTyped'
<1> USE DEF tripVars, pageVars
<1>1. ASSUME NEW s \in Conns, Handle(s) PROVE ShownTyped'
  BY <1>1 DEF Handle, Unsubscribe, ShownTyped
<1>2. ASSUME NEW s \in Conns, NEW r \in reads[s], ReadReturns(s, r) PROVE ShownTyped'
  <2>1. r.trip \in TripKeys /\ r.driver \in DriverKeys
    BY DEF IInv, KeysTyped, Answers, Rows, TripKeys, DriverKeys
  <2>2. CASE r.trip # NoTrip /\ r.status \in Ended
    <3> DEFINE msg == [c \in Conns |-> [kind |-> "already_ended"]]
    <3>1. msg \in [Conns -> Messages]
      BY DEF Messages
    <3>2. down' = [c \in Conns |-> IF c \in {s} /\ sock[c] = "open" THEN Append(down[c], msg[c]) ELSE down[c]]
      BY <1>2, <2>2 DEF ReadReturns, Sent
    <3> HIDE DEF msg
    <3>3. down' \in [Conns -> Seq(Messages)]
      BY <3>1, <3>2, SentTyped
    <3> QED BY <1>2, <3>3 DEF ReadReturns, ShownTyped
  <2>3. CASE ~(r.trip # NoTrip /\ r.status \in Ended)
    <3>1. Register(s, NoTrip, r.driver) \/ Register(s, r.trip, r.driver)
      BY <1>2, <2>3 DEF ReadReturns, Follow, SubscribeToTrip, SubscribeToDriver
    <3>2. down' \in [Conns -> Seq(Messages)]
      BY <2>1, <3>1, RegistrySends DEF IInv, TripKeys
    <3> QED BY <1>2, <3>2 DEF ReadReturns, ShownTyped
  <2> QED BY <2>2, <2>3
<1>3. ASSUME NEW s \in Conns, SocketClosed(s) PROVE ShownTyped'
  BY <1>3 DEF SocketClosed, Unsubscribe, ShownTyped
<1>4. ASSUME NEW t \in Trips, Decide(t) PROVE ShownTyped'
  <2>1. available' \subseteq Drivers
    BY <1>4 DEF Decide, Assignment!Resolve, Assignment!Assign, Assignment!Cancel, ShownTyped
  <2> QED BY <1>4, <2>1 DEF Decide, ShownTyped
<1>5. ASSUME NEW t \in Trips, Announce(t) PROVE ShownTyped'
  <2>1. \/ NotifyTripMatched(t, tripDriver[t]) /\ tripDriver[t] \in Drivers
        \/ NotifyTripCancelled(t)
    BY <1>5 DEF Announce, IInv, RowsTyped
  <2>2. down' \in [Conns -> Seq(Messages)]
    BY <2>1, RegistrySends DEF IInv
  <2> QED BY <1>5, <2>2 DEF Announce, ShownTyped
<1>6. ASSUME NEW d \in Drivers, NEW place \in Places, Broadcast(d, place) PROVE ShownTyped'
  <2>1. down' \in [Conns -> Seq(Messages)]
    BY <1>6, RegistrySends DEF Broadcast, IInv
  <2> QED BY <1>6, <2>1 DEF Broadcast, ShownTyped
<1>7. CASE Restart
  <2>1. <<>> \in Seq(Messages)
    OBVIOUS
  <2>2. run' \in [Trips -> {"none", "search", "announce", "over"}]
    BY <1>7 DEF Restart
  <2>3. sock' \in [Conns -> {"unused", "open", "lost", "closed"}]
    BY <1>7 DEF Restart, ShownTyped
  <2> QED BY <1>7, <2>1, <2>2, <2>3 DEF Restart, ShownTyped
<1> QED BY <1>1, <1>2, <1>3, <1>4, <1>5, <1>6, <1>7 DEF ServerStep

LEMMA InitShows == Init => ShownTyped
<1> SUFFICES ASSUME Init PROVE ShownTyped
  OBVIOUS
<1>1. Blank \in Views
  BY DEF Blank, Views, TripStates, Reasons
<1>2. <<>> \in Seq(Messages)
  OBVIOUS
<1>3. down \in [Conns -> Seq(Messages)] /\ sock \in [Conns -> {"unused", "open", "lost", "closed"}]
  BY <1>2 DEF Init, RegistryInit
<1> QED BY <1>1, <1>3 DEF Init, Assignment!Init, ShownTyped

Typed == IInv /\ ShownTyped

LEMMA TypedKept == Typed /\ [Next]_vars => Typed'
<1> SUFFICES ASSUME IInv, ShownTyped, [Next]_vars PROVE IInv' /\ ShownTyped'
  BY DEF Typed
<1>1. CASE UNCHANGED vars
  BY <1>1, StutterKeeps DEF vars, tripVars, pageVars, ShownTyped
<1>2. CASE Next
  BY <1>2, PageKeeps, ServerKeeps, PageShows, ServerShows DEF Next, Pages
<1> QED BY <1>1, <1>2

\* Whatever is registered, queued, asked for or shown is of its kind: a broadcast always has a
\* driver and a position, and a page shows only states of a trip (ws/subscriptions.ts:102-140,
\* useTripTracking.ts:37-53).
THEOREM TrackingTypeCorrect == Spec => []TypeOK
<1>1. Typed => TypeOK
  BY DEF Typed, IInv, ShownTyped, TypeOK, RegistryTypeOK, RegistryTyped, RowsTyped, KeysTyped,
         Infos, TripKeys, DriverKeys, Said, Answers
<1>2. Init => Typed
  BY InitIInv, InitShows DEF Typed
<1> QED BY <1>1, <1>2, TypedKept, PTL DEF Spec

-----------------------------------------------------------------------------
(***************************************************************************)
(* Deltas and the positions they are the difference to.  That the delta at   *)
(* the head of a queue fits the view is not inductive, and neither is that    *)
(* every delta of the queue fits what comes before it: the next message the   *)
(* registry will add counts too.  TrackInv therefore speaks of Coming(s), the *)
(* queue with that message at its end, and of the drivers the page may come   *)
(* to show; the other parts of FitInv say why no position of a driver he was  *)
(* not told of can be on a connection.                                       *)
(***************************************************************************)
IsPosition(m) == m.kind \in {"location", "delta"}
NamesDriver(m) == m.kind \in {"subscribed", "trip_matched"}

\* The next position a connection will be sent, wherever the driver is by then.
NextPosition(s) ==
  IF info[s].lastSent = Nowhere
  THEN [kind |-> "location", driver |-> info[s].driver, to |-> Nowhere]
  ELSE [kind |-> "delta", driver |-> info[s].driver, from |-> info[s].lastSent, to |-> Nowhere]

\* What is on its way on a connection, and what the registry will add to it.
Coming(s) == IF info[s].driver = NoDriver THEN down[s] ELSE Append(down[s], NextPosition(s))

\* No delta follows another driver's position or one it is not the difference to ...
Chained(e) ==
  \A i, j \in DOMAIN e :
    /\ i < j /\ IsPosition(e[i]) /\ e[j].kind = "delta"
    /\ \A k \in DOMAIN e : i < k /\ k < j => ~IsPosition(e[k])
    => e[i].driver = e[j].driver /\ e[i].to = e[j].from

\* ... nor a new subscription without a position in full in between.
Restarted(e) ==
  \A i, j \in DOMAIN e :
    i < j /\ e[i].kind = "subscribed" /\ e[j].kind = "delta"
    => \E k \in DOMAIN e : i < k /\ k < j /\ IsPosition(e[k])

\* The last driver named before a position is the one whose position it is.
Told(e) ==
  \A i, j \in DOMAIN e :
    /\ i < j /\ NamesDriver(e[i]) /\ IsPosition(e[j])
    /\ \A k \in DOMAIN e : i < k /\ k < j => ~NamesDriver(e[k])
    => e[i].driver = e[j].driver

\* The page shows the driver whose position comes first, if it is one of those it is to follow ...
Expected(e, v, D) ==
  \A j \in DOMAIN e :
    /\ IsPosition(e[j]) /\ e[j].driver \in D
    /\ \A k \in DOMAIN e : k < j => ~NamesDriver(e[k])
    => v.driver = e[j].driver

\* ... and the position that the first delta is the difference to.
Fits(e, v, D) ==
  \A j \in DOMAIN e :
    /\ e[j].kind = "delta" /\ e[j].driver \in D \cup {v.driver}
    /\ \A k \in DOMAIN e : k < j => ~IsPosition(e[k])
    => v.at = e[j].from

OnTrack(e, v, D) == Chained(e) /\ Restarted(e) /\ Told(e) /\ Expected(e, v, D) /\ Fits(e, v, D)

-----------------------------------------------------------------------------
(***************************************************************************)
(* Queues: what adding a message to the end and taking one from the front     *)
(* does to OnTrack.                                                          *)
(***************************************************************************)
LEMMA AppendFacts ==
  ASSUME NEW S, NEW q \in Seq(S), NEW x \in S
  PROVE  /\ Append(q, x) \in Seq(S) /\ Len(q) \in Nat
         /\ DOMAIN q = 1 .. Len(q) /\ DOMAIN Append(q, x) = 1 .. Len(q) + 1
         /\ \A i \in 1 .. Len(q) : Append(q, x)[i] = q[i]
         /\ Append(q, x)[Len(q) + 1] = x
OBVIOUS

LEMMA TailFacts ==
  ASSUME NEW S, NEW e \in Seq(S), e # <<>>
  PROVE  /\ Tail(e) \in Seq(S) /\ Len(e) \in Nat \ {0} /\ Head(e) = e[1]
         /\ DOMAIN e = 1 .. Len(e) /\ DOMAIN Tail(e) = 1 .. Len(e) - 1
         /\ \A i \in 1 .. Len(e) - 1 : Tail(e)[i] = e[i + 1]
OBVIOUS

\* Whatever holds of what follows a message in a queue still holds when an earlier one is gone.
LEMMA TailKeeps ==
  ASSUME NEW S, NEW e \in Seq(S), e # <<>>, Chained(e), Restarted(e), Told(e)
  PROVE  Chained(Tail(e)) /\ Restarted(Tail(e)) /\ Told(Tail(e))
<1> DEFINE u == Tail(e)
<1>0. /\ Len(e) \in Nat \ {0} /\ DOMAIN e = 1 .. Len(e) /\ DOMAIN u = 1 .. Len(e) - 1
      /\ \A i \in DOMAIN u : u[i] = e[i + 1]
      /\ \A k \in DOMAIN e : k > 1 => k - 1 \in DOMAIN u /\ u[k - 1] = e[k]
  <2>1. /\ Len(e) \in Nat \ {0} /\ DOMAIN e = 1 .. Len(e) /\ DOMAIN u = 1 .. Len(e) - 1
        /\ \A i \in DOMAIN u : u[i] = e[i + 1]
    BY TailFacts
  <2>2. ASSUME NEW k \in DOMAIN e, k > 1 PROVE k - 1 \in DOMAIN u /\ u[k - 1] = e[k]
    BY <2>1, <2>2
  <2> QED BY <2>1, <2>2
<1> HIDE DEF u
<1>1. Chained(u)
  <2> SUFFICES ASSUME NEW i \in DOMAIN u, NEW j \in DOMAIN u,
                      i < j, IsPosition(u[i]), u[j].kind = "delta",
                      \A k \in DOMAIN u : i < k /\ k < j => ~IsPosition(u[k])
               PROVE  u[i].driver = u[j].driver /\ u[i].to = u[j].from
    BY DEF Chained
  <2>1. i + 1 \in DOMAIN e /\ j + 1 \in DOMAIN e /\ i + 1 < j + 1 /\ u[i] = e[i + 1] /\ u[j] = e[j + 1]
    BY <1>0
  <2>2. ASSUME NEW k \in DOMAIN e, i + 1 < k, k < j + 1 PROVE ~IsPosition(e[k])
    <3>1. k - 1 \in DOMAIN u /\ u[k - 1] = e[k] /\ i < k - 1 /\ k - 1 < j
      BY <1>0, <2>2
    <3> QED BY <3>1
  <2> QED BY <2>1, <2>2 DEF Chained
<1>2. Restarted(u)
  <2> SUFFICES ASSUME NEW i \in DOMAIN u, NEW j \in DOMAIN u,
                      i < j, u[i].kind = "subscribed", u[j].kind = "delta"
               PROVE  \E k \in DOMAIN u : i < k /\ k < j /\ IsPosition(u[k])
    BY DEF Restarted
  <2>1. i + 1 \in DOMAIN e /\ j + 1 \in DOMAIN e /\ i + 1 < j + 1 /\ u[i] = e[i + 1] /\ u[j] = e[j + 1]
    BY <1>0
  <2>2. PICK k \in DOMAIN e : i + 1 < k /\ k < j + 1 /\ IsPosition(e[k])
    BY <2>1 DEF Restarted
  <2>3. k - 1 \in DOMAIN u /\ i < k - 1 /\ k - 1 < j /\ u[k - 1] = e[k]
    BY <1>0, <2>2
  <2> QED BY <2>2, <2>3
<1>3. Told(u)
  <2> SUFFICES ASSUME NEW i \in DOMAIN u, NEW j \in DOMAIN u,
                      i < j, NamesDriver(u[i]), IsPosition(u[j]),
                      \A k \in DOMAIN u : i < k /\ k < j => ~NamesDriver(u[k])
               PROVE  u[i].driver = u[j].driver
    BY DEF Told
  <2>1. i + 1 \in DOMAIN e /\ j + 1 \in DOMAIN e /\ i + 1 < j + 1 /\ u[i] = e[i + 1] /\ u[j] = e[j + 1]
    BY <1>0
  <2>2. ASSUME NEW k \in DOMAIN e, i + 1 < k, k < j + 1 PROVE ~NamesDriver(e[k])
    <3>1. k - 1 \in DOMAIN u /\ u[k - 1] = e[k] /\ i < k - 1 /\ k - 1 < j
      BY <1>0, <2>2
    <3> QED BY <3>1
  <2> QED BY <2>1, <2>2 DEF Told
<1> QED BY <1>1, <1>2, <1>3 DEF u

\* Nor does it matter what follows.
LEMMA DropLast ==
  ASSUME NEW S, NEW q \in Seq(S), NEW x \in S, NEW v, NEW D, OnTrack(Append(q, x), v, D)
  PROVE  OnTrack(q, v, D)
<1> DEFINE e == Append(q, x)
<1>0. /\ Len(q) \in Nat /\ DOMAIN q = 1 .. Len(q) /\ DOMAIN e = 1 .. Len(q) + 1
      /\ \A i \in DOMAIN q : e[i] = q[i]
  BY AppendFacts
<1>1. Chained(e) /\ Restarted(e) /\ Told(e) /\ Expected(e, v, D) /\ Fits(e, v, D)
  BY DEF OnTrack
<1> HIDE DEF e
<1>2. Chained(q)
  BY <1>0, <1>1 DEF Chained
<1>3. Restarted(q)
  BY <1>0, <1>1 DEF Restarted
<1>4. Told(q)
  BY <1>0, <1>1 DEF Told
<1>5. Expected(q, v, D)
  BY <1>0, <1>1 DEF Expected
<1>6. Fits(q, v, D)
  BY <1>0, <1>1 DEF Fits
<1> QED BY <1>2, <1>3, <1>4, <1>5, <1>6 DEF OnTrack

\* A message that is no position may come at the end.
LEMMA AddOther ==
  ASSUME NEW S, NEW q \in Seq(S), NEW m \in S, NEW v, NEW D, OnTrack(q, v, D), ~IsPosition(m)
  PROVE  OnTrack(Append(q, m), v, D)
<1> DEFINE e == Append(q, m)
<1>0. /\ Len(q) \in Nat /\ DOMAIN q = 1 .. Len(q) /\ DOMAIN e = 1 .. Len(q) + 1
      /\ \A i \in DOMAIN q : e[i] = q[i]
      /\ e[Len(q) + 1] = m
  BY AppendFacts
<1>1. Chained(q) /\ Restarted(q) /\ Told(q) /\ Expected(q, v, D) /\ Fits(q, v, D)
  BY DEF OnTrack
<1>2. ASSUME NEW j \in DOMAIN e, IsPosition(e[j])
      PROVE  j \in DOMAIN q /\ e[j] = q[j] /\ \A i \in DOMAIN e : i < j => i \in DOMAIN q /\ e[i] = q[i]
  BY <1>0, <1>2
<1> HIDE DEF e
<1>3. \A j \in DOMAIN e : e[j].kind = "delta" => IsPosition(e[j])
  BY DEF IsPosition
<1>4. DOMAIN q \subseteq DOMAIN e
  BY <1>0
<1>5. Chained(e)
  <2> SUFFICES ASSUME NEW i \in DOMAIN e, NEW j \in DOMAIN e,
                      i < j, IsPosition(e[i]), e[j].kind = "delta",
                      \A k \in DOMAIN e : i < k /\ k < j => ~IsPosition(e[k])
               PROVE  e[i].driver = e[j].driver /\ e[i].to = e[j].from
    BY DEF Chained
  <2>1. i \in DOMAIN q /\ j \in DOMAIN q /\ e[i] = q[i] /\ e[j] = q[j]
    BY <1>2, <1>3
  <2>2. \A k \in DOMAIN q : i < k /\ k < j => ~IsPosition(q[k])
    BY <1>0, <1>4
  <2> QED BY <1>1, <2>1, <2>2 DEF Chained
<1>6. Restarted(e)
  <2> SUFFICES ASSUME NEW i \in DOMAIN e, NEW j \in DOMAIN e,
                      i < j, e[i].kind = "subscribed", e[j].kind = "delta"
               PROVE  \E k \in DOMAIN e : i < k /\ k < j /\ IsPosition(e[k])
    BY DEF Restarted
  <2>1. i \in DOMAIN q /\ j \in DOMAIN q /\ e[i] = q[i] /\ e[j] = q[j]
    BY <1>2, <1>3
  <2>2. PICK k \in DOMAIN q : i < k /\ k < j /\ IsPosition(q[k])
    BY <1>1, <2>1 DEF Restarted
  <2> QED BY <1>0, <1>4, <2>2
<1>7. Told(e)
  <2> SUFFICES ASSUME NEW i \in DOMAIN e, NEW j \in DOMAIN e,
                      i < j, NamesDriver(e[i]), IsPosition(e[j]),
                      \A k \in DOMAIN e : i < k /\ k < j => ~NamesDriver(e[k])
               PROVE  e[i].driver = e[j].driver
    BY DEF Told
  <2>1. i \in DOMAIN q /\ j \in DOMAIN q /\ e[i] = q[i] /\ e[j] = q[j]
    BY <1>2
  <2>2. \A k \in DOMAIN q : i < k /\ k < j => ~NamesDriver(q[k])
    BY <1>0, <1>4
  <2> QED BY <1>1, <2>1, <2>2 DEF Told
<1>8. Expected(e, v, D)
  BY <1>0, <1>1, <1>2, <1>4 DEF Expected
<1>9. Fits(e, v, D)
  BY <1>0, <1>1, <1>2, <1>3, <1>4 DEF Fits
<1> QED BY <1>5, <1>6, <1>7, <1>8, <1>9 DEF OnTrack, e

\* After a driver is named its position may come in full.
LEMMA AddLocation ==
  ASSUME NEW S, NEW q \in Seq(S), NEW x \in S, NEW v, NEW D, OnTrack(q, v, D),
         q # <<>>, NamesDriver(q[Len(q)]), x.kind = "location", x.driver = q[Len(q)].driver
  PROVE  OnTrack(Append(q, x), v, D)
<1> DEFINE e == Append(q, x)
           n == Len(q)
<1>0. /\ n \in Nat \ {0} /\ DOMAIN q = 1 .. n /\ DOMAIN e = 1 .. n + 1
      /\ \A i \in DOMAIN q : e[i] = q[i]
      /\ e[n + 1] = x
  BY AppendFacts, TailFacts
<1>1. Chained(q) /\ Restarted(q) /\ Told(q) /\ Expected(q, v, D) /\ Fits(q, v, D)
  BY DEF OnTrack
<1> HIDE DEF e, n
<1>2. NamesDriver(e[n]) /\ x.driver = e[n].driver /\ x.kind # "delta"
  BY <1>0 DEF n
<1>3. Chained(e)
  BY <1>0, <1>1, <1>2 DEF Chained
<1>4. Restarted(e)
  BY <1>0, <1>1, <1>2 DEF Restarted
<1>5. Told(e)
  <2> SUFFICES ASSUME NEW i \in DOMAIN e, NEW j \in DOMAIN e,
                      i < j, NamesDriver(e[i]), IsPosition(e[j]),
                      \A k \in DOMAIN e : i < k /\ k < j => ~NamesDriver(e[k])
               PROVE  e[i].driver = e[j].driver
    BY DEF Told
  <2>1. CASE j = n + 1
    <3>1. i = n
      BY <1>0, <1>2, <2>1
    <3> QED BY <1>0, <1>2, <2>1, <3>1
  <2>2. CASE j # n + 1
    BY <1>0, <1>1, <2>2 DEF Told
  <2> QED BY <2>1, <2>2
<1>6. Expected(e, v, D)
  BY <1>0, <1>1, <1>2 DEF Expected
<1>7. Fits(e, v, D)
  BY <1>0, <1>1, <1>2 DEF Fits
<1> QED BY <1>3, <1>4, <1>5, <1>6, <1>7 DEF OnTrack, e

\* After a position the difference to it may come.
LEMMA AddDelta ==
  ASSUME NEW S, NEW q \in Seq(S), NEW x \in S, NEW v, NEW D, OnTrack(q, v, D),
         q # <<>>, IsPosition(q[Len(q)]),
         x.kind = "delta", x.driver = q[Len(q)].driver, x.from = q[Len(q)].to
  PROVE  OnTrack(Append(q, x), v, D)
<1> DEFINE e == Append(q, x)
           n == Len(q)
<1>0. /\ n \in Nat \ {0} /\ DOMAIN q = 1 .. n /\ DOMAIN e = 1 .. n + 1
      /\ \A i \in DOMAIN q : e[i] = q[i]
      /\ e[n + 1] = x
  BY AppendFacts, TailFacts
<1>1. Chained(q) /\ Restarted(q) /\ Told(q) /\ Expected(q, v, D) /\ Fits(q, v, D)
  BY DEF OnTrack
<1>2. /\ n \in DOMAIN e /\ n \in DOMAIN q /\ IsPosition(e[n]) /\ e[n] = q[n]
      /\ x.driver = e[n].driver /\ x.from = e[n].to
  <2>1. n \in DOMAIN e /\ n \in DOMAIN q
    BY <1>0
  <2>2. e[n] = q[n]
    BY <1>0, <2>1
  <2>3. IsPosition(q[n]) /\ x.driver = q[n].driver /\ x.from = q[n].to
    OBVIOUS
  <2> QED BY <2>1, <2>2, <2>3
<1> HIDE DEF e, n
<1>3. ~NamesDriver(e[n]) /\ e[n].kind # "subscribed"
  BY <1>2 DEF IsPosition, NamesDriver
<1>4. \A i, j \in DOMAIN e : i < j => i \in DOMAIN q /\ e[i] = q[i] /\ (j = n + 1 \/ (j \in DOMAIN q /\ e[j] = q[j]))
  BY <1>0
<1>5. Chained(e)
  <2> SUFFICES ASSUME NEW i \in DOMAIN e, NEW j \in DOMAIN e,
                      i < j, IsPosition(e[i]), e[j].kind = "delta",
                      \A k \in DOMAIN e : i < k /\ k < j => ~IsPosition(e[k])
               PROVE  e[i].driver = e[j].driver /\ e[i].to = e[j].from
    BY DEF Chained
  <2>1. CASE j = n + 1
    <3>1. i = n
      BY <1>0, <1>2, <2>1
    <3> QED BY <1>0, <1>2, <2>1, <3>1
  <2>2. CASE j # n + 1
    BY <1>0, <1>1, <2>2 DEF Chained
  <2> QED BY <2>1, <2>2
<1>6. Restarted(e)
  <2> SUFFICES ASSUME NEW i \in DOMAIN e, NEW j \in DOMAIN e,
                      i < j, e[i].kind = "subscribed", e[j].kind = "delta"
               PROVE  \E k \in DOMAIN e : i < k /\ k < j /\ IsPosition(e[k])
    BY DEF Restarted
  <2>1. CASE j = n + 1
    <3>1. i < n /\ n < j
      BY <1>0, <1>3, <2>1
    <3> QED BY <1>2, <3>1
  <2>2. CASE j # n + 1
    <3>1. PICK k \in DOMAIN q : i < k /\ k < j /\ IsPosition(q[k])
      BY <1>1, <1>4, <2>2 DEF Restarted
    <3> QED BY <1>0, <3>1
  <2> QED BY <2>1, <2>2
<1>7. Told(e)
  <2> SUFFICES ASSUME NEW i \in DOMAIN e, NEW j \in DOMAIN e,
                      i < j, NamesDriver(e[i]), IsPosition(e[j]),
                      \A k \in DOMAIN e : i < k /\ k < j => ~NamesDriver(e[k])
               PROVE  e[i].driver = e[j].driver
    BY DEF Told
  <2>1. CASE j = n + 1
    <3>1. i < n
      BY <1>0, <1>3, <2>1
    <3>2. \A k \in DOMAIN q : i < k /\ k < n => ~NamesDriver(q[k])
      BY <1>0, <2>1
    <3>3. q[i].driver = q[n].driver
      BY <1>1, <1>2, <1>4, <3>1, <3>2 DEF Told
    <3> QED BY <1>0, <1>2, <1>4, <2>1, <3>3
  <2>2. CASE j # n + 1
    BY <1>0, <1>1, <2>2 DEF Told
  <2> QED BY <2>1, <2>2
<1>8. Expected(e, v, D)
  <2> SUFFICES ASSUME NEW j \in DOMAIN e, IsPosition(e[j]), e[j].driver \in D,
                      \A k \in DOMAIN e : k < j => ~NamesDriver(e[k])
               PROVE  v.driver = e[j].driver
    BY DEF Expected
  <2>1. CASE j = n + 1
    <3>1. \A k \in DOMAIN q : k < n => ~NamesDriver(q[k])
      BY <1>0, <2>1
    <3> QED BY <1>0, <1>1, <1>2, <2>1, <3>1 DEF Expected
  <2>2. CASE j # n + 1
    BY <1>0, <1>1, <2>2 DEF Expected
  <2> QED BY <2>1, <2>2
<1>9. Fits(e, v, D)
  <2> SUFFICES ASSUME NEW j \in DOMAIN e, e[j].kind = "delta", e[j].driver \in D \cup {v.driver},
                      \A k \in DOMAIN e : k < j => ~IsPosition(e[k])
               PROVE  v.at = e[j].from
    BY DEF Fits
  <2>1. j # n + 1
    BY <1>0, <1>2
  <2> QED BY <1>0, <1>1, <2>1 DEF Fits
<1> QED BY <1>5, <1>6, <1>7, <1>8, <1>9 DEF OnTrack, e

\* Only what it is the difference to matters of the last position, not where it leads.
LEMMA LastKept ==
  ASSUME NEW S, NEW q \in Seq(S), NEW x \in S, NEW y \in S, NEW v, NEW D, OnTrack(Append(q, x), v, D),
         IsPosition(x), y.kind = x.kind, y.driver = x.driver, y.kind = "delta" => y.from = x.from
  PROVE  OnTrack(Append(q, y), v, D)
<1> DEFINE e == Append(q, x)
           f == Append(q, y)
           n == Len(q)
<1>0. /\ n \in Nat /\ DOMAIN e = 1 .. n + 1 /\ DOMAIN f = 1 .. n + 1
      /\ \A i \in DOMAIN f : i # n + 1 => f[i] = e[i]
      /\ f[n + 1] = y /\ e[n + 1] = x
  BY AppendFacts
<1>1. Chained(e) /\ Restarted(e) /\ Told(e) /\ Expected(e, v, D) /\ Fits(e, v, D)
  BY DEF OnTrack
<1> HIDE DEF e, f, n
<1>2. /\ DOMAIN f = DOMAIN e
      /\ \A i \in DOMAIN f : /\ f[i].kind = e[i].kind
                             /\ IsPosition(f[i]) <=> IsPosition(e[i])
                             /\ NamesDriver(f[i]) <=> NamesDriver(e[i])
                             /\ IsPosition(f[i]) \/ NamesDriver(f[i]) => f[i].driver = e[i].driver
                             /\ f[i].kind = "delta" => f[i].from = e[i].from
      /\ \A i, j \in DOMAIN f : i < j => f[i] = e[i]
  BY <1>0 DEF IsPosition, NamesDriver
<1>3. \A j \in DOMAIN f : f[j].kind = "delta" => IsPosition(f[j])
  BY DEF IsPosition
<1>4. Chained(f)
  BY <1>1, <1>2, <1>3 DEF Chained
<1>5. Restarted(f)
  BY <1>1, <1>2 DEF Restarted
<1>6. Told(f)
  BY <1>1, <1>2 DEF Told
<1>7. Expected(f, v, D)
  BY <1>1, <1>2 DEF Expected
<1>8. Fits(f, v, D)
  BY <1>1, <1>2, <1>3 DEF Fits
<1> QED BY <1>4, <1>5, <1>6, <1>7, <1>8 DEF OnTrack, f

\* A message that neither is a position nor starts one may come before the last position, if the
\* driver it names is that position's.
LEMMA SlipIn ==
  ASSUME NEW S, NEW q \in Seq(S), NEW m \in S, NEW x \in S, NEW v, NEW D, OnTrack(Append(q, x), v, D),
         IsPosition(x), ~IsPosition(m), m.kind # "subscribed", NamesDriver(m) => m.driver = x.driver
  PROVE  OnTrack(Append(Append(q, m), x), v, D)
<1> DEFINE e == Append(q, x)
           r == Append(q, m)
           f == Append(r, x)
           n == Len(q)
<1>0. /\ n \in Nat /\ DOMAIN e = 1 .. n + 1 /\ DOMAIN f = 1 .. n + 2
      /\ DOMAIN r = 1 .. n + 1
      /\ \A i \in DOMAIN f : i # n + 1 /\ i # n + 2 => f[i] = e[i]
      /\ \A i \in DOMAIN r : f[i] = r[i]
      /\ f[n + 1] = m /\ f[n + 2] = x /\ e[n + 1] = x
  <2>1. /\ r \in Seq(S) /\ n \in Nat /\ DOMAIN q = 1 .. n /\ DOMAIN e = 1 .. n + 1
        /\ DOMAIN r = 1 .. n + 1 /\ r[n + 1] = m
        /\ \A i \in 1 .. n : r[i] = q[i] /\ e[i] = q[i]
        /\ e[n + 1] = x
    BY AppendFacts
  <2>2. Len(r) = n + 1
    OBVIOUS
  <2>3. /\ DOMAIN f = 1 .. n + 2 /\ f[n + 2] = x
        /\ \A i \in 1 .. n + 1 : f[i] = r[i]
    BY <2>1, <2>2, AppendFacts
  <2> HIDE DEF e, r, f, n
  <2> QED BY <2>1, <2>3
<1>1. Chained(e) /\ Restarted(e) /\ Told(e) /\ Expected(e, v, D) /\ Fits(e, v, D)
  BY DEF OnTrack
<1>2. Chained(r) /\ Restarted(r) /\ Told(r) /\ Expected(r, v, D) /\ Fits(r, v, D)
  BY DropLast, AddOther DEF OnTrack
<1> HIDE DEF e, f, r, n
<1>3. Chained(f)
  <2> SUFFICES ASSUME NEW i \in DOMAIN f, NEW j \in DOMAIN f,
                      i < j, IsPosition(f[i]), f[j].kind = "delta",
                      \A k \in DOMAIN f : i < k /\ k < j => ~IsPosition(f[k])
               PROVE  f[i].driver = f[j].driver /\ f[i].to = f[j].from
    BY DEF Chained
  <2>1. CASE j = n + 2
    <3>1. i < n + 1 /\ i \in DOMAIN e /\ n + 1 \in DOMAIN e /\ f[i] = e[i] /\ f[j] = e[n + 1]
      BY <1>0, <2>1
    <3>2. \A k \in DOMAIN e : i < k /\ k < n + 1 => ~IsPosition(e[k])
      BY <1>0, <2>1
    <3> QED BY <1>1, <3>1, <3>2 DEF Chained
  <2>2. CASE j # n + 2
    BY <1>0, <1>2, <2>2 DEF Chained
  <2> QED BY <2>1, <2>2
<1>4. Restarted(f)
  <2> SUFFICES ASSUME NEW i \in DOMAIN f, NEW j \in DOMAIN f,
                      i < j, f[i].kind = "subscribed", f[j].kind = "delta"
               PROVE  \E k \in DOMAIN f : i < k /\ k < j /\ IsPosition(f[k])
    BY DEF Restarted
  <2>1. CASE j = n + 2
    <3>1. i < n + 1 /\ i \in DOMAIN e /\ n + 1 \in DOMAIN e /\ f[i] = e[i] /\ f[j] = e[n + 1]
      BY <1>0, <2>1
    <3>2. PICK k \in DOMAIN e : i < k /\ k < n + 1 /\ IsPosition(e[k])
      BY <1>1, <3>1 DEF Restarted
    <3>3. k \in DOMAIN f /\ f[k] = e[k] /\ k < j
      BY <1>0, <2>1, <3>2
    <3> QED BY <3>2, <3>3
  <2>2. CASE j # n + 2
    <3>1. PICK k \in DOMAIN r : i < k /\ k < j /\ IsPosition(r[k])
      BY <1>0, <1>2, <2>2 DEF Restarted
    <3> QED BY <1>0, <3>1
  <2> QED BY <2>1, <2>2
<1>5. Told(f)
  <2> SUFFICES ASSUME NEW i \in DOMAIN f, NEW j \in DOMAIN f,
                      i < j, NamesDriver(f[i]), IsPosition(f[j]),
                      \A k \in DOMAIN f : i < k /\ k < j => ~NamesDriver(f[k])
               PROVE  f[i].driver = f[j].driver
    BY DEF Told
  <2>1. CASE j = n + 2 /\ i = n + 1
    BY <1>0, <2>1
  <2>2. CASE j = n + 2 /\ i # n + 1
    <3>1. i < n + 1 /\ i \in DOMAIN e /\ n + 1 \in DOMAIN e /\ f[i] = e[i] /\ f[j] = e[n + 1]
      BY <1>0, <2>2
    <3>2. \A k \in DOMAIN e : i < k /\ k < n + 1 => ~NamesDriver(e[k])
      BY <1>0, <2>2
    <3> QED BY <1>1, <3>1, <3>2 DEF Told
  <2>3. CASE j # n + 2
    BY <1>0, <1>2, <2>3 DEF Told
  <2> QED BY <2>1, <2>2, <2>3
<1>6. Expected(f, v, D)
  <2> SUFFICES ASSUME NEW j \in DOMAIN f, IsPosition(f[j]), f[j].driver \in D,
                      \A k \in DOMAIN f : k < j => ~NamesDriver(f[k])
               PROVE  v.driver = f[j].driver
    BY DEF Expected
  <2>1. CASE j = n + 2
    <3>1. \A k \in DOMAIN e : k < n + 1 => ~NamesDriver(e[k])
      BY <1>0, <2>1
    <3> QED BY <1>0, <1>1, <2>1, <3>1 DEF Expected
  <2>2. CASE j # n + 2
    BY <1>0, <1>2, <2>2 DEF Expected
  <2> QED BY <2>1, <2>2
<1>7. Fits(f, v, D)
  <2> SUFFICES ASSUME NEW j \in DOMAIN f, f[j].kind = "delta", f[j].driver \in D \cup {v.driver},
                      \A k \in DOMAIN f : k < j => ~IsPosition(f[k])
               PROVE  v.at = f[j].from
    BY DEF Fits
  <2>1. CASE j = n + 2
    <3>1. \A k \in DOMAIN e : k < n + 1 => ~IsPosition(e[k])
      BY <1>0, <2>1
    <3> QED BY <1>0, <1>1, <2>1, <3>1 DEF Fits
  <2>2. CASE j # n + 2
    BY <1>0, <1>2, <2>2 DEF Fits
  <2> QED BY <2>1, <2>2
<1> QED BY <1>3, <1>4, <1>5, <1>6, <1>7 DEF OnTrack, f, r

-----------------------------------------------------------------------------
\* A page takes a message that names a driver, and shows that driver if it is to follow him.
LEMMA TakeNaming ==
  ASSUME NEW S, NEW e \in Seq(S), e # <<>>, NEW v, NEW w, NEW D, OnTrack(e, v, D),
         NamesDriver(Head(e)), Head(e).driver \in D => w.driver = Head(e).driver,
         Head(e).kind = "subscribed" \/ (w.at = v.at /\ w.driver \in D \cup {v.driver})
  PROVE  OnTrack(Tail(e), w, D)
<1> DEFINE u == Tail(e)
           m == Head(e)
<1>0. /\ Len(e) \in Nat \ {0} /\ DOMAIN e = 1 .. Len(e) /\ DOMAIN u = 1 .. Len(e) - 1
      /\ m = e[1] /\ \A i \in DOMAIN u : u[i] = e[i + 1]
  BY TailFacts
<1>1. Chained(e) /\ Restarted(e) /\ Told(e) /\ Expected(e, v, D) /\ Fits(e, v, D)
  BY DEF OnTrack
<1>2. Chained(u) /\ Restarted(u) /\ Told(u)
  BY <1>1, TailKeeps
<1> HIDE DEF u, m
<1>3. ~IsPosition(e[1]) /\ NamesDriver(e[1])
  BY <1>0 DEF NamesDriver, IsPosition, m
<1>4. Expected(u, w, D)
  <2> SUFFICES ASSUME NEW j \in DOMAIN u, IsPosition(u[j]), u[j].driver \in D,
                      \A k \in DOMAIN u : k < j => ~NamesDriver(u[k])
               PROVE  w.driver = u[j].driver
    BY DEF Expected
  <2>1. 1 \in DOMAIN e /\ j + 1 \in DOMAIN e /\ 1 < j + 1 /\ u[j] = e[j + 1]
    BY <1>0
  <2>2. ASSUME NEW k \in DOMAIN e, 1 < k, k < j + 1 PROVE ~NamesDriver(e[k])
    <3>1. k - 1 \in DOMAIN u /\ k - 1 < j /\ u[k - 1] = e[k]
      BY <1>0, <2>2
    <3> QED BY <3>1
  <2>3. e[1].driver = u[j].driver
    BY <1>1, <1>3, <2>1, <2>2 DEF Told
  <2> QED BY <1>0, <2>3 DEF m
<1>5. Fits(u, w, D)
  <2> SUFFICES ASSUME NEW j \in DOMAIN u, u[j].kind = "delta", u[j].driver \in D \cup {w.driver},
                      \A k \in DOMAIN u : k < j => ~IsPosition(u[k])
               PROVE  w.at = u[j].from
    BY DEF Fits
  <2>1. 1 \in DOMAIN e /\ j + 1 \in DOMAIN e /\ 1 < j + 1 /\ u[j] = e[j + 1]
    BY <1>0
  <2>2. ASSUME NEW k \in DOMAIN e, 1 < k, k < j + 1 PROVE ~IsPosition(e[k])
    <3>1. k - 1 \in DOMAIN u /\ k - 1 < j /\ u[k - 1] = e[k]
      BY <1>0, <2>2
    <3> QED BY <3>1
  <2>3. e[1].kind # "subscribed"
    BY <1>1, <2>1, <2>2 DEF Restarted
  <2>4. w.at = v.at /\ w.driver \in D \cup {v.driver}
    BY <1>0, <2>3 DEF m
  <2>5. \A k \in DOMAIN e : k < j + 1 => ~IsPosition(e[k])
    BY <1>0, <1>3, <2>2
  <2>6. v.at = e[j + 1].from
    BY <1>1, <2>1, <2>4, <2>5 DEF Fits
  <2> QED BY <2>1, <2>4, <2>6
<1> QED BY <1>2, <1>4, <1>5 DEF OnTrack, u

\* It takes one that neither names a driver nor is a position.
LEMMA TakeOther ==
  ASSUME NEW S, NEW e \in Seq(S), e # <<>>, NEW v, NEW w, NEW D, OnTrack(e, v, D),
         ~NamesDriver(Head(e)), ~IsPosition(Head(e)), w.driver = v.driver, w.at = v.at
  PROVE  OnTrack(Tail(e), w, D)
<1> DEFINE u == Tail(e)
<1>0. /\ Len(e) \in Nat \ {0} /\ DOMAIN e = 1 .. Len(e) /\ DOMAIN u = 1 .. Len(e) - 1
      /\ Head(e) = e[1] /\ \A i \in DOMAIN u : u[i] = e[i + 1]
  BY TailFacts
<1>1. Chained(e) /\ Restarted(e) /\ Told(e) /\ Expected(e, v, D) /\ Fits(e, v, D)
  BY DEF OnTrack
<1>2. Chained(u) /\ Restarted(u) /\ Told(u)
  BY <1>1, TailKeeps
<1> HIDE DEF u
<1>3. Expected(u, w, D)
  <2> SUFFICES ASSUME NEW j \in DOMAIN u, IsPosition(u[j]), u[j].driver \in D,
                      \A k \in DOMAIN u : k < j => ~NamesDriver(u[k])
               PROVE  w.driver = u[j].driver
    BY DEF Expected
  <2>1. j + 1 \in DOMAIN e /\ u[j] = e[j + 1]
    BY <1>0
  <2>2. ASSUME NEW k \in DOMAIN e, k < j + 1 PROVE ~NamesDriver(e[k])
    <3>1. k = 1 \/ (k - 1 \in DOMAIN u /\ k - 1 < j /\ u[k - 1] = e[k])
      BY <1>0, <2>2
    <3> QED BY <1>0, <3>1
  <2> QED BY <1>1, <2>1, <2>2 DEF Expected
<1>4. Fits(u, w, D)
  <2> SUFFICES ASSUME NEW j \in DOMAIN u, u[j].kind = "delta", u[j].driver \in D \cup {w.driver},
                      \A k \in DOMAIN u : k < j => ~IsPosition(u[k])
               PROVE  w.at = u[j].from
    BY DEF Fits
  <2>1. j + 1 \in DOMAIN e /\ u[j] = e[j + 1]
    BY <1>0
  <2>2. ASSUME NEW k \in DOMAIN e, k < j + 1 PROVE ~IsPosition(e[k])
    <3>1. k = 1 \/ (k - 1 \in DOMAIN u /\ k - 1 < j /\ u[k - 1] = e[k])
      BY <1>0, <2>2
    <3> QED BY <1>0, <3>1
  <2> QED BY <1>1, <2>1, <2>2 DEF Fits
<1> QED BY <1>2, <1>3, <1>4 DEF OnTrack, u

\* It takes a position, and shows it if it is that of the driver it shows.
LEMMA TakePosition ==
  ASSUME NEW S, NEW e \in Seq(S), e # <<>>, NEW v, NEW w, NEW D, OnTrack(e, v, D),
         IsPosition(Head(e)), w.driver = v.driver,
         Head(e).driver = v.driver /\ (Head(e).kind = "delta" => v.at = Head(e).from)
           => w.at = Head(e).to
  PROVE  OnTrack(Tail(e), w, D)
<1> DEFINE u == Tail(e)
<1>0. /\ Len(e) \in Nat \ {0} /\ DOMAIN e = 1 .. Len(e) /\ DOMAIN u = 1 .. Len(e) - 1
      /\ Head(e) = e[1] /\ \A i \in DOMAIN u : u[i] = e[i + 1]
  BY TailFacts
<1>1. Chained(e) /\ Restarted(e) /\ Told(e) /\ Expected(e, v, D) /\ Fits(e, v, D)
  BY DEF OnTrack
<1>2. Chained(u) /\ Restarted(u) /\ Told(u)
  BY <1>1, TailKeeps
<1> HIDE DEF u
<1>3. 1 \in DOMAIN e /\ IsPosition(e[1]) /\ ~NamesDriver(e[1]) /\ \A k \in DOMAIN e : ~(k < 1)
  BY <1>0 DEF IsPosition, NamesDriver
<1>4. Expected(u, w, D)
  <2> SUFFICES ASSUME NEW j \in DOMAIN u, IsPosition(u[j]), u[j].driver \in D,
                      \A k \in DOMAIN u : k < j => ~NamesDriver(u[k])
               PROVE  w.driver = u[j].driver
    BY DEF Expected
  <2>1. j + 1 \in DOMAIN e /\ u[j] = e[j + 1]
    BY <1>0
  <2>2. ASSUME NEW k \in DOMAIN e, k < j + 1 PROVE ~NamesDriver(e[k])
    <3>1. k = 1 \/ (k - 1 \in DOMAIN u /\ k - 1 < j /\ u[k - 1] = e[k])
      BY <1>0, <2>2
    <3> QED BY <1>3, <3>1
  <2> QED BY <1>1, <2>1, <2>2 DEF Expected
<1>5. Fits(u, w, D)
  <2> SUFFICES ASSUME NEW j \in DOMAIN u, u[j].kind = "delta", u[j].driver \in D \cup {w.driver},
                      \A k \in DOMAIN u : k < j => ~IsPosition(u[k])
               PROVE  w.at = u[j].from
    BY DEF Fits
  <2>1. j + 1 \in DOMAIN e /\ 1 < j + 1 /\ u[j] = e[j + 1]
    BY <1>0
  <2>2. ASSUME NEW k \in DOMAIN e, 1 < k, k < j + 1 PROVE ~IsPosition(e[k])
    <3>1. k - 1 \in DOMAIN u /\ k - 1 < j /\ u[k - 1] = e[k]
      BY <1>0, <2>2
    <3> QED BY <3>1
  <2>3. e[1].driver = u[j].driver /\ e[1].to = u[j].from
    BY <1>1, <1>3, <2>1, <2>2 DEF Chained
  <2>4. v.driver = e[1].driver
    BY <1>1, <1>3, <2>3 DEF Expected
  <2>5. e[1].kind = "delta" => v.at = e[1].from
    BY <1>1, <1>3, <2>4 DEF Fits
  <2> QED BY <1>0, <2>3, <2>4, <2>5
<1> QED BY <1>2, <1>4, <1>5 DEF OnTrack, u

\* The page shows the one driver it is to follow, or none when there is none.
LEMMA Refocus ==
  ASSUME NEW e, NEW v, NEW w, NEW D, OnTrack(e, v, D),
         w.at = v.at, w.driver \in D \cup {NoDriver}, D \subseteq {w.driver},
         \A j \in DOMAIN e : IsPosition(e[j]) => e[j].driver # NoDriver
  PROVE  OnTrack(e, w, D)
<1>1. \A j \in DOMAIN e : e[j].kind = "delta" => IsPosition(e[j])
  BY DEF IsPosition
<1>2. Expected(e, w, D)
  BY DEF Expected
<1>3. Fits(e, w, D)
  BY <1>1 DEF OnTrack, Fits
<1> QED BY <1>2, <1>3 DEF OnTrack

\* The page shows no driver, and is to follow none whose position is on its way.
LEMMA StartAfresh ==
  ASSUME NEW e, NEW v, NEW w, NEW D, NEW E, OnTrack(e, v, D),
         w.driver = NoDriver,
         \A j \in DOMAIN e : IsPosition(e[j]) => e[j].driver \notin E \cup {NoDriver}
  PROVE  OnTrack(e, w, E)
<1>1. \A j \in DOMAIN e : e[j].kind = "delta" => IsPosition(e[j])
  BY DEF IsPosition
<1> QED BY <1>1 DEF OnTrack, Expected, Fits

\* The page is to follow others, none of whose positions is on its way.
LEMMA FollowOthers ==
  ASSUME NEW e, NEW v, NEW D, NEW E, OnTrack(e, v, D),
         \A j \in DOMAIN e : IsPosition(e[j]) /\ e[j].driver \in E => e[j].driver \in D
  PROVE  OnTrack(e, v, E)
<1>1. \A j \in DOMAIN e : e[j].kind = "delta" => IsPosition(e[j])
  BY DEF IsPosition
<1> QED BY <1>1 DEF OnTrack, Expected, Fits

\* Nothing is on its way.
LEMMA NothingComing ==
  ASSUME NEW v, NEW D
  PROVE  OnTrack(<<>>, v, D)
BY DEF OnTrack, Chained, Restarted, Told, Expected, Fits

\* What applying a message does to the driver and the position a page shows.
LEMMA AppliedFacts ==
  ASSUME NEW v \in Views, NEW m \in Messages
  PROVE  /\ m.kind = "subscribed" /\ m.driver = NoDriver => Applied(v, m) = v
         /\ m.kind = "subscribed" /\ m.driver # NoDriver => Applied(v, m).driver = m.driver
         /\ m.kind = "trip_matched" => Applied(v, m).driver = m.driver /\ Applied(v, m).at = v.at
         /\ ~NamesDriver(m) => Applied(v, m).driver = v.driver
         /\ ~NamesDriver(m) /\ ~IsPosition(m) => Applied(v, m).at = v.at
         /\ IsPosition(m) /\ m.driver = v.driver /\ (m.kind = "delta" => v.at = m.from)
              => Applied(v, m).at = m.to
<1> USE DEF NamesDriver, IsPosition
<1>1. CASE m \in [kind : {"subscribed", "trip_matched"}, driver : DriverKeys]
  BY <1>1 DEF Applied, Views
<1>2. CASE m \in [kind : {"trip_cancelled", "already_ended"}]
  BY <1>2 DEF Applied, Views
<1>3. CASE m \in [kind : {"location"}, driver : Drivers, to : Places]
  BY <1>3 DEF Applied, Located, Views
<1>4. CASE m \in [kind : {"delta"}, driver : Drivers, from : Places, to : Places]
  BY <1>4 DEF Applied, Located, Views
<1> QED BY <1>1, <1>2, <1>3, <1>4 DEF Messages, DriverKeys

\* A rider's page stays on track whatever it receives, since it is told of no match but its own.
LEMMA RiderReceives ==
  ASSUME NEW S, NEW e \in Seq(S), e # <<>>, Head(e) \in Messages, NEW v \in Views,
         NEW D \in SUBSET Drivers, OnTrack(e, v, D),
         Head(e).kind = "trip_matched" => Head(e).driver \in D
  PROVE  OnTrack(Tail(e), Applied(v, Head(e)), D)
<1> DEFINE m == Head(e)
<1>1. CASE m.kind = "subscribed"
  BY <1>1, AppliedFacts, TakeNaming, NoDriverAssumption DEF NamesDriver
<1>2. CASE m.kind = "trip_matched"
  BY <1>2, AppliedFacts, TakeNaming DEF NamesDriver
<1>3. CASE IsPosition(m)
  BY <1>3, AppliedFacts, TakePosition DEF NamesDriver, IsPosition
<1>4. CASE ~IsPosition(m) /\ ~NamesDriver(m)
  BY <1>4, AppliedFacts, TakeOther
<1> QED BY <1>1, <1>2, <1>3, <1>4 DEF NamesDriver

\* So does a watcher's, which heeds positions only.
LEMMA WatcherReceives ==
  ASSUME NEW S, NEW e \in Seq(S), e # <<>>, Head(e) \in Messages, NEW v \in Views,
         NEW D \in SUBSET {v.driver}, OnTrack(e, v, D)
  PROVE  OnTrack(Tail(e), IF IsPosition(Head(e)) THEN Applied(v, Head(e)) ELSE v, D)
<1> DEFINE m == Head(e)
<1>1. CASE NamesDriver(m)
  <2>1. ~IsPosition(m)
    BY <1>1 DEF NamesDriver, IsPosition
  <2>2. OnTrack(Tail(e), v, D)
    BY <1>1, TakeNaming
  <2> QED BY <2>1, <2>2
<1>2. CASE IsPosition(m)
  BY <1>2, AppliedFacts, TakePosition DEF NamesDriver, IsPosition
<1>3. CASE ~IsPosition(m) /\ ~NamesDriver(m)
  BY <1>3, TakeOther
<1> QED BY <1>1, <1>2, <1>3

-----------------------------------------------------------------------------
\* The drivers whose positions a page may come to show by what it asks for.
Followed(p) ==
  {d \in Drivers : wants[p].driver = d \/ (wants[p].trip # NoTrip /\ tripDriver[wants[p].trip] = d)}

\* Nobody will be told of a match of the trip any more.
Quiet(t) ==
  \/ tripStatus[t] = "cancelled"
  \/ /\ run[t] = "over"
     /\ \A s \in Conns : \A i \in DOMAIN down[s] :
          down[s][i].kind = "trip_matched" => down[s][i].driver # tripDriver[t]

\* The page that posted the trip has had its answer, or lost it for good.
Used(t) == tripStatus[t] # "absent" /\ \A p \in Riders : posting[p] # t

\* A trip the rider follows, or has done with.
About(p, t) == Used(t) /\ (wants[p].trip = t \/ Quiet(t))

\* The trips a connection's messages, queries and registration are about.
Mentioned(s, t) ==
  \/ \E i \in DOMAIN up[s] : up[s][i].trip = t
  \/ \E r \in reads[s] : r.trip = t
  \/ info[s].trip = t

\* A trip that is given to a driver keeps him, and he gets no other.
TripsInv ==
  \A t \in Trips :
    /\ tripStatus[t] # "absent" => run[t] # "none"
    /\ tripDriver[t] # NoDriver => tripStatus[t] = "matched"
    /\ tripDriver[t] \notin available
    /\ \A u \in Trips : tripDriver[t] = tripDriver[u] /\ tripDriver[t] # NoDriver => t = u

\* A page's connection is open and its own; nothing happened yet on an unused one.
ConnsInv ==
  /\ \A p \in Pages : conn[p] # NoConn => sock[conn[p]] = "open"
  /\ \A p, q \in Pages : conn[p] = conn[q] /\ conn[p] # NoConn => p = q
  /\ \A s \in Conns : sock[s] = "unused" =>
       info[s] = Unregistered /\ up[s] = <<>> /\ reads[s] = {} /\ down[s] = <<>>
  /\ \A s \in Conns : info[s].driver = NoDriver => info[s].lastSent = Nowhere

\* A rider waits for the answer to one POST, and follows nothing meanwhile.
PostingInv ==
  /\ \A p \in Riders : posting[p] # NoTrip => tripStatus[posting[p]] # "absent" /\ wants[p] = Nothing
  /\ \A p, q \in Riders : posting[p] = posting[q] /\ posting[p] # NoTrip => p = q

\* Riders follow trips they know of; a watcher shows the driver he follows.
WishInv ==
  /\ \A p \in Riders : wants[p].driver = NoDriver /\ \A t \in Trips : wants[p].trip = t => Used(t)
  /\ \A p \in Watchers :
       /\ wants[p].trip = NoTrip /\ view[p].driver = wants[p].driver
       /\ wants[p] = Nothing => conn[p] = NoConn

\* A rider's page asks for the trip it follows, and an answer on its way is the trip's row.
FetchInv ==
  \A p \in Riders : \A f \in fetches[p] :
    f.trip = wants[p].trip /\ (f.status # "asked" => f = Row(f.trip))

\* "Request another trip" is offered when nothing more will be heard of this one.
EndedInv ==
  \A p \in Riders, t \in Trips :
    wants[p].trip = t /\ view[p].status \in Ended /\ fetches[p] = {} => Quiet(t)

\* On a rider's connection there are trips he follows or has done with, and their drivers.
RiderConn(p, s) ==
  /\ \A t \in Trips : Mentioned(s, t) => About(p, t)
  /\ \A i \in DOMAIN up[s] : up[s][i].driver = NoDriver
  /\ \A r \in reads[s] : r.trip # NoTrip /\ r.driver \in {NoDriver, tripDriver[r.trip]}
  /\ info[s].driver # NoDriver => info[s].trip # NoTrip /\ info[s].driver = tripDriver[info[s].trip]
  /\ \A i \in DOMAIN down[s] : down[s][i].kind = "trip_matched" => down[s][i].driver \in Followed(p)
  /\ \A i \in DOMAIN down[s] : IsPosition(down[s][i]) =>
       \E t \in Trips : Used(t) /\ tripDriver[t] = down[s][i].driver

\* A watcher's connection serves one wish.
WatcherConn(p, s) ==
  /\ \A i \in DOMAIN up[s] : up[s][i] = wants[p]
  /\ \A r \in reads[s] : r = wants[p]
  /\ info[s].trip = NoTrip /\ info[s].driver \in {NoDriver, wants[p].driver}

LinesInv ==
  /\ \A p \in Riders, s \in Conns : conn[p] = s => RiderConn(p, s)
  /\ \A p \in Watchers, s \in Conns : conn[p] = s => WatcherConn(p, s)

TrackInv ==
  \A p \in Pages, s \in Conns : conn[p] = s => OnTrack(Coming(s), view[p], Followed(p))

FitInv ==
  /\ TripsInv /\ ConnsInv /\ PostingInv /\ WishInv
  /\ FetchInv /\ EndedInv /\ LinesInv /\ TrackInv

-----------------------------------------------------------------------------
(***************************************************************************)
(* What the parts of the invariant say of typed state, and what keeps them.  *)
(***************************************************************************)
\* Messages, and positions that lead who knows where.
Frames ==
  Messages \cup [kind : {"location"}, driver : Drivers, to : {Nowhere}]
           \cup [kind : {"delta"}, driver : Drivers, from : Places, to : {Nowhere}]

LEMMA PositionsNamed ==
  ASSUME NEW m \in Frames, IsPosition(m)
  PROVE  m.driver \in Drivers /\ m.driver # NoDriver
<1>1. m.driver \in Drivers
  BY DEF Frames, Messages, IsPosition
<1> QED BY <1>1, NoDriverAssumption

LEMMA ComingTyped ==
  ASSUME Typed, NEW s \in Conns
  PROVE  /\ down[s] \in Seq(Messages) /\ down[s] \in Seq(Frames) /\ Coming(s) \in Seq(Frames)
         /\ info[s].driver # NoDriver =>
              /\ info[s].driver \in Drivers
              /\ NextPosition(s) \in Frames /\ IsPosition(NextPosition(s))
              /\ NextPosition(s).driver = info[s].driver
         /\ \A i \in DOMAIN down[s] : down[s][i] \in Messages /\ down[s][i] \in Frames
         /\ \A i \in DOMAIN Coming(s) : Coming(s)[i] \in Frames
<1>1. down[s] \in Seq(Messages) /\ Messages \subseteq Frames
  BY DEF Typed, ShownTyped, Frames
<1>2. down[s] \in Seq(Frames)
  BY <1>1
<1>3. info[s].driver \in DriverKeys /\ info[s].lastSent \in Places \cup {Nowhere}
  BY DEF Typed, IInv, RegistryTyped
<1>4. ASSUME info[s].driver # NoDriver
      PROVE  /\ info[s].driver \in Drivers
             /\ NextPosition(s) \in Frames /\ IsPosition(NextPosition(s))
             /\ NextPosition(s).driver = info[s].driver
  <2>1. info[s].driver \in Drivers
    BY <1>3, <1>4 DEF DriverKeys
  <2>2. CASE info[s].lastSent = Nowhere
    BY <2>1, <2>2 DEF NextPosition, Frames, IsPosition
  <2>3. CASE info[s].lastSent # Nowhere
    BY <1>3, <2>1, <2>3 DEF NextPosition, Frames, IsPosition
  <2> QED BY <2>1, <2>2, <2>3
<1>5. Coming(s) \in Seq(Frames)
  BY <1>2, <1>4, AppendFacts DEF Coming
<1>6. \A i \in DOMAIN down[s] : down[s][i] \in Messages /\ down[s][i] \in Frames
  BY <1>1
<1>7. \A i \in DOMAIN Coming(s) : Coming(s)[i] \in Frames
  BY <1>5
<1> QED BY <1>1, <1>2, <1>4, <1>5, <1>6, <1>7

LEMMA ComingKept ==
  ASSUME NEW s, info'[s] = info[s], down'[s] = down[s]
  PROVE  Coming(s)' = Coming(s)
BY DEF Coming, NextPosition

\* The positions on a rider's connection are those of drivers of trips in use.
LEMMA ComingAssigned ==
  ASSUME Typed, NEW p \in Riders, NEW s \in Conns, RiderConn(p, s)
  PROVE  \A j \in DOMAIN Coming(s) : IsPosition(Coming(s)[j]) =>
           \E t \in Trips : Used(t) /\ tripDriver[t] = Coming(s)[j].driver
<1>1. CASE info[s].driver = NoDriver
  BY <1>1 DEF Coming, RiderConn
<1>2. CASE info[s].driver # NoDriver
  <2>1. info[s].trip \in Trips /\ info[s].driver = tripDriver[info[s].trip]
    BY <1>2 DEF RiderConn, Typed, IInv, RegistryTyped, TripKeys
  <2>2. PICK t \in Trips : info[s].trip = t
    BY <2>1
  <2>3. Used(t) /\ tripDriver[t] = info[s].driver
    BY <2>1, <2>2 DEF RiderConn, Mentioned, About
  <2>4. /\ DOMAIN Coming(s) = 1 .. Len(down[s]) + 1 /\ DOMAIN down[s] = 1 .. Len(down[s])
        /\ \A i \in 1 .. Len(down[s]) : Coming(s)[i] = down[s][i]
        /\ Coming(s)[Len(down[s]) + 1] = NextPosition(s)
        /\ Len(down[s]) \in Nat
    BY <1>2, ComingTyped, AppendFacts DEF Coming
  <2>5. NextPosition(s).driver = info[s].driver
    BY <1>2, ComingTyped
  <2> SUFFICES ASSUME NEW j \in DOMAIN Coming(s), IsPosition(Coming(s)[j])
               PROVE  \E u \in Trips : Used(u) /\ tripDriver[u] = Coming(s)[j].driver
    OBVIOUS
  <2>6. CASE j = Len(down[s]) + 1
    BY <2>3, <2>4, <2>5, <2>6
  <2>7. CASE j # Len(down[s]) + 1
    <3>1. j \in DOMAIN down[s] /\ Coming(s)[j] = down[s][j]
      BY <2>4, <2>7
    <3> QED BY <3>1 DEF RiderConn
  <2> QED BY <2>6, <2>7
<1> QED BY <1>1, <1>2

LEMMA QuietKept ==
  ASSUME NEW t \in Trips, Quiet(t),
         tripStatus'[t] = tripStatus[t], run'[t] = run[t], tripDriver'[t] = tripDriver[t],
         \A s \in Conns : \A i \in DOMAIN down'[s] :
           \/ \E j \in DOMAIN down[s] : down'[s][i] = down[s][j]
           \/ down'[s][i].kind # "trip_matched"
  PROVE  Quiet(t)'
<1>1. CASE tripStatus[t] = "cancelled"
  BY <1>1 DEF Quiet
<1>2. CASE tripStatus[t] # "cancelled"
  <2>1. /\ run[t] = "over"
        /\ \A s \in Conns : \A i \in DOMAIN down[s] :
             down[s][i].kind = "trip_matched" => down[s][i].driver # tripDriver[t]
    BY <1>2 DEF Quiet
  <2> QED BY <2>1 DEF Quiet
<1> QED BY <1>1, <1>2

\* What keeps a rider's connection as it should be: what is new on it is about a trip he follows
\* or has done with.
LEMMA RiderConnKept ==
  ASSUME Typed, NEW p \in Riders, NEW s \in Conns, RiderConn(p, s),
         \A t \in Trips : About(p, t) => About(p, t)',
         \A t \in Trips : Used(t) => Used(t)',
         \A t \in Trips : tripDriver[t] # NoDriver => tripDriver'[t] = tripDriver[t],
         \A i \in DOMAIN up'[s] :
           \/ \E j \in DOMAIN up[s] : up'[s][i] = up[s][j]
           \/ up'[s][i] = Nothing
           \/ \E t \in Trips : up'[s][i] = [trip |-> t, driver |-> NoDriver] /\ About(p, t)',
         \A r \in reads'[s] :
           r \in reads[s] \/ (r.trip \in Trips /\ About(p, r.trip)' /\ r.driver \in {NoDriver, tripDriver'[r.trip]}),
         \/ info'[s].trip = info[s].trip /\ info'[s].driver = info[s].driver
         \/ info'[s] = Unregistered
         \/ \E t \in Trips : info'[s].trip = t /\ About(p, t)' /\ info'[s].driver \in {NoDriver, tripDriver'[t]},
         \A i \in DOMAIN down'[s] : down'[s][i].kind = "trip_matched" => down'[s][i].driver \in Followed(p)',
         \A i \in DOMAIN down'[s] : IsPosition(down'[s][i]) =>
           \/ \E j \in DOMAIN down[s] : down'[s][i] = down[s][j]
           \/ down'[s][i].driver = info[s].driver /\ info[s].driver # NoDriver
  PROVE  RiderConn(p, s)'
<1>1. ASSUME NEW t \in Trips, Mentioned(s, t)' PROVE About(p, t)'
  <2>1. CASE \E i \in DOMAIN up'[s] : up'[s][i].trip = t
    <3>1. PICK i \in DOMAIN up'[s] : up'[s][i].trip = t
      BY <2>1
    <3>2. CASE \E j \in DOMAIN up[s] : up'[s][i] = up[s][j]
      BY <3>1, <3>2 DEF RiderConn, Mentioned
    <3>3. CASE up'[s][i] = Nothing
      BY <3>1, <3>3, NoTripAssumption DEF Nothing
    <3>4. CASE \E u \in Trips : up'[s][i] = [trip |-> u, driver |-> NoDriver] /\ About(p, u)'
      BY <3>1, <3>4
    <3> QED BY <3>2, <3>3, <3>4
  <2>2. CASE \E r \in reads'[s] : r.trip = t
    <3>1. PICK r \in reads'[s] : r.trip = t
      BY <2>2
    <3>2. CASE r \in reads[s]
      BY <3>1, <3>2 DEF RiderConn, Mentioned
    <3>3. CASE r \notin reads[s]
      BY <3>1, <3>3
    <3> QED BY <3>2, <3>3
  <2>3. CASE info'[s].trip = t
    <3>1. info'[s] # Unregistered
      BY <2>3, NoTripAssumption DEF Unregistered
    <3>2. CASE info'[s].trip = info[s].trip
      BY <2>3, <3>2 DEF RiderConn, Mentioned
    <3>3. CASE \E u \in Trips : info'[s].trip = u /\ About(p, u)'
      BY <2>3, <3>3
    <3> QED BY <3>1, <3>2, <3>3
  <2> QED BY <1>1, <2>1, <2>2, <2>3 DEF Mentioned
<1>2. ASSUME NEW i \in DOMAIN up'[s] PROVE up'[s][i].driver = NoDriver
  <2>1. CASE \E j \in DOMAIN up[s] : up'[s][i] = up[s][j]
    BY <2>1 DEF RiderConn
  <2>2. CASE up'[s][i] = Nothing
    BY <2>2 DEF Nothing
  <2>3. CASE \E t \in Trips : up'[s][i] = [trip |-> t, driver |-> NoDriver]
    BY <2>3
  <2> QED BY <2>1, <2>2, <2>3
<1>3. ASSUME NEW r \in reads'[s] PROVE r.trip # NoTrip /\ r.driver \in {NoDriver, tripDriver'[r.trip]}
  <2>1. CASE r \in reads[s]
    <3>1. r.trip # NoTrip /\ r.driver \in {NoDriver, tripDriver[r.trip]}
      BY <2>1 DEF RiderConn
    <3>2. r.trip \in Trips
      BY <2>1, <3>1 DEF Typed, IInv, KeysTyped, Answers, Rows
    <3> QED BY <3>1, <3>2
  <2>2. CASE r \notin reads[s]
    BY <2>2, NoTripAssumption
  <2> QED BY <2>1, <2>2
<1>4. info[s].driver # NoDriver => info[s].trip \in Trips /\ info[s].driver = tripDriver[info[s].trip]
                                   /\ tripDriver'[info[s].trip] = tripDriver[info[s].trip]
  BY DEF RiderConn, Typed, IInv, RegistryTyped, TripKeys
<1>5. info'[s].driver # NoDriver => info'[s].trip # NoTrip /\ info'[s].driver = tripDriver'[info'[s].trip]
  <2>1. CASE info'[s] = Unregistered
    BY <2>1 DEF Unregistered
  <2>2. CASE info'[s].trip = info[s].trip /\ info'[s].driver = info[s].driver
    BY <1>4, <2>2, NoTripAssumption
  <2>3. CASE \E t \in Trips : info'[s].trip = t /\ info'[s].driver \in {NoDriver, tripDriver'[t]}
    BY <2>3, NoTripAssumption
  <2> QED BY <2>1, <2>2, <2>3
<1>6. \A i \in DOMAIN down'[s] : IsPosition(down'[s][i]) =>
        \E t \in Trips : Used(t)' /\ tripDriver'[t] = down'[s][i].driver
  <2> SUFFICES ASSUME NEW i \in DOMAIN down'[s], IsPosition(down'[s][i])
               PROVE  \E t \in Trips : Used(t)' /\ tripDriver'[t] = down'[s][i].driver
    OBVIOUS
  <2>1. CASE \E j \in DOMAIN down[s] : down'[s][i] = down[s][j]
    <3>1. PICK j \in DOMAIN down[s] : down'[s][i] = down[s][j]
      BY <2>1
    <3>2. PICK t \in Trips : Used(t) /\ tripDriver[t] = down[s][j].driver
      BY <3>1 DEF RiderConn
    <3>3. down[s][j].driver # NoDriver
      BY <3>1, ComingTyped, PositionsNamed
    <3> QED BY <3>1, <3>2, <3>3
  <2>2. CASE down'[s][i].driver = info[s].driver /\ info[s].driver # NoDriver
    <3>1. PICK t \in Trips : info[s].trip = t
      BY <1>4, <2>2
    <3>2. Used(t)
      BY <3>1 DEF RiderConn, Mentioned, About
    <3> QED BY <1>4, <2>2, <3>1, <3>2
  <2> QED BY <2>1, <2>2
<1> QED BY <1>1, <1>2, <1>3, <1>5, <1>6 DEF RiderConn

\* The same for a watcher's.
LEMMA WatcherConnKept ==
  ASSUME NEW p \in Watchers, NEW s \in Conns, WatcherConn(p, s),
         wants'[p] = wants[p],
         \A i \in DOMAIN up'[s] : \E j \in DOMAIN up[s] : up'[s][i] = up[s][j],
         \A r \in reads'[s] : r \in reads[s],
         \/ info'[s].trip = info[s].trip /\ info'[s].driver = info[s].driver
         \/ info'[s] = Unregistered
  PROVE  WatcherConn(p, s)'
BY DEF WatcherConn, Unregistered

\* What a page says is at the end of its connection's queue.
LEMMA SaidElements ==
  ASSUME Typed, NEW p \in Pages, NEW w \in Said, up' = SaidBy(p, <<w>>), NEW s \in Conns
  PROVE  \A i \in DOMAIN up'[s] :
           (\E j \in DOMAIN up[s] : up'[s][i] = up[s][j]) \/ (conn[p] = s /\ up'[s][i] = w)
<1>1. up[s] \in Seq(Said)
  BY DEF Typed, IInv, KeysTyped
<1>2. up'[s] = IF conn[p] = s THEN up[s] \o <<w>> ELSE up[s]
  BY NoConnAssumption DEF Typed, IInv, KeysTyped, SaidBy
<1>3. CASE conn[p] = s
  <2>1. up'[s] = Append(up[s], w)
    BY <1>1, <1>2, <1>3
  <2> QED BY <1>1, <1>3, <2>1, AppendFacts
<1>4. CASE conn[p] # s
  BY <1>2, <1>4
<1> QED BY <1>3, <1>4

\* A typed wish or answer of a rider is about a trip.
LEMMA WishFacts ==
  ASSUME Typed, FitInv, NEW p \in Riders
  PROVE  /\ wants[p].trip = NoTrip => wants[p] = Nothing /\ fetches[p] = {} /\ Followed(p) = {}
         /\ wants[p].trip # NoTrip =>
              wants[p].trip \in Trips /\ wants[p] = [trip |-> wants[p].trip, driver |-> NoDriver]
         /\ \A d \in Drivers : d \in Followed(p) <=> wants[p].trip # NoTrip /\ tripDriver[wants[p].trip] = d
         /\ \A f \in fetches[p] : f.trip \in Trips
<1>1. wants[p] \in Said /\ wants[p].driver = NoDriver
  BY DEF Typed, IInv, KeysTyped, FitInv, WishInv, Pages
<1>2. /\ wants[p].trip = NoTrip => wants[p] = Nothing
      /\ wants[p].trip # NoTrip =>
              wants[p].trip \in Trips /\ wants[p] = [trip |-> wants[p].trip, driver |-> NoDriver]
  BY <1>1, NoDriverAssumption, NoTripAssumption DEF Said, Wishes, Nothing
<1>3. \A d \in Drivers : d \in Followed(p) <=> wants[p].trip # NoTrip /\ tripDriver[wants[p].trip] = d
  BY <1>1, NoDriverAssumption DEF Followed
<1>4. \A f \in fetches[p] : f.trip \in Trips
  BY AnswersAreRows DEF Typed
<1>5. wants[p].trip = NoTrip => fetches[p] = {}
  BY <1>4, NoTripAssumption DEF FitInv, FetchInv
<1>6. wants[p].trip = NoTrip => Followed(p) = {}
  BY <1>3 DEF Followed
<1> QED BY <1>2, <1>3, <1>4, <1>5, <1>6

-----------------------------------------------------------------------------
(***************************************************************************)
(* The steps of a page and of its connection.                                *)
(***************************************************************************)
LEMMA PostTripFits ==
  ASSUME Typed, FitInv, NEW p \in Riders, NEW u \in Trips, PostTrip(p, u)
  PROVE  FitInv'
<1>1. /\ tripStatus[u] = "absent" /\ posting[p] = NoTrip /\ wants[p] = Nothing
      /\ \A t \in Trips : tripStatus'[t] = IF t = u THEN "requested" ELSE tripStatus[t]
      /\ \A t \in Trips : run'[t] = IF t = u THEN "search" ELSE run[t]
      /\ \A q \in Riders : posting'[q] = IF q = p THEN u ELSE posting[q]
      /\ UNCHANGED <<tripDriver, tripReason, available, sock, info, down, up, reads, conn, wants, view, fetches>>
  BY DEF PostTrip, Assignment!Request, registryVars, Typed, IInv, RowsTyped, KeysTyped, ShownTyped
<1>2. ASSUME NEW t \in Trips, Used(t) PROVE t # u /\ Used(t)'
  BY <1>1, <1>2 DEF Used
<1>3. ASSUME NEW t \in Trips, Quiet(t), t # u PROVE Quiet(t)'
  BY <1>1, <1>3, QuietKept
<1>4. ASSUME NEW q \in Riders, NEW t \in Trips, About(q, t) PROVE About(q, t)'
  BY <1>1, <1>2, <1>3, <1>4 DEF About
<1>5. \A q : Followed(q)' = Followed(q)
  BY <1>1 DEF Followed
<1>6. TripsInv'
  BY <1>1 DEF FitInv, TripsInv
<1>7. ConnsInv'
  BY <1>1 DEF FitInv, ConnsInv
<1>8. PostingInv'
  BY <1>1, NoTripAssumption DEF FitInv, PostingInv, Typed, IInv, KeysTyped, TripKeys
<1>9. WishInv'
  BY <1>1, <1>2 DEF FitInv, WishInv
<1>10. FetchInv'
  <2> SUFFICES ASSUME NEW q \in Riders, NEW f \in fetches[q]
               PROVE  f.trip = wants[q].trip /\ (f.status # "asked" => f = Row(f.trip)')
    BY <1>1 DEF FetchInv
  <2>1. f.trip \in Trips /\ f.trip = wants[q].trip /\ (f.status # "asked" => f = Row(f.trip))
    BY WishFacts DEF FitInv, FetchInv
  <2>2. f.trip # u
    BY <1>2, <2>1 DEF FitInv, WishInv
  <2> QED BY <1>1, <2>1, <2>2 DEF Row
<1>11. EndedInv'
  <2> SUFFICES ASSUME NEW q \in Riders, NEW t \in Trips, wants[q].trip = t, view[q].status \in Ended, fetches[q] = {}
               PROVE  Quiet(t)'
    BY <1>1 DEF EndedInv
  <2>1. Quiet(t) /\ Used(t)
    BY DEF FitInv, EndedInv, WishInv
  <2> QED BY <1>2, <1>3, <2>1
<1>12. LinesInv'
  <2>1. ASSUME NEW q \in Riders, NEW s \in Conns, conn'[q] = s PROVE RiderConn(q, s)'
    <3>1. RiderConn(q, s)
      BY <1>1, <2>1 DEF FitInv, LinesInv
    <3> QED BY <1>1, <1>2, <1>4, <1>5, <3>1, RiderConnKept DEF RiderConn
  <2>2. ASSUME NEW q \in Watchers, NEW s \in Conns, conn'[q] = s PROVE WatcherConn(q, s)'
    BY <1>1, <2>2 DEF FitInv, LinesInv, WatcherConn
  <2> QED BY <2>1, <2>2 DEF LinesInv
<1>13. TrackInv'
  BY <1>1, <1>5, ComingKept DEF FitInv, TrackInv
<1> QED BY <1>6, <1>7, <1>8, <1>9, <1>10, <1>11, <1>12, <1>13 DEF FitInv

LEMMA TrackTripFits ==
  ASSUME Typed, FitInv, NEW p \in Riders, TrackTrip(p)
  PROVE  FitInv'
<1> DEFINE wish == [trip |-> posting[p], driver |-> NoDriver]
<1>1. /\ posting[p] # NoTrip
      /\ \A q \in Riders : posting'[q] = IF q = p THEN NoTrip ELSE posting[q]
      /\ \A q \in Pages : wants'[q] = IF q = p THEN wish ELSE wants[q]
      /\ up' = SaidBy(p, <<wish>>)
      /\ \A q \in Pages : view'[q] = IF q = p THEN Blank ELSE view[q]
      /\ UNCHANGED <<sock, info, byTrip, byDriver, down, tripStatus, tripDriver, tripReason, available,
                     run, reads, conn, fetches>>
  BY DEF TrackTrip, SetSubscription, registryVars, tripVars, Typed, IInv, KeysTyped, ShownTyped, Pages
<1>2. PICK u \in Trips : posting[p] = u
  BY <1>1 DEF Typed, IInv, KeysTyped, TripKeys
<1>3. wish = [trip |-> u, driver |-> NoDriver] /\ wish \in Said
  BY <1>2 DEF Said, Wishes
<1> HIDE DEF wish
<1>4. wants[p] = Nothing /\ wants[p].trip = NoTrip /\ tripStatus[u] # "absent" /\ p \in Pages /\ ~Used(u)
  BY <1>1, <1>2 DEF FitInv, PostingInv, Nothing, Pages, Used
<1>5. fetches[p] = {} /\ Followed(p) = {}
  BY <1>4, WishFacts
<1>6. ASSUME NEW t \in Trips, Used(t) PROVE Used(t)'
  BY <1>1, <1>6, NoTripAssumption DEF Used
<1>7. Used(u)'
  BY <1>1, <1>2, <1>4, NoTripAssumption DEF Used, FitInv, PostingInv
<1>8. ASSUME NEW t \in Trips, Quiet(t) PROVE Quiet(t)'
  BY <1>1, <1>8, QuietKept
<1>9. ASSUME NEW q \in Riders, NEW t \in Trips, About(q, t) PROVE About(q, t)'
  BY <1>1, <1>4, <1>6, <1>8, <1>9, NoTripAssumption DEF About, Pages
<1>10. About(p, u)'
  BY <1>1, <1>3, <1>4, <1>7 DEF About
<1>11. \A q \in Pages : q # p => Followed(q)' = Followed(q)
  BY <1>1 DEF Followed
<1>12. TripsInv' /\ PostingInv'
  BY <1>1, <1>4 DEF FitInv, TripsInv, PostingInv, Pages
<1>13. ConnsInv'
  <2>1. ASSUME NEW s \in Conns, sock[s] = "unused" PROVE up'[s] = up[s]
    <3>1. conn[p] # s
      BY <1>4, <2>1, NoConnAssumption DEF FitInv, ConnsInv
    <3> QED BY <1>1, <3>1 DEF SaidBy, Typed, IInv, KeysTyped
  <2> QED BY <1>1, <2>1 DEF FitInv, ConnsInv
<1>14. WishInv'
  <2>1. ASSUME NEW q \in Riders PROVE wants'[q].driver = NoDriver /\ \A t \in Trips : wants'[q].trip = t => Used(t)'
    <3>1. CASE q = p
      BY <1>1, <1>3, <1>4, <1>7, <3>1
    <3>2. CASE q # p
      BY <1>1, <1>6, <3>2 DEF FitInv, WishInv, Pages
    <3> QED BY <3>1, <3>2
  <2>2. \A q \in Watchers : q # p /\ q \in Pages
    BY PagesAssumption DEF Pages
  <2> QED BY <1>1, <2>1, <2>2 DEF FitInv, WishInv
<1>15. FetchInv'
  <2> SUFFICES ASSUME NEW q \in Riders, NEW f \in fetches[q]
               PROVE  f.trip = wants'[q].trip /\ (f.status # "asked" => f = Row(f.trip)')
    BY <1>1 DEF FetchInv
  <2> QED BY <1>1, <1>5 DEF FitInv, FetchInv, Row, Pages
<1>16. EndedInv'
  <2> SUFFICES ASSUME NEW q \in Riders, NEW t \in Trips, wants'[q].trip = t, view'[q].status \in Ended, fetches[q] = {}
               PROVE  Quiet(t)'
    BY <1>1 DEF EndedInv
  <2>1. q # p
    BY <1>1, <1>4 DEF Blank, Ended
  <2> QED BY <1>1, <1>8, <2>1 DEF FitInv, EndedInv, Pages
<1>17. LinesInv'
  <2>1. ASSUME NEW q \in Riders, NEW s \in Conns, conn'[q] = s PROVE RiderConn(q, s)'
    <3>1. RiderConn(q, s) /\ conn[q] = s /\ q \in Pages
      BY <1>1, <2>1 DEF FitInv, LinesInv, Pages
    <3>2. ASSUME NEW i \in DOMAIN up'[s]
          PROVE  \/ \E j \in DOMAIN up[s] : up'[s][i] = up[s][j]
                 \/ \E t \in Trips : up'[s][i] = [trip |-> t, driver |-> NoDriver] /\ About(q, t)'
      <4>1. CASE \E j \in DOMAIN up[s] : up'[s][i] = up[s][j]
        BY <4>1
      <4>2. CASE conn[p] = s /\ up'[s][i] = wish
        <5>1. q = p
          BY <1>4, <3>1, <4>2, NoConnAssumption DEF FitInv, ConnsInv
        <5> QED BY <1>3, <1>10, <4>2, <5>1
      <4> QED BY <1>1, <1>3, <1>4, <4>1, <4>2, SaidElements
    <3>3. \A i \in DOMAIN down'[s] : down'[s][i].kind = "trip_matched" => down'[s][i].driver \in Followed(q)'
      BY <1>1, <1>5, <1>11, <3>1 DEF RiderConn
    <3> QED BY <1>1, <1>6, <1>9, <3>1, <3>2, <3>3, RiderConnKept
  <2>2. ASSUME NEW q \in Watchers, NEW s \in Conns, conn'[q] = s PROVE WatcherConn(q, s)'
    <3>1. q \in Pages /\ q # p /\ conn[q] = s /\ WatcherConn(q, s)
      BY <1>1, <2>2, PagesAssumption DEF FitInv, LinesInv, Pages
    <3>2. conn[p] # s
      BY <1>4, <3>1, NoConnAssumption DEF FitInv, ConnsInv
    <3> QED BY <1>1, <1>3, <1>4, <3>1, <3>2, SaidElements, WatcherConnKept
  <2> QED BY <2>1, <2>2 DEF LinesInv
<1>18. TrackInv'
  <2> SUFFICES ASSUME NEW q \in Pages, NEW s \in Conns, conn'[q] = s
               PROVE  OnTrack(Coming(s)', view'[q], Followed(q)')
    BY DEF TrackInv
  <2>1. OnTrack(Coming(s), view[q], Followed(q)) /\ Coming(s)' = Coming(s) /\ conn[q] = s
    BY <1>1, ComingKept DEF FitInv, TrackInv
  <2>2. CASE q # p
    BY <1>1, <1>11, <2>1, <2>2
  <2>3. CASE q = p
    <3>1. view'[p].driver = NoDriver
      BY <1>1, <1>4 DEF Blank
    <3>2. \A d \in Followed(p)' : tripDriver[u] = d
      BY <1>1, <1>3, <1>4, NoDriverAssumption DEF Followed
    <3>3. RiderConn(p, s)
      BY <2>1, <2>3 DEF FitInv, LinesInv
    <3>4. ASSUME NEW j \in DOMAIN Coming(s), IsPosition(Coming(s)[j])
          PROVE  Coming(s)[j].driver \notin Followed(p)' \cup {NoDriver}
      <4>1. Coming(s)[j].driver # NoDriver
        BY <3>4, ComingTyped, PositionsNamed
      <4>2. PICK t \in Trips : Used(t) /\ tripDriver[t] = Coming(s)[j].driver
        BY <3>3, <3>4, ComingAssigned
      <4>3. t # u
        BY <1>4, <4>2
      <4>4. tripDriver[u] # tripDriver[t]
        BY <4>1, <4>2, <4>3 DEF FitInv, TripsInv
      <4> QED BY <3>2, <4>1, <4>2, <4>4
    <3> QED BY <2>1, <2>3, <3>1, <3>4, StartAfresh
  <2> QED BY <2>2, <2>3
<1> QED BY <1>12, <1>13, <1>14, <1>15, <1>16, <1>17, <1>18 DEF FitInv

\* A rider's page that has done with its trip has been told of every match of it.
LEMMA RequestAnotherFits ==
  ASSUME Typed, FitInv, SlowAnswers = FALSE, NEW p \in Riders, RequestAnother(p)
  PROVE  FitInv'
<1>1. /\ wants[p].trip # NoTrip /\ view[p].status \in Ended /\ fetches[p] = {}
      /\ \A q \in Pages : wants'[q] = IF q = p THEN Nothing ELSE wants[q]
      /\ up' = SaidBy(p, <<Nothing>>)
      /\ \A q \in Pages : view'[q] = IF q = p THEN Blank ELSE view[q]
      /\ UNCHANGED <<sock, info, byTrip, byDriver, down, tripStatus, tripDriver, tripReason, available,
                     run, reads, conn, posting, fetches>>
      /\ p \in Pages
  BY DEF RequestAnother, SetSubscription, registryVars, tripVars, Typed, IInv, KeysTyped, ShownTyped, Pages
<1>2. PICK u \in Trips : wants[p].trip = u
  BY <1>1, WishFacts
<1>3. Quiet(u)
  BY <1>1, <1>2 DEF FitInv, EndedInv
<1>4. ASSUME NEW t \in Trips PROVE (Used(t) => Used(t)') /\ (Quiet(t) => Quiet(t)')
  BY <1>1, QuietKept DEF Used
<1>5. ASSUME NEW q \in Riders, NEW t \in Trips, About(q, t) PROVE About(q, t)'
  <2>1. q \in Pages
    BY DEF Pages
  <2> QED BY <1>1, <1>2, <1>3, <1>4, <1>5, <2>1 DEF About
<1>6. \A q \in Pages : q # p => Followed(q)' = Followed(q)
  BY <1>1 DEF Followed
<1>7. TripsInv' /\ PostingInv'
  BY <1>1 DEF FitInv, TripsInv, PostingInv, Pages
<1>8. Nothing \in Said /\ Nothing.trip = NoTrip /\ Nothing.driver = NoDriver
  BY DEF Said, Nothing
<1>9. ConnsInv'
  <2>1. ASSUME NEW s \in Conns, sock[s] = "unused" PROVE up'[s] = up[s]
    <3>1. conn[p] # s
      BY <1>1, <2>1, NoConnAssumption DEF FitInv, ConnsInv
    <3> QED BY <1>1, <3>1 DEF SaidBy, Typed, IInv, KeysTyped
  <2> QED BY <1>1, <2>1 DEF FitInv, ConnsInv
<1>10. WishInv'
  <2>1. \A q \in Watchers : q # p /\ q \in Pages
    BY PagesAssumption DEF Pages
  <2> QED BY <1>1, <1>4, <1>8, <2>1, NoTripAssumption DEF FitInv, WishInv, Pages
<1>11. FetchInv'
  <2> SUFFICES ASSUME NEW q \in Riders, NEW f \in fetches[q]
               PROVE  f.trip = wants'[q].trip /\ (f.status # "asked" => f = Row(f.trip)')
    BY <1>1 DEF FetchInv
  <2> QED BY <1>1 DEF FitInv, FetchInv, Row, Pages
<1>12. EndedInv'
  <2> SUFFICES ASSUME NEW q \in Riders, NEW t \in Trips, wants'[q].trip = t, view'[q].status \in Ended, fetches[q] = {}
               PROVE  Quiet(t)'
    BY <1>1 DEF EndedInv
  <2>1. q # p
    BY <1>1 DEF Blank, Ended
  <2> QED BY <1>1, <1>4, <2>1 DEF FitInv, EndedInv, Pages
<1>13. LinesInv'
  <2>1. ASSUME NEW q \in Riders, NEW s \in Conns, conn'[q] = s PROVE RiderConn(q, s)'
    <3>1. RiderConn(q, s) /\ conn[q] = s /\ q \in Pages
      BY <1>1, <2>1 DEF FitInv, LinesInv, Pages
    <3>2. ASSUME NEW i \in DOMAIN down'[s], down'[s][i].kind = "trip_matched"
          PROVE  down'[s][i].driver \in Followed(q)'
      <4>1. i \in DOMAIN down[s] /\ down'[s][i] = down[s][i] /\ down[s][i].driver \in Followed(q)
        BY <1>1, <3>1, <3>2 DEF RiderConn
      <4>2. CASE q = p
        <5>1. tripDriver[u] = down[s][i].driver /\ tripDriver[u] # NoDriver
          BY <1>2, <4>1, <4>2, WishFacts, NoDriverAssumption DEF Followed
        <5>2. tripStatus[u] = "matched"
          BY <5>1 DEF FitInv, TripsInv
        <5> QED BY <1>1, <1>3, <3>2, <4>1, <5>1, <5>2 DEF Quiet
      <4> QED BY <1>6, <3>1, <4>1, <4>2
    <3>3. \A i \in DOMAIN up'[s] : (\E j \in DOMAIN up[s] : up'[s][i] = up[s][j]) \/ up'[s][i] = Nothing
      BY <1>1, <1>8, SaidElements
    <3> QED BY <1>1, <1>4, <1>5, <3>1, <3>2, <3>3, RiderConnKept
  <2>2. ASSUME NEW q \in Watchers, NEW s \in Conns, conn'[q] = s PROVE WatcherConn(q, s)'
    <3>1. q \in Pages /\ q # p /\ conn[q] = s /\ WatcherConn(q, s)
      BY <1>1, <2>2, PagesAssumption DEF FitInv, LinesInv, Pages
    <3>2. conn[p] # s
      BY <1>1, <3>1, NoConnAssumption DEF FitInv, ConnsInv
    <3> QED BY <1>1, <1>8, <3>1, <3>2, SaidElements, WatcherConnKept
  <2> QED BY <2>1, <2>2 DEF LinesInv
<1>14. TrackInv'
  <2> SUFFICES ASSUME NEW q \in Pages, NEW s \in Conns, conn'[q] = s
               PROVE  OnTrack(Coming(s)', view'[q], Followed(q)')
    BY DEF TrackInv
  <2>1. OnTrack(Coming(s), view[q], Followed(q)) /\ Coming(s)' = Coming(s) /\ conn[q] = s
    BY <1>1, ComingKept DEF FitInv, TrackInv
  <2>2. CASE q # p
    BY <1>1, <1>6, <2>1, <2>2
  <2>3. CASE q = p
    <3>1. view'[p].driver = NoDriver /\ wants'[p] = Nothing
      BY <1>1 DEF Blank
    <3>2. Followed(p)' = {}
      BY <1>8, <3>1, NoDriverAssumption DEF Followed
    <3>3. \A j \in DOMAIN Coming(s) : IsPosition(Coming(s)[j]) => Coming(s)[j].driver # NoDriver
      BY ComingTyped, PositionsNamed
    <3> QED BY <2>1, <2>3, <3>1, <3>2, <3>3, StartAfresh
  <2> QED BY <2>2, <2>3
<1> QED BY <1>7, <1>9, <1>10, <1>11, <1>12, <1>13, <1>14 DEF FitInv

\* A connection that is cut is nobody's, and what was on its way on it is lost.
LEMMA HangupFacts ==
  ASSUME Typed, FitInv, NEW p \in Pages, Hangup(p)
  PROVE  /\ \A q \in Pages : conn'[q] = IF q = p THEN NoConn ELSE conn[q]
         /\ \A q \in Pages, s \in Conns : conn'[q] = s =>
              q # p /\ conn[q] = s /\ sock'[s] = sock[s] /\ down'[s] = down[s]
         /\ \A s \in Conns : down'[s] = down[s] \/ down'[s] = <<>>
         /\ \A s \in Conns : sock'[s] = "unused" => sock[s] = "unused" /\ down'[s] = down[s]
<1>1. /\ \A q \in Pages : conn'[q] = IF q = p THEN NoConn ELSE conn[q]
      /\ \A s \in Conns : sock'[s] = IF s = conn[p] THEN "lost" ELSE sock[s]
      /\ \A s \in Conns : down'[s] = IF s = conn[p] THEN <<>> ELSE down[s]
  BY DEF Hangup, Typed, ShownTyped
<1>2. ASSUME NEW q \in Pages, NEW s \in Conns, conn'[q] = s
      PROVE  q # p /\ conn[q] = s /\ sock'[s] = sock[s] /\ down'[s] = down[s]
  <2>1. q # p /\ conn[q] = s
    BY <1>1, <1>2, NoConnAssumption
  <2>2. conn[p] # s
    BY <2>1, NoConnAssumption DEF FitInv, ConnsInv
  <2> QED BY <1>1, <2>1, <2>2
<1> QED BY <1>1, <1>2

LEMMA LoseFits ==
  ASSUME Typed, FitInv, NEW p \in Pages, Lose(p)
  PROVE  FitInv'
<1>1. /\ Hangup(p)
      /\ UNCHANGED <<info, tripStatus, tripDriver, tripReason, available, run, up, reads, wants, posting, view, fetches>>
  BY DEF Lose, registryVars, tripVars
<1>2. /\ \A q \in Pages : conn'[q] = IF q = p THEN NoConn ELSE conn[q]
      /\ \A q \in Pages, s \in Conns : conn'[q] = s =>
           q # p /\ conn[q] = s /\ sock'[s] = sock[s] /\ down'[s] = down[s]
      /\ \A s \in Conns : down'[s] = down[s] \/ down'[s] = <<>>
      /\ \A s \in Conns : sock'[s] = "unused" => sock[s] = "unused" /\ down'[s] = down[s]
  BY <1>1, HangupFacts
<1>3. ASSUME NEW t \in Trips PROVE (Used(t) => Used(t)') /\ (Quiet(t) => Quiet(t)')
  BY <1>1, <1>2, QuietKept DEF Used
<1>4. \A q : Followed(q)' = Followed(q)
  BY <1>1 DEF Followed
<1>5. TripsInv' /\ PostingInv' /\ FetchInv' /\ EndedInv'
  BY <1>1, <1>3 DEF FitInv, TripsInv, PostingInv, FetchInv, EndedInv, Row
<1>6. WishInv'
  BY <1>1, <1>2, <1>3 DEF FitInv, WishInv, Pages
<1>7. ConnsInv'
  <2>1. \A q \in Pages : conn'[q] # NoConn => conn'[q] \in Conns /\ conn'[q] = conn[q]
    BY <1>2 DEF Typed, ShownTyped
  <2> QED BY <1>1, <1>2, <2>1 DEF FitInv, ConnsInv
<1>8. LinesInv'
  <2>1. ASSUME NEW q \in Riders, NEW s \in Conns, conn'[q] = s PROVE RiderConn(q, s)'
    <3>1. conn[q] = s /\ down'[s] = down[s] /\ RiderConn(q, s)
      BY <1>2, <2>1 DEF FitInv, LinesInv, Pages
    <3>2. \A t \in Trips : About(q, t) => About(q, t)'
      BY <1>1, <1>3 DEF About
    <3> QED BY <1>1, <1>3, <1>4, <3>1, <3>2, RiderConnKept DEF RiderConn
  <2>2. ASSUME NEW q \in Watchers, NEW s \in Conns, conn'[q] = s PROVE WatcherConn(q, s)'
    BY <1>1, <1>2, <2>2 DEF FitInv, LinesInv, WatcherConn, Pages
  <2> QED BY <2>1, <2>2 DEF LinesInv
<1>9. TrackInv'
  BY <1>1, <1>2, <1>4, ComingKept DEF FitInv, TrackInv
<1> QED BY <1>5, <1>6, <1>7, <1>8, <1>9 DEF FitInv

LEMMA WatchFits ==
  ASSUME Typed, FitInv, NEW p \in Watchers, NEW d \in Drivers, Watch(p, d)
  PROVE  FitInv'
<1> DEFINE wish == [trip |-> NoTrip, driver |-> d]
           blank == [Blank EXCEPT !.driver = d]
<1>1. /\ Hangup(p)
      /\ \A q \in Pages : wants'[q] = IF q = p THEN wish ELSE wants[q]
      /\ \A q \in Pages : view'[q] = IF q = p THEN blank ELSE view[q]
      /\ UNCHANGED <<info, tripStatus, tripDriver, tripReason, available, run, up, reads, posting, fetches>>
      /\ p \in Pages
  BY DEF Watch, registryVars, tripVars, Typed, ShownTyped, IInv, KeysTyped, Pages
<1>2. /\ \A q \in Pages : conn'[q] = IF q = p THEN NoConn ELSE conn[q]
      /\ \A q \in Pages, s \in Conns : conn'[q] = s =>
           q # p /\ conn[q] = s /\ sock'[s] = sock[s] /\ down'[s] = down[s]
      /\ \A s \in Conns : down'[s] = down[s] \/ down'[s] = <<>>
      /\ \A s \in Conns : sock'[s] = "unused" => sock[s] = "unused" /\ down'[s] = down[s]
  BY <1>1, HangupFacts
<1>3. wish.trip = NoTrip /\ wish.driver = d /\ blank.driver = d
  BY DEF Blank
<1> HIDE DEF wish, blank
<1>4. ASSUME NEW t \in Trips PROVE (Used(t) => Used(t)') /\ (Quiet(t) => Quiet(t)')
  BY <1>1, <1>2, QuietKept DEF Used
<1>5. \A q \in Pages : q # p => Followed(q)' = Followed(q)
  BY <1>1 DEF Followed
<1>6. \A q \in Riders : q # p /\ q \in Pages /\ wants'[q] = wants[q] /\ view'[q] = view[q]
  BY <1>1, PagesAssumption DEF Pages
<1>7. TripsInv' /\ PostingInv' /\ FetchInv' /\ EndedInv'
  BY <1>1, <1>4, <1>6 DEF FitInv, TripsInv, PostingInv, FetchInv, EndedInv, Row
<1>8. WishInv'
  BY <1>1, <1>2, <1>3, <1>4, <1>6 DEF FitInv, WishInv, Pages
<1>9. ConnsInv'
  <2>1. \A q \in Pages : conn'[q] # NoConn => conn'[q] \in Conns /\ conn'[q] = conn[q]
    BY <1>2 DEF Typed, ShownTyped
  <2> QED BY <1>1, <1>2, <2>1 DEF FitInv, ConnsInv
<1>10. LinesInv'
  <2>1. ASSUME NEW q \in Riders, NEW s \in Conns, conn'[q] = s PROVE RiderConn(q, s)'
    <3>1. conn[q] = s /\ down'[s] = down[s] /\ RiderConn(q, s) /\ Followed(q)' = Followed(q)
      BY <1>2, <1>5, <1>6, <2>1 DEF FitInv, LinesInv
    <3>2. \A t \in Trips : About(q, t) => About(q, t)'
      BY <1>4, <1>6 DEF About
    <3> QED BY <1>1, <1>4, <3>1, <3>2, RiderConnKept DEF RiderConn
  <2>2. ASSUME NEW q \in Watchers, NEW s \in Conns, conn'[q] = s PROVE WatcherConn(q, s)'
    <3>1. q \in Pages /\ q # p /\ conn[q] = s /\ down'[s] = down[s] /\ WatcherConn(q, s)
      BY <1>2, <2>2 DEF FitInv, LinesInv, Pages
    <3> QED BY <1>1, <3>1 DEF WatcherConn
  <2> QED BY <2>1, <2>2 DEF LinesInv
<1>11. TrackInv'
  BY <1>1, <1>2, <1>5, ComingKept DEF FitInv, TrackInv
<1> QED BY <1>7, <1>8, <1>9, <1>10, <1>11 DEF FitInv

\* A new connection starts with the remembered wish and nothing else.
LEMMA OpenFits ==
  ASSUME Typed, FitInv, NEW p \in Pages, NEW c \in Conns, Open(p, c)
  PROVE  FitInv'
<1>1. /\ conn[p] = NoConn /\ sock[c] = "unused"
      /\ p \in Watchers => wants[p] # Nothing
      /\ \A s \in Conns : sock'[s] = IF s = c THEN "open" ELSE sock[s]
      /\ \A q \in Pages : conn'[q] = IF q = p THEN c ELSE conn[q]
      /\ \A s \in Conns : up'[s] = IF s = c THEN Resubscription(p) ELSE up[s]
      /\ UNCHANGED <<info, down, tripStatus, tripDriver, tripReason, available, run, reads, wants, posting, view, fetches>>
  BY DEF Open, registryVars, tripVars, Typed, ShownTyped, IInv, KeysTyped
<1>2. info[c] = Unregistered /\ reads[c] = {} /\ down[c] = <<>> /\ up[c] = <<>>
  BY <1>1 DEF FitInv, ConnsInv
<1>3. ASSUME NEW q \in Pages, NEW s \in Conns, conn'[q] = s
      PROVE  (q = p /\ s = c) \/ (q # p /\ s # c /\ conn[q] = s)
  <2>1. q # p => conn[q] = s /\ sock[s] = "open"
    BY <1>1, <1>3, NoConnAssumption DEF FitInv, ConnsInv
  <2> QED BY <1>1, <1>3, <2>1
<1>4. ASSUME NEW t \in Trips PROVE (Used(t) => Used(t)') /\ (Quiet(t) => Quiet(t)')
  BY <1>1, QuietKept DEF Used
<1>5. \A q : Followed(q)' = Followed(q)
  BY <1>1 DEF Followed
<1>6. TripsInv' /\ PostingInv' /\ FetchInv' /\ EndedInv'
  BY <1>1, <1>4 DEF FitInv, TripsInv, PostingInv, FetchInv, EndedInv, Row
<1>7. WishInv'
  BY <1>1, <1>4 DEF FitInv, WishInv, Pages
<1>8. ConnsInv'
  <2>1. ASSUME NEW q \in Pages, conn'[q] # NoConn PROVE sock'[conn'[q]] = "open"
    BY <1>1, <2>1 DEF FitInv, ConnsInv, Typed, ShownTyped
  <2>2. ASSUME NEW q \in Pages, NEW r \in Pages, conn'[q] = conn'[r], conn'[q] # NoConn PROVE q = r
    <3>1. PICK s \in Conns : conn'[q] = s
      BY <1>1, <2>2 DEF Typed, ShownTyped
    <3> QED BY <1>3, <2>2, <3>1, NoConnAssumption DEF FitInv, ConnsInv
  <2> QED BY <1>1, <2>1, <2>2 DEF FitInv, ConnsInv
<1>9. LinesInv'
  <2>1. ASSUME NEW q \in Riders, NEW s \in Conns, conn'[q] = s PROVE RiderConn(q, s)'
    <3>0. q \in Pages
      BY DEF Pages
    <3>1. CASE q # p
      <4>1. s # c /\ conn[q] = s /\ RiderConn(q, s)
        BY <1>3, <2>1, <3>0, <3>1 DEF FitInv, LinesInv
      <4>2. \A t \in Trips : About(q, t) => About(q, t)'
        BY <1>1, <1>4 DEF About
      <4> QED BY <1>1, <1>4, <1>5, <4>1, <4>2, RiderConnKept DEF RiderConn
    <3>2. CASE q = p
      <4>1. s = c
        BY <1>3, <2>1, <3>0, <3>2
      <4>2. wants[p].trip = NoTrip => wants[p] = Nothing
        BY <3>2, WishFacts
      <4>3. up'[c] = <<>> \/ (wants[p].trip \in Trips /\ wants[p].driver = NoDriver /\ up'[c] = <<wants[p]>>)
        BY <1>1, <3>2, <4>2, WishFacts DEF Resubscription, FitInv, WishInv
      <4>4. \A i \in DOMAIN up'[c] : i \in {1} /\ up'[c][i] = wants[p] /\ wants[p].driver = NoDriver
        BY <4>3
      <4>5. ASSUME NEW t \in Trips, Mentioned(c, t)' PROVE About(p, t)'
        <5>1. wants'[p].trip = t
          BY <1>1, <1>2, <4>4, <4>5, NoTripAssumption DEF Mentioned, Unregistered
        <5>2. Used(t)
          BY <1>1, <3>2, <5>1 DEF FitInv, WishInv
        <5> QED BY <1>4, <5>1, <5>2 DEF About
      <4> QED BY <1>1, <1>2, <3>2, <4>1, <4>4, <4>5 DEF RiderConn, Unregistered
    <3> QED BY <3>1, <3>2
  <2>2. ASSUME NEW q \in Watchers, NEW s \in Conns, conn'[q] = s PROVE WatcherConn(q, s)'
    <3>0. q \in Pages
      BY DEF Pages
    <3>1. CASE q # p
      <4>1. s # c /\ conn[q] = s /\ WatcherConn(q, s)
        BY <1>3, <2>2, <3>0, <3>1 DEF FitInv, LinesInv
      <4> QED BY <1>1, <4>1 DEF WatcherConn
    <3>2. CASE q = p
      <4>1. s = c /\ up'[c] = <<wants[p]>>
        BY <1>1, <1>3, <2>2, <3>0, <3>2 DEF Resubscription
      <4> QED BY <1>1, <1>2, <3>2, <4>1 DEF WatcherConn, Unregistered
    <3> QED BY <3>1, <3>2
  <2> QED BY <2>1, <2>2 DEF LinesInv
<1>10. TrackInv'
  <2> SUFFICES ASSUME NEW q \in Pages, NEW s \in Conns, conn'[q] = s
               PROVE  OnTrack(Coming(s)', view'[q], Followed(q)')
    BY DEF TrackInv
  <2>1. Coming(s)' = Coming(s)
    BY <1>1, ComingKept
  <2>2. CASE s = c
    <3>1. Coming(c) = <<>>
      BY <1>2 DEF Coming, Unregistered
    <3> QED BY <2>1, <2>2, <3>1, NothingComing
  <2>3. CASE s # c
    BY <1>1, <1>3, <1>5, <2>1, <2>3 DEF FitInv, TrackInv
  <2> QED BY <2>2, <2>3
<1> QED BY <1>6, <1>7, <1>8, <1>9, <1>10 DEF FitInv

LEMMA FetchReadFits ==
  ASSUME Typed, FitInv, NEW p \in Riders, NEW f \in fetches[p], FetchRead(p, f)
  PROVE  FitInv'
<1>1. /\ \A q \in Riders : fetches'[q] = IF q = p THEN (fetches[p] \ {f}) \cup {Row(f.trip)} ELSE fetches[q]
      /\ UNCHANGED <<sock, info, down, tripStatus, tripDriver, tripReason, available, run, up, reads, conn,
                     wants, posting, view>>
  BY DEF FetchRead, registryVars, tripVars, Typed, ShownTyped
<1>2. ASSUME NEW t \in Trips PROVE (Used(t) => Used(t)') /\ (Quiet(t) => Quiet(t)')
  BY <1>1, QuietKept DEF Used
<1>3. \A q : Followed(q)' = Followed(q)
  BY <1>1 DEF Followed
<1>4. TripsInv' /\ PostingInv' /\ ConnsInv' /\ WishInv'
  BY <1>1, <1>2 DEF FitInv, TripsInv, PostingInv, ConnsInv, WishInv
<1>5. FetchInv'
  <2> SUFFICES ASSUME NEW q \in Riders, NEW g \in fetches'[q]
               PROVE  g.trip = wants[q].trip /\ (g.status # "asked" => g = Row(g.trip)')
    BY <1>1 DEF FetchInv
  <2>1. CASE q = p /\ g = Row(f.trip)
    <3>1. g.trip = f.trip /\ f.trip = wants[p].trip
      BY <2>1 DEF Row, FitInv, FetchInv
    <3> QED BY <1>1, <2>1, <3>1 DEF Row
  <2>2. CASE g \in fetches[q]
    BY <1>1, <2>2 DEF FitInv, FetchInv, Row
  <2> QED BY <1>1, <2>1, <2>2
<1>6. EndedInv'
  <2>1. \A q \in Riders : fetches'[q] = {} => fetches[q] = {}
    BY <1>1
  <2> QED BY <1>1, <1>2, <2>1 DEF FitInv, EndedInv
<1>7. LinesInv'
  <2>1. ASSUME NEW q \in Riders, NEW s \in Conns, conn'[q] = s PROVE RiderConn(q, s)'
    <3>1. RiderConn(q, s)
      BY <1>1, <2>1 DEF FitInv, LinesInv
    <3>2. \A t \in Trips : About(q, t) => About(q, t)'
      BY <1>1, <1>2 DEF About
    <3> QED BY <1>1, <1>2, <1>3, <3>1, <3>2, RiderConnKept DEF RiderConn
  <2>2. ASSUME NEW q \in Watchers, NEW s \in Conns, conn'[q] = s PROVE WatcherConn(q, s)'
    BY <1>1, <2>2 DEF FitInv, LinesInv, WatcherConn
  <2> QED BY <2>1, <2>2 DEF LinesInv
<1>8. TrackInv'
  BY <1>1, <1>3, ComingKept DEF FitInv, TrackInv
<1> QED BY <1>4, <1>5, <1>6, <1>7, <1>8 DEF FitInv

\* The row that is shown is the one the page follows, as it is now.
LEMMA FetchAppliedFits ==
  ASSUME Typed, FitInv, NEW p \in Riders, NEW f \in fetches[p], FetchApplied(p, f)
  PROVE  FitInv'
<1> DEFINE shown == [view[p] EXCEPT !.status = f.status, !.driver = f.driver, !.reason = f.reason]
<1>1. /\ f.status # "asked" /\ p \in Pages
      /\ \A q \in Riders : fetches'[q] = IF q = p THEN fetches[p] \ {f} ELSE fetches[q]
      /\ \A q \in Pages : view'[q] = IF q = p THEN shown ELSE view[q]
      /\ UNCHANGED <<sock, info, down, tripStatus, tripDriver, tripReason, available, run, up, reads, conn,
                     wants, posting>>
  BY DEF FetchApplied, registryVars, tripVars, Typed, ShownTyped, Pages
<1>2. PICK u \in Trips : f.trip = u /\ wants[p].trip = u /\ f = Row(u)
  <2>1. f.trip \in Trips
    BY WishFacts
  <2>2. f.trip = wants[p].trip /\ f = Row(f.trip)
    BY <1>1 DEF FitInv, FetchInv
  <2> QED BY <2>1, <2>2
<1>3. shown.status = tripStatus[u] /\ shown.driver = tripDriver[u] /\ shown.at = view[p].at
  <2>1. view[p] \in Views
    BY <1>1 DEF Typed, ShownTyped
  <2> QED BY <1>2, <2>1 DEF Row, Views
<1> HIDE DEF shown
<1>4. ASSUME NEW t \in Trips PROVE (Used(t) => Used(t)') /\ (Quiet(t) => Quiet(t)')
  BY <1>1, QuietKept DEF Used
<1>5. \A q : Followed(q)' = Followed(q)
  BY <1>1 DEF Followed
<1>6. TripsInv' /\ PostingInv' /\ ConnsInv'
  BY <1>1 DEF FitInv, TripsInv, PostingInv, ConnsInv
<1>7. WishInv'
  <2>1. \A q \in Watchers : q # p /\ q \in Pages
    BY PagesAssumption DEF Pages
  <2> QED BY <1>1, <1>4, <2>1 DEF FitInv, WishInv
<1>8. FetchInv'
  BY <1>1 DEF FitInv, FetchInv, Row
<1>9. EndedInv'
  <2> SUFFICES ASSUME NEW q \in Riders, NEW t \in Trips, wants[q].trip = t, view'[q].status \in Ended, fetches'[q] = {}
               PROVE  Quiet(t)'
    BY <1>1 DEF EndedInv
  <2>1. CASE q = p
    <3>1. t = u /\ tripStatus[u] \in Ended
      BY <1>1, <1>2, <1>3, <2>1
    <3>2. tripStatus[u] = "cancelled"
      BY <3>1 DEF Ended, Typed, IInv, RowsTyped, TripStates
    <3> QED BY <1>4, <3>1, <3>2 DEF Quiet
  <2>2. CASE q # p
    BY <1>1, <1>4, <2>2 DEF FitInv, EndedInv, Pages
  <2> QED BY <2>1, <2>2
<1>10. LinesInv'
  <2>1. ASSUME NEW q \in Riders, NEW s \in Conns, conn'[q] = s PROVE RiderConn(q, s)'
    <3>1. RiderConn(q, s)
      BY <1>1, <2>1 DEF FitInv, LinesInv
    <3>2. \A t \in Trips : About(q, t) => About(q, t)'
      BY <1>1, <1>4 DEF About
    <3> QED BY <1>1, <1>4, <1>5, <3>1, <3>2, RiderConnKept DEF RiderConn
  <2>2. ASSUME NEW q \in Watchers, NEW s \in Conns, conn'[q] = s PROVE WatcherConn(q, s)'
    BY <1>1, <2>2 DEF FitInv, LinesInv, WatcherConn
  <2> QED BY <2>1, <2>2 DEF LinesInv
<1>11. TrackInv'
  <2> SUFFICES ASSUME NEW q \in Pages, NEW s \in Conns, conn'[q] = s
               PROVE  OnTrack(Coming(s)', view'[q], Followed(q)')
    BY DEF TrackInv
  <2>1. OnTrack(Coming(s), view[q], Followed(q)) /\ Coming(s)' = Coming(s)
    BY <1>1, ComingKept DEF FitInv, TrackInv
  <2>2. CASE q # p
    BY <1>1, <1>5, <2>1, <2>2
  <2>3. CASE q = p
    <3>1. \A d \in Drivers : d \in Followed(p) <=> tripDriver[u] = d
      BY <1>2, WishFacts, NoTripAssumption
    <3>2. Followed(p) \subseteq {tripDriver[u]} /\ tripDriver[u] \in Followed(p) \cup {NoDriver}
      BY <3>1 DEF Followed, Typed, IInv, RowsTyped, DriverKeys
    <3>3. \A j \in DOMAIN Coming(s) : IsPosition(Coming(s)[j]) => Coming(s)[j].driver # NoDriver
      BY ComingTyped, PositionsNamed
    <3>4. view'[p].at = view[p].at /\ view'[p].driver = tripDriver[u]
      BY <1>1, <1>3
    <3> QED BY <1>5, <2>1, <2>3, <3>2, <3>3, <3>4, Refocus
  <2> QED BY <2>2, <2>3
<1> QED BY <1>6, <1>7, <1>8, <1>9, <1>10, <1>11 DEF FitInv

\* Only the message of a cancellation ends what a page shows.
LEMMA AppliedStatus ==
  ASSUME NEW v \in Views, NEW m \in Messages, Applied(v, m).status \in Ended, m.kind # "trip_cancelled"
  PROVE  v.status \in Ended
<1> USE DEF Ended
<1>1. CASE m \in [kind : {"subscribed", "trip_matched"}, driver : DriverKeys]
  BY <1>1 DEF Applied, Views
<1>2. CASE m \in [kind : {"trip_cancelled", "already_ended"}]
  BY <1>2 DEF Applied, Views
<1>3. CASE m \in [kind : {"location"}, driver : Drivers, to : Places]
  BY <1>3 DEF Applied, Located, Views
<1>4. CASE m \in [kind : {"delta"}, driver : Drivers, from : Places, to : Places]
  BY <1>4 DEF Applied, Located, Views
<1> QED BY <1>1, <1>2, <1>3, <1>4 DEF Messages, DriverKeys

\* The page takes the first message of its connection.
LEMMA ReceiveFits ==
  ASSUME Typed, FitInv, NEW p \in Pages, Receive(p)
  PROVE  FitInv'
<1> DEFINE shown(m) == IF p \in Riders \/ IsPosition(m) THEN Applied(view[p], m) ELSE view[p]
<1>1. PICK c \in Conns : conn[p] = c
  BY DEF Receive, Typed, ShownTyped
<1>2. PICK m \in Messages : m = Head(down[c]) /\ m = down[c][1] /\ 1 \in DOMAIN down[c] /\ down[c] # <<>>
  <2>1. down[c] \in Seq(Messages) /\ down[c] # <<>>
    BY <1>1, ComingTyped DEF Receive
  <2> QED BY <2>1, TailFacts
<1>3. /\ UNCHANGED <<sock, info, tripStatus, tripDriver, tripReason, available, run, up, reads, conn, wants, posting>>
      /\ \A s \in Conns : down'[s] = IF s = c THEN Tail(down[c]) ELSE down[s]
      /\ \A q \in Pages : view'[q] = IF q = p THEN shown(m) ELSE view[q]
      /\ \A q \in Riders : fetches'[q] =
           IF q = p /\ wants[p].trip # NoTrip /\ m.kind \in {"trip_cancelled", "already_ended"}
           THEN fetches[q] \cup {Asked(wants[p].trip)} ELSE fetches[q]
  BY <1>1, <1>2 DEF Receive, registryVars, tripVars, Typed, ShownTyped, IsPosition
<1>4. view[p] \in Views
  BY DEF Typed, ShownTyped
<1>5. p \in Riders => shown(m) = Applied(view[p], m)
  OBVIOUS
<1>6. p \notin Riders => shown(m) = IF IsPosition(m) THEN Applied(view[p], m) ELSE view[p]
  OBVIOUS
<1> HIDE DEF shown
<1>7. ASSUME NEW s \in Conns PROVE \A i \in DOMAIN down'[s] : \E j \in DOMAIN down[s] : down'[s][i] = down[s][j]
  <2>1. down[c] \in Seq(Messages)
    BY ComingTyped
  <2>2. \A i \in DOMAIN Tail(down[c]) : i + 1 \in DOMAIN down[c] /\ Tail(down[c])[i] = down[c][i + 1]
    BY <1>2, <2>1, TailFacts
  <2>3. CASE s = c
    BY <1>3, <2>2, <2>3
  <2>4. CASE s # c
    BY <1>3, <2>4
  <2> QED BY <2>3, <2>4
<1>8. ASSUME NEW t \in Trips PROVE (Used(t) => Used(t)') /\ (Quiet(t) => Quiet(t)')
  <2>1. Used(t) => Used(t)'
    BY <1>3 DEF Used
  <2>2. Quiet(t) => Quiet(t)'
    BY <1>3, <1>7, QuietKept
  <2> QED BY <2>1, <2>2
<1>9. \A q : Followed(q)' = Followed(q)
  BY <1>3 DEF Followed
<1>10. TripsInv' /\ PostingInv'
  BY <1>3 DEF FitInv, TripsInv, PostingInv
<1>11. ConnsInv'
  <2>1. sock[c] = "open"
    BY <1>1, NoConnAssumption DEF FitInv, ConnsInv
  <2> QED BY <1>3, <2>1 DEF FitInv, ConnsInv
<1>12. WishInv'
  <2>1. ASSUME NEW q \in Watchers PROVE q \in Pages /\ view'[q].driver = wants[q].driver
    <3>1. q \in Pages /\ q \notin Riders /\ view[q].driver = wants[q].driver
      BY PagesAssumption DEF Pages, FitInv, WishInv
    <3>2. CASE q = p
      <4>1. IsPosition(m) => Applied(view[p], m).driver = view[p].driver
        BY <1>4, AppliedFacts DEF IsPosition, NamesDriver
      <4> QED BY <1>3, <1>6, <3>1, <3>2, <4>1
    <3> QED BY <1>3, <3>1, <3>2
  <2> QED BY <1>3, <1>8, <2>1 DEF FitInv, WishInv
<1>13. FetchInv'
  <2> SUFFICES ASSUME NEW q \in Riders, NEW f \in fetches'[q]
               PROVE  f.trip = wants[q].trip /\ (f.status # "asked" => f = Row(f.trip)')
    BY <1>3 DEF FetchInv
  <2>1. CASE f \in fetches[q]
    BY <1>3, <2>1 DEF FitInv, FetchInv, Row
  <2>2. CASE q = p /\ f = Asked(wants[p].trip)
    BY <2>2 DEF Asked
  <2> QED BY <1>3, <2>1, <2>2
<1>14. EndedInv'
  <2> SUFFICES ASSUME NEW q \in Riders, NEW t \in Trips, wants[q].trip = t, view'[q].status \in Ended, fetches'[q] = {}
               PROVE  Quiet(t)'
    BY <1>3 DEF EndedInv
  <2>1. CASE q = p
    <3>1. m.kind # "trip_cancelled" /\ fetches[p] = {}
      BY <1>3, <2>1, NoTripAssumption
    <3>2. Applied(view[p], m).status \in Ended
      BY <1>3, <1>5, <2>1
    <3>3. view[p].status \in Ended
      BY <1>4, <3>1, <3>2, AppliedStatus
    <3> QED BY <1>8, <2>1, <3>1, <3>3 DEF FitInv, EndedInv
  <2>2. CASE q # p
    BY <1>3, <1>8, <2>2 DEF FitInv, EndedInv, Pages
  <2> QED BY <2>1, <2>2
<1>15. LinesInv'
  <2>1. ASSUME NEW q \in Riders, NEW s \in Conns, conn'[q] = s PROVE RiderConn(q, s)'
    <3>1. RiderConn(q, s)
      BY <1>3, <2>1 DEF FitInv, LinesInv
    <3>2. \A t \in Trips : About(q, t) => About(q, t)'
      BY <1>3, <1>8 DEF About
    <3>3. \A i \in DOMAIN down'[s] : down'[s][i].kind = "trip_matched" => down'[s][i].driver \in Followed(q)'
      BY <1>7, <1>9, <3>1 DEF RiderConn
    <3> QED BY <1>3, <1>7, <1>8, <3>1, <3>2, <3>3, RiderConnKept
  <2>2. ASSUME NEW q \in Watchers, NEW s \in Conns, conn'[q] = s PROVE WatcherConn(q, s)'
    BY <1>3, <2>2 DEF FitInv, LinesInv, WatcherConn
  <2> QED BY <2>1, <2>2 DEF LinesInv
<1>16. TrackInv'
  <2> SUFFICES ASSUME NEW q \in Pages, NEW s \in Conns, conn'[q] = s
               PROVE  OnTrack(Coming(s)', view'[q], Followed(q))
    BY <1>9 DEF TrackInv
  <2>1. OnTrack(Coming(s), view[q], Followed(q))
    BY <1>3 DEF FitInv, TrackInv
  <2>2. CASE q # p
    <3>1. s # c
      BY <1>1, <1>3, <2>2, NoConnAssumption DEF FitInv, ConnsInv
    <3> QED BY <1>3, <2>1, <2>2, <3>1, ComingKept
  <2>3. CASE q = p
    <3> DEFINE e == Coming(c)
    <3>1. s = c /\ down[c] \in Seq(Frames) /\ e \in Seq(Frames)
      BY <1>1, <1>3, <2>3, ComingTyped
    <3>2. e # <<>> /\ Head(e) = m /\ Coming(c)' = Tail(e)
      <4>1. CASE info[c].driver = NoDriver
        BY <1>2, <1>3, <4>1 DEF Coming
      <4>2. CASE info[c].driver # NoDriver
        <5>1. e = Append(down[c], NextPosition(c)) /\ Coming(c)' = Append(Tail(down[c]), NextPosition(c))
          BY <1>3, <4>2 DEF Coming, NextPosition
        <5>2. NextPosition(c) \in Frames
          BY <4>2, ComingTyped
        <5> HIDE DEF e
        <5> QED BY <1>2, <3>1, <5>1, <5>2
      <4> QED BY <4>1, <4>2
    <3> HIDE DEF e
    <3>3. OnTrack(e, view[p], Followed(p))
      BY <2>1, <2>3, <3>1 DEF e
    <3>4. CASE p \in Riders
      <4>1. Followed(p) \in SUBSET Drivers
        BY DEF Followed
      <4>2. m.kind = "trip_matched" => m.driver \in Followed(p)
        BY <1>1, <1>2, <3>4 DEF FitInv, LinesInv, RiderConn
      <4>3. OnTrack(Tail(e), Applied(view[p], m), Followed(p))
        BY <1>4, <3>1, <3>2, <3>3, <4>1, <4>2, RiderReceives
      <4> QED BY <1>3, <1>5, <2>3, <3>1, <3>2, <3>4, <4>3
    <3>5. CASE p \notin Riders
      <4>1. Followed(p) \in SUBSET {view[p].driver}
        BY <3>5 DEF Followed, FitInv, WishInv, Pages
      <4>2. OnTrack(Tail(e), IF IsPosition(m) THEN Applied(view[p], m) ELSE view[p], Followed(p))
        BY <1>4, <3>1, <3>2, <3>3, <4>1, WatcherReceives
      <4> QED BY <1>3, <1>6, <2>3, <3>1, <3>2, <3>5, <4>2
    <3> QED BY <3>4, <3>5
  <2> QED BY <2>2, <2>3
<1> QED BY <1>10, <1>11, <1>12, <1>13, <1>14, <1>15, <1>16 DEF FitInv

-----------------------------------------------------------------------------
(***************************************************************************)
(* The steps of the server.                                                  *)
(***************************************************************************)
\* A step of the server that decides no trip leaves alone what the pages know of the trips.
LEMMA ServerLeaves ==
  ASSUME Typed, FitInv,
         UNCHANGED <<tripStatus, tripDriver, tripReason, available, conn, wants, posting, view, fetches>>,
         \A t \in Trips : run[t] # "none" => run'[t] # "none",
         \A t \in Trips : Quiet(t) => Quiet(t)'
  PROVE  /\ TripsInv' /\ PostingInv' /\ WishInv' /\ FetchInv' /\ EndedInv'
         /\ \A t \in Trips : Used(t) => Used(t)'
         /\ \A p \in Riders, t \in Trips : About(p, t) => About(p, t)'
         /\ \A p : Followed(p)' = Followed(p)
<1>1. \A t \in Trips : Used(t) => Used(t)'
  BY DEF Used
<1>2. ASSUME NEW p \in Riders, NEW t \in Trips, About(p, t) PROVE About(p, t)'
  BY <1>1, <1>2 DEF About
<1>3. \A p : Followed(p)' = Followed(p)
  BY DEF Followed
<1>4. TripsInv' /\ PostingInv'
  BY DEF FitInv, TripsInv, PostingInv
<1>5. WishInv'
  BY <1>1 DEF FitInv, WishInv
<1>6. FetchInv' /\ EndedInv'
  BY DEF FitInv, FetchInv, EndedInv, Row
<1> QED BY <1>1, <1>2, <1>3, <1>4, <1>5, <1>6

LEMMA DownOnTrack ==
  ASSUME Typed, NEW s \in Conns, NEW v, NEW D, OnTrack(Coming(s), v, D)
  PROVE  OnTrack(down[s], v, D)
<1>1. CASE info[s].driver = NoDriver
  BY <1>1 DEF Coming
<1>2. CASE info[s].driver # NoDriver
  BY <1>2, ComingTyped, DropLast DEF Coming
<1> QED BY <1>1, <1>2

\* A message that is sent is at the end of its connection's queue.
LEMMA SentElements ==
  ASSUME Typed, NEW s \in Conns, NEW m \in Messages, down'[s] \in {down[s], Append(down[s], m)}
  PROVE  \A i \in DOMAIN down'[s] : (\E j \in DOMAIN down[s] : down'[s][i] = down[s][j]) \/ down'[s][i] = m
<1>1. down[s] \in Seq(Messages)
  BY ComingTyped
<1> QED BY <1>1, AppendFacts

LEMMA HandleFits ==
  ASSUME Typed, FitInv, NEW s \in Conns, Handle(s)
  PROVE  FitInv'
<1> DEFINE m == Head(up[s])
<1>1. /\ sock[s] \in {"open", "lost"} /\ up[s] # <<>>
      /\ \A c \in Conns : up'[c] = IF c = s THEN Tail(up[s]) ELSE up[c]
      /\ UNCHANGED <<sock, down, tripStatus, tripDriver, tripReason, available, run, conn, wants, posting, view, fetches>>
  BY DEF Handle, Unsubscribe, registryVars, tripVars, pageVars, Typed, IInv, KeysTyped
<1>3. \A c \in Conns : info'[c] = IF c = s /\ m = Nothing THEN Unregistered ELSE info[c]
  BY DEF Handle, Unsubscribe, registryVars, Typed, IInv, RegistryTyped
<1>4. \A c \in Conns : reads'[c] =
        IF c = s /\ m # Nothing THEN reads[s] \cup {IF m.driver # NoDriver THEN m ELSE Row(m.trip)} ELSE reads[c]
  BY DEF Handle, Typed, IInv, KeysTyped
<1>5. /\ m \in Said /\ 1 \in DOMAIN up[s] /\ m = up[s][1]
      /\ \A i \in DOMAIN Tail(up[s]) : \E j \in DOMAIN up[s] : Tail(up[s])[i] = up[s][j]
  <2>1. up[s] \in Seq(Said)
    BY DEF Typed, IInv, KeysTyped
  <2> QED BY <1>1, <2>1, TailFacts
<1> HIDE DEF m
<1>6. \A t \in Trips : Quiet(t) => Quiet(t)'
  BY <1>1, QuietKept
<1>7. /\ TripsInv' /\ PostingInv' /\ WishInv' /\ FetchInv' /\ EndedInv'
      /\ \A t \in Trips : Used(t) => Used(t)'
      /\ \A q \in Riders, t \in Trips : About(q, t) => About(q, t)'
      /\ \A q : Followed(q)' = Followed(q)
  BY <1>1, <1>6, ServerLeaves
<1>8. ConnsInv'
  BY <1>1, <1>3, <1>4 DEF FitInv, ConnsInv, Unregistered
<1>9. LinesInv'
  <2>1. ASSUME NEW q \in Riders, NEW c \in Conns, conn'[q] = c PROVE RiderConn(q, c)'
    <3>1. RiderConn(q, c)
      BY <1>1, <2>1 DEF FitInv, LinesInv
    <3>2. \A i \in DOMAIN up'[c] : \E j \in DOMAIN up[c] : up'[c][i] = up[c][j]
      BY <1>1, <1>5
    <3>3. ASSUME NEW r \in reads'[c], r \notin reads[c]
          PROVE  r.trip \in Trips /\ About(q, r.trip)' /\ r.driver \in {NoDriver, tripDriver'[r.trip]}
      <4>1. c = s /\ m # Nothing /\ r = IF m.driver # NoDriver THEN m ELSE Row(m.trip)
        BY <1>4, <3>3
      <4>2. m.driver = NoDriver
        BY <1>5, <3>1, <4>1 DEF RiderConn
      <4>3. PICK t \in Trips : m.trip = t
        BY <1>5, <4>1, <4>2, NoDriverAssumption DEF Said, Wishes, Nothing
      <4>4. About(q, t)
        BY <1>5, <3>1, <4>1, <4>3 DEF RiderConn, Mentioned
      <4>5. r = Row(t)
        BY <4>1, <4>2, <4>3
      <4> QED BY <1>1, <1>7, <4>4, <4>5 DEF Row
    <3>4. \A i \in DOMAIN down'[c] : down'[c][i].kind = "trip_matched" => down'[c][i].driver \in Followed(q)'
      BY <1>1, <1>7, <3>1 DEF RiderConn
    <3> QED BY <1>1, <1>3, <1>7, <3>1, <3>2, <3>3, <3>4, RiderConnKept
  <2>2. ASSUME NEW q \in Watchers, NEW c \in Conns, conn'[q] = c PROVE WatcherConn(q, c)'
    <3>1. WatcherConn(q, c)
      BY <1>1, <2>2 DEF FitInv, LinesInv
    <3>2. \A i \in DOMAIN up'[c] : \E j \in DOMAIN up[c] : up'[c][i] = up[c][j]
      BY <1>1, <1>5
    <3>3. ASSUME NEW r \in reads'[c] PROVE r = wants[q]
      <4>1. CASE r \in reads[c]
        BY <3>1, <4>1 DEF WatcherConn
      <4>2. CASE r \notin reads[c]
        <5>1. c = s /\ m # Nothing /\ r = IF m.driver # NoDriver THEN m ELSE Row(m.trip)
          BY <1>4, <3>3, <4>2
        <5>2. m = wants[q] /\ wants[q].trip = NoTrip
          BY <1>5, <3>1, <5>1 DEF WatcherConn, FitInv, WishInv
        <5>3. m.driver # NoDriver
          BY <1>5, <5>1, <5>2, NoTripAssumption, NoDriverAssumption DEF Said, Wishes
        <5> QED BY <5>1, <5>2, <5>3
      <4> QED BY <4>1, <4>2
    <3> QED BY <1>1, <1>3, <3>1, <3>2, <3>3 DEF WatcherConn, Unregistered
  <2> QED BY <2>1, <2>2 DEF LinesInv
<1>10. TrackInv'
  <2> SUFFICES ASSUME NEW q \in Pages, NEW c \in Conns, conn'[q] = c
               PROVE  OnTrack(Coming(c)', view'[q], Followed(q)')
    BY DEF TrackInv
  <2>1. OnTrack(Coming(c), view[q], Followed(q))
    BY <1>1 DEF FitInv, TrackInv
  <2>2. CASE c = s /\ m = Nothing
    <3>1. Coming(c)' = down[c]
      BY <1>1, <1>3, <2>2 DEF Coming, Unregistered
    <3> QED BY <1>1, <1>7, <2>1, <3>1, DownOnTrack
  <2>3. CASE ~(c = s /\ m = Nothing)
    BY <1>1, <1>3, <1>7, <2>1, <2>3, ComingKept
  <2> QED BY <2>2, <2>3
<1> QED BY <1>7, <1>8, <1>9, <1>10 DEF FitInv

LEMMA SocketClosedFits ==
  ASSUME Typed, FitInv, NEW s \in Conns, SocketClosed(s)
  PROVE  FitInv'
<1>1. /\ sock[s] = "lost"
      /\ \A c \in Conns : sock'[c] = IF c = s THEN "closed" ELSE sock[c]
      /\ \A c \in Conns : up'[c] = IF c = s THEN <<>> ELSE up[c]
      /\ \A c \in Conns : info'[c] = IF c = s THEN Unregistered ELSE info[c]
      /\ UNCHANGED <<down, tripStatus, tripDriver, tripReason, available, run, reads, conn, wants, posting, view, fetches>>
  BY DEF SocketClosed, Unsubscribe, tripVars, pageVars, Typed, ShownTyped, IInv, KeysTyped, RegistryTyped
<1>2. \A t \in Trips : Quiet(t) => Quiet(t)'
  BY <1>1, QuietKept
<1>3. /\ TripsInv' /\ PostingInv' /\ WishInv' /\ FetchInv' /\ EndedInv'
      /\ \A t \in Trips : Used(t) => Used(t)'
      /\ \A q \in Riders, t \in Trips : About(q, t) => About(q, t)'
      /\ \A q : Followed(q)' = Followed(q)
  BY <1>1, <1>2, ServerLeaves
<1>4. ASSUME NEW q \in Pages, NEW c \in Conns, conn'[q] = c
      PROVE  conn[q] = c /\ up'[c] = up[c] /\ info'[c] = info[c]
  BY <1>1, <1>4, NoConnAssumption DEF FitInv, ConnsInv
<1>5. ConnsInv'
  <2>1. ASSUME NEW q \in Pages, conn'[q] # NoConn PROVE sock'[conn'[q]] = "open"
    <3>1. conn[q] \in Conns /\ sock[conn[q]] = "open"
      BY <1>1, <2>1 DEF FitInv, ConnsInv, Typed, ShownTyped
    <3> QED BY <1>1, <3>1
  <2>2. \A c \in Conns : info'[c].driver = NoDriver => info'[c].lastSent = Nowhere
    BY <1>1 DEF FitInv, ConnsInv, Unregistered
  <2>3. \A c \in Conns : sock'[c] = "unused" => c # s /\ sock[c] = "unused"
    BY <1>1
  <2> QED BY <1>1, <2>1, <2>2, <2>3 DEF FitInv, ConnsInv
<1>6. LinesInv'
  <2>1. ASSUME NEW q \in Riders, NEW c \in Conns, conn'[q] = c PROVE RiderConn(q, c)'
    <3>1. conn[q] = c /\ up'[c] = up[c] /\ info'[c] = info[c] /\ RiderConn(q, c)
      BY <1>4, <2>1 DEF FitInv, LinesInv, Pages
    <3> QED BY <1>1, <1>3, <3>1, RiderConnKept DEF RiderConn
  <2>2. ASSUME NEW q \in Watchers, NEW c \in Conns, conn'[q] = c PROVE WatcherConn(q, c)'
    BY <1>1, <1>4, <2>2 DEF FitInv, LinesInv, WatcherConn, Pages
  <2> QED BY <2>1, <2>2 DEF LinesInv
<1>7. TrackInv'
  BY <1>1, <1>3, <1>4, ComingKept DEF FitInv, TrackInv
<1> QED BY <1>3, <1>5, <1>6, <1>7 DEF FitInv

LEMMA ReadReturnsFits ==
  ASSUME Typed, FitInv, NEW s \in Conns, NEW r \in reads[s], ReadReturns(s, r)
  PROVE  FitInv'
<1> DEFINE ended == r.trip # NoTrip /\ r.status \in Ended
           m == IF ended THEN [kind |-> "already_ended"] ELSE [kind |-> "subscribed", driver |-> r.driver]
<1>1. /\ \A c \in Conns : reads'[c] = IF c = s THEN reads[s] \ {r} ELSE reads[c]
      /\ UNCHANGED <<sock, tripStatus, tripDriver, tripReason, available, run, up, conn, wants, posting, view, fetches>>
  BY DEF ReadReturns, tripVars, pageVars, Typed, IInv, KeysTyped
<1>2. r \in Answers /\ r.driver \in DriverKeys /\ r.trip \in TripKeys
  <2>1. r \in Answers
    BY DEF Typed, IInv, KeysTyped
  <2> QED BY <2>1 DEF Answers, Rows, DriverKeys, TripKeys
<1>3. m \in Messages /\ ~IsPosition(m) /\ m.kind # "trip_matched" /\ m.kind \in {"already_ended", "subscribed"}
  BY <1>2 DEF Messages, DriverKeys, IsPosition
<1>4. \A c \in Conns : down'[c] = IF c = s /\ sock[s] = "open" THEN Append(down[s], m) ELSE down[c]
  <2>1. CASE ended
    BY <2>1 DEF ReadReturns, Sent
  <2>2. CASE ~ended
    <3>1. down' = Sent({s}, LAMBDA c : [kind |-> "subscribed", driver |-> r.driver])
      BY <2>2 DEF ReadReturns, Follow, SubscribeToDriver, SubscribeToTrip, Register
    <3> QED BY <2>2, <3>1 DEF Sent
  <2> QED BY <2>1, <2>2
<1>5. \A c \in Conns : info'[c] =
        IF c = s /\ ~ended THEN [trip |-> r.trip, driver |-> r.driver, lastSent |-> Nowhere] ELSE info[c]
  <2>1. CASE ended
    BY <2>1 DEF ReadReturns, registryVars
  <2>2. CASE ~ended
    BY <2>2 DEF ReadReturns, Follow, SubscribeToDriver, SubscribeToTrip, Register, Typed, IInv, RegistryTyped
  <2> QED BY <2>1, <2>2
<1>6. ~ended => m.kind = "subscribed" /\ m.driver = r.driver
  OBVIOUS
<1>7. ended => m.kind = "already_ended"
  OBVIOUS
<1> HIDE DEF ended, m
<1>8. ASSUME NEW c \in Conns
      PROVE  \A i \in DOMAIN down'[c] : (\E j \in DOMAIN down[c] : down'[c][i] = down[c][j]) \/ down'[c][i] = m
  BY <1>3, <1>4, SentElements
<1>9. \A t \in Trips : Quiet(t) => Quiet(t)'
  <2> SUFFICES ASSUME NEW t \in Trips, Quiet(t) PROVE Quiet(t)'
    OBVIOUS
  <2>1. \A c \in Conns : \A i \in DOMAIN down'[c] :
          (\E j \in DOMAIN down[c] : down'[c][i] = down[c][j]) \/ down'[c][i].kind # "trip_matched"
    BY <1>3, <1>8
  <2> QED BY <1>1, <2>1, QuietKept
<1>10. /\ TripsInv' /\ PostingInv' /\ WishInv' /\ FetchInv' /\ EndedInv'
       /\ \A t \in Trips : Used(t) => Used(t)'
       /\ \A q \in Riders, t \in Trips : About(q, t) => About(q, t)'
       /\ \A q : Followed(q)' = Followed(q)
  BY <1>1, <1>9, ServerLeaves
<1>11. ConnsInv'
  <2>1. sock[s] # "unused"
    BY DEF FitInv, ConnsInv
  <2>2. \A c \in Conns : info'[c].driver = NoDriver => info'[c].lastSent = Nowhere
    BY <1>5 DEF FitInv, ConnsInv
  <2> QED BY <1>1, <1>4, <1>5, <2>1, <2>2 DEF FitInv, ConnsInv
<1>12. LinesInv'
  <2>1. ASSUME NEW q \in Riders, NEW c \in Conns, conn'[q] = c PROVE RiderConn(q, c)'
    <3>1. RiderConn(q, c)
      BY <1>1, <2>1 DEF FitInv, LinesInv
    <3>2. ASSUME c = s
          PROVE  r.trip \in Trips /\ About(q, r.trip)' /\ r.driver \in {NoDriver, tripDriver'[r.trip]}
      <4>1. r.trip # NoTrip /\ r.driver \in {NoDriver, tripDriver[r.trip]}
        BY <3>1, <3>2 DEF RiderConn
      <4>2. PICK t \in Trips : r.trip = t
        BY <1>2, <4>1 DEF TripKeys
      <4>3. About(q, t)
        BY <3>1, <3>2, <4>2 DEF RiderConn, Mentioned
      <4> QED BY <1>1, <1>10, <4>1, <4>2, <4>3
    <3>3. \/ info'[c].trip = info[c].trip /\ info'[c].driver = info[c].driver
          \/ \E t \in Trips : info'[c].trip = t /\ About(q, t)' /\ info'[c].driver \in {NoDriver, tripDriver'[t]}
      BY <1>5, <3>2
    <3>4. \A i \in DOMAIN down'[c] : down'[c][i].kind = "trip_matched" => down'[c][i].driver \in Followed(q)'
      BY <1>3, <1>8, <1>10, <3>1 DEF RiderConn
    <3>5. \A i \in DOMAIN down'[c] : IsPosition(down'[c][i]) => \E j \in DOMAIN down[c] : down'[c][i] = down[c][j]
      BY <1>3, <1>8
    <3> QED BY <1>1, <1>10, <3>1, <3>3, <3>4, <3>5, RiderConnKept
  <2>2. ASSUME NEW q \in Watchers, NEW c \in Conns, conn'[q] = c PROVE WatcherConn(q, c)'
    <3>1. WatcherConn(q, c) /\ wants[q].trip = NoTrip
      BY <1>1, <2>2 DEF FitInv, LinesInv, WishInv
    <3>2. c = s => r = wants[q]
      BY <3>1 DEF WatcherConn
    <3>3. info'[c].trip = NoTrip /\ info'[c].driver \in {NoDriver, wants[q].driver}
      BY <1>5, <3>1, <3>2 DEF WatcherConn
    <3> QED BY <1>1, <3>1, <3>3 DEF WatcherConn
  <2> QED BY <2>1, <2>2 DEF LinesInv
<1>13. TrackInv'
  <2> SUFFICES ASSUME NEW q \in Pages, NEW c \in Conns, conn'[q] = c
               PROVE  OnTrack(Coming(c)', view[q], Followed(q))
    BY <1>1, <1>10 DEF TrackInv
  <2>1. OnTrack(Coming(c), view[q], Followed(q)) /\ sock[c] = "open"
    BY <1>1, NoConnAssumption DEF FitInv, TrackInv, ConnsInv
  <2>2. CASE c # s
    BY <1>4, <1>5, <2>1, <2>2, ComingKept
  <2>3. down[s] \in Seq(Frames) /\ m \in Frames
    BY <1>3, ComingTyped DEF Frames
  <2>4. CASE c = s /\ ended
    <3>1. down'[s] = Append(down[s], m) /\ info'[s] = info[s]
      BY <1>4, <1>5, <2>1, <2>4
    <3>2. CASE info[s].driver = NoDriver
      <4>1. Coming(s) = down[s] /\ Coming(s)' = Append(down[s], m)
        BY <3>1, <3>2 DEF Coming
      <4> QED BY <1>3, <2>1, <2>3, <2>4, <4>1, AddOther
    <3>3. CASE info[s].driver # NoDriver
      <4>1. Coming(s) = Append(down[s], NextPosition(s))
            /\ Coming(s)' = Append(Append(down[s], m), NextPosition(s))
        BY <3>1, <3>3 DEF Coming, NextPosition
      <4>2. NextPosition(s) \in Frames /\ IsPosition(NextPosition(s)) /\ ~NamesDriver(m) /\ m.kind # "subscribed"
        BY <1>7, <2>4, <3>3, ComingTyped DEF NamesDriver
      <4> QED BY <1>3, <2>1, <2>3, <2>4, <4>1, <4>2, SlipIn
    <3> QED BY <3>2, <3>3
  <2>5. CASE c = s /\ ~ended
    <3>1. /\ down'[s] = Append(down[s], m)
          /\ info'[s] = [trip |-> r.trip, driver |-> r.driver, lastSent |-> Nowhere]
      BY <1>4, <1>5, <2>1, <2>5
    <3>2. OnTrack(down[s], view[q], Followed(q))
      BY <2>1, <2>5, DownOnTrack
    <3>3. OnTrack(Append(down[s], m), view[q], Followed(q))
      BY <1>3, <2>3, <3>2, AddOther
    <3>4. CASE r.driver = NoDriver
      BY <2>5, <3>1, <3>3, <3>4 DEF Coming
    <3>5. CASE r.driver # NoDriver
      <4> DEFINE x == [kind |-> "location", driver |-> r.driver, to |-> Nowhere]
                 e == Append(down[s], m)
      <4>1. Coming(s)' = Append(e, x)
        BY <3>1, <3>5 DEF Coming, NextPosition
      <4>2. x \in Frames /\ x.kind = "location" /\ x.driver = r.driver
        BY <1>2, <3>5 DEF Frames, DriverKeys
      <4>3. e \in Seq(Frames) /\ e # <<>> /\ e[Len(e)] = m
        BY <2>3
      <4>4. NamesDriver(m) /\ m.driver = r.driver
        BY <1>6, <2>5 DEF NamesDriver
      <4> HIDE DEF x, e
      <4>5. OnTrack(e, view[q], Followed(q))
        BY <3>3 DEF e
      <4> QED BY <2>5, <4>1, <4>2, <4>3, <4>4, <4>5, AddLocation
    <3> QED BY <3>4, <3>5
  <2> QED BY <2>2, <2>4, <2>5
<1> QED BY <1>10, <1>11, <1>12, <1>13 DEF FitInv

\* Each connection gets the position announced for it, and the next one is its difference to this one.
LEMMA BroadcastFits ==
  ASSUME Typed, FitInv, NEW d \in Drivers, NEW place \in Places, Broadcast(d, place)
  PROVE  FitInv'
<1> DEFINE y(c) == IF info[c].lastSent = Nowhere
                   THEN [kind |-> "location", driver |-> d, to |-> place]
                   ELSE [kind |-> "delta", driver |-> d, from |-> info[c].lastSent, to |-> place]
<1>1. /\ UNCHANGED <<sock, tripStatus, tripDriver, tripReason, available, run, up, reads, conn, wants, posting, view, fetches>>
      /\ BroadcastDriverLocation(d, place)
  BY DEF Broadcast, tripVars, pageVars
<1>2. byDriver[d] = {c \in Conns : info[c].driver = d}
  BY DEF Typed, IInv, IndicesAgree
<1>3. \A c \in Conns : down'[c] = IF info[c].driver = d /\ sock[c] = "open" THEN Append(down[c], y(c)) ELSE down[c]
  BY <1>1, <1>2 DEF BroadcastDriverLocation, Sent
<1>4. \A c \in Conns : info'[c] = IF info[c].driver = d THEN [info[c] EXCEPT !.lastSent = place] ELSE info[c]
  BY <1>1, <1>2 DEF BroadcastDriverLocation
<1>5. \A c \in Conns : info[c] \in [trip : TripKeys, driver : DriverKeys, lastSent : Places \cup {Nowhere}]
  BY DEF Typed, IInv, RegistryTyped
<1>6. \A c \in Conns : info'[c].trip = info[c].trip /\ info'[c].driver = info[c].driver
  BY <1>4, <1>5
<1>7. ASSUME NEW c \in Conns PROVE y(c) \in Messages /\ IsPosition(y(c)) /\ y(c).driver = d /\ y(c).to = place
  <2>1. CASE info[c].lastSent = Nowhere
    BY <2>1 DEF Messages, IsPosition
  <2>2. CASE info[c].lastSent # Nowhere
    <3>1. info[c].lastSent \in Places
      BY <1>5, <2>2
    <3> QED BY <2>2, <3>1 DEF Messages, IsPosition
  <2> QED BY <2>1, <2>2
<1>8. ASSUME NEW c \in Conns, info[c].driver = d
      PROVE  /\ NextPosition(c).kind = y(c).kind
             /\ y(c).kind = "delta" => y(c).from = NextPosition(c).from
  BY <1>8 DEF NextPosition
<1> HIDE DEF y
<1>9. ASSUME NEW c \in Conns
      PROVE  \A i \in DOMAIN down'[c] :
               (\E j \in DOMAIN down[c] : down'[c][i] = down[c][j]) \/ (info[c].driver = d /\ down'[c][i] = y(c))
  <2>1. CASE down'[c] = down[c]
    BY <2>1
  <2>2. CASE info[c].driver = d /\ down'[c] = Append(down[c], y(c))
    BY <1>7, <2>2, SentElements
  <2> QED BY <1>3, <2>1, <2>2
<1>10. ASSUME NEW c \in Conns PROVE y(c).kind # "trip_matched"
  BY <1>7 DEF IsPosition
<1>11. \A t \in Trips : Quiet(t) => Quiet(t)'
  <2> SUFFICES ASSUME NEW t \in Trips, Quiet(t) PROVE Quiet(t)'
    OBVIOUS
  <2>1. \A c \in Conns : \A i \in DOMAIN down'[c] :
          (\E j \in DOMAIN down[c] : down'[c][i] = down[c][j]) \/ down'[c][i].kind # "trip_matched"
    BY <1>9, <1>10
  <2> QED BY <1>1, <2>1, QuietKept
<1>12. /\ TripsInv' /\ PostingInv' /\ WishInv' /\ FetchInv' /\ EndedInv'
       /\ \A t \in Trips : Used(t) => Used(t)'
       /\ \A q \in Riders, t \in Trips : About(q, t) => About(q, t)'
       /\ \A q : Followed(q)' = Followed(q)
  BY <1>1, <1>11, ServerLeaves
<1>13. ConnsInv'
  <2>1. \A c \in Conns : info[c].driver = NoDriver => info'[c] = info[c]
    BY <1>4, NoDriverAssumption
  <2>2. ASSUME NEW c \in Conns, sock[c] = "unused" PROVE info'[c] = info[c] /\ down'[c] = down[c]
    BY <1>3, <2>1, <2>2 DEF FitInv, ConnsInv, Unregistered
  <2>3. \A c \in Conns : info'[c].driver = NoDriver => info'[c].lastSent = Nowhere
    BY <1>6, <2>1 DEF FitInv, ConnsInv
  <2> QED BY <1>1, <2>2, <2>3 DEF FitInv, ConnsInv
<1>14. LinesInv'
  <2>1. ASSUME NEW q \in Riders, NEW c \in Conns, conn'[q] = c PROVE RiderConn(q, c)'
    <3>1. RiderConn(q, c)
      BY <1>1, <2>1 DEF FitInv, LinesInv
    <3>2. \A i \in DOMAIN down'[c] : down'[c][i].kind = "trip_matched" => down'[c][i].driver \in Followed(q)'
      BY <1>9, <1>10, <1>12, <3>1 DEF RiderConn
    <3>3. \A i \in DOMAIN down'[c] : IsPosition(down'[c][i]) =>
           \/ \E j \in DOMAIN down[c] : down'[c][i] = down[c][j]
           \/ down'[c][i].driver = info[c].driver /\ info[c].driver # NoDriver
      BY <1>7, <1>9, NoDriverAssumption
    <3> QED BY <1>1, <1>6, <1>12, <3>1, <3>2, <3>3, RiderConnKept
  <2>2. ASSUME NEW q \in Watchers, NEW c \in Conns, conn'[q] = c PROVE WatcherConn(q, c)'
    BY <1>1, <1>6, <2>2 DEF FitInv, LinesInv, WatcherConn
  <2> QED BY <2>1, <2>2 DEF LinesInv
<1>15. TrackInv'
  <2> SUFFICES ASSUME NEW q \in Pages, NEW c \in Conns, conn'[q] = c
               PROVE  OnTrack(Coming(c)', view[q], Followed(q))
    BY <1>1, <1>12 DEF TrackInv
  <2>1. OnTrack(Coming(c), view[q], Followed(q)) /\ sock[c] = "open"
    BY <1>1, NoConnAssumption DEF FitInv, TrackInv, ConnsInv
  <2>2. CASE info[c].driver # d
    BY <1>3, <1>4, <2>1, <2>2, ComingKept
  <2>3. CASE info[c].driver = d
    <3> DEFINE x == NextPosition(c)
               z == [kind |-> "delta", driver |-> d, from |-> place, to |-> Nowhere]
               e == Append(down[c], y(c))
    <3>1. d # NoDriver /\ x \in Frames /\ IsPosition(x) /\ x.driver = d /\ down[c] \in Seq(Frames)
      BY <2>3, ComingTyped, NoDriverAssumption
    <3>2. y(c) \in Frames /\ z \in Frames
      BY <1>7 DEF Frames
    <3>3. Coming(c) = Append(down[c], x)
      BY <2>3, <3>1 DEF Coming
    <3>4. info'[c].driver = d /\ info'[c].lastSent = place /\ place # Nowhere /\ down'[c] = e
      BY <1>3, <1>4, <1>5, <2>1, <2>3, NowhereAssumption
    <3>5. Coming(c)' = Append(e, z)
      BY <3>1, <3>4 DEF Coming, NextPosition
    <3> HIDE DEF x
    <3>6. OnTrack(e, view[q], Followed(q))
      <4>1. y(c).kind = x.kind /\ y(c).driver = x.driver /\ (y(c).kind = "delta" => y(c).from = x.from)
        BY <1>7, <1>8, <2>3, <3>1 DEF x
      <4> QED BY <2>1, <3>1, <3>2, <3>3, <4>1, LastKept
    <3>7. e \in Seq(Frames) /\ e # <<>> /\ e[Len(e)] = y(c)
      BY <3>1, <3>2
    <3>8. z.kind = "delta" /\ z.driver = d /\ z.from = place
      OBVIOUS
    <3> HIDE DEF e, z
    <3> QED BY <1>7, <3>2, <3>5, <3>6, <3>7, <3>8, AddDelta
  <2> QED BY <2>2, <2>3
<1> QED BY <1>12, <1>13, <1>14, <1>15 DEF FitInv

\* A driver who is given to a trip has no positions on any rider's connection yet.
LEMMA DecideFits ==
  ASSUME Typed, FitInv, SlowAnswers = FALSE, NEW u \in Trips, Decide(u)
  PROVE  FitInv'
<1>1. /\ run[u] = "search"
      /\ \A p \in Riders : \A f \in fetches[p] : f.trip = u => f.status = "asked"
      /\ \A t \in Trips : run'[t] = IF t = u THEN "announce" ELSE run[t]
      /\ UNCHANGED <<sock, info, down, up, reads, conn, wants, posting, view, fetches>>
  BY DEF Decide, registryVars, pageVars, Typed, ShownTyped
<1>2. /\ tripStatus[u] = "requested" /\ tripStatus'[u] \in {"matched", "cancelled"}
      /\ \A t \in Trips : t # u => tripStatus'[t] = tripStatus[t] /\ tripDriver'[t] = tripDriver[t]
                                   /\ tripReason'[t] = tripReason[t]
      /\ available' \subseteq available
      /\ \/ tripDriver'[u] = tripDriver[u]
         \/ tripStatus'[u] = "matched" /\ tripDriver'[u] \in available /\ tripDriver'[u] \notin available'
  BY DEF Decide, Assignment!Resolve, Assignment!Assign, Assignment!Cancel, Typed, IInv, RowsTyped
<1>3. tripDriver[u] = NoDriver
  BY <1>2 DEF FitInv, TripsInv
<1>4. \A t \in Trips : tripDriver[t] # NoDriver => t # u /\ tripDriver'[t] = tripDriver[t]
  BY <1>2, <1>3
<1>5. tripDriver'[u] = NoDriver \/ \A t \in Trips : tripDriver[t] # tripDriver'[u]
  BY <1>2, <1>3 DEF FitInv, TripsInv
<1>6. ASSUME NEW t \in Trips, Quiet(t) PROVE t # u /\ Quiet(t)'
  <2>1. t # u
    BY <1>1, <1>2, <1>6 DEF Quiet
  <2> QED BY <1>1, <1>2, <1>6, <2>1, QuietKept
<1>7. ASSUME NEW t \in Trips, Used(t) PROVE Used(t)'
  BY <1>1, <1>2, <1>7 DEF Used
<1>8. ASSUME NEW q \in Riders, NEW t \in Trips, About(q, t) PROVE About(q, t)'
  BY <1>1, <1>6, <1>7, <1>8 DEF About
<1>9. TripsInv'
  <2>1. ASSUME NEW t \in Trips PROVE tripStatus'[t] # "absent" => run'[t] # "none"
    BY <1>1, <1>2 DEF FitInv, TripsInv
  <2>2. ASSUME NEW t \in Trips, tripDriver'[t] # NoDriver PROVE tripStatus'[t] = "matched"
    BY <1>2, <1>3, <2>2 DEF FitInv, TripsInv
  <2>3. ASSUME NEW t \in Trips PROVE tripDriver'[t] \notin available'
    BY <1>2 DEF FitInv, TripsInv
  <2>4. ASSUME NEW t \in Trips, NEW r \in Trips, tripDriver'[t] = tripDriver'[r], tripDriver'[t] # NoDriver
        PROVE  t = r
    BY <1>2, <1>5, <2>4 DEF FitInv, TripsInv
  <2> QED BY <2>1, <2>2, <2>3, <2>4 DEF TripsInv
<1>10. ConnsInv'
  BY <1>1 DEF FitInv, ConnsInv
<1>11. PostingInv'
  BY <1>1, <1>2 DEF FitInv, PostingInv, Typed, IInv, KeysTyped, TripKeys
<1>12. WishInv'
  BY <1>1, <1>7 DEF FitInv, WishInv
<1>13. FetchInv'
  <2> SUFFICES ASSUME NEW q \in Riders, NEW f \in fetches[q]
               PROVE  f.trip = wants[q].trip /\ (f.status # "asked" => f = Row(f.trip)')
    BY <1>1 DEF FetchInv
  <2>1. f.trip \in Trips /\ f.trip = wants[q].trip /\ (f.status # "asked" => f = Row(f.trip))
    BY WishFacts DEF FitInv, FetchInv
  <2> QED BY <1>1, <1>2, <2>1 DEF Row
<1>14. EndedInv'
  BY <1>1, <1>6 DEF FitInv, EndedInv
<1>15. ASSUME NEW q \in Riders, NEW d \in Followed(q) PROVE d \in Followed(q)'
  <2>1. d \in Drivers /\ wants[q].trip # NoTrip /\ tripDriver[wants[q].trip] = d
    BY <1>15, WishFacts DEF Followed
  <2>2. wants[q].trip \in Trips /\ d # NoDriver
    BY <2>1, WishFacts, NoDriverAssumption
  <2> QED BY <1>1, <1>4, <2>1, <2>2 DEF Followed
<1>16. LinesInv'
  <2>1. ASSUME NEW q \in Riders, NEW s \in Conns, conn'[q] = s PROVE RiderConn(q, s)'
    <3>1. RiderConn(q, s)
      BY <1>1, <2>1 DEF FitInv, LinesInv
    <3>2. \A i \in DOMAIN down'[s] : down'[s][i].kind = "trip_matched" => down'[s][i].driver \in Followed(q)'
      BY <1>1, <1>15, <3>1 DEF RiderConn
    <3> QED BY <1>1, <1>4, <1>7, <1>8, <3>1, <3>2, RiderConnKept
  <2>2. ASSUME NEW q \in Watchers, NEW s \in Conns, conn'[q] = s PROVE WatcherConn(q, s)'
    BY <1>1, <2>2 DEF FitInv, LinesInv, WatcherConn
  <2> QED BY <2>1, <2>2 DEF LinesInv
<1>17. TrackInv'
  <2> SUFFICES ASSUME NEW q \in Pages, NEW s \in Conns, conn'[q] = s
               PROVE  OnTrack(Coming(s), view[q], Followed(q)')
    BY <1>1, ComingKept DEF TrackInv
  <2>1. OnTrack(Coming(s), view[q], Followed(q))
    BY <1>1 DEF FitInv, TrackInv
  <2>2. CASE q \in Watchers
    <3>1. wants[q].trip = NoTrip
      BY <2>2 DEF FitInv, WishInv
    <3>2. Followed(q)' = Followed(q)
      BY <1>1, <3>1 DEF Followed
    <3> QED BY <2>1, <3>2
  <2>3. CASE q \in Riders
    <3>1. RiderConn(q, s)
      BY <1>1, <2>3 DEF FitInv, LinesInv
    <3>2. ASSUME NEW j \in DOMAIN Coming(s), IsPosition(Coming(s)[j]), Coming(s)[j].driver \in Followed(q)'
          PROVE  Coming(s)[j].driver \in Followed(q)
      <4>1. PICK t \in Trips : Used(t) /\ tripDriver[t] = Coming(s)[j].driver
        BY <2>3, <3>1, <3>2, ComingAssigned
      <4>2. tripDriver[t] \in Drivers /\ tripDriver[t] # NoDriver
        BY <3>2, <4>1, ComingTyped, PositionsNamed
      <4>3. wants[q].driver = NoDriver
        BY <2>3 DEF FitInv, WishInv
      <4>4. wants[q].trip # NoTrip /\ tripDriver'[wants[q].trip] = tripDriver[t]
        BY <1>1, <3>2, <4>1, <4>2, <4>3 DEF Followed
      <4>5. wants[q].trip \in Trips
        BY <2>3, <4>4, WishFacts
      <4>6. wants[q].trip # u
        BY <1>5, <4>2, <4>4
      <4> QED BY <1>2, <4>1, <4>2, <4>4, <4>5, <4>6 DEF Followed
    <3> QED BY <2>1, <3>2, FollowOthers
  <2> QED BY <2>2, <2>3 DEF Pages
<1> QED BY <1>9, <1>10, <1>11, <1>12, <1>13, <1>14, <1>16, <1>17 DEF FitInv

\* Whoever is told of a match follows the trip, or his page would have been done with it.
LEMMA AnnounceMatchFits ==
  ASSUME Typed, FitInv, NEW u \in Trips, Announce(u), tripStatus[u] = "matched"
  PROVE  FitInv'
<1> DEFINE d == tripDriver[u]
           m == [kind |-> "trip_matched", driver |-> d]
<1>1. /\ run[u] = "announce" /\ \A t \in Trips : run'[t] = IF t = u THEN "over" ELSE run[t]
      /\ UNCHANGED <<sock, tripStatus, tripDriver, tripReason, available, up, reads, conn, wants, posting, view, fetches>>
      /\ NotifyTripMatched(u, d)
  BY DEF Announce, tripVars, pageVars, Typed, ShownTyped
<1>2. d \in Drivers /\ d # NoDriver
  BY NoDriverAssumption DEF Typed, IInv, RowsTyped
<1>3. m \in Messages /\ ~IsPosition(m) /\ NamesDriver(m) /\ m.kind # "subscribed" /\ m.driver = d
  BY <1>2 DEF Messages, IsPosition, NamesDriver
<1>4. byTrip[u] = {c \in Conns : info[c].trip = u}
  BY DEF Typed, IInv, IndicesAgree
<1>5. \A c \in Conns : info[c] \in [trip : TripKeys, driver : DriverKeys, lastSent : Places \cup {Nowhere}]
  BY DEF Typed, IInv, RegistryTyped
<1> HIDE DEF d
<1>6. \A c \in Conns : down'[c] = IF info[c].trip = u /\ sock[c] = "open" THEN Append(down[c], m) ELSE down[c]
  BY <1>1, <1>4 DEF NotifyTripMatched, Sent
<1>7. \A c \in Conns : info'[c] = IF info[c].trip = u /\ info[c].driver # d
                                  THEN [info[c] EXCEPT !.driver = d] ELSE info[c]
  BY <1>1, <1>4 DEF NotifyTripMatched
<1> HIDE DEF m
<1>8. ASSUME NEW c \in Conns
      PROVE  \A i \in DOMAIN down'[c] : \/ \E j \in DOMAIN down[c] : down'[c][i] = down[c][j]
                                        \/ info[c].trip = u /\ down'[c][i] = m
  <2>1. CASE down'[c] = down[c]
    BY <2>1
  <2>2. CASE info[c].trip = u /\ down'[c] = Append(down[c], m)
    BY <1>3, <2>2, SentElements
  <2> QED BY <1>6, <2>1, <2>2
<1>9. ~Quiet(u)
  BY <1>1 DEF Quiet
<1>10. ASSUME NEW t \in Trips, Quiet(t) PROVE Quiet(t)'
  <2>1. CASE tripStatus[t] = "cancelled"
    BY <1>1, <2>1 DEF Quiet
  <2>2. CASE tripStatus[t] # "cancelled"
    <3>1. /\ run[t] = "over"
          /\ \A c \in Conns : \A j \in DOMAIN down[c] :
               down[c][j].kind = "trip_matched" => down[c][j].driver # tripDriver[t]
      BY <1>10, <2>2 DEF Quiet
    <3>2. m.driver # tripDriver[t]
      BY <1>2, <1>3, <1>9, <1>10 DEF d, FitInv, TripsInv
    <3>3. ASSUME NEW c \in Conns, NEW i \in DOMAIN down'[c], down'[c][i].kind = "trip_matched"
          PROVE  down'[c][i].driver # tripDriver[t]
      BY <1>8, <3>1, <3>2, <3>3
    <3>4. run'[t] = "over"
      BY <1>1, <3>1
    <3> QED BY <1>1, <3>3, <3>4 DEF Quiet
  <2> QED BY <2>1, <2>2
<1>11. /\ TripsInv' /\ PostingInv' /\ WishInv' /\ FetchInv' /\ EndedInv'
       /\ \A t \in Trips : Used(t) => Used(t)'
       /\ \A q \in Riders, t \in Trips : About(q, t) => About(q, t)'
       /\ \A q : Followed(q)' = Followed(q)
  BY <1>1, <1>10, ServerLeaves
<1>12. ConnsInv'
  <2>1. ASSUME NEW c \in Conns, info'[c].driver = NoDriver PROVE info'[c].lastSent = Nowhere
    <3>1. CASE info'[c] = info[c]
      BY <2>1, <3>1 DEF FitInv, ConnsInv
    <3>2. CASE info'[c] = [info[c] EXCEPT !.driver = d]
      BY <1>2, <1>5, <2>1, <3>2
    <3> QED BY <1>7, <3>1, <3>2
  <2>2. ASSUME NEW c \in Conns, sock[c] = "unused" PROVE info'[c] = info[c] /\ down'[c] = down[c]
    <3>1. info[c].trip # u
      BY <2>2, NoTripAssumption DEF FitInv, ConnsInv, Unregistered
    <3> QED BY <1>6, <1>7, <3>1
  <2> QED BY <1>1, <2>1, <2>2 DEF FitInv, ConnsInv
<1>13. ASSUME NEW q \in Riders, NEW c \in Conns, conn[q] = c, info[c].trip = u
       PROVE  About(q, u) /\ d \in Followed(q) /\ info[c].driver \in {NoDriver, d}
  <2>1. RiderConn(q, c)
    BY <1>13 DEF FitInv, LinesInv
  <2>2. About(q, u)
    BY <1>13, <2>1 DEF RiderConn, Mentioned
  <2>3. wants[q].trip = u
    BY <1>9, <2>2 DEF About
  <2>4. info[c].driver \in {NoDriver, d}
    BY <1>13, <2>1 DEF RiderConn, d
  <2> QED BY <1>2, <2>2, <2>3, <2>4, NoTripAssumption DEF Followed, d
<1>14. LinesInv'
  <2>1. ASSUME NEW q \in Riders, NEW c \in Conns, conn'[q] = c PROVE RiderConn(q, c)'
    <3>1. conn[q] = c /\ RiderConn(q, c)
      BY <1>1, <2>1 DEF FitInv, LinesInv
    <3>2. \A i \in DOMAIN down'[c] : down'[c][i].kind = "trip_matched" => down'[c][i].driver \in Followed(q)'
      BY <1>3, <1>8, <1>11, <1>13, <3>1 DEF RiderConn
    <3>3. \A i \in DOMAIN down'[c] : IsPosition(down'[c][i]) => \E j \in DOMAIN down[c] : down'[c][i] = down[c][j]
      BY <1>3, <1>8
    <3>4. \/ info'[c].trip = info[c].trip /\ info'[c].driver = info[c].driver
          \/ \E t \in Trips : info'[c].trip = t /\ About(q, t)' /\ info'[c].driver \in {NoDriver, tripDriver'[t]}
      <4>1. CASE info'[c] = info[c]
        BY <4>1
      <4>2. CASE info[c].trip = u /\ info'[c] = [info[c] EXCEPT !.driver = d]
        <5>1. info'[c].trip = u /\ info'[c].driver = tripDriver'[u]
          BY <1>1, <1>5, <4>2 DEF d
        <5> QED BY <1>11, <1>13, <3>1, <4>2, <5>1
      <4> QED BY <1>7, <4>1, <4>2
    <3> QED BY <1>1, <1>11, <3>1, <3>2, <3>3, <3>4, RiderConnKept
  <2>2. ASSUME NEW q \in Watchers, NEW c \in Conns, conn'[q] = c PROVE WatcherConn(q, c)'
    <3>1. WatcherConn(q, c)
      BY <1>1, <2>2 DEF FitInv, LinesInv
    <3>2. info'[c] = info[c]
      BY <1>7, <3>1, NoTripAssumption DEF WatcherConn
    <3> QED BY <1>1, <3>1, <3>2 DEF WatcherConn
  <2> QED BY <2>1, <2>2 DEF LinesInv
<1>15. TrackInv'
  <2> SUFFICES ASSUME NEW q \in Pages, NEW c \in Conns, conn'[q] = c
               PROVE  OnTrack(Coming(c)', view[q], Followed(q))
    BY <1>1, <1>11 DEF TrackInv
  <2>1. OnTrack(Coming(c), view[q], Followed(q)) /\ sock[c] = "open" /\ conn[q] = c
    BY <1>1, NoConnAssumption DEF FitInv, TrackInv, ConnsInv
  <2>2. CASE info[c].trip # u
    BY <1>6, <1>7, <2>1, <2>2, ComingKept
  <2>3. CASE info[c].trip = u
    <3>1. q \in Riders
      BY <2>1, <2>3, NoTripAssumption DEF FitInv, LinesInv, WatcherConn, Pages
    <3>2. down[c] \in Seq(Frames) /\ m \in Frames /\ down'[c] = Append(down[c], m)
      BY <1>3, <1>6, <2>1, <2>3, ComingTyped DEF Frames
    <3>3. CASE info[c].driver = NoDriver
      <4> DEFINE x == [kind |-> "location", driver |-> d, to |-> Nowhere]
                 e == Append(down[c], m)
      <4>1. Coming(c) = down[c] /\ info[c].lastSent = Nowhere
        BY <3>3 DEF Coming, FitInv, ConnsInv
      <4>2. info'[c].driver = d /\ info'[c].lastSent = Nowhere
        BY <1>2, <1>5, <1>7, <2>3, <3>3, <4>1
      <4>3. Coming(c)' = Append(e, x)
        BY <1>2, <3>2, <4>2 DEF Coming, NextPosition
      <4>4. OnTrack(e, view[q], Followed(q))
        BY <1>3, <2>1, <3>2, <4>1, AddOther
      <4>5. x \in Frames /\ x.kind = "location" /\ x.driver = d
        BY <1>2 DEF Frames
      <4>6. e \in Seq(Frames) /\ e # <<>> /\ e[Len(e)] = m
        BY <3>2
      <4> HIDE DEF x, e
      <4> QED BY <1>3, <4>3, <4>4, <4>5, <4>6, AddLocation
    <3>4. CASE info[c].driver # NoDriver
      <4>1. info[c].driver = d /\ info'[c] = info[c]
        BY <1>7, <1>13, <2>1, <2>3, <3>1, <3>4
      <4>2. Coming(c) = Append(down[c], NextPosition(c))
            /\ Coming(c)' = Append(Append(down[c], m), NextPosition(c))
        BY <3>2, <3>4, <4>1 DEF Coming, NextPosition
      <4>3. NextPosition(c) \in Frames /\ IsPosition(NextPosition(c)) /\ NextPosition(c).driver = d
        BY <3>4, <4>1, ComingTyped
      <4> QED BY <1>3, <2>1, <3>2, <4>2, <4>3, SlipIn
    <3> QED BY <3>3, <3>4
  <2> QED BY <2>2, <2>3
<1> QED BY <1>11, <1>12, <1>14, <1>15 DEF FitInv

LEMMA AnnounceCancelFits ==
  ASSUME Typed, FitInv, NEW u \in Trips, Announce(u), tripStatus[u] = "cancelled"
  PROVE  FitInv'
<1> DEFINE m == [kind |-> "trip_cancelled"]
<1>1. /\ run[u] = "announce" /\ \A t \in Trips : run'[t] = IF t = u THEN "over" ELSE run[t]
      /\ UNCHANGED <<sock, tripStatus, tripDriver, tripReason, available, up, reads, conn, wants, posting, view, fetches>>
      /\ NotifyTripCancelled(u)
  BY DEF Announce, tripVars, pageVars, Typed, ShownTyped
<1>2. m \in Messages /\ ~IsPosition(m) /\ m.kind = "trip_cancelled"
  BY DEF Messages, IsPosition
<1>3. byTrip[u] = {c \in Conns : info[c].trip = u}
  BY DEF Typed, IInv, IndicesAgree
<1>4. \A c \in Conns : down'[c] = IF info[c].trip = u /\ sock[c] = "open" THEN Append(down[c], m) ELSE down[c]
  BY <1>1, <1>3 DEF NotifyTripCancelled, Sent
<1>5. \A c \in Conns : info'[c] = IF info[c].trip = u THEN Unregistered ELSE info[c]
  BY <1>1, <1>3 DEF NotifyTripCancelled
<1> HIDE DEF m
<1>6. ASSUME NEW c \in Conns
      PROVE  \A i \in DOMAIN down'[c] : (\E j \in DOMAIN down[c] : down'[c][i] = down[c][j]) \/ down'[c][i] = m
  BY <1>2, <1>4, SentElements
<1>7. ASSUME NEW t \in Trips, Quiet(t) PROVE Quiet(t)'
  <2>1. CASE t = u
    BY <1>1, <2>1 DEF Quiet
  <2>2. CASE t # u
    <3>1. \A c \in Conns : \A i \in DOMAIN down'[c] :
            (\E j \in DOMAIN down[c] : down'[c][i] = down[c][j]) \/ down'[c][i].kind # "trip_matched"
      BY <1>2, <1>6
    <3> QED BY <1>1, <1>7, <2>2, <3>1, QuietKept
  <2> QED BY <2>1, <2>2
<1>8. /\ TripsInv' /\ PostingInv' /\ WishInv' /\ FetchInv' /\ EndedInv'
      /\ \A t \in Trips : Used(t) => Used(t)'
      /\ \A q \in Riders, t \in Trips : About(q, t) => About(q, t)'
      /\ \A q : Followed(q)' = Followed(q)
  BY <1>1, <1>7, ServerLeaves
<1>9. ConnsInv'
  <2>1. ASSUME NEW c \in Conns, info'[c].driver = NoDriver PROVE info'[c].lastSent = Nowhere
    BY <1>5, <2>1 DEF FitInv, ConnsInv, Unregistered
  <2>2. ASSUME NEW c \in Conns, sock[c] = "unused" PROVE info'[c] = info[c] /\ down'[c] = down[c]
    BY <1>4, <1>5, <2>2, NoTripAssumption DEF FitInv, ConnsInv, Unregistered
  <2> QED BY <1>1, <2>1, <2>2 DEF FitInv, ConnsInv
<1>10. LinesInv'
  <2>1. ASSUME NEW q \in Riders, NEW c \in Conns, conn'[q] = c PROVE RiderConn(q, c)'
    <3>1. RiderConn(q, c)
      BY <1>1, <2>1 DEF FitInv, LinesInv
    <3>2. \A i \in DOMAIN down'[c] : down'[c][i].kind = "trip_matched" => down'[c][i].driver \in Followed(q)'
      BY <1>2, <1>6, <1>8, <3>1 DEF RiderConn
    <3>3. \A i \in DOMAIN down'[c] : IsPosition(down'[c][i]) => \E j \in DOMAIN down[c] : down'[c][i] = down[c][j]
      BY <1>2, <1>6
    <3> QED BY <1>1, <1>5, <1>8, <3>1, <3>2, <3>3, RiderConnKept
  <2>2. ASSUME NEW q \in Watchers, NEW c \in Conns, conn'[q] = c PROVE WatcherConn(q, c)'
    <3>1. WatcherConn(q, c)
      BY <1>1, <2>2 DEF FitInv, LinesInv
    <3> QED BY <1>1, <1>5, <3>1, WatcherConnKept
  <2> QED BY <2>1, <2>2 DEF LinesInv
<1>11. TrackInv'
  <2> SUFFICES ASSUME NEW q \in Pages, NEW c \in Conns, conn'[q] = c
               PROVE  OnTrack(Coming(c)', view[q], Followed(q))
    BY <1>1, <1>8 DEF TrackInv
  <2>1. OnTrack(Coming(c), view[q], Followed(q)) /\ sock[c] = "open"
    BY <1>1, NoConnAssumption DEF FitInv, TrackInv, ConnsInv
  <2>2. CASE info[c].trip # u
    BY <1>4, <1>5, <2>1, <2>2, ComingKept
  <2>3. CASE info[c].trip = u
    <3>1. Coming(c)' = Append(down[c], m)
      <4>1. info'[c].driver = NoDriver
        BY <1>5, <2>3 DEF Unregistered
      <4>2. down'[c] = Append(down[c], m)
        BY <1>4, <2>1, <2>3
      <4> QED BY <4>1, <4>2 DEF Coming
    <3>2. OnTrack(down[c], view[q], Followed(q))
      BY <2>1, DownOnTrack
    <3>3. down[c] \in Seq(Messages)
      BY ComingTyped
    <3> QED BY <1>2, <3>1, <3>2, <3>3, AddOther
  <2> QED BY <2>2, <2>3
<1> QED BY <1>8, <1>9, <1>10, <1>11 DEF FitInv

\* After a restart no page has a connection, and no match is left to be told.
LEMMA RestartFits ==
  ASSUME Typed, FitInv, Restart
  PROVE  FitInv'
<1>1. /\ \A s \in Conns : info'[s] = Unregistered /\ up'[s] = <<>> /\ down'[s] = <<>> /\ reads'[s] = {}
      /\ \A t \in Trips : run'[t] = IF run[t] = "none" THEN "none" ELSE "over"
      /\ \A p \in Pages : conn'[p] = NoConn
      /\ \A p \in Riders : posting'[p] = NoTrip /\ fetches'[p] = {}
      /\ UNCHANGED <<tripStatus, tripDriver, tripReason, available, wants, view>>
  BY DEF Restart, tripVars
<1>2. ASSUME NEW t \in Trips, Used(t) PROVE Used(t)' /\ Quiet(t)'
  <2>1. tripStatus[t] # "absent" /\ run'[t] = "over"
    BY <1>1, <1>2 DEF Used, FitInv, TripsInv
  <2> QED BY <1>1, <2>1, NoTripAssumption DEF Used, Quiet
<1>3. TripsInv'
  BY <1>1 DEF FitInv, TripsInv
<1>4. ConnsInv' /\ PostingInv'
  BY <1>1 DEF ConnsInv, PostingInv, Unregistered
<1>5. WishInv'
  BY <1>1, <1>2 DEF FitInv, WishInv, Pages
<1>6. FetchInv' /\ EndedInv'
  BY <1>1, <1>2 DEF FitInv, FetchInv, EndedInv, WishInv
<1>7. LinesInv' /\ TrackInv'
  BY <1>1, NoConnAssumption DEF LinesInv, TrackInv, Pages
<1> QED BY <1>3, <1>4, <1>5, <1>6, <1>7 DEF FitInv

-----------------------------------------------------------------------------
LEMMA InitFits == Init => FitInv
<1> SUFFICES ASSUME Init PROVE FitInv
  OBVIOUS
<1>1. /\ \A t \in Trips : tripStatus[t] = "absent" /\ tripDriver[t] = NoDriver
      /\ available \subseteq Drivers
      /\ \A s \in Conns : info[s] = Unregistered /\ up[s] = <<>> /\ reads[s] = {} /\ down[s] = <<>>
      /\ \A p \in Pages : conn[p] = NoConn /\ wants[p] = Nothing /\ view[p] = Blank
      /\ \A p \in Riders : posting[p] = NoTrip /\ fetches[p] = {}
  BY DEF Init, RegistryInit, Assignment!Init
<1>2. TripsInv
  BY <1>1, NoDriverAssumption DEF TripsInv
<1>3. ConnsInv /\ PostingInv
  BY <1>1 DEF ConnsInv, PostingInv, Unregistered
<1>4. WishInv
  BY <1>1, NoTripAssumption DEF WishInv, Nothing, Blank, Pages
<1>5. FetchInv /\ EndedInv
  BY <1>1 DEF FetchInv, EndedInv, Blank, Ended, Pages
<1>6. LinesInv /\ TrackInv
  BY <1>1, NoConnAssumption DEF LinesInv, TrackInv, Pages
<1> QED BY <1>2, <1>3, <1>4, <1>5, <1>6 DEF FitInv

LEMMA StepFits ==
  ASSUME Typed, FitInv, SlowAnswers = FALSE, Next
  PROVE  FitInv'
<1>1. ASSUME NEW p \in Pages, PageStep(p) \/ Lose(p) PROVE FitInv'
  BY <1>1, ReceiveFits, OpenFits, TrackTripFits, FetchReadFits, FetchAppliedFits, LoseFits DEF PageStep
<1>2. ASSUME NEW p \in Riders, RequestAnother(p) \/ \E t \in Trips : PostTrip(p, t) PROVE FitInv'
  BY <1>2, RequestAnotherFits, PostTripFits
<1>3. ASSUME NEW p \in Watchers, NEW d \in Drivers, Watch(p, d) PROVE FitInv'
  BY <1>3, WatchFits
<1>4. ASSUME NEW t \in Trips, Announce(t) PROVE FitInv'
  BY <1>4, AnnounceMatchFits, AnnounceCancelFits DEF Announce
<1>5. CASE ServerStep
  BY <1>4, <1>5, HandleFits, SocketClosedFits, ReadReturnsFits, DecideFits DEF ServerStep
<1>6. ASSUME NEW d \in Drivers, NEW place \in Places, Broadcast(d, place) PROVE FitInv'
  BY <1>6, BroadcastFits
<1> QED BY <1>1, <1>2, <1>3, <1>5, <1>6, RestartFits DEF Next

LEMMA StutterFits == FitInv /\ UNCHANGED vars => FitInv'
<1> SUFFICES ASSUME FitInv, UNCHANGED vars PROVE FitInv'
  OBVIOUS
<1> USE DEF vars, tripVars, pageVars
<1>1. \A t \in Trips : (Used(t) <=> Used(t)') /\ (Quiet(t) => Quiet(t)')
  BY DEF Used, Quiet
<1>2. ASSUME NEW p \in Riders, NEW t \in Trips, About(p, t) PROVE About(p, t)'
  BY <1>1, <1>2 DEF About
<1>3. \A p : Followed(p)' = Followed(p)
  BY DEF Followed
<1>4. TripsInv' /\ ConnsInv' /\ PostingInv'
  BY DEF FitInv, TripsInv, ConnsInv, PostingInv
<1>5. WishInv' /\ FetchInv' /\ EndedInv'
  BY <1>1 DEF FitInv, WishInv, FetchInv, EndedInv, Row
<1>6. LinesInv'
  <2>1. ASSUME NEW p \in Riders, NEW s \in Conns, RiderConn(p, s) PROVE RiderConn(p, s)'
    <3>1. \A t \in Trips : Mentioned(s, t)' => Mentioned(s, t)
      BY DEF Mentioned
    <3> QED BY <1>1, <1>2, <1>3, <2>1, <3>1 DEF RiderConn
  <2>2. ASSUME NEW p \in Watchers, NEW s \in Conns, WatcherConn(p, s) PROVE WatcherConn(p, s)'
    BY <2>2 DEF WatcherConn
  <2> QED BY <2>1, <2>2 DEF FitInv, LinesInv
<1>7. TrackInv'
  BY <1>3, ComingKept DEF FitInv, TrackInv
<1> QED BY <1>4, <1>5, <1>6, <1>7 DEF FitInv

\* The first message of a connection is the first of what is coming on it.
LEMMA FitsAtOnce ==
  ASSUME Typed, FitInv
  PROVE  DeltaFitsPosition
<1> SUFFICES ASSUME NEW p \in Pages, conn[p] # NoConn, down[conn[p]] # <<>>,
                    Head(down[conn[p]]).kind = "delta", Head(down[conn[p]]).driver = view[p].driver
             PROVE  view[p].at = Head(down[conn[p]]).from
  BY DEF DeltaFitsPosition
<1>1. PICK s \in Conns : conn[p] = s
  BY DEF Typed, ShownTyped
<1>2. OnTrack(down[s], view[p], Followed(p))
  BY <1>1, DownOnTrack DEF FitInv, TrackInv
<1>3. 1 \in DOMAIN down[s] /\ down[s][1] = Head(down[s]) /\ \A k \in DOMAIN down[s] : ~(k < 1)
  <2>1. down[s] \in Seq(Messages) /\ down[s] # <<>>
    BY <1>1, ComingTyped
  <2> QED BY <2>1, TailFacts
<1> QED BY <1>1, <1>2, <1>3 DEF OnTrack, Fits

\* A page never decodes a delta against a position other than the one it is the difference to, through
\* reconnects, resubscriptions, matches and restarts (delta-compression.ts:76-90), where every GET is
\* answered from the row as it still is when the page has the answer.
THEOREM DeltasFit ==
  ASSUME SlowAnswers = FALSE
  PROVE  Spec => []DeltaFitsPosition
<1>1. Init => Typed /\ FitInv
  BY InitIInv, InitShows, InitFits DEF Typed
<1>2. Typed /\ FitInv /\ [Next]_vars => Typed' /\ FitInv'
  <2> SUFFICES ASSUME Typed, FitInv, [Next]_vars PROVE Typed' /\ FitInv'
    OBVIOUS
  <2>1. Typed'
    BY TypedKept
  <2> QED BY <2>1, StepFits, StutterFits
<1>3. Typed /\ FitInv => DeltaFitsPosition
  BY FitsAtOnce
<1> QED BY <1>1, <1>2, <1>3, PTL DEF Spec

-----------------------------------------------------------------------------
(***************************************************************************)
(* The codec of the positions that are broadcast (DeltaCodec): how far a page *)
(* may be from what was sent.  One subscriber of one driver stands for all:   *)
(* a SubscriberInfo has a lastSent of its own.                                *)
(***************************************************************************)
CONSTANTS Positions, Statuses, Step, MaxDeltas, Null
VARIABLES lastSent, lastKnown, deltas

Codec == INSTANCE DeltaCodec

\* Rounding is off by half a step at most, whichever way the driver moves.
LEMMA RoundWithinHalf ==
  ASSUME Codec!CodecAssumption, NEW n \in Int
  PROVE  Codec!Round(n) \in Int /\ 2 * Codec!Off(Codec!Round(n) * Step - n) <= Step
<1> DEFINE q == (2 * n + Step) \div (2 * Step)
<1>1. Step \in Int /\ Step > 0
  BY DEF Codec!CodecAssumption
<1>2. q \in Int /\ 2 * Step * q <= 2 * n + Step /\ 2 * n + Step < 2 * Step * q + 2 * Step
  BY <1>1, Z3
<1>3. Codec!Round(n) = q
  BY DEF Codec!Round
<1> HIDE DEF q
<1>4. PICK x \in Int : x = q * Step
  BY <1>1, <1>2
<1>5. 2 * x <= 2 * n + Step /\ 2 * n + Step < 2 * x + 2 * Step
  BY <1>1, <1>2, <1>4
<1>6. 2 * Codec!Off(x - n) <= Step
  BY <1>1, <1>4, <1>5 DEF Codec!Off
<1> QED BY <1>2, <1>3, <1>4, <1>6

\* The page and the server agree on the status, and their positions differ by half a step for
\* every delta since the last full message, at most.
CodecInv == Codec!TypeOK /\ Codec!ErrorBound /\ Codec!StatusKept

LEMMA CodecInit == Codec!CodecAssumption /\ Codec!Init => CodecInv
BY DEF Codec!CodecAssumption, Codec!Init, CodecInv, Codec!TypeOK, Codec!ErrorBound, Codec!StatusKept

LEMMA CodecKeeps ==
  ASSUME Codec!CodecAssumption, CodecInv, NEW p \in Positions, NEW s \in Statuses, Codec!Broadcast([at |-> p, status |-> s])
  PROVE  CodecInv'
<1> DEFINE c == [at |-> p, status |-> s]
<1>0. p \in Int /\ Step \in Int /\ Step > 0 /\ Null \notin Statuses /\ c \in Codec!State /\ c # Null
  BY DEF Codec!CodecAssumption, Codec!State
<1>1. lastSent' = c
  BY DEF Codec!Broadcast
<1>2. CASE lastSent = Null
  <2>1. lastKnown' = c /\ deltas' = 0
    BY <1>2 DEF Codec!Broadcast, Codec!EncodeLocationMessage, Codec!DecodeLocationMessage
  <2>2. Codec!Off(c.at - c.at) = 0
    BY <1>0 DEF Codec!Off
  <2> QED BY <1>0, <1>1, <2>1, <2>2 DEF CodecInv, Codec!TypeOK, Codec!ErrorBound, Codec!StatusKept
<1>3. CASE lastSent # Null
  <2> DEFINE a == lastSent.at
             k == lastKnown.at
             r == Codec!Round(p - a)
  <2>1. a \in Int /\ k \in Int /\ lastSent.status \in Statuses /\ lastKnown.status = lastSent.status
        /\ lastKnown \in Codec!State /\ deltas \in Nat
    BY <1>0, <1>3 DEF Codec!CodecAssumption, CodecInv, Codec!TypeOK, Codec!StatusKept, Codec!State
  <2>2. r \in Int /\ 2 * Codec!Off(r * Step - (p - a)) <= Step
    BY <1>0, <2>1, RoundWithinHalf
  <2>3. lastKnown' = [at |-> k + r * Step, status |-> s] /\ deltas' = deltas + 1
    BY <1>0, <1>3, <2>1 DEF Codec!Broadcast, Codec!EncodeLocationMessage, Codec!DecodeLocationMessage
  <2>4. 2 * Codec!Off(k - a) <= Step * deltas
    BY <1>3 DEF CodecInv, Codec!ErrorBound
  <2> HIDE DEF a, k, r
  <2>5. PICK x \in Int : x = r * Step
    BY <1>0, <2>2
  <2>6. PICK e \in Int : e = Step * deltas
    BY <1>0, <2>1
  <2>7. Step * (deltas + 1) = e + Step
    BY <1>0, <2>1, <2>6
  <2>8. 2 * Codec!Off((k + x) - p) <= e + Step
    BY <1>0, <2>1, <2>2, <2>4, <2>5, <2>6 DEF Codec!Off
  <2>9. Codec!TypeOK'
    <3>1. k + x \in Int /\ lastKnown' = [at |-> k + x, status |-> s]
      BY <2>1, <2>3, <2>5 DEF k
    <3>2. lastKnown' \in Codec!State /\ lastKnown' # Null
      BY <3>1 DEF Codec!CodecAssumption, Codec!State
    <3>3. deltas' \in Nat
      BY <2>1, <2>3
    <3> QED BY <1>1, <3>2, <3>3 DEF Codec!TypeOK
  <2> QED BY <1>0, <1>1, <2>3, <2>5, <2>7, <2>8, <2>9 DEF CodecInv, Codec!ErrorBound, Codec!StatusKept
<1> QED BY <1>2, <1>3

\* However long a chain of deltas is, the page is within half a step per delta of the position
\* that was reported; the documented bound, half a step in all, is the one a run refutes.
THEOREM DriftIsBounded ==
  ASSUME Codec!CodecAssumption
  PROVE  Codec!Spec => [](Codec!ErrorBound /\ Codec!StatusKept)
<1>1. CodecInv /\ [Codec!Next]_(Codec!vars) => CodecInv'
  <2> SUFFICES ASSUME CodecInv, [Codec!Next]_(Codec!vars) PROVE CodecInv'
    OBVIOUS
  <2>1. ASSUME Codec!Resubscribe PROVE CodecInv'
    BY <2>1 DEF Codec!Resubscribe, CodecInv, Codec!TypeOK, Codec!ErrorBound, Codec!StatusKept
  <2>2. CASE UNCHANGED Codec!vars
    BY <2>2 DEF Codec!vars, CodecInv, Codec!TypeOK, Codec!ErrorBound, Codec!StatusKept
  <2> QED BY <2>1, <2>2, CodecKeeps DEF Codec!Next
<1>2. CodecInv => Codec!ErrorBound /\ Codec!StatusKept
  BY DEF CodecInv
<1> QED BY <1>1, <1>2, CodecInit, PTL DEF Codec!Spec
=============================================================================
