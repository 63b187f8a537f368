---------------------------- MODULE Subscriptions ----------------------------
(***************************************************************************)
(* The subscription registry of the server: which connection of              *)
(* /ws/subscribe follows which trip and which driver, and the position each   *)
(* one was last sent.  Every function of ws/subscriptions.ts is synchronous,  *)
(* so each is one step here; what it sends goes to the end of the             *)
(* connection's outgoing queue.                                              *)
(*                                                                           *)
(* A connection has at most one SubscriberInfo, so the two indices hold       *)
(* connections where the code holds the info objects.  A delta is kept as     *)
(* the pair of positions it is the difference of.                            *)
(***************************************************************************)
EXTENDS Sequences

CONSTANTS
  Conns,             \* connections of GET /ws/subscribe, each used once
  Trips, NoTrip,
  Drivers, NoDriver,
  Places             \* the positions a driver reports

ASSUME NoTripAssumption == NoTrip \notin Trips
ASSUME NoDriverAssumption == NoDriver \notin Drivers

VARIABLES
  sock,       \* a connection: "unused", "open", "lost" (the server has not noticed) or "closed"
  info,       \* subscriberBySocket
  byTrip,     \* subscribersByTripId
  byDriver,   \* subscribersByDriverId
  down        \* what was sent on a connection and has not reached the page yet

registryVars == <<info, byTrip, byDriver>>

Nowhere == "nowhere"
ASSUME NowhereAssumption == Nowhere \notin Places
Unregistered == [trip |-> NoTrip, driver |-> NoDriver, lastSent |-> Nowhere]

Infos == [trip : Trips \cup {NoTrip}, driver : Drivers \cup {NoDriver},
          lastSent : Places \cup {Nowhere}]

Messages ==
  [kind : {"subscribed", "trip_matched"}, driver : Drivers \cup {NoDriver}]
    \cup [kind : {"trip_cancelled", "already_ended"}]
    \cup [kind : {"location"}, driver : Drivers, to : Places]
    \cup [kind : {"delta"}, driver : Drivers, from : Places, to : Places]

RegistryTypeOK ==
  /\ sock \in [Conns -> {"unused", "open", "lost", "closed"}]
  /\ info \in [Conns -> Infos \cup {Unregistered}]
  /\ byTrip \in [Trips -> SUBSET Conns]
  /\ byDriver \in [Drivers -> SUBSET Conns]
  /\ down \in [Conns -> Seq(Messages)]

RegistryInit ==
  /\ sock = [s \in Conns |-> "unused"]
  /\ info = [s \in Conns |-> Unregistered]
  /\ byTrip = [t \in Trips |-> {}]
  /\ byDriver = [d \in Drivers |-> {}]
  /\ down = [s \in Conns |-> <<>>]

\* sendJson: what is sent on a lost connection never arrives, on a closed one it is skipped.
Sent(conns, message(_)) ==
  [s \in Conns |-> IF s \in conns /\ sock[s] = "open" THEN Append(down[s], message(s)) ELSE down[s]]

\* addToIndex and removeFromIndex; a null key is in no index.
Add(index, key, conns) == [k \in DOMAIN index |-> IF k = key THEN index[k] \cup conns ELSE index[k]]
Remove(index, key, conns) == [k \in DOMAIN index |-> IF k = key THEN index[k] \ conns ELSE index[k]]

\* The indices after detach(info[s]), which is nothing for an unknown socket.
TripIndexWithout(s) == Remove(byTrip, info[s].trip, {s})
DriverIndexWithout(s) == Remove(byDriver, info[s].driver, {s})

-----------------------------------------------------------------------------
\* replaceExisting, the new info under its keys, then the caller's "subscribed".
Register(s, t, d) ==
  /\ info' = [info EXCEPT ![s] = [trip |-> t, driver |-> d, lastSent |-> Nowhere]]
  /\ byTrip' = Add(TripIndexWithout(s), t, {s})
  /\ byDriver' = Add(DriverIndexWithout(s), d, {s})
  /\ down' = Sent({s}, LAMBDA c : [kind |-> "subscribed", driver |-> d])

SubscribeToTrip(s, t, d) == Register(s, t, d)
SubscribeToDriver(s, d) == Register(s, NoTrip, d)

\* The page ignores the answer to its own request, which is therefore left out.
Unsubscribe(s) ==
  /\ info' = [info EXCEPT ![s] = Unregistered]
  /\ byTrip' = TripIndexWithout(s)
  /\ byDriver' = DriverIndexWithout(s)
  /\ UNCHANGED down

MutNotifyTripMatched(t, d) ==
  LET moved == {s \in byTrip[t] : info[s].driver # d} IN
  /\ info' = [s \in Conns |-> IF s \in moved THEN [info[s] EXCEPT !.driver = d] ELSE info[s]]
  /\ down' = Sent(byTrip[t], LAMBDA c : [kind |-> "trip_matched", driver |-> d])
  /\ UNCHANGED <<byTrip, byDriver>>

\* Followers of the trip are moved onto its driver and told.
NotifyTripMatched(t, d) ==
  LET moved == {s \in byTrip[t] : info[s].driver # d} IN
  /\ info' = [s \in Conns |-> IF s \in moved THEN [info[s] EXCEPT !.driver = d] ELSE info[s]]
  /\ byDriver' = [e \in Drivers |-> IF e = d THEN byDriver[e] \cup moved
                                    ELSE byDriver[e] \ {s \in moved : info[s].driver = e}]
  /\ down' = Sent(byTrip[t], LAMBDA c : [kind |-> "trip_matched", driver |-> d])
  /\ UNCHANGED byTrip

\* Followers of the trip are told it is cancelled and detached.
NotifyTripCancelled(t) ==
  /\ info' = [s \in Conns |-> IF s \in byTrip[t] THEN Unregistered ELSE info[s]]
  /\ byTrip' = Remove(byTrip, t, byTrip[t])
  /\ byDriver' = [d \in Drivers |-> byDriver[d] \ {s \in byTrip[t] : info[s].driver = d}]
  /\ down' = Sent(byTrip[t], LAMBDA c : [kind |-> "trip_cancelled"])

\* Each subscriber gets the position in full the first time and a delta afterwards.
BroadcastDriverLocation(d, place) ==
  /\ down' = Sent(byDriver[d],
       LAMBDA c : IF info[c].lastSent = Nowhere
                  THEN [kind |-> "location", driver |-> d, to |-> place]
                  ELSE [kind |-> "delta", driver |-> d, from |-> info[c].lastSent, to |-> place])
  /\ info' = [s \in Conns |-> IF s \in byDriver[d] THEN [info[s] EXCEPT !.lastSent = place] ELSE info[s]]
  /\ UNCHANGED <<byTrip, byDriver>>
=============================================================================
