---------------------------- MODULE TripTracking ----------------------------
(***************************************************************************)
(* Following a trip, end to end: the rider's page posts a trip, subscribes   *)
(* to it over /ws/subscribe and shows what it hears; the server looks the     *)
(* trip up, registers the connection and tells it the outcome of matching    *)
(* and the driver's positions.  Connections break and are reopened, the       *)
(* server restarts.                                                          *)
(*                                                                           *)
(* Matching enters as what module TripAssignment promises of it, with one     *)
(* addition: between deciding a trip and telling its followers the run of     *)
(* matchTrip waits for a store, and anything may happen meanwhile.           *)
(*                                                                           *)
(* A watcher is a page that follows one driver and closes its connection to   *)
(* follow another; a rider's page keeps one connection for all its trips.    *)
(***************************************************************************)
EXTENDS Subscriptions, Naturals, FiniteSets

CONSTANTS
  Riders, Watchers,  \* pages
  NoConn,
  SlowAnswers,       \* may the answer of a GET be overtaken by a decision or by the rider?
  Faults,            \* may the server restart?
  MaxQueue           \* no position is broadcast to a connection with as many messages waiting

ASSUME PagesAssumption == Riders \cap Watchers = {}
ASSUME ConnsAssumption == Conns \subseteq Nat  \* numbered in the order they open
ASSUME NoConnAssumption == NoConn \notin Conns
ASSUME FlagsAssumption == SlowAnswers \in BOOLEAN /\ Faults \in BOOLEAN

VARIABLES
  tripStatus, tripDriver, tripReason, available,  \* the trips, as in TripAssignment
  run,      \* matchTrip of a trip: "none", "search", "announce" or "over"
  up,       \* the page's messages on a connection, not handled yet
  reads,    \* per connection, the answers to the handlers' queries that are on their way
  conn,     \* the page's connection, NoConn while it waits to reconnect
  wants,    \* SubscriberSocket.subscribeMessage
  posting,  \* the trip whose POST the rider's page is waiting for
  view,     \* what the page shows
  fetches   \* GET /trips/:id requests of the page and their answers

tripVars == <<tripStatus, tripDriver, tripReason, available>>
pageVars == <<conn, wants, posting, view, fetches>>
vars == <<sock, info, byTrip, byDriver, down, tripVars, run, up, reads, pageVars>>

Assignment == INSTANCE TripAssignment

Pages == Riders \cup Watchers
Ended == {"completed", "cancelled"}
Reasons == {"none", "no_drivers_available", "all_candidates_declined"}
TripStates == {"absent", "requested", "matched", "cancelled"}

\* Following nothing; sent to the server it is the message "unsubscribe".
Nothing == [trip |-> NoTrip, driver |-> NoDriver]
Wishes == [trip : Trips, driver : {NoDriver}] \cup [trip : {NoTrip}, driver : Drivers]

\* INITIAL_TRACKING_STATE
Blank == [status |-> "requested", driver |-> NoDriver, reason |-> "none", at |-> Nowhere]
Views == [status : TripStates, driver : Drivers \cup {NoDriver}, reason : Reasons,
          at : Places \cup {Nowhere}]

\* A row as GET /trips/:id and findTripById return it.
Row(t) == [trip |-> t, status |-> tripStatus[t], driver |-> tripDriver[t], reason |-> tripReason[t]]
Rows == [trip : Trips, status : TripStates, driver : Drivers \cup {NoDriver}, reason : Reasons]
\* A request the server has not answered yet.
Asked(t) == [trip |-> t, status |-> "asked", driver |-> NoDriver, reason |-> "none"]

TypeOK ==
  /\ RegistryTypeOK
  /\ tripStatus \in [Trips -> TripStates]
  /\ tripDriver \in [Trips -> Drivers \cup {NoDriver}]
  /\ tripReason \in [Trips -> Reasons]
  /\ available \subseteq Drivers
  /\ run \in [Trips -> {"none", "search", "announce", "over"}]
  /\ up \in [Conns -> Seq(Wishes \cup {Nothing})]
  /\ reads \in [Conns -> SUBSET (Rows \cup [trip : {NoTrip}, driver : Drivers])]
  /\ conn \in [Pages -> Conns \cup {NoConn}]
  /\ wants \in [Pages -> Wishes \cup {Nothing}]
  /\ posting \in [Riders -> Trips \cup {NoTrip}]
  /\ view \in [Pages -> Views]
  /\ fetches \in [Riders -> SUBSET (Rows \cup {Asked(t) : t \in Trips})]

Init ==
  /\ RegistryInit
  /\ Assignment!Init
  /\ run = [t \in Trips |-> "none"]
  /\ up = [s \in Conns |-> <<>>]
  /\ reads = [s \in Conns |-> {}]
  /\ conn = [p \in Pages |-> NoConn]
  /\ wants = [p \in Pages |-> Nothing]
  /\ posting = [p \in Riders |-> NoTrip]
  /\ view = [p \in Pages |-> Blank]
  /\ fetches = [p \in Riders |-> {}]

-----------------------------------------------------------------------------
(***************************************************************************)
(* Connections break while enough unused ones are left for the riders' pages  *)
(* to reopen theirs: the number of Conns bounds how often.                   *)
(***************************************************************************)
Spare == Cardinality({s \in Conns : sock[s] = "unused"})
Waiting(C) == Cardinality({p \in Riders : C[p] = NoConn})
CanReopen(C) == Spare >= Waiting(C)

\* What was on its way to the page is lost; the server does not know yet.
Hangup(p) ==
  /\ conn' = [conn EXCEPT ![p] = NoConn]
  /\ sock' = [s \in Conns |-> IF s = conn[p] THEN "lost" ELSE sock[s]]
  /\ down' = [s \in Conns |-> IF s = conn[p] THEN <<>> ELSE down[s]]

-----------------------------------------------------------------------------
(***************************************************************************)
(* The rider's page: TripRequestFlow, useTripTracking, SubscriberSocket.     *)
(***************************************************************************)
\* send: without an open connection the message is dropped.
SaidBy(p, messages) == IF conn[p] = NoConn THEN up ELSE [up EXCEPT ![conn[p]] = @ \o messages]

\* SubscriberSocket.subscribeToTrip and unsubscribe: the wish is remembered, and sent if it can be.
SetSubscription(p, wish) ==
  /\ wants' = [wants EXCEPT ![p] = wish]
  /\ up' = SaidBy(p, <<wish>>)

\* SubscriberSocket.onOpen
Resubscription(p) == IF wants[p] = Nothing THEN <<>> ELSE <<wants[p]>>

\* POST /trips: the row is inserted and matchTrip starts before the page has its answer.
PostTrip(p, t) ==
  /\ wants[p] = Nothing
  /\ posting[p] = NoTrip
  /\ Assignment!Request(t)
  /\ run' = [run EXCEPT ![t] = "search"]
  /\ posting' = [posting EXCEPT ![p] = t]
  /\ UNCHANGED <<sock, registryVars, down, up, reads, conn, wants, view, fetches>>

\* The 201 arrives: a fresh view, and the subscription goes out.
TrackTrip(p) ==
  LET wish == [trip |-> posting[p], driver |-> NoDriver] IN
  /\ posting[p] # NoTrip
  /\ posting' = [posting EXCEPT ![p] = NoTrip]
  /\ SetSubscription(p, wish)
  /\ view' = [view EXCEPT ![p] = Blank]
  /\ UNCHANGED <<sock, registryVars, down, tripVars, run, reads, conn, fetches>>

\* "Request another trip" is offered once the view is terminal.
RequestAnother(p) ==
  /\ wants[p].trip # NoTrip
  /\ view[p].status \in Ended
  /\ SlowAnswers \/ fetches[p] = {}
  /\ SetSubscription(p, Nothing)
  /\ view' = [view EXCEPT ![p] = Blank]
  /\ UNCHANGED <<sock, registryVars, down, tripVars, run, reads, conn, posting, fetches>>

\* useDriverTracking: the old connection is closed, the new one subscribes when it opens.
Watch(p, d) ==
  /\ wants[p].driver # d
  /\ CanReopen([conn EXCEPT ![p] = NoConn])
  /\ Hangup(p)
  /\ wants' = [wants EXCEPT ![p] = [trip |-> NoTrip, driver |-> d]]
  /\ view' = [view EXCEPT ![p] = [Blank EXCEPT !.driver = d]]
  /\ UNCHANGED <<registryVars, tripVars, run, up, reads, posting, fetches>>

\* A connection opens and the remembered subscription is repeated.
Open(p, s) ==
  /\ conn[p] = NoConn
  /\ sock[s] = "unused" /\ \A c \in Conns : c < s => sock[c] # "unused"
  /\ p \in Watchers => wants[p] # Nothing /\ Spare > Waiting(conn)
  /\ sock' = [sock EXCEPT ![s] = "open"]
  /\ conn' = [conn EXCEPT ![p] = s]
  /\ up' = [up EXCEPT ![s] = Resubscription(p)]
  /\ UNCHANGED <<registryVars, down, tripVars, run, reads, wants, posting, view, fetches>>

\* decodeLocationMessage: a delta is added to the position the page has, whatever it was sent for.
Located(v, m) ==
  IF m.driver # v.driver THEN v
  ELSE IF m.kind = "location" THEN [v EXCEPT !.at = m.to]
  ELSE [v EXCEPT !.at = IF @ = m.from THEN m.to ELSE @]

MutApplied(v, m) ==
  CASE m.kind = "subscribed" /\ m.driver # NoDriver ->
         [v EXCEPT !.driver = m.driver, !.status = IF @ = "requested" THEN "matched" ELSE @]
    [] m.kind = "trip_matched" -> [Blank EXCEPT !.driver = m.driver, !.status = "matched"]
    [] m.kind = "trip_cancelled" -> [v EXCEPT !.status = "cancelled"]
    [] m.kind \in {"location", "delta"} -> Located(v, m)
    [] OTHER -> v

\* applyTripMessage
Applied(v, m) ==
  CASE m.kind = "subscribed" /\ m.driver # NoDriver ->
         [v EXCEPT !.driver = m.driver, !.status = IF @ = "requested" THEN "matched" ELSE @]
    [] m.kind = "trip_matched" -> [v EXCEPT !.driver = m.driver, !.status = "matched"]
    [] m.kind = "trip_cancelled" -> [v EXCEPT !.status = "cancelled"]
    [] m.kind \in {"location", "delta"} -> Located(v, m)
    [] OTHER -> v

\* resolve_final_state asks for the trip the page follows now.
Receive(p) ==
  LET m == Head(down[conn[p]]) IN
  /\ conn[p] # NoConn
  /\ down[conn[p]] # <<>>
  /\ down' = [down EXCEPT ![conn[p]] = Tail(@)]
  /\ view' = [view EXCEPT ![p] = IF p \in Riders \/ m.kind \in {"location", "delta"}
                                 THEN Applied(@, m) ELSE @]
  /\ fetches' = [q \in Riders |->
       IF q = p /\ wants[p].trip # NoTrip /\ m.kind \in {"trip_cancelled", "already_ended"}
       THEN fetches[q] \cup {Asked(wants[p].trip)} ELSE fetches[q]]
  /\ UNCHANGED <<sock, registryVars, tripVars, run, up, reads, conn, wants, posting>>

\* GET /trips/:id reads the row ...
FetchRead(p, f) ==
  /\ f.status = "asked"
  /\ fetches' = [fetches EXCEPT ![p] = (@ \ {f}) \cup {Row(f.trip)}]
  /\ UNCHANGED <<sock, registryVars, down, tripVars, run, up, reads, conn, wants, posting, view>>

MutFetchApplied(p, f) ==
  /\ fetches' = [fetches EXCEPT ![p] = @ \ {f}]
  /\ view' = [view EXCEPT ![p] = [@ EXCEPT !.status = f.status, !.driver = f.driver, !.reason = f.reason]]
  /\ UNCHANGED <<sock, registryVars, down, tripVars, run, up, reads, conn, wants, posting>>

\* ... and the answer goes into whatever view the page has by then.
FetchApplied(p, f) ==
  /\ f.status # "asked"
  /\ fetches' = [fetches EXCEPT ![p] = @ \ {f}]
  /\ view' = [view EXCEPT ![p] = [@ EXCEPT !.status = f.status, !.driver = f.driver, !.reason = f.reason]]
  /\ UNCHANGED <<sock, registryVars, down, tripVars, run, up, reads, conn, wants, posting>>

-----------------------------------------------------------------------------
(***************************************************************************)
(* The server: routes/ws.ts, and the ends of matchTrip.                      *)
(***************************************************************************)
\* A message is handled: an unsubscription at once, a subscription up to its query.
Handle(s) ==
  LET m == Head(up[s]) IN
  /\ sock[s] \in {"open", "lost"}
  /\ up[s] # <<>>
  /\ up' = [up EXCEPT ![s] = Tail(@)]
  /\ IF m = Nothing
     THEN Unsubscribe(s) /\ UNCHANGED reads
     ELSE /\ reads' = [reads EXCEPT ![s] = @ \cup {IF m.driver # NoDriver THEN m ELSE Row(m.trip)}]
          /\ UNCHANGED <<registryVars, down>>
  /\ UNCHANGED <<sock, tripVars, run, pageVars>>

Follow(s, r) ==
  IF r.trip = NoTrip THEN SubscribeToDriver(s, r.driver) ELSE SubscribeToTrip(s, r.trip, r.driver)

MutReadReturns(s, r) ==
  /\ reads' = [reads EXCEPT ![s] = @ \ {r}]
  /\ IF r.trip # NoTrip /\ r.status \in Ended
     THEN UNCHANGED <<registryVars, down>>
     ELSE Follow(s, r)
  /\ UNCHANGED <<sock, tripVars, run, up, pageVars>>

\* The query is answered and the handler goes on, whatever became of the socket.
ReadReturns(s, r) ==
  /\ reads' = [reads EXCEPT ![s] = @ \ {r}]
  /\ IF r.trip # NoTrip /\ r.status \in Ended
     THEN /\ down' = Sent({s}, LAMBDA c : [kind |-> "already_ended"])
          /\ UNCHANGED registryVars
     ELSE Follow(s, r)
  /\ UNCHANGED <<sock, tripVars, run, up, pageVars>>

\* The server learns that the page is gone: a close frame, or the heartbeat's terminate().
SocketClosed(s) ==
  /\ sock[s] = "lost"
  /\ sock' = [sock EXCEPT ![s] = "closed"]
  /\ Unsubscribe(s)
  /\ up' = [up EXCEPT ![s] = <<>>]
  /\ UNCHANGED <<tripVars, run, reads, pageVars>>

\* tryFinalizeMatch or markTripUnmatched commits.
Decide(t) ==
  /\ run[t] = "search"
  /\ SlowAnswers \/ \A p \in Riders : \A f \in fetches[p] : f.trip = t => f.status = "asked"
  /\ Assignment!Resolve(t)
  /\ run' = [run EXCEPT ![t] = "announce"]
  /\ UNCHANGED <<sock, registryVars, down, up, reads, pageVars>>

\* notifyTripMatched or notifyTripStatusChanged, after the wait that follows the commit.
Announce(t) ==
  /\ run[t] = "announce"
  /\ run' = [run EXCEPT ![t] = "over"]
  /\ \/ tripStatus[t] = "matched" /\ NotifyTripMatched(t, tripDriver[t])
     \/ tripStatus[t] = "cancelled" /\ NotifyTripCancelled(t)
  /\ UNCHANGED <<sock, tripVars, up, reads, pageVars>>

\* A flush of the location batch broadcasts a driver's position.
Broadcast(d, place) ==
  /\ byDriver[d] # {}
  /\ \A s \in byDriver[d] : Len(down[s]) < MaxQueue
  /\ BroadcastDriverLocation(d, place)
  /\ UNCHANGED <<sock, tripVars, run, up, reads, pageVars>>

-----------------------------------------------------------------------------
\* The connection breaks.
Lose(p) ==
  /\ conn[p] # NoConn
  /\ CanReopen([conn EXCEPT ![p] = NoConn])
  /\ Hangup(p)
  /\ UNCHANGED <<registryVars, tripVars, run, up, reads, wants, posting, view, fetches>>

\* The process ends: no registration, no run of matchTrip and no request survives it.
Restart ==
  /\ Faults
  /\ CanReopen([p \in Pages |-> NoConn])
  /\ sock' = [s \in Conns |-> IF sock[s] \in {"open", "lost"} THEN "closed" ELSE sock[s]]
  /\ info' = [s \in Conns |-> Unregistered]
  /\ byTrip' = [t \in Trips |-> {}]
  /\ byDriver' = [d \in Drivers |-> {}]
  /\ run' = [t \in Trips |-> IF run[t] = "none" THEN "none" ELSE "over"]
  /\ conn' = [p \in Pages |-> NoConn]
  /\ posting' = [p \in Riders |-> NoTrip]
  /\ fetches' = [p \in Riders |-> {}]
  /\ up' = [s \in Conns |-> <<>>]
  /\ down' = [s \in Conns |-> <<>>]
  /\ reads' = [s \in Conns |-> {}]
  /\ UNCHANGED <<tripVars, wants, view>>

-----------------------------------------------------------------------------
PageStep(p) ==
  \/ Receive(p) \/ \E s \in Conns : Open(p, s)
  \/ p \in Riders /\ (TrackTrip(p) \/ \E f \in fetches[p] : FetchRead(p, f) \/ FetchApplied(p, f))

ServerStep ==
  \/ \E s \in Conns : Handle(s) \/ SocketClosed(s) \/ \E r \in reads[s] : ReadReturns(s, r)
  \/ \E t \in Trips : Decide(t) \/ Announce(t)

Next ==
  \/ \E p \in Pages : PageStep(p) \/ Lose(p)
  \/ \E p \in Riders : RequestAnother(p) \/ \E t \in Trips : PostTrip(p, t)
  \/ \E p \in Watchers, d \in Drivers : Watch(p, d)
  \/ ServerStep
  \/ \E d \in Drivers, place \in Places : Broadcast(d, place)
  \/ Restart

Spec == Init /\ [][Next]_vars

\* Pages and the server keep running, messages and answers arrive, lost connections are noticed.
FairSpec ==
  /\ Spec
  /\ \A p \in Pages : WF_vars(Receive(p)) /\ WF_vars(\E s \in Conns : Open(p, s))
  /\ \A p \in Riders :
       /\ WF_vars(TrackTrip(p))
       /\ WF_vars(\E f \in fetches[p] : FetchRead(p, f))
       /\ WF_vars(\E f \in fetches[p] : FetchApplied(p, f))
  /\ \A s \in Conns :
       /\ WF_vars(Handle(s)) /\ WF_vars(SocketClosed(s))
       /\ WF_vars(\E r \in reads[s] : ReadReturns(s, r))
  /\ \A t \in Trips : WF_vars(Decide(t)) /\ WF_vars(Announce(t))

-----------------------------------------------------------------------------
(***************************************************************************)
(* Properties.                                                              *)
(***************************************************************************)
\* The two indices and the per-socket map tell the same story, so that a broadcast or a
\* notification reaches exactly the connections registered for it (ws/subscriptions.ts:45-72).
IndicesAgree ==
  /\ \A t \in Trips : byTrip[t] = {s \in Conns : info[s].trip = t}
  /\ \A d \in Drivers : byDriver[d] = {s \in Conns : info[s].driver = d}

\* A page never decodes a delta against a position other than the one it is the difference to,
\* through reconnects, resubscriptions and a match in between (delta-compression.ts:76-90).
DeltaFitsPosition ==
  \A p \in Pages : conn[p] # NoConn /\ down[conn[p]] # <<>> =>
    LET m == Head(down[conn[p]]) IN
    m.kind = "delta" /\ m.driver = view[p].driver => view[p].at = m.from

\* A page that reconnects after its trip was decided, and was still showing it as requested, gets
\* to show the outcome: subscribing again makes up for whatever it missed (subscriberSocket.ts:20-27,
\* routes/ws.ts:109-120).
ReconnectHeals ==
  \A p \in Riders, t \in Trips :
    /\ wants[p].trip = t /\ tripStatus[t] \in {"matched", "cancelled"}
    /\ conn[p] = NoConn /\ view[p].status = "requested" /\ fetches[p] = {}
    ~> wants[p].trip # t \/ view[p].status = tripStatus[t]

=============================================================================
