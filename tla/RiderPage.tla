------------------------------ MODULE RiderPage ------------------------------
(***************************************************************************)
(* routes/RiderView.tsx and components/TripRequestFlow.tsx with the hooks     *)
(* useRiderIdentity, useSurgeAtPoint, useTripTracking and useTripEta: one     *)
(* rider's page from the check of who the rider is and the choice of two      *)
(* points to the end of the trip, its requests, what it keeps in              *)
(* localStorage, and reloads at any moment.                                   *)
(*                                                                           *)
(* A change of state is on screen, and its effects have run, only after the   *)
(* next Commit; clicks meet what is on screen.  Which message the page gets   *)
(* about its trip is TripTracking's matter: here any that the row allows      *)
(* comes, or none.                                                           *)
(***************************************************************************)
EXTENDS Integers, FiniteSets, PickupPrice

CONSTANTS
  Trips,
  Posts,        \* POST /trips under way at once, those of unloaded pages among them
  NoTrip

ASSUME RiderAssumption == NoTrip \notin Trips

VARIABLES
  row,         \* trips.status, "none" before the INSERT
  matching,    \* the trips matchTrip has been called for
  post,        \* the POSTs: how far the server is, the trip, and whether this page waits for it
  rider,       \* whether localStorage has a ride-tracking.riderId
  stored,      \* localStorage ride-tracking.currentTripId
  flow,        \* the screen, its phase and trip; while resuming, also what GET /trips/:id has read
  submitting,  \* submittingRef
  rendered,    \* the flow, the pickup and isTerminal that are on screen
  view,        \* tracking.status
  finals,      \* the trips a resolve_final_state is fetching
  etaPoll,     \* the interval of useTripEta
  etaAsked,    \* its GETs under way, each with whether its effect is still in force
  etaShown,    \* the trip of the ETA in its state
  unknown,     \* history: the trips whose id has never come to the page that asked for them
  replaced,    \* history: the trips another trip's id was stored over
  about,       \* history: the trip of the answer view comes from, when the page followed another
  misled       \* history: the trips shown with such a view that was an end

serverVars == <<row, matching>>
trackVars == <<view, finals, about>>
riderVars == <<rider, priceVars>>
etaVars == <<etaPoll, etaAsked, etaShown>>
history == <<unknown, replaced, misled>>
vars == <<row, matching, post, rider, stored, flow, submitting, rendered, view, finals,
          etaPoll, etaAsked, etaShown, unknown, replaced, about, misled, priceVars>>

-----------------------------------------------------------------------------
Ended == {"completed", "cancelled"}
Status == {"requested", "matched", "in_progress"} \cup Ended
Active(t) == row[t] \in Status \ Ended

At(phase, t) == [phase |-> phase, trip |-> t, read |-> "none"]
NoPost == [at |-> "none", trip |-> NoTrip, mine |-> FALSE]

\* trackedTripId and isTerminal as the next Commit will compute them.
Tracked(f) == IF f.phase = "tracking" THEN f.trip ELSE NoTrip
Screen == [flow |-> flow, pickup |-> pickup, terminal |-> view \in Ended]

\* The first three are useRiderIdentity's, the others those of TripRequestFlow, mounted once
\* the rider is known.
Flow == [phase : {"checking", "needs_rider", "check_failed",
                  "resuming", "picking", "submitting", "error", "tracking"},
         trip : Trips \cup {NoTrip}, read : Status \cup {"none"}]

TypeOK ==
  /\ row \in [Trips -> Status \cup {"none"}]
  /\ matching \subseteq Trips
  /\ post \in [Posts -> [at : {"none", "sent", "inserted", "ok", "failed"},
                         trip : Trips \cup {NoTrip}, mine : BOOLEAN]]
  /\ rider \in BOOLEAN
  /\ stored \in Trips \cup {NoTrip}
  /\ flow \in Flow
  /\ flow.phase = "tracking" => flow.trip # NoTrip
  /\ submitting \in BOOLEAN
  /\ rendered \in [flow : Flow, pickup : Points \cup {NoPoint}, terminal : BOOLEAN]
  /\ view \in Status
  /\ finals \subseteq Trips
  /\ etaPoll \in {"off", "on", "stopped"}
  /\ etaAsked \subseteq [trip : Trips, live : BOOLEAN]
  /\ etaShown \in Trips \cup {NoTrip}
  /\ unknown \subseteq Trips /\ replaced \subseteq Trips /\ misled \subseteq Trips
  /\ about \in Trips \cup {NoTrip}
  /\ PriceTypeOK

Init ==
  /\ row = [t \in Trips |-> "none"]
  /\ matching = {}
  /\ post = [s \in Posts |-> NoPost]
  /\ rider = FALSE
  /\ stored = NoTrip
  /\ flow = At("needs_rider", NoTrip)
  /\ PriceInit
  /\ submitting = FALSE
  /\ view = "requested"
  /\ rendered = Screen
  /\ finals = {}
  /\ etaPoll = "off"
  /\ etaAsked = {}
  /\ etaShown = NoTrip
  /\ unknown = {}
  /\ replaced = {}
  /\ about = NoTrip
  /\ misled = {}

-----------------------------------------------------------------------------
(***************************************************************************)
(* POST /trips.                                                              *)
(***************************************************************************)
Goes(s, fields) == post' = [post EXCEPT ![s] = fields]

\* What a failure leaves to the page, or to nobody.
Fails(s) == Goes(s, IF post[s].mine THEN [post[s] EXCEPT !.at = "failed"] ELSE NoPost)

MutHandleSubmit(s) ==
  /\ rendered.flow.phase = "picking" /\ rendered.pickup # NoPoint /\ dropoff
  /\ post[s] = NoPost
  /\ submitting' = TRUE
  /\ flow' = At("submitting", NoTrip)
  /\ Goes(s, [at |-> "sent", trip |-> NoTrip, mine |-> TRUE])
  /\ UNCHANGED <<serverVars, riderVars, stored, rendered, trackVars, etaVars, history>>

\* handleSubmit: the button on screen is enabled while picking with both points, the ref not set.
HandleSubmit(s) ==
  /\ rendered.flow.phase = "picking" /\ rendered.pickup # NoPoint /\ dropoff
  /\ ~submitting
  /\ post[s] = NoPost
  /\ submitting' = TRUE
  /\ flow' = At("submitting", NoTrip)
  /\ Goes(s, [at |-> "sent", trip |-> NoTrip, mine |-> TRUE])
  /\ UNCHANGED <<serverVars, riderVars, stored, rendered, trackVars, etaVars, history>>

\* Not reached, refused, or failed before the INSERT.
PostRefused(s) ==
  /\ post[s].at = "sent"
  /\ Fails(s)
  /\ UNCHANGED <<serverVars, riderVars, stored, flow, submitting, rendered, trackVars, etaVars, history>>

\* requestTrip: the row is there before anybody knows its id.
PostInserts(s, t) ==
  /\ post[s].at = "sent"
  /\ row[t] = "none"
  /\ row' = [row EXCEPT ![t] = "requested"]
  /\ Goes(s, [at |-> "inserted", trip |-> t, mine |-> post[s].mine])
  /\ unknown' = IF post[s].mine THEN unknown ELSE unknown \cup {t}
  /\ UNCHANGED <<matching, riderVars, stored, flow, submitting, rendered, trackVars, etaVars, replaced, misled>>

\* estimateFare rejects, or the process ends: the trip stays, nobody matches it.
PostBreaks(s) ==
  /\ post[s].at = "inserted"
  /\ Fails(s)
  /\ unknown' = unknown \cup {post[s].trip}
  /\ UNCHANGED <<serverVars, riderVars, stored, flow, submitting, rendered, trackVars, etaVars, replaced, misled>>

\* The answer is sent, then matchTrip is called.
PostReplies(s) ==
  /\ post[s].at = "inserted"
  /\ Goes(s, IF post[s].mine THEN [post[s] EXCEPT !.at = "ok"] ELSE NoPost)
  /\ matching' = matching \cup {post[s].trip}
  /\ UNCHANGED <<row, riderVars, stored, flow, submitting, rendered, trackVars, etaVars, history>>

AnswerLost(s) ==
  /\ post[s].at = "ok"
  /\ Fails(s)
  /\ unknown' = unknown \cup {post[s].trip}
  /\ UNCHANGED <<serverVars, riderVars, stored, flow, submitting, rendered, trackVars, etaVars, replaced, misled>>

\* handleSubmit after its await.  The phase its click has set is on screen by then.
PostAnswered(s) ==
  /\ post[s].mine /\ post[s].at \in {"ok", "failed"}
  /\ rendered.flow.phase = "submitting"
  /\ submitting' = FALSE
  /\ Goes(s, NoPost)
  /\ IF post[s].at = "ok"
     THEN /\ stored' = post[s].trip
          /\ flow' = At("tracking", post[s].trip)
          /\ replaced' = IF stored = NoTrip THEN replaced ELSE replaced \cup {stored}
     ELSE flow' = At("error", NoTrip) /\ UNCHANGED <<stored, replaced>>
  /\ UNCHANGED <<serverVars, riderVars, rendered, trackVars, etaVars, unknown, misled>>

\* The matcher, the driver and whatever completes a trip.
TripMoves(t) ==
  /\ t \in matching
  /\ \/ row[t] = "requested" /\ \E s \in {"matched", "cancelled"} : row' = [row EXCEPT ![t] = s]
     \/ row[t] = "matched" /\ row' = [row EXCEPT ![t] = "in_progress"]
     \/ row[t] = "in_progress" /\ row' = [row EXCEPT ![t] = "completed"]
  /\ UNCHANGED <<matching, riderVars, post, stored, flow, submitting, rendered, trackVars, etaVars, history>>

-----------------------------------------------------------------------------
(***************************************************************************)
(* React: the screen follows the state, and the effects of what has changed  *)
(* run in the order they are declared in.                                    *)
(***************************************************************************)
\* The effect of lines 91-95 sees the status this render was made with.
Forgets(t) == t # NoTrip /\ view \in Ended

MutPolls(t) == view \notin Ended
\* The ETA of a trip is polled while the page follows the trip.
Polls(t) == t # NoTrip /\ view \notin Ended

MutResets(old, new) == new \notin {old, NoTrip}
\* The tracking state starts again with every change of the trip, the one to none included.
Resets(old, new) == new # old

\* useSurgeAtPoint is enabled.
Picking(f) == f.phase = "picking"

Commit ==
  LET old == Tracked(rendered.flow)
      new == Tracked(flow)
  IN
  /\ rendered # Screen
  /\ rendered' = Screen
  /\ view' = IF Resets(old, new) THEN "requested" ELSE view
  /\ about' = IF new = old THEN about ELSE NoTrip
  /\ stored' = IF Forgets(new) THEN NoTrip ELSE stored
  /\ misled' = IF Forgets(new) /\ about # NoTrip THEN misled \cup {new} ELSE misled
  /\ IF new = old /\ Polls(new) = (old # NoTrip /\ ~rendered.terminal) THEN UNCHANGED etaVars
     ELSE /\ etaPoll' = IF Polls(new) THEN "on" ELSE "off"
          /\ etaAsked' = {[trip |-> a.trip, live |-> FALSE] : a \in etaAsked}
          /\ etaShown' = IF Polls(new) THEN etaShown ELSE NoTrip
  /\ IF pickup = rendered.pickup /\ Picking(flow) = Picking(rendered.flow)
     THEN UNCHANGED <<pricePoll, priceAsked, priceShown, carried>>
     ELSE PriceEffect(pickup, Picking(flow))
  /\ UNCHANGED <<serverVars, rider, pickup, dropoff, post, flow, submitting, finals, unknown, replaced>>

\* "Request another trip" is on screen with a terminal status.
HandleRequestAnother ==
  /\ Tracked(rendered.flow) # NoTrip /\ rendered.terminal
  /\ stored' = NoTrip
  /\ pickup' = NoPoint /\ dropoff' = FALSE
  /\ flow' = At("picking", NoTrip)
  /\ UNCHANGED <<serverVars, rider, pricePoll, priceAsked, priceShown, carried, post, submitting,
                 rendered, trackVars, etaVars, history>>

\* The map is there, and never locked, until the page follows a trip.
ChoosePoints ==
  /\ rendered.flow.phase \in {"picking", "submitting", "error"}
  /\ SetDropoff \/ \E p \in Points : SetPickup(p)
  /\ UNCHANGED <<serverVars, rider, post, stored, flow, submitting, rendered, trackVars, etaVars, history>>

SurgePoll ==
  /\ PriceAsks(rendered.pickup) \/ \E a \in priceAsked : PriceAnswered(a)
  /\ UNCHANGED <<serverVars, rider, post, stored, flow, submitting, rendered, trackVars, etaVars, history>>

-----------------------------------------------------------------------------
(***************************************************************************)
(* useTripTracking: applyMessage, for the messages about the tracked trip.    *)
(***************************************************************************)
Following == Tracked(rendered.flow)

ToldMatched ==
  /\ Following # NoTrip
  /\ row[Following] \in {"matched", "in_progress"}
  /\ view' = "matched"
  /\ about' = NoTrip
  /\ UNCHANGED <<serverVars, riderVars, post, stored, flow, submitting, rendered, finals, etaVars, history>>

\* unsubscribed with reason trip_cancelled.
ToldCancelled ==
  /\ Following # NoTrip
  /\ row[Following] = "cancelled"
  /\ view' = "cancelled"
  /\ about' = NoTrip
  /\ finals' = finals \cup {Following}
  /\ UNCHANGED <<serverVars, riderVars, post, stored, flow, submitting, rendered, etaVars, history>>

\* A subscription is refused because the trip has already ended.
ToldEnded ==
  /\ Following # NoTrip
  /\ row[Following] \in Ended
  /\ finals' = finals \cup {Following}
  /\ UNCHANGED <<serverVars, riderVars, post, stored, flow, submitting, rendered, view, about, etaVars, history>>

\* The answer goes into the state, whatever the page follows by then.
FinalState(t) ==
  /\ t \in finals
  /\ finals' = finals \ {t}
  /\ view' = row[t]
  /\ about' = IF t = Following THEN NoTrip ELSE t
  /\ UNCHANGED <<serverVars, riderVars, post, stored, flow, submitting, rendered, etaVars, history>>

\* A failure is ignored; there is no other attempt.
FinalStateFails(t) ==
  /\ t \in finals
  /\ finals' = finals \ {t}
  /\ UNCHANGED <<serverVars, riderVars, post, stored, flow, submitting, rendered, view, about, etaVars, history>>

-----------------------------------------------------------------------------
(***************************************************************************)
(* useTripEta.                                                               *)
(***************************************************************************)
\* At once when the effect runs, then at every interval.
EtaAsks ==
  /\ etaPoll = "on"
  /\ etaAsked' = etaAsked \cup {[trip |-> Following, live |-> TRUE]}
  /\ UNCHANGED <<serverVars, riderVars, post, stored, flow, submitting, rendered, trackVars,
                 etaPoll, etaShown, history>>

MutEtaAnswered(a) ==
  /\ a \in etaAsked
  /\ etaAsked' = etaAsked \ {a}
  /\ \/ etaShown' = a.trip /\ UNCHANGED etaPoll
     \/ etaShown' = NoTrip /\ etaPoll' = "stopped"
     \/ UNCHANGED <<etaShown, etaPoll>>
  /\ UNCHANGED <<serverVars, riderVars, post, stored, flow, submitting, rendered, trackVars, history>>

\* 200; any api_error, which stops the interval; or a network error, which changes nothing.
EtaAnswered(a) ==
  /\ a \in etaAsked
  /\ etaAsked' = etaAsked \ {a}
  /\ \/ a.live /\ etaShown' = a.trip /\ UNCHANGED etaPoll
     \/ a.live /\ etaShown' = NoTrip /\ etaPoll' = "stopped"
     \/ UNCHANGED <<etaShown, etaPoll>>
  /\ UNCHANGED <<serverVars, riderVars, post, stored, flow, submitting, rendered, trackVars, history>>

-----------------------------------------------------------------------------
(***************************************************************************)
(* A reload, and the resumption of the stored trip when the page is mounted. *)
(***************************************************************************)
Shows(f) == flow' = f /\ rendered' = [rendered EXCEPT !.flow = f]

\* useRiderIdentity asks for the stored rider before anything else.
Reload ==
  /\ flow' = At(IF rider THEN "checking" ELSE "needs_rider", NoTrip)
  /\ PriceReset
  /\ rendered' = [flow |-> flow', pickup |-> NoPoint, terminal |-> FALSE]
  /\ submitting' = FALSE
  /\ view' = "requested"
  /\ finals' = {}
  /\ etaPoll' = "off" /\ etaAsked' = {} /\ etaShown' = NoTrip
  /\ post' = [s \in Posts |-> IF post[s].at \in {"ok", "failed"} THEN NoPost
                              ELSE [at |-> post[s].at, trip |-> post[s].trip, mine |-> FALSE]]
  /\ unknown' = unknown \cup {post[s].trip : s \in {p \in Posts : post[p].mine /\ post[p].trip # NoTrip}}
  /\ about' = NoTrip
  /\ UNCHANGED <<serverVars, rider, stored, replaced, misled>>

\* TripRequestFlow is mounted, and asks for the stored trip.
Mounts == Shows(IF stored = NoTrip THEN At("picking", NoTrip) ELSE At("resuming", stored))

\* The rider is found: riders are never deleted.
RiderFound ==
  /\ flow.phase = "checking"
  /\ Mounts
  /\ UNCHANGED <<serverVars, riderVars, post, stored, submitting, trackVars, etaVars, history>>

RiderCheckFails ==
  /\ flow.phase = "checking"
  /\ Shows(At("check_failed", NoTrip))
  /\ UNCHANGED <<serverVars, riderVars, post, stored, submitting, trackVars, etaVars, history>>

\* The button of RiderView.
RetryCheck ==
  /\ flow.phase = "check_failed"
  /\ Shows(At("checking", NoTrip))
  /\ UNCHANGED <<serverVars, riderVars, post, stored, submitting, trackVars, etaVars, history>>

\* POST /riders is answered; until then the form stays.
CreateRider ==
  /\ flow.phase = "needs_rider"
  /\ rider' = TRUE
  /\ Mounts
  /\ UNCHANGED <<serverVars, priceVars, post, stored, submitting, trackVars, etaVars, history>>

ResumeReads ==
  /\ flow.phase = "resuming" /\ flow.read = "none"
  /\ Shows([flow EXCEPT !.read = row[flow.trip]])
  /\ UNCHANGED <<serverVars, riderVars, post, stored, submitting, trackVars, etaVars, history>>

ResumeAnswered ==
  /\ flow.phase = "resuming" /\ flow.read # "none"
  /\ IF flow.read \in Ended
     THEN flow' = At("picking", NoTrip) /\ stored' = NoTrip
     ELSE flow' = At("tracking", flow.trip) /\ UNCHANGED stored
  /\ UNCHANGED <<serverVars, riderVars, post, submitting, rendered, trackVars, etaVars, history>>

MutResumeFails ==
  /\ flow.phase = "resuming"
  /\ flow' = At("picking", NoTrip)
  /\ stored' = NoTrip
  /\ UNCHANGED <<serverVars, riderVars, post, submitting, rendered, trackVars, etaVars, history>>

\* A network error or an error of the server.  NOT_FOUND does not happen: trips are never deleted.
ResumeFails ==
  /\ flow.phase = "resuming"
  /\ flow' = At("picking", NoTrip)
  /\ UNCHANGED <<serverVars, riderVars, post, stored, submitting, rendered, trackVars, etaVars, history>>

-----------------------------------------------------------------------------
PostStep(s) ==
  \/ HandleSubmit(s)
  \/ PostRefused(s)
  \/ \E t \in Trips : PostInserts(s, t)
  \/ PostBreaks(s)
  \/ PostReplies(s)
  \/ AnswerLost(s)
  \/ PostAnswered(s)

Next ==
  \/ \E s \in Posts : PostStep(s)
  \/ \E t \in Trips : TripMoves(t) \/ FinalState(t) \/ FinalStateFails(t)
  \/ Commit
  \/ HandleRequestAnother
  \/ ChoosePoints
  \/ SurgePoll
  \/ ToldMatched \/ ToldCancelled \/ ToldEnded
  \/ EtaAsks
  \/ \E a \in etaAsked : EtaAnswered(a)
  \/ Reload
  \/ RiderFound \/ RiderCheckFails \/ RetryCheck \/ CreateRider
  \/ ResumeReads \/ ResumeAnswered \/ ResumeFails

Spec == Init /\ [][Next]_vars

-----------------------------------------------------------------------------
(***************************************************************************)
(* Properties.                                                              *)
(***************************************************************************)
\* "A reload no longer orphans an active trip the rider is still on" (docs/frontend-resilience.md:89):
\* the id of an active trip is stored or on its way to the page that asked for it, unless that page
\* was unloaded or never got the answer, another request was made after a failed resumption, or
\* the end of an earlier trip was read as the end of this one.
ActiveIsRemembered ==
  \A t \in Trips :
    Active(t) /\ t \notin unknown \cup replaced \cup misled =>
      stored = t \/ \E s \in Posts : post[s].mine /\ post[s].trip = t

\* However fast the button is clicked, and whatever comes back, one POST of this page is under
\* way at a time (TripRequestFlow.tsx:41-43).
OneRequestAtATime == Cardinality({s \in Posts : post[s].mine}) <= 1

\* The page shows the end of a trip that goes on, and so forgets it and offers another, in one case
\* only: the GET made for an earlier trip's end was answered after the rider had left that trip.
NoFalseEnd ==
  rendered.flow.phase = "tracking" /\ rendered.terminal /\ Active(rendered.flow.trip) =>
    rendered.flow.trip \in misled

\* The ETA on screen is the tracked trip's, and gone with its end, though answers of the polls of
\* an earlier trip are still to come (useTripEta.ts:37-43).
EtaIsOfThisTrip == etaShown # NoTrip => etaShown = Following /\ ~rendered.terminal

\* "the exact same GET /surge?lat=&lng= read path POST /trips itself uses" (TripRequestFlow.tsx:98-103):
\* the multiplier shown was read for the pickup on screen, or it is the one the last pickup left
\* there and nothing has come for this one yet; an answer for an earlier pickup never replaces it.
PriceIsOfThisPickup ==
  priceShown # NoPoint =>
    rendered.flow.phase = "picking" /\ (carried \/ priceShown = rendered.pickup)
=============================================================================
