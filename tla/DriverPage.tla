------------------------------ MODULE DriverPage ------------------------------
(***************************************************************************)
(* One driver's page: components/DriverDashboard.tsx with useDriverIdentity, *)
(* useDriverConnection, driverOfferReducer and TripOfferPanel.  Offers come   *)
(* and answers go over a connection that may break at any moment; the         *)
(* driver's status is changed by PATCHes whose checks and writes are apart;   *)
(* the page may be reloaded.                                                  *)
(*                                                                           *)
(* Of the server there is what this driver sees of Matching: one attempt per  *)
(* trip, one attempt at a time while the driver's lock is held, and the        *)
(* commit that needs the status 'online'.                                     *)
(***************************************************************************)
EXTENDS Integers, Sequences, FiniteSets, SequencesExt

CONSTANTS
  Trips,
  Patches,  \* PATCH /drivers/:id/status under way at once
  NoTrip

ASSUME DriverPageAssumption == NoTrip \notin Trips

VARIABLES
  pg,        \* drivers.status
  deal,      \* how far each trip's attempt with this driver is
  assigned,  \* the trips whose row names this driver
  link,      \* is there an open connection?
  down, up,  \* what is on its way on it
  ident,     \* DriverIdentityState, with the status GET /drivers/:id has read
  status,    \* DriverDashboard's status
  patch,     \* the PATCHes
  phase,     \* offerPhaseRef
  strayed,   \* history: the trips another driver's late acceptance was taken for this one's
  missed,    \* history: the trips whose confirmation was lost, came after the grace period, or
             \*   found a page that had been reloaded or had gone offline meanwhile
  unbusied   \* history: has a PATCH changed the status of an assigned driver?

serverVars == <<pg, deal, assigned>>
linkVars == <<link, down, up>>
pageVars == <<ident, status, phase>>
history == <<strayed, missed, unbusied>>
vars == <<serverVars, linkVars, pageVars, patch, history>>

-----------------------------------------------------------------------------
Status == {"online", "offline", "busy"}
Locked == {"waiting", "finalizing", "confirming"}

Offer(t) == [type |-> "trip_offer", tripId |-> t]
Matched(t) == [type |-> "trip_matched", tripId |-> t]
Response(t, accept) == [tripId |-> t, accept |-> accept]
NoPatch == [at |-> "none", target |-> "online", mine |-> FALSE]

Idle == [kind |-> "idle", trip |-> NoTrip]
Phase == [kind : {"offered", "responding", "no_response", "too_late", "declined", "matched"},
          trip : Trips] \cup {Idle}

TypeOK ==
  /\ pg \in Status
  /\ deal \in [Trips -> {"none", "over"} \cup Locked]
  /\ assigned \subseteq Trips
  /\ link \in BOOLEAN
  /\ down \in Seq([type : {"trip_offer", "trip_matched"}, tripId : Trips])
  /\ up \in Seq([tripId : Trips, accept : BOOLEAN])
  /\ ~link => down = <<>> /\ up = <<>>
  /\ ident \in [at : {"checking", "check_failed", "ready"}, read : Status \cup {"none"}]
  /\ status \in Status
  /\ link => ident.at = "ready" /\ status = "online"
  /\ phase \in Phase
  /\ patch \in [Patches -> [at : {"none", "sent", "checked", "done", "failed"},
                            target : Status, mine : BOOLEAN]]
  /\ strayed \subseteq Trips /\ missed \subseteq Trips
  /\ unbusied \in BOOLEAN

Init ==
  /\ pg = "online"
  /\ deal = [t \in Trips |-> "none"]
  /\ assigned = {}
  /\ link = FALSE /\ down = <<>> /\ up = <<>>
  /\ ident = [at |-> "checking", read |-> "none"]
  /\ status = "offline"
  /\ phase = Idle
  /\ patch = [s \in Patches |-> NoPatch]
  /\ strayed = {}
  /\ missed = {}
  /\ unbusied = FALSE

-----------------------------------------------------------------------------
(***************************************************************************)
(* matchTrip, as this driver sees it.                                       *)
(***************************************************************************)
Deals(t, at) == deal' = [deal EXCEPT ![t] = at]

\* The lock is free and the socket open; the copy of the status that was searched may be old.
SendOffer(t) ==
  /\ deal[t] = "none"
  /\ \A u \in Trips : deal[u] \notin Locked
  /\ link
  /\ Deals(t, "waiting")
  /\ down' = Append(down, Offer(t))
  /\ UNCHANGED <<pg, assigned, link, up, pageVars, patch, history>>

OfferTimesOut(t) ==
  /\ deal[t] = "waiting"
  /\ Deals(t, "over")
  /\ UNCHANGED <<pg, assigned, linkVars, pageVars, patch, history>>

\* handleDriverResponse: an answer to an offer that is not pending any more is dropped.
Respond ==
  /\ up # <<>>
  /\ up' = Tail(up)
  /\ LET t == Head(up).tripId IN
     IF deal[t] # "waiting" THEN UNCHANGED deal
     ELSE Deals(t, IF Head(up).accept THEN "finalizing" ELSE "over")
  /\ UNCHANGED <<pg, assigned, link, down, pageVars, patch, history>>

\* Offers are keyed by trip: the late acceptance of the candidate before this one.
StrayAccept(t) ==
  /\ deal[t] = "waiting"
  /\ Deals(t, "finalizing")
  /\ strayed' = strayed \cup {t}
  /\ UNCHANGED <<pg, assigned, linkVars, pageVars, patch, missed, unbusied>>

MutCanFinalize == pg # "offline"
CanFinalize == pg = "online"

\* tryFinalizeMatch.  The answer of its COMMIT may be lost: then nobody is told.
Finalize(t) ==
  /\ deal[t] = "finalizing"
  /\ IF CanFinalize
     THEN /\ pg' = "busy"
          /\ assigned' = assigned \cup {t}
          /\ \/ Deals(t, "confirming") /\ UNCHANGED missed
             \/ Deals(t, "over") /\ missed' = missed \cup {t}
     ELSE Deals(t, "over") /\ UNCHANGED <<pg, assigned, missed>>
  /\ UNCHANGED <<linkVars, pageVars, patch, strayed, unbusied>>

SendToDriver(m) == down' = IF link THEN Append(down, m) ELSE down

\* trip_matched, if the driver's socket is open; then the lock is released.
Confirm(t) ==
  /\ deal[t] = "confirming"
  /\ Deals(t, "over")
  /\ SendToDriver(Matched(t))
  /\ missed' = IF link THEN missed ELSE missed \cup {t}
  /\ UNCHANGED <<pg, assigned, link, up, pageVars, patch, strayed, unbusied>>

-----------------------------------------------------------------------------
(***************************************************************************)
(* The connection.                                                          *)
(***************************************************************************)
Unconfirmed == {t \in Trips : Matched(t) \in ToSet(down)}

CutLink ==
  /\ link' = FALSE
  /\ down' = <<>>
  /\ up' = <<>>

Break ==
  /\ link
  /\ CutLink
  /\ missed' = missed \cup Unconfirmed
  /\ UNCHANGED <<serverVars, pageVars, patch, strayed, unbusied>>

\* A crash of the server ends its attempts as well.
Crash ==
  /\ CutLink
  /\ deal' = [t \in Trips |-> IF deal[t] \in Locked THEN "over" ELSE deal[t]]
  /\ missed' = missed \cup Unconfirmed \cup {t \in Trips : deal[t] = "confirming"}
  /\ patch' = [s \in Patches |->
       IF patch[s].at \in {"sent", "checked"}
       THEN IF patch[s].mine THEN [patch[s] EXCEPT !.at = "failed"] ELSE NoPatch
       ELSE patch[s]]
  /\ UNCHANGED <<pg, assigned, pageVars, strayed, unbusied>>

\* At first, and again after each break.
Connect ==
  /\ ident.at = "ready" /\ status = "online"
  /\ ~link
  /\ link' = TRUE
  /\ UNCHANGED <<serverVars, down, up, pageVars, patch, history>>

-----------------------------------------------------------------------------
(***************************************************************************)
(* applyDriverOfferEvent, event by event, and dispatchOfferEvent around it.   *)
(***************************************************************************)
ToPhase(kind) == phase' = [phase EXCEPT !.kind = kind]

\* A confirmation counts if it is for the offer the page has not given up.
Confirms(m) == phase.kind \in {"offered", "responding"} /\ phase.trip = m.tripId

MutReceive ==
  /\ down # <<>>
  /\ down' = Tail(down)
  /\ LET m == Head(down) IN
     phase' = IF m.type = "trip_offer" /\ phase.kind # "matched"
                THEN [kind |-> "offered", trip |-> m.tripId]
              ELSE IF m.type = "trip_matched" /\ Confirms(m) /\ phase.kind = "offered"
                THEN [kind |-> "matched", trip |-> m.tripId]
              ELSE phase
  /\ UNCHANGED <<serverVars, link, up, ident, status, patch, history>>

MutAnyOffer ==
  /\ down # <<>>
  /\ down' = Tail(down)
  /\ LET m == Head(down) IN
     phase' = IF m.type = "trip_offer" THEN [kind |-> "offered", trip |-> m.tripId]
              ELSE IF Confirms(m) THEN [kind |-> "matched", trip |-> m.tripId]
              ELSE phase
  /\ UNCHANGED <<serverVars, link, up, ident, status, patch, history>>

\* A new offer replaces whatever is there, but for a match.
Receive ==
  /\ down # <<>>
  /\ down' = Tail(down)
  /\ LET m == Head(down) IN
     phase' = IF m.type = "trip_offer" /\ phase.kind # "matched"
                THEN [kind |-> "offered", trip |-> m.tripId]
              ELSE IF m.type = "trip_matched" /\ Confirms(m)
                THEN [kind |-> "matched", trip |-> m.tripId]
              ELSE phase
  /\ UNCHANGED <<serverVars, link, up, ident, status, patch, history>>

CanAnswer == phase.kind = "offered"

MutAnswer(accept) ==
  /\ CanAnswer
  /\ ToPhase(IF accept THEN "matched" ELSE "declined")
  /\ up' = IF link THEN Append(up, Response(phase.trip, accept)) ELSE up
  /\ UNCHANGED <<serverVars, link, down, ident, status, patch, history>>

\* A tap.  What it sends is dropped when there is no connection.
Answer(accept) ==
  /\ CanAnswer
  /\ ToPhase(IF accept THEN "responding" ELSE "declined")
  /\ up' = IF link THEN Append(up, Response(phase.trip, accept)) ELSE up
  /\ UNCHANGED <<serverVars, link, down, ident, status, patch, history>>

DeadlineElapses ==
  /\ phase.kind = "offered"
  /\ ToPhase("no_response")
  /\ missed' = missed \cup {phase.trip}
  /\ UNCHANGED <<serverVars, linkVars, ident, status, patch, strayed, unbusied>>

\* May the confirmation of t still come?
Undecided(t) ==
  \/ deal[t] \in {"finalizing", "confirming"}
  \/ deal[t] = "waiting" /\ Response(t, TRUE) \in ToSet(up)
  \/ t \in Unconfirmed

\* CONFIRMATION_GRACE_MS after the deadline.
GraceElapses ==
  /\ phase.kind = "responding"
  /\ ToPhase("too_late")
  /\ missed' = IF Undecided(phase.trip) THEN missed \cup {phase.trip} ELSE missed
  /\ UNCHANGED <<serverVars, linkVars, ident, status, patch, strayed, unbusied>>

-----------------------------------------------------------------------------
(***************************************************************************)
(* The toggle, and PATCH /drivers/:id/status behind it.                      *)
(***************************************************************************)
Goes(s, fields) == patch' = [patch EXCEPT ![s] = fields]

\* The trips a page knows nothing of after it has lost its phase.
AtStake == assigned \cup {t \in Trips : deal[t] \in Locked}

effectiveStatus == IF phase.kind = "matched" THEN "busy" ELSE status

HandleToggle(s) ==
  /\ ident.at = "ready"
  /\ effectiveStatus # "busy"
  /\ \A r \in Patches : ~patch[r].mine
  /\ patch[s] = NoPatch
  /\ Goes(s, [at |-> "sent", mine |-> TRUE,
              target |-> IF effectiveStatus = "online" THEN "offline" ELSE "online"])
  /\ UNCHANGED <<serverVars, linkVars, pageVars, history>>

\* busy -> online is legal, busy -> offline is not.
Legal(target) == ~(pg = "busy" /\ target = "offline")

PatchRead(s) ==
  /\ patch[s].at = "sent"
  /\ IF Legal(patch[s].target) THEN Goes(s, [patch[s] EXCEPT !.at = "checked"])
     ELSE Goes(s, IF patch[s].mine THEN [patch[s] EXCEPT !.at = "failed"] ELSE NoPatch)
  /\ UNCHANGED <<serverVars, linkVars, pageVars, history>>

\* The UPDATE has no condition.
PatchWrite(s) ==
  /\ patch[s].at = "checked"
  /\ pg' = patch[s].target
  /\ unbusied' = (unbusied \/ assigned # {})
  /\ Goes(s, IF patch[s].mine THEN [patch[s] EXCEPT !.at = "done"] ELSE NoPatch)
  /\ UNCHANGED <<deal, assigned, linkVars, pageVars, strayed, missed>>

\* Not sent, refused, rejected, or its answer is lost.
PatchFails(s) ==
  /\ patch[s].at \in {"sent", "checked", "done"}
  /\ Goes(s, IF patch[s].mine THEN [patch[s] EXCEPT !.at = "failed"] ELSE NoPatch)
  /\ UNCHANGED <<serverVars, linkVars, pageVars, history>>

\* The cleanup of useDriverConnection's effect, and its body with active = FALSE.
GoesOffline ==
  /\ CutLink
  /\ phase' = Idle
  /\ missed' = missed \cup AtStake

PatchAnswered(s) ==
  /\ patch[s].mine /\ patch[s].at \in {"done", "failed"}
  /\ Goes(s, NoPatch)
  /\ IF patch[s].at = "failed" THEN UNCHANGED <<status, linkVars, phase, missed>>
     ELSE /\ status' = patch[s].target
          /\ IF status' = "online" THEN UNCHANGED <<linkVars, phase, missed>> ELSE GoesOffline
  /\ UNCHANGED <<serverVars, ident, strayed, unbusied>>

-----------------------------------------------------------------------------
(***************************************************************************)
(* A reload: useDriverIdentity asks for the driver's row again.              *)
(***************************************************************************)
Reload ==
  /\ CutLink
  /\ ident' = [at |-> "checking", read |-> "none"]
  /\ status' = "offline"
  /\ phase' = Idle
  /\ missed' = missed \cup AtStake
  /\ patch' = [s \in Patches |-> IF patch[s].at \in {"done", "failed"} THEN NoPatch
                                 ELSE [patch[s] EXCEPT !.mine = FALSE]]
  /\ UNCHANGED <<serverVars, strayed, unbusied>>

CheckReads ==
  /\ ident.at = "checking" /\ ident.read = "none"
  /\ ident' = [ident EXCEPT !.read = pg]
  /\ UNCHANGED <<serverVars, linkVars, status, phase, patch, history>>

CheckAnswered ==
  /\ ident.at = "checking" /\ ident.read # "none"
  /\ ident' = [at |-> "ready", read |-> "none"]
  /\ status' = ident.read
  /\ UNCHANGED <<serverVars, linkVars, phase, patch, history>>

\* refresh() tries again.
CheckFails ==
  /\ ident.at = "checking"
  /\ ident' = [at |-> "check_failed", read |-> "none"]
  /\ UNCHANGED <<serverVars, linkVars, status, phase, patch, history>>

Refresh ==
  /\ ident.at = "check_failed"
  /\ ident' = [at |-> "checking", read |-> "none"]
  /\ UNCHANGED <<serverVars, linkVars, status, phase, patch, history>>

-----------------------------------------------------------------------------
PatchStep(s) ==
  \/ HandleToggle(s)
  \/ PatchRead(s)
  \/ PatchWrite(s)
  \/ PatchFails(s)
  \/ PatchAnswered(s)

Next ==
  \/ \E t \in Trips : SendOffer(t) \/ OfferTimesOut(t) \/ StrayAccept(t) \/ Finalize(t) \/ Confirm(t)
  \/ Respond
  \/ Break \/ Crash \/ Connect
  \/ Receive
  \/ \E accept \in BOOLEAN : Answer(accept)
  \/ DeadlineElapses \/ GraceElapses
  \/ \E s \in Patches : PatchStep(s)
  \/ Reload \/ CheckReads \/ CheckAnswered \/ CheckFails \/ Refresh

Spec == Init /\ [][Next]_vars

-----------------------------------------------------------------------------
(***************************************************************************)
(* Properties.                                                              *)
(***************************************************************************)
\* "Matched!" is on screen only for the trip this driver has been assigned, whatever offers came
\* and were answered before ("neither is ever confused with matched", TripOfferPanel.tsx:12-15).
MatchedIsAssigned == phase.kind = "matched" => phase.trip \in assigned

\* "Given to another driver" is not shown to the driver the trip was given to, except when the
\* confirmation was lost or came after the grace period (driverOfferReducer.ts:20-31), or when
\* another driver's late acceptance gave it to this one.
TooLateIsTrue == phase.kind = "too_late" => phase.trip \notin assigned \ (missed \cup strayed)

\* An assigned driver's page shows the match once its confirmation has been through the
\* connection: no later offer and no timer hides it.  Left out are the trips somebody else's
\* answer assigned, and those the page has missed.
AssignedKnows ==
  \A t \in assigned \ (strayed \cup missed) :
    deal[t] = "over" /\ t \notin Unconfirmed => phase = [kind |-> "matched", trip |-> t]

\* With PATCHes from the page at any moment, and broken, lost and late messages, no driver gets a
\* second trip unless a PATCH has changed the status of an assigned driver: one that was checked
\* before the match, or busy -> online (drivers.service.ts:15-19).
SecondTripNeedsPatch == Cardinality(assigned) <= 1 \/ unbusied

=============================================================================
