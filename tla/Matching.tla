------------------------------ MODULE Matching ------------------------------
(***************************************************************************)
(* One matchTrip run per requested trip, offering the trip to one driver     *)
(* after the other: lock the driver in Redis, send the offer, wait for the   *)
(* answer or the timeout, commit the match in Postgres, mirror the driver's  *)
(* new status into Redis, tell both parties, release the lock.  The drivers' *)
(* status and its writers are those of DriverStatus.                         *)
(*                                                                           *)
(* matchTrip is started once per trip, by POST /trips.  A step is one round  *)
(* trip to a store or one callback of the event loop.  The order in which    *)
(* candidates are tried (a score of distance, idle time and rating) and the  *)
(* search radius are left open: any subset of the searchable drivers, in any *)
(* order.  Time is left open too: a timer may fire at any moment, except     *)
(* that a lock's TTL (offerTimeoutMs + 5 s) outlasts the offer it protects.  *)
(***************************************************************************)
EXTENDS DriverStatus

CONSTANTS
  Trips,       \* trip ids
  NoTrip,      \* stands for "no trip"
  LateReplies, \* may a reply arrive after the driver's offer has timed out?
  SlowStores   \* may the steps after the answer outlast the 5 s TTL margin?

ASSUME NoTripAssumption == NoTrip \notin Trips
ASSUME TimingAssumption == LateReplies \in BOOLEAN /\ SlowStores \in BOOLEAN

VARIABLES
  tripStatus, tripDriver, tripReason,  \* the trips row
  lock,        \* driver:{id}:lock in Redis, the trip it was taken for
  pc,          \* where trip t's matchTrip is
  cands,       \* the candidates it has not finished with
  cur,         \* the candidate it is trying
  verdict,     \* what follows the release of the lock
  offer        \* offer[t][d]: what driver d knows of and said to trip t's offer

tripVars  == <<tripStatus, tripDriver, tripReason>>
matchVars == <<tripStatus, tripDriver, tripReason, lock, pc, cands, cur, verdict, offer>>
vars == <<driverVars, matchVars>>

\* Where the lock is held: from its acquisition to its release.
Held == {"send", "waiting", "finalize", "mirror", "confirm", "release"}
PCs == {"idle", "read", "search", "none_found", "next", "done"} \cup Held

Reasons == {"no_drivers_available", "all_candidates_declined"}

TypeOK ==
  /\ DriverTypeOK
  /\ tripStatus \in [Trips -> {"absent", "requested", "matched", "cancelled"}]
  /\ tripDriver \in [Trips -> Drivers \cup {NoDriver}]
  /\ tripReason \in [Trips -> Reasons \cup {"none"}]
  /\ lock \in [Drivers -> Trips \cup {NoTrip}]
  /\ pc \in [Trips -> PCs]
  /\ cands \in [Trips -> SUBSET Drivers]
  /\ cur \in [Trips -> Drivers \cup {NoDriver}]
  /\ \A t \in Trips : pc[t] \in Held => cur[t] \in Drivers
  /\ verdict \in [Trips -> {"none", "next", "matched", "threw"}]
  /\ offer \in [Trips -> [Drivers -> {"none", "open", "accepted", "declined"}]]

Init ==
  /\ DriverInit
  /\ tripStatus = [t \in Trips |-> "absent"]
  /\ tripDriver = [t \in Trips |-> NoDriver]
  /\ tripReason = [t \in Trips |-> "none"]
  /\ lock = [d \in Drivers |-> NoTrip]
  /\ pc = [t \in Trips |-> "idle"]
  /\ cands = [t \in Trips |-> {}]
  /\ cur = [t \in Trips |-> NoDriver]
  /\ verdict = [t \in Trips |-> "none"]
  /\ offer = [t \in Trips |-> [d \in Drivers |-> "none"]]

Goto(t, l) == pc' = [pc EXCEPT ![t] = l]

-----------------------------------------------------------------------------
\* POST /trips: the row is inserted; the fare quote and the answer come before matching.
RequestTrip(t) ==
  /\ tripStatus[t] = "absent"
  /\ tripStatus' = [tripStatus EXCEPT ![t] = "requested"]
  /\ Goto(t, "read")
  /\ UNCHANGED <<driverVars, tripDriver, tripReason, lock, cands, cur, verdict, offer>>

\* matchTrip reads the trip and leaves one that is already resolved alone.
ReadTrip(t) ==
  /\ pc[t] = "read"
  /\ Goto(t, IF tripStatus[t] = "requested" THEN "search" ELSE "done")
  /\ UNCHANGED <<driverVars, tripVars, lock, cands, cur, verdict, offer>>

SearchNearby(t) ==
  /\ pc[t] = "search"
  /\ \E C \in SUBSET {d \in Drivers : Searchable(d)} :
       /\ cands' = [cands EXCEPT ![t] = C]
       /\ Goto(t, IF C = {} THEN "none_found" ELSE "next")
  /\ UNCHANGED <<driverVars, tripVars, lock, cur, verdict, offer>>

-----------------------------------------------------------------------------
(***************************************************************************)
(* tryOfferToDriver.                                                        *)
(***************************************************************************)
MutLockFree(d) == lock[d] \in Trips \cup {NoTrip}

\* SET NX takes a lock nobody holds.
LockFree(d) == lock[d] = NoTrip

\* acquireDriverLock: on failure the driver is dropped without waiting.
AcquireLock(t, d) ==
  /\ pc[t] = "next"
  /\ d \in cands[t]
  /\ cands' = [cands EXCEPT ![t] = @ \ {d}]
  /\ \/ /\ LockFree(d)
        /\ lock' = [lock EXCEPT ![d] = t]
        /\ cur' = [cur EXCEPT ![t] = d]
        /\ Goto(t, "send")
     \/ /\ ~LockFree(d)
        /\ UNCHANGED <<lock, cur, pc>>
  /\ UNCHANGED <<driverVars, tripVars, verdict, offer>>

\* Leave the try block for its finally, which releases the lock and then does v.
Leave(t, v) ==
  /\ Goto(t, "release")
  /\ verdict' = [verdict EXCEPT ![t] = v]

MutSendOffer(t) ==
  /\ pc[t] = "send"
  /\ \/ /\ offer' = [offer EXCEPT ![t][cur[t]] = "open"]
        /\ Goto(t, "waiting")
     \/ /\ Goto(t, "next")
        /\ UNCHANGED offer
  /\ UNCHANGED <<driverVars, tripVars, lock, cands, cur, verdict>>

\* sendToDriver returns whether the driver's socket is open; if so the wait begins at once.
SendOffer(t) ==
  /\ pc[t] = "send"
  /\ \/ /\ offer' = [offer EXCEPT ![t][cur[t]] = "open"]
        /\ Goto(t, "waiting")
        /\ UNCHANGED verdict
     \/ /\ Leave(t, "next")
        /\ UNCHANGED offer
  /\ UNCHANGED <<driverVars, tripVars, lock, cands, cur>>

\* pendingOffers has an entry for t exactly while t's run is waiting: the callback that
\* removes the entry resolves the promise, and the run continues before any other callback.
OfferPending(t) == pc[t] = "waiting"

MutTimeoutFinalizes(t) ==
  /\ OfferPending(t)
  /\ Goto(t, "finalize")
  /\ UNCHANGED <<driverVars, tripVars, lock, cands, cur, verdict, offer>>

MutTimeoutNever(t) ==
  /\ OfferPending(t)
  /\ FALSE
  /\ Leave(t, "next")
  /\ UNCHANGED <<driverVars, tripVars, lock, cands, cur, offer>>

\* The timer of waitForDriverResponse: no answer counts as a decline.
OfferTimeout(t) ==
  /\ OfferPending(t)
  /\ Leave(t, "next")
  /\ UNCHANGED <<driverVars, tripVars, lock, cands, cur, offer>>

\* A trip_response of driver d for trip t.  handleDriverResponse looks the offer up by trip
\* alone and is not told which driver sent the message.
DriverResponds(d, t, accept) ==
  /\ offer[t][d] = "open"
  /\ LateReplies \/ (OfferPending(t) /\ cur[t] = d)
  /\ offer' = [offer EXCEPT ![t][d] = IF accept THEN "accepted" ELSE "declined"]
  /\ \/ /\ OfferPending(t) /\ accept
        /\ Goto(t, "finalize")
        /\ UNCHANGED verdict
     \/ /\ OfferPending(t) /\ ~accept
        /\ Leave(t, "next")
     \/ /\ ~OfferPending(t)
        /\ UNCHANGED <<pc, verdict>>
  /\ UNCHANGED <<driverVars, tripVars, lock, cands, cur>>

-----------------------------------------------------------------------------
\* The guards of the transaction in tryFinalizeMatch.
MutCanFinalize(t, d) == tripStatus[t] = "requested" /\ tripDriver[t] = NoDriver /\ d \in Drivers

CanFinalize(t, d) ==
  /\ tripStatus[t] = "requested"
  /\ tripDriver[t] = NoDriver
  /\ pgStatus[d] = "online"

MutCommitTripOnly(t, d) ==
  /\ tripStatus' = [tripStatus EXCEPT ![t] = "matched"]
  /\ tripDriver' = [tripDriver EXCEPT ![t] = d]
  /\ pgStatus' = pgStatus

CommitMatch(t, d) ==
  /\ tripStatus' = [tripStatus EXCEPT ![t] = "matched"]
  /\ tripDriver' = [tripDriver EXCEPT ![t] = d]
  /\ pgStatus' = [pgStatus EXCEPT ![d] = "busy"]

FinalizeMatch(t) ==
  /\ pc[t] = "finalize"
  /\ \/ /\ CanFinalize(t, cur[t])
        /\ CommitMatch(t, cur[t])
        /\ Goto(t, "mirror")
        /\ UNCHANGED verdict
     \/ /\ ~CanFinalize(t, cur[t])
        /\ Leave(t, "next")
        /\ UNCHANGED <<tripStatus, tripDriver, pgStatus>>
  /\ UNCHANGED <<liveVars, reqVars, pending, flushVars, sweepVars,
                 tripReason, lock, cands, cur, offer>>

\* updateDriverStatusInRedis(driverId, "busy").
MirrorBusy(t) ==
  /\ pc[t] = "mirror"
  /\ UpdateStatusInRedis(cur[t], "busy")
  /\ Goto(t, "confirm")
  /\ UNCHANGED <<pgStatus, reqVars, pending, flushVars, sweepVars,
                 tripVars, lock, cands, cur, verdict, offer>>

\* trip_matched to the driver, notifyTripMatched to the subscribers.
ConfirmMatch(t) ==
  /\ pc[t] = "confirm"
  /\ Leave(t, "matched")
  /\ UNCHANGED <<driverVars, tripVars, lock, cands, cur, offer>>

-----------------------------------------------------------------------------
\* The comparison of the release script.
OwnsLock(t, d) == lock[d] = t

\* Where the run goes on: the next candidate, or the end (matched, or the error is rethrown).
AfterRelease(v) == IF v = "next" THEN "next" ELSE "done"

ReleaseLock(t) ==
  /\ pc[t] = "release"
  /\ lock' = [lock EXCEPT ![cur[t]] = IF OwnsLock(t, cur[t]) THEN NoTrip ELSE @]
  /\ Goto(t, AfterRelease(verdict[t]))
  /\ cur' = [cur EXCEPT ![t] = NoDriver]
  /\ verdict' = [verdict EXCEPT ![t] = "none"]
  /\ UNCHANGED <<driverVars, tripVars, cands, offer>>

MutExpiryNever(d) == lock[d] # NoTrip /\ d \notin Drivers /\ UNCHANGED vars

\* The lock's TTL.  It cannot run out before the offer it protects has been answered or has
\* timed out; whether it can before the release depends on how slow the stores are.
LockExpires(d) ==
  /\ lock[d] # NoTrip
  /\ \/ pc[lock[d]] \notin Held \/ cur[lock[d]] # d
     \/ SlowStores /\ pc[lock[d]] \notin {"send", "waiting"}
  /\ lock' = [lock EXCEPT ![d] = NoTrip]
  /\ UNCHANGED <<driverVars, tripVars, pc, cands, cur, verdict, offer>>

-----------------------------------------------------------------------------
UnmatchedReason(t) ==
  IF pc[t] = "none_found" THEN "no_drivers_available" ELSE "all_candidates_declined"

\* resolveUnmatched: markTripUnmatched applies to a requested trip only.
ResolveUnmatched(t) ==
  /\ pc[t] = "none_found" \/ (pc[t] = "next" /\ cands[t] = {})
  /\ \/ /\ tripStatus[t] = "requested"
        /\ tripStatus' = [tripStatus EXCEPT ![t] = "cancelled"]
        /\ tripReason' = [tripReason EXCEPT ![t] = UnmatchedReason(t)]
        /\ Goto(t, "done")
     \/ /\ tripStatus[t] # "requested"
        /\ Goto(t, "done")
        /\ UNCHANGED <<tripStatus, tripReason>>
  /\ UNCHANGED <<driverVars, tripDriver, lock, cands, cur, verdict, offer>>

(***************************************************************************)
(* Failing store calls.  A rejection inside the try block leads to the       *)
(* finally and then ends the run; one outside ends it.  Nothing runs it      *)
(* again.  The mirror's pipeline does not reject (see DriverStatus).         *)
(***************************************************************************)
MatchFails(t) ==
  /\ Faults
  /\ \/ pc[t] = "finalize" /\ Leave(t, "threw")
     \/ /\ pc[t] \in {"read", "search", "none_found", "next", "release"}
        /\ Goto(t, "done")
        /\ UNCHANGED verdict
  /\ UNCHANGED <<driverVars, tripVars, lock, cands, cur, offer>>

MirrorLost(t) ==
  /\ Faults
  /\ pc[t] = "mirror"
  /\ Goto(t, "confirm")
  /\ UNCHANGED <<driverVars, tripVars, lock, cands, cur, verdict, offer>>

\* The lock is taken but the answer of SET is lost; the acquisition is outside the try block.
AcquireAnswerLost(t, d) ==
  /\ Faults
  /\ pc[t] = "next"
  /\ d \in cands[t]
  /\ LockFree(d)
  /\ lock' = [lock EXCEPT ![d] = t]
  /\ Goto(t, "done")
  /\ UNCHANGED <<driverVars, tripVars, cands, cur, verdict, offer>>

\* COMMIT takes effect but its answer is lost.
FinalizeAnswerLost(t) ==
  /\ Faults
  /\ pc[t] = "finalize"
  /\ CanFinalize(t, cur[t])
  /\ CommitMatch(t, cur[t])
  /\ Leave(t, "threw")
  /\ UNCHANGED <<liveVars, reqVars, pending, flushVars, sweepVars,
                 tripReason, lock, cands, cur, offer>>

\* The process dies: its runs are gone, and only a new POST /trips starts one.
Crash ==
  /\ DriverCrash
  /\ pc' = [t \in Trips |-> IF pc[t] = "idle" THEN "idle" ELSE "done"]
  /\ cands' = [t \in Trips |-> {}]
  /\ cur' = [t \in Trips |-> NoDriver]
  /\ verdict' = [t \in Trips |-> "none"]
  /\ UNCHANGED <<tripVars, lock, offer>>

MatchStep(t) ==
  \/ ReadTrip(t)
  \/ SearchNearby(t)
  \/ \E d \in Drivers : AcquireLock(t, d)
  \/ SendOffer(t)
  \/ OfferTimeout(t)
  \/ FinalizeMatch(t)
  \/ MirrorBusy(t)
  \/ ConfirmMatch(t)
  \/ ReleaseLock(t)
  \/ ResolveUnmatched(t)

Next ==
  \/ \E t \in Trips :
       \/ RequestTrip(t)
       \/ MatchStep(t)
       \/ \E d \in Drivers, accept \in BOOLEAN : DriverResponds(d, t, accept)
       \/ MatchFails(t)
       \/ MirrorLost(t)
       \/ \E d \in Drivers : AcquireAnswerLost(t, d)
       \/ FinalizeAnswerLost(t)
  \/ \E d \in Drivers : LockExpires(d)
  \/ DriverStep /\ UNCHANGED matchVars
  \/ Crash

Spec == Init /\ [][Next]_vars

(***************************************************************************)
(* The event loop runs every callback that is due, timers fire and TTLs run  *)
(* out.  A driver need not answer, a rider need not ask.                     *)
(***************************************************************************)
Fairness ==
  /\ \A t \in Trips : WF_vars(MatchStep(t))
  /\ \A d \in Drivers : WF_vars(LockExpires(d))

FairSpec == Spec /\ Fairness
-----------------------------------------------------------------------------
(***************************************************************************)
(* What the matchmaker promises.                                            *)
(***************************************************************************)
\* From the moment an offer is about to be sent until it is answered or times out, the
\* driver's lock belongs to the trip that offers: neither its TTL nor another run's late
\* release takes it away (matching.service.ts, driver-lock.repository.ts).
OfferHoldsLock ==
  \A t \in Trips : pc[t] \in {"send", "waiting"} => lock[cur[t]] = t

\* No driver is asked about two trips at a time (docs/matching.md: exactly one offer sent).
OfferExclusive ==
  \A t, u \in Trips :
    pc[t] = "waiting" /\ pc[u] = "waiting" /\ cur[t] = cur[u] => t = u

\* As long as no store call fails, a lock is held only by the run that is trying that very
\* driver: every way out of tryOfferToDriver gives it back.
LockOnlyWhileTrying ==
  ~Faults => \A t \in Trips, d \in Drivers : lock[d] = t => pc[t] \in Held /\ cur[t] = d

\* A match rests on an acceptance: the assigned driver was sent the offer, and some driver
\* that was sent it accepted.
MatchHasAcceptance ==
  \A t \in Trips : tripStatus[t] = "matched" =>
    /\ tripDriver[t] \in Drivers /\ offer[t][tripDriver[t]] # "none"
    /\ \E d \in Drivers : offer[t][d] = "accepted"

\* The acceptance is the assigned driver's own.
AssignedDriverAccepted ==
  \A t \in Trips : tripStatus[t] = "matched" =>
    \E d \in Drivers : d = tripDriver[t] /\ offer[t][d] = "accepted"

\* A driver is en route on at most one trip (findActiveTripForDriver relies on it).
OneActiveTripPerDriver ==
  \A t, u \in Trips :
    /\ tripStatus[t] = "matched" /\ tripStatus[u] = "matched"
    /\ tripDriver[t] = tripDriver[u]
    => t = u

\* The driver of a matched trip is busy in Postgres.
MatchedDriverBusy ==
  \A t \in Trips : tripStatus[t] = "matched" =>
    \E d \in Drivers : d = tripDriver[t] /\ pgStatus[d] = "busy"

\* No crash and no failure leaves a driver locked for good: the TTL sees to it.
LocksFreed ==
  \A d \in Drivers : lock[d] # NoTrip ~> lock[d] = NoTrip

\* Pings and the final mirror race, but in the end a matched driver is out of nearby search
\* for good (as long as nobody PATCHes its status).
MatchedLeavesSearch ==
  \A d \in Drivers :
    [](  (\E t \in Trips : tripStatus[t] = "matched" /\ tripDriver[t] = d)
       => <>[]~Searchable(d))

\* Matching implements the abstract assignment of trips to available drivers.
Assignment ==
  INSTANCE TripAssignment WITH available <- {d \in Drivers : pgStatus[d] = "online"}

ImplementsAssignment == Assignment!Spec
ImplementsFairAssignment == Assignment!FairSpec
=============================================================================
