--------------------------------- MODULE Eta ---------------------------------
(***************************************************************************)
(* services/eta.service.ts and its cache.  The ETA of a trip is recomputed  *)
(* when the location batch has written a position of its driver and when a  *)
(* page asks GET /trips/:id/eta.  Both go through maybeRecomputeEta: read   *)
(* the cached value, decide by its age and by how far the driver has moved, *)
(* ask an engine, store the result.  Nothing orders the recomputations of   *)
(* one trip, and each works on a trip row read before its first await.      *)
(*                                                                          *)
(* An ETA is represented by what it was computed from.  Time is a Tick that *)
(* advances every age; an age at its cap means "that or more".  A trip      *)
(* stands for its driver too: once matched they belong together.            *)
(***************************************************************************)
EXTENDS Integers, FiniteSets, FiniteSetsExt

CONSTANTS
  Trips,
  Gets,              \* GETs under way at once
  Recomputations,    \* recomputations of flushes under way at once
  Places,            \* positions, as distances along a road
  Skews,             \* clock of a driver's phone minus clock of the server, in ticks
  Engines,           \* the configurations of ETA_MODE and ETA_OSRM_ENABLED to start with
  RecomputeInterval, \* ETA_RECOMPUTE_INTERVAL_MS, for mode heuristic
  MlCacheTtl,        \* ETA_ML_CACHE_TTL_MS, for the other modes
  RecomputeDistance, \* ETA_RECOMPUTE_DISTANCE_METERS
  StaleAfter,        \* ETA_STALE_LOCATION_MS
  MaxCall,           \* no call takes more ticks: engines and stores have time-outs
  NoPlace, NoEta, NoTrip, NoAnswer

ASSUME EtaAssumption ==
  /\ Places \subseteq Int /\ NoPlace \notin Places
  /\ Skews \subseteq Int /\ 0 \in Skews /\ IsFiniteSet(Skews)
  /\ {RecomputeInterval, MlCacheTtl, RecomputeDistance, StaleAfter, MaxCall} \subseteq Nat \ {0}
  /\ NoTrip \notin Trips /\ Gets \cap Recomputations = {}
  /\ Engines \subseteq [mode : {"heuristic", "ml", "ml_with_fallback"}, osrm : BOOLEAN]

VARIABLES
  engine,    \* getEtaConfig(): the mode and whether OSRM is asked
  trip,      \* trips.status
  legAge,    \* ticks since the trip was started
  row,       \* the driver's row: current_location, age of last_updated_at
  cache,     \* trip:{id}:eta
  flushing,  \* flushBatch is running
  flushed,   \* the positions of that flush, before its trips have been looked up
  call,      \* what each recomputation or GET has in its local variables
  answer     \* the answer sent by this step, if one was

Calls == Gets \cup Recomputations

vars == <<engine, trip, legAge, row, cache, flushing, flushed, call, answer>>

-----------------------------------------------------------------------------
MaxSkew == Max(Skews)
MinSkew == Min(Skews)

Interval == IF engine.mode = "heuristic" THEN RecomputeInterval ELSE MlCacheTtl
LongestInterval == Max({RecomputeInterval, MlCacheTtl})

\* Ages that no comparison tells apart from older ones.
AgeCap == LongestInterval + MaxCall + MaxSkew - MinSkew
\* The longest an ETA for the pickup is served after the pickup: see OldLegFades.
LegBound == LongestInterval + Max({MaxSkew, MaxCall}) + MaxCall - 1

Older(age, cap) == IF age < cap THEN age + 1 ELSE age

Sources == {"heuristic", "heuristic_osrm", "ml", "ml_fallback"}
Legs == {"pickup", "dropoff"}
EtaRecord == [place : Places, leg : Legs, source : Sources, age : 0..AgeCap, skew : Skews]
Status == {"requested", "matched", "in_progress", "completed", "cancelled"}
NoUpdate == [place |-> NoPlace, skew |-> 0]

Idle == [pc |-> "idle", trip |-> NoTrip, leg |-> "pickup", place |-> NoPlace,
         skew |-> 0, age |-> 0, now |-> 0, source |-> "heuristic", prior |-> NoEta]

TypeOK ==
  /\ engine \in Engines
  /\ trip \in [Trips -> Status]
  /\ legAge \in [Trips -> 0..(LegBound + 1)]
  /\ row \in [Trips -> [place : Places \cup {NoPlace}, age : 0..(StaleAfter + 1)]]
  /\ cache \in [Trips -> EtaRecord \cup {NoEta}]
  /\ flushing \in BOOLEAN
  /\ flushed \in [Trips -> [place : Places \cup {NoPlace}, skew : Skews]]
  /\ call \in [Calls -> [pc : {"idle", "driver", "stale", "cache", "engine", "store"},
                         trip : Trips \cup {NoTrip}, leg : Legs,
                         place : Places \cup {NoPlace}, skew : Skews,
                         age : 0..MaxCall, now : 0..MaxCall,
                         source : Sources, prior : EtaRecord \cup {NoEta}]]

Init ==
  /\ engine \in Engines
  /\ trip = [t \in Trips |-> "requested"]
  /\ legAge = [t \in Trips |-> 0]
  /\ row = [t \in Trips |-> [place |-> NoPlace, age |-> 0]]
  /\ cache = [t \in Trips |-> NoEta]
  /\ flushing = FALSE
  /\ flushed = [t \in Trips |-> NoUpdate]
  /\ call = [c \in Calls |-> Idle]
  /\ answer = NoAnswer

-----------------------------------------------------------------------------
(***************************************************************************)
(* What the calls read and compute.                                         *)
(***************************************************************************)
Abs(n) == IF n < 0 THEN -n ELSE n

Active(t) == trip[t] \in {"matched", "in_progress"}
LegOf(t) == IF trip[t] = "in_progress" THEN "dropoff" ELSE "pickup"

\* timeSinceLastComputeMs: both times are the clocks of whoever caused the computations.
TimeSince(c, eta) == (eta.age - eta.skew) - (call[c].now - call[c].skew)

MutTooOld(c, eta) == TimeSince(c, eta) > Interval
TooOld(c, eta) == TimeSince(c, eta) >= Interval

ShouldRecompute(c, eta) ==
  \/ eta = NoEta
  \/ TooOld(c, eta)
  \/ Abs(call[c].place - eta.place) >= RecomputeDistance

\* computeEtaForMode and computeHeuristicEta: the sources that may come out of it, as the ML
\* service and OSRM answer or fail (time-out, unreachable, error status, malformed: all alike).
HeuristicSources == IF engine.osrm THEN {"heuristic_osrm", "heuristic"} ELSE {"heuristic"}

EngineSources ==
  CASE engine.mode = "heuristic" -> HeuristicSources
    [] engine.mode = "ml_with_fallback" -> {"ml", "ml_fallback"}
    [] engine.mode = "ml" -> {"ml"}

\* In mode ml a failure is surfaced instead.
EngineMayFail == engine.mode = "ml"

\* The driver has no position, or its row is older than ETA_STALE_LOCATION_MS.
LocationStale(r) == r.place = NoPlace \/ r.age > StaleAfter

\* buildCachedEta.
MutComputedEta(c) ==
  [place |-> call[c].place, leg |-> call[c].leg, source |-> call[c].source,
   age |-> 0, skew |-> call[c].skew]

ComputedEta(c) ==
  [place |-> call[c].place, leg |-> call[c].leg, source |-> call[c].source,
   age |-> call[c].now, skew |-> call[c].skew]

-----------------------------------------------------------------------------
\* A call ends.  The last recomputation of a flush lets the next flush begin.
FlushCalls == {c \in Recomputations : call[c].pc # "idle"}

MutCallEnds(c) ==
  /\ call' = [call EXCEPT ![c] = Idle]
  /\ flushing' = flushing

CallEnds(c) ==
  /\ call' = [call EXCEPT ![c] = Idle]
  /\ flushing' = (flushing /\ FlushCalls # {c})

\* getTripEta sends its answer; a recomputation of a flush has none.
Finishes(c, status, eta) ==
  /\ CallEnds(c)
  /\ answer' = IF c \in Recomputations THEN NoAnswer
               ELSE [trip |-> call[c].trip, status |-> status, eta |-> eta, now |-> call[c].now]

Continues(c, fields) ==
  /\ call' = [call EXCEPT ![c] = fields]
  /\ answer' = NoAnswer
  /\ UNCHANGED flushing

-----------------------------------------------------------------------------
(***************************************************************************)
(* GET /trips/:id/eta up to the throttle.                                   *)
(***************************************************************************)
\* The trip's row decides at once for a trip without a driver and for one that is over.
GetTripEta(c, t) ==
  /\ call[c].pc = "idle"
  /\ IF Active(t)
     THEN /\ Continues(c, [Idle EXCEPT !.pc = "driver", !.trip = t, !.leg = LegOf(t)])
     ELSE /\ answer' = [trip |-> t, eta |-> NoEta, now |-> 0,
                        status |-> CASE trip[t] = "completed" -> "trip_completed"
                                     [] trip[t] = "cancelled" -> "trip_cancelled"
                                     [] OTHER -> "no_driver_assigned"]
          /\ UNCHANGED <<call, flushing>>
  /\ UNCHANGED <<engine, trip, legAge, row, cache, flushed>>

\* The driver's row: without a position, or too old, only the cache is read.
GetReadsDriver(c) ==
  /\ call[c].pc = "driver"
  /\ LET r == row[call[c].trip]
     IN Continues(c, [call[c] EXCEPT !.pc = IF LocationStale(r) THEN "stale" ELSE "cache",
                                     !.place = r.place])
  /\ UNCHANGED <<engine, trip, legAge, row, cache, flushed>>

GetStaleAnswer(c) ==
  /\ call[c].pc = "stale"
  /\ Finishes(c, "stale_location", cache[call[c].trip])
  /\ UNCHANGED <<engine, trip, legAge, row, cache, flushed>>

-----------------------------------------------------------------------------
(***************************************************************************)
(* maybeRecomputeEta.                                                       *)
(***************************************************************************)
\* One HGETALL; one pipeline that sets every field of the hash and when it expires.
GetCachedEta(t) == cache[t]
SetCachedEta(t, eta) == cache' = [cache EXCEPT ![t] = eta]

ReadCache(c) ==
  /\ call[c].pc = "cache"
  /\ LET eta == GetCachedEta(call[c].trip) IN
     IF ShouldRecompute(c, eta)
     THEN Continues(c, [call[c] EXCEPT !.pc = "engine",
                                       !.prior = IF EngineMayFail THEN eta ELSE NoEta])
     ELSE Finishes(c, "ok", eta)
  /\ UNCHANGED <<engine, trip, legAge, row, cache, flushed>>

EngineComputes(c) ==
  /\ call[c].pc = "engine"
  /\ \E s \in EngineSources :
       Continues(c, [call[c] EXCEPT !.pc = "store", !.source = s, !.prior = NoEta])
  /\ UNCHANGED <<engine, trip, legAge, row, cache, flushed>>

\* Mode ml only: nothing is stored and the answer repeats what was cached before.
EngineUnavailable(c) ==
  /\ call[c].pc = "engine"
  /\ EngineMayFail
  /\ Finishes(c, "ml_unavailable", call[c].prior)
  /\ UNCHANGED <<engine, trip, legAge, row, cache, flushed>>

\* setCachedEta overwrites whatever has been stored since the cache was read.
StoreEta(c) ==
  /\ call[c].pc = "store"
  /\ SetCachedEta(call[c].trip, ComputedEta(c))
  /\ Finishes(c, "ok", ComputedEta(c))
  /\ UNCHANGED <<engine, trip, legAge, row, flushed>>

\* A rejected query or command: a GET ends with an error.  In a flush Promise.all rejects at once,
\* so that the flush is over while the recomputations of its other trips go on.
CallFails(c) ==
  /\ call[c].pc # "idle"
  /\ call' = [call EXCEPT ![c] = Idle]
  /\ flushing' = (flushing /\ c \in Gets)
  /\ answer' = NoAnswer
  /\ UNCHANGED <<engine, trip, legAge, row, cache, flushed>>

-----------------------------------------------------------------------------
(***************************************************************************)
(* The location batch (ws/location-batch.ts), as far as the ETA goes.       *)
(***************************************************************************)
\* The rows of the drivers in the batch, with the timestamps their phones sent.
FlushPositions(S, p, k) ==
  /\ ~flushing
  /\ flushing' = TRUE
  /\ row' = [t \in Trips |-> IF t \in S THEN [place |-> p, age |-> 0] ELSE row[t]]
  /\ flushed' = [t \in Trips |-> IF t \in S THEN [place |-> p, skew |-> k] ELSE NoUpdate]
  /\ answer' = NoAnswer
  /\ UNCHANGED <<engine, trip, legAge, cache, call>>

\* handleDriverLocationUpdatesBatch: one query for the active trips, then one call of
\* maybeRecomputeEta for each.  `slot' only says which of Recomputations stand for them.
LooksUp(t) == flushed[t].place # NoPlace /\ Active(t)

FlushLookup ==
  /\ flushing
  /\ \E t \in Trips : flushed[t].place # NoPlace
  /\ LET due == {t \in Trips : LooksUp(t)}
         free == {c \in Recomputations : call[c].pc = "idle"}
     IN \E slot \in [due -> free] :
          /\ \A t, u \in due : slot[t] = slot[u] => t = u
          /\ call' = [c \in Calls |->
               IF \E t \in due : slot[t] = c
               THEN LET t == CHOOSE u \in due : slot[u] = c
                    IN [Idle EXCEPT !.pc = "cache", !.trip = t, !.leg = LegOf(t),
                                    !.place = flushed[t].place, !.skew = flushed[t].skew]
               ELSE call[c]]
          /\ flushing' = (due # {})
  /\ flushed' = [t \in Trips |-> NoUpdate]
  /\ answer' = NoAnswer
  /\ UNCHANGED <<engine, trip, legAge, row, cache>>

\* Its query is rejected: the flush ends, the rows it wrote stay written.
FlushFails ==
  /\ flushing
  /\ \E t \in Trips : flushed[t].place # NoPlace
  /\ flushing' = FALSE
  /\ flushed' = [t \in Trips |-> NoUpdate]
  /\ answer' = NoAnswer
  /\ UNCHANGED <<engine, trip, legAge, row, cache, call>>

-----------------------------------------------------------------------------
(***************************************************************************)
(* The rest of the system.                                                  *)
(***************************************************************************)
\* The matcher's decision.
TripDecided(t, s) ==
  /\ trip[t] = "requested"
  /\ s \in {"matched", "cancelled"}
  /\ trip' = [trip EXCEPT ![t] = s]
  /\ answer' = NoAnswer
  /\ UNCHANGED <<engine, legAge, row, cache, flushing, flushed, call>>

\* The two statuses after 'matched': rows of the trips table, written from outside src/.
TripAdvances(t) ==
  /\ Active(t)
  /\ trip' = [trip EXCEPT ![t] = IF @ = "matched" THEN "in_progress" ELSE "completed"]
  /\ legAge' = [legAge EXCEPT ![t] = 0]
  /\ answer' = NoAnswer
  /\ UNCHANGED <<engine, row, cache, flushing, flushed, call>>

\* PATCH status, the commit of a match and reconcileStaleDrivers write last_updated_at
\* and no position.
StatusWritten(t) ==
  /\ row' = [row EXCEPT ![t].age = 0]
  /\ answer' = NoAnswer
  /\ UNCHANGED <<engine, trip, legAge, cache, flushing, flushed, call>>

\* The 24 hours of CACHE_TTL_SECONDS run out, or Redis loses the key.
CacheExpires(t) ==
  /\ cache' = [cache EXCEPT ![t] = NoEta]
  /\ answer' = NoAnswer
  /\ UNCHANGED <<engine, trip, legAge, row, flushing, flushed, call>>

\* The process dies and restarts.
Restart ==
  /\ call' = [c \in Calls |-> Idle]
  /\ flushing' = FALSE
  /\ flushed' = [t \in Trips |-> NoUpdate]
  /\ answer' = NoAnswer
  /\ UNCHANGED <<engine, trip, legAge, row, cache>>

Aged(eta) == IF eta = NoEta THEN NoEta ELSE [eta EXCEPT !.age = Older(@, AgeCap)]

Tick ==
  /\ \A c \in Calls : call[c].age < MaxCall
  /\ legAge' = [t \in Trips |-> IF trip[t] = "in_progress" THEN Older(legAge[t], LegBound + 1)
                                ELSE 0]
  /\ row' = [t \in Trips |-> [row[t] EXCEPT !.age = Older(@, StaleAfter + 1)]]
  /\ cache' = [t \in Trips |-> Aged(cache[t])]
  /\ call' = [c \in Calls |->
       IF call[c].pc = "idle" THEN Idle
       ELSE [call[c] EXCEPT !.age = @ + 1, !.prior = Aged(@),
                            !.now = IF call[c].pc = "driver" THEN 0 ELSE @ + 1]]
  /\ answer' = NoAnswer
  /\ UNCHANGED <<engine, trip, flushing, flushed>>

CallStep(c) ==
  \/ GetReadsDriver(c)
  \/ GetStaleAnswer(c)
  \/ ReadCache(c)
  \/ EngineComputes(c)
  \/ EngineUnavailable(c)
  \/ StoreEta(c)
  \/ CallFails(c)

Next ==
  \/ \E c \in Gets, t \in Trips : GetTripEta(c, t)
  \/ \E c \in Calls : CallStep(c)
  \/ \E S \in (SUBSET Trips) \ {{}}, p \in Places, k \in Skews : FlushPositions(S, p, k)
  \/ FlushLookup
  \/ FlushFails
  \/ \E t \in Trips :
       \/ \E s \in {"matched", "cancelled"} : TripDecided(t, s)
       \/ TripAdvances(t)
       \/ StatusWritten(t)
       \/ CacheExpires(t)
  \/ Restart
  \/ Tick

Spec == Init /\ [][Next]_vars

-----------------------------------------------------------------------------
(***************************************************************************)
(* Properties.                                                              *)
(***************************************************************************)
\* An ETA answered as 'ok' was computed no longer than one recompute interval, plus what the
\* phone that caused it was ahead of the server, before the GET looked at the clock: whatever
\* has been stored by overlapping recomputations, in whatever order.
OkIsRecent ==
  answer # NoAnswer /\ answer.status = "ok"
    => answer.eta.age - answer.now < Interval + MaxSkew

\* The cache is not keyed by the leg, and a recomputation works on the trip row it started with.
\* Even so an ETA for the pickup is no longer answered as 'ok' once the trip has been under way
\* for an interval, a call that reads it, and the lead its time may have on the pickup: the
\* skew of a phone, or the time a GET spends between reading the trip and looking at the clock.
OldLegFades ==
  answer # NoAnswer /\ answer.status = "ok" /\ trip[answer.trip] = "in_progress"
    /\ legAge[answer.trip] > LegBound
      => answer.eta.leg = "dropoff"

\* flushBatch refuses to run while one is running.  A flush that is running has its query for the
\* trips or a recomputation under way, each of which ends it whether it succeeds or fails: no
\* failure of an engine or a store leaves the positions of the whole fleet blocked.
FlushCanEnd ==
  flushing => FlushCalls # {} \/ \E t \in Trips : flushed[t].place # NoPlace
=============================================================================
