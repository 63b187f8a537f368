-------------------------------- MODULE Surge --------------------------------
(***************************************************************************)
(* services/surge.service.ts: a run of computeAndUpdateSurge counts the open *)
(* trips and the online drivers of every zone, reads the multipliers stored  *)
(* by the run before, moves each towards its target and stores them all.     *)
(* A zone is a geohash cell.  A run waits for two stores three times, the     *)
(* next starts when the interval is over whether it has ended or not, and    *)
(* quotes read what is stored meanwhile.                                     *)
(*                                                                           *)
(* Multipliers are integers, UNIT standing for 1.0.                          *)
(***************************************************************************)
EXTENDS Geohash

CONSTANTS
  Pickups,          \* where trips are requested
  MaxOpen,          \* bounds the trips waiting at each of them
  Positions,        \* where drivers may be online
  MaxOnline,        \* bounds the drivers at each of them
  Runs,             \* the runs that may be under way at once
  zoneBits, UNIT, minMultiplier, maxMultiplier, minSampleRequests, maxChangePerInterval,
  Absent            \* no answer yet, or no field of the hash

ASSUME SurgeAssumption ==
  /\ UNIT \in Nat \ {0} /\ maxChangePerInterval \in Nat \ {0} /\ minSampleRequests \in Nat
  /\ minMultiplier \in Nat /\ maxMultiplier \in Nat /\ minMultiplier <= maxMultiplier
  /\ Absent \notin Int /\ IsFiniteSet(Pickups) /\ IsFiniteSet(Positions)
  /\ MaxOpen \in [Pickups -> Nat] /\ MaxOnline \in [Positions -> Nat]

VARIABLES
  open,    \* how many trips are 'requested' at each pickup
  online,  \* how many drivers are 'online' at each position
  surge,   \* surge:state, the multiplier of each zone
  run,     \* the local variables of each computeAndUpdateSurge
  hot,     \* history: zones that have had minSampleRequests open trips at once
  missed   \* history: per run, the writes of others since it read surge:state

worldVars == <<open, online>>
vars == <<open, online, surge, run, hot, missed>>

\* zoneHashFor, of the points that occur.
zoneHashFor == [p \in Pickups \cup Positions |-> Encode(p, zoneBits)]
Zones == {zoneHashFor[p] : p \in Pickups \cup Positions}
PickupsIn == [z \in Zones |-> {p \in Pickups : zoneHashFor[p] = z}]
PositionsIn == [z \in Zones |-> {p \in Positions : zoneHashFor[p] = z}]
Multipliers == minMultiplier..maxMultiplier

Clamp(n, lo, hi) == Min({hi, Max({lo, n})})

Requested(z) == MapThenSumSet(LAMBDA p : open[p], PickupsIn[z])
Online(z) == MapThenSumSet(LAMBDA p : online[p], PositionsIn[z])

Idle == [pc |-> "idle", requests |-> Absent, drivers |-> Absent, new |-> Absent]

TypeOK ==
  /\ open \in [Pickups -> Nat] /\ \A p \in Pickups : open[p] <= MaxOpen[p]
  /\ online \in [Positions -> Nat] /\ \A p \in Positions : online[p] <= MaxOnline[p]
  /\ surge \in [Zones -> Multipliers \cup {Absent}]
  /\ run \in [Runs -> [pc : {"idle", "count", "read", "write", "failed"},
                       requests : [Zones -> Nat] \cup {Absent},
                       drivers : [Zones -> Nat] \cup {Absent},
                       new : [Zones -> Multipliers \cup {Absent}] \cup {Absent}]]
  /\ hot \subseteq Zones
  /\ missed \in [Runs -> BOOLEAN]

Init ==
  /\ open = [p \in Pickups |-> 0]
  /\ online = [p \in Positions |-> 0]
  /\ surge = [z \in Zones |-> Absent]
  /\ run = [r \in Runs |-> Idle]
  /\ hot = {}
  /\ missed = [r \in Runs |-> FALSE]

-----------------------------------------------------------------------------
(***************************************************************************)
(* The rows of trips and drivers, written by the rest of the system.         *)
(***************************************************************************)
NowHot == hot' = hot \cup {z \in Zones : Requested(z)' >= minSampleRequests}

TripRequested(p) ==
  /\ open[p] < MaxOpen[p]
  /\ open' = [open EXCEPT ![p] = @ + 1]
  /\ NowHot
  /\ UNCHANGED <<online, surge, run, missed>>

TripResolved(p) ==
  /\ open[p] > 0
  /\ open' = [open EXCEPT ![p] = @ - 1]
  /\ UNCHANGED <<online, surge, run, hot, missed>>

DriverComes(p) ==
  /\ online[p] < MaxOnline[p]
  /\ online' = [online EXCEPT ![p] = @ + 1]
  /\ UNCHANGED <<open, surge, run, hot, missed>>

\* It goes offline, becomes busy or moves on.
DriverLeaves(p) ==
  /\ online[p] > 0
  /\ online' = [online EXCEPT ![p] = @ - 1]
  /\ UNCHANGED <<open, surge, run, hot, missed>>

-----------------------------------------------------------------------------
(***************************************************************************)
(* computeAndUpdateSurge.                                                   *)
(***************************************************************************)
Goes(r, fields) == run' = [run EXCEPT ![r] = fields]

\* setInterval fires, whatever the runs before it are doing.
RunStarts(r) ==
  /\ run[r].pc \in {"idle", "failed"}
  /\ Goes(r, [Idle EXCEPT !.pc = "count"])
  /\ UNCHANGED <<worldVars, surge, hot, missed>>

MutCountAnywhere(z) == MapThenSumSet(LAMBDA p : open[p], Pickups)
RequestCount(z) == Requested(z)

\* findOpenTripPickups and findOnlineDriversWithLocation, two queries in any order ...
CountRequests(r) ==
  /\ run[r].pc = "count" /\ run[r].requests = Absent
  /\ Goes(r, [run[r] EXCEPT !.requests = [z \in Zones |-> RequestCount(z)],
                            !.pc = IF run[r].drivers = Absent THEN "count" ELSE "read"])
  /\ UNCHANGED <<worldVars, surge, hot, missed>>

CountDrivers(r) ==
  /\ run[r].pc = "count" /\ run[r].drivers = Absent
  /\ Goes(r, [run[r] EXCEPT !.drivers = [z \in Zones |-> Online(z)],
                            !.pc = IF run[r].requests = Absent THEN "count" ELSE "read"])
  /\ UNCHANGED <<worldVars, surge, hot, missed>>

Target(requests, drivers) ==
  IF requests < minSampleRequests THEN minMultiplier
  ELSE Clamp((requests * UNIT) \div Max({drivers, 1}), minMultiplier, maxMultiplier)

MutMoved(previous, target) == Clamp(target, minMultiplier, maxMultiplier)
Moved(previous, target) ==
  LET delta == Clamp(target - previous, -maxChangePerInterval, maxChangePerInterval)
  IN Clamp(previous + delta, minMultiplier, maxMultiplier)

Stored(z) == IF surge[z] = Absent THEN minMultiplier ELSE surge[z]

\* getAllSurgeZoneStates
Stateful == {z \in Zones : surge[z] # Absent}

MutAllZones(r) == {z \in Zones : run[r].requests[z] > 0 \/ run[r].drivers[z] > 0}
\* Zones with a signal, and zones that have a multiplier.
AllZones(r) == {z \in Zones : run[r].requests[z] > 0 \/ run[r].drivers[z] > 0} \cup Stateful

\* ... getAllSurgeZoneStates, and the loop over the zones ...
ReadStates(r) ==
  /\ run[r].pc = "read"
  /\ IF AllZones(r) = {} THEN Goes(r, Idle)
     ELSE Goes(r, [Idle EXCEPT !.pc = "write", !.new = [z \in Zones |->
            IF z \in AllZones(r)
            THEN Moved(Stored(z), Target(run[r].requests[z], run[r].drivers[z])) ELSE Absent]])
  /\ missed' = [missed EXCEPT ![r] = FALSE]
  /\ UNCHANGED <<worldVars, surge, hot>>

\* ... and setSurgeZoneStates, one HSET with every zone of the loop.
WriteStates(r) ==
  /\ run[r].pc = "write"
  /\ surge' = [z \in Zones |-> IF run[r].new[z] = Absent THEN surge[z] ELSE run[r].new[z]]
  /\ missed' = [s \in Runs |-> s # r /\ (missed[s] \/ run[s].pc = "write")]
  /\ Goes(r, Idle)
  /\ UNCHANGED <<worldVars, hot>>

\* A query or a command is rejected; the interval's handler logs it.
RunFails(r) ==
  /\ run[r].pc \in {"count", "read", "write"}
  /\ Goes(r, [Idle EXCEPT !.pc = "failed"])
  /\ missed' = [missed EXCEPT ![r] = FALSE]
  /\ UNCHANGED <<worldVars, surge, hot>>

RunStep(r) == CountRequests(r) \/ CountDrivers(r) \/ ReadStates(r) \/ WriteStates(r)

Next ==
  \/ \E p \in Pickups : TripRequested(p) \/ TripResolved(p)
  \/ \E p \in Positions : DriverComes(p) \/ DriverLeaves(p)
  \/ \E r \in Runs : RunStarts(r) \/ RunStep(r) \/ RunFails(r)

Spec == Init /\ [][Next]_vars

\* The interval goes on firing and the stores go on answering.
FairSpec ==
  /\ Spec
  /\ \A r \in Runs : WF_vars(RunStarts(r) \/ RunStep(r))

-----------------------------------------------------------------------------
(***************************************************************************)
(* Fares: fare.service.ts estimateFare, in hundredths of a cent.             *)
(***************************************************************************)
Round(n, unit) == (2 * n + unit) \div (2 * unit)

\* base is whole cents, the other parts are not; m is the multiplier of the pickup's zone.
EstimateFare(base, distance, time, m) ==
  LET subtotal == 100 * base + distance + time IN
  [baseCents |-> base,
   distanceCents |-> Round(distance, 100),
   timeCents |-> Round(time, 100),
   subtotalCents |-> Round(subtotal, 100),
   totalCents |-> Round(subtotal * m, 100 * UNIT)]

-----------------------------------------------------------------------------
(***************************************************************************)
(* Properties.                                                              *)
(***************************************************************************)
\* Only riders waiting in a zone raise its multiplier: a zone that never had the minimum sample
\* at once stays at the baseline, whatever its neighbours do, however runs overlap, and
\* though the two counts of a run are taken at different moments (surge.service.ts:30-72).
OnlyDemandRaises ==
  \A z \in Zones : surge[z] \notin {Absent, minMultiplier} => z \in hot

\* "A zone can move by at most this much, up or down, per interval" (docs/surge-pricing.md:63),
\* for every run that no other has written during.
SmoothSteps ==
  [][\A z \in Zones, r \in Runs :
       run[r].pc = "write" /\ run'[r] = Idle /\ surge' # surge /\ ~missed[r] =>
         /\ Stored(z)' - Stored(z) <= maxChangePerInterval
         /\ Stored(z) - Stored(z)' <= maxChangePerInterval]_vars

\* A zone comes back to the baseline unless its riders do or a run fails meanwhile, though
\* runs overlap and a slow one may store an older multiplier over a newer one.
CalmDown ==
  \A z \in Zones :
    Stored(z) # minMultiplier ~>
      \/ Stored(z) = minMultiplier
      \/ Requested(z) >= minSampleRequests
      \/ \E r \in Runs : run[r].pc = "failed"
=============================================================================
