---------------------------- MODULE DriverStatus ----------------------------
(***************************************************************************)
(* The two copies of a driver's status: the row in Postgres (drivers.status, *)
(* authoritative) and the live view in Redis (the hash driver:{id}:state and *)
(* the member of drivers:geo) that nearby search reads.  Four kinds of       *)
(* process write them, none of them across both stores at once:              *)
(*   - a PATCH handler (status or location), one per member of Requests;     *)
(*   - the location batch fed by the drivers' sockets;                       *)
(*   - a run of the reconciliation job, one per member of Sweeps;            *)
(*   - the matchmaker, which module Matching adds to this one.               *)
(* A step is one round trip to one store: code between two awaits runs       *)
(* without interruption, and anything may happen at an await.                *)
(*                                                                           *)
(* Positions are left out: what matters of a location update here is the     *)
(* status it copies into Redis and that it makes the entry fresh.            *)
(***************************************************************************)
CONSTANTS
  Drivers,     \* driver ids; every row exists from the start
  NoDriver,    \* stands for "no driver"
  Requests,    \* slots for PATCH requests being served at the same time
  Sweeps,      \* slots for runs of the reconciliation job (no overlap guard)
  Pinging,     \* the drivers that send locations over their socket
  Faults       \* may a store call fail and the process crash?

ASSUME NoDriverAssumption == NoDriver \notin Drivers
ASSUME PingingAssumption == Pinging \subseteq Drivers
ASSUME FaultsAssumption == Faults \in BOOLEAN

VARIABLES
  pgStatus,    \* drivers.status in Postgres
  liveStatus,  \* status in the Redis hash, "none" while there is no hash
  indexed,     \* is the driver a member of drivers:geo?
  fresh,       \* was the hash written within the last DRIVER_STALE_MS?
  reqPc, reqDriver, reqStatus,   \* a PATCH handler: where it is, for whom, which status
  pending,     \* drivers with an update in pendingBatch
  flushing,    \* is a flushBatch run past its Postgres update?
  flushRows,   \* the statuses that update returned, "none" outside the snapshot
  sweepPc, toScan, stale, evicting  \* a run of reconcileStaleDrivers

pgVars    == <<pgStatus>>
liveVars  == <<liveStatus, indexed, fresh>>
reqVars   == <<reqPc, reqDriver, reqStatus>>
flushVars == <<flushing, flushRows>>
sweepVars == <<sweepPc, toScan, stale, evicting>>

driverVars == <<pgStatus, liveStatus, indexed, fresh, reqPc, reqDriver, reqStatus,
                pending, flushing, flushRows, sweepPc, toScan, stale, evicting>>

Status == {"offline", "online", "busy"}
StatusOrNone == Status \cup {"none"}

DriverTypeOK ==
  /\ pgStatus \in [Drivers -> Status]
  /\ liveStatus \in [Drivers -> StatusOrNone]
  /\ indexed \in [Drivers -> BOOLEAN]
  /\ fresh \in [Drivers -> BOOLEAN]
  /\ reqPc \in [Requests -> {"idle", "write", "mirrorStatus", "mirrorLocation"}]
  /\ reqDriver \in [Requests -> Drivers \cup {NoDriver}]
  /\ \A r \in Requests : reqPc[r] # "idle" => reqDriver[r] \in Drivers
  /\ reqStatus \in [Requests -> Status]
  /\ pending \subseteq Drivers
  /\ flushing \in BOOLEAN
  /\ flushRows \in [Drivers -> StatusOrNone]
  /\ sweepPc \in [Sweeps -> {"idle", "scan", "evict", "correct"}]
  /\ toScan \in [Sweeps -> SUBSET Drivers]
  /\ stale \in [Sweeps -> SUBSET Drivers]
  /\ evicting \in [Sweeps -> Drivers \cup {NoDriver}]
  /\ \A s \in Sweeps : sweepPc[s] = "correct" => evicting[s] \in Drivers

(***************************************************************************)
(* A driver starts either as POST /drivers leaves it, a row of any status    *)
(* and nothing in Redis, or on shift: online in both stores, on the map.     *)
(***************************************************************************)
DriverInit ==
  /\ pgStatus \in [Drivers -> Status]
  /\ liveStatus \in [Drivers -> {"none", "online"}]
  /\ \A d \in Drivers : liveStatus[d] = "online" => pgStatus[d] = "online"
  /\ indexed = [d \in Drivers |-> liveStatus[d] = "online"]
  /\ fresh = [d \in Drivers |-> liveStatus[d] = "online"]
  /\ reqPc = [r \in Requests |-> "idle"]
  /\ reqDriver = [r \in Requests |-> NoDriver]
  /\ reqStatus = [r \in Requests |-> "offline"]
  /\ pending = {}
  /\ flushing = FALSE
  /\ flushRows = [d \in Drivers |-> "none"]
  /\ sweepPc = [s \in Sweeps |-> "idle"]
  /\ toScan = [s \in Sweeps |-> {}]
  /\ stale = [s \in Sweeps |-> {}]
  /\ evicting = [s \in Sweeps |-> NoDriver]

-----------------------------------------------------------------------------
(***************************************************************************)
(* The live view.                                                           *)
(***************************************************************************)

\* Time passes without a write to the driver's hash.
Ages(d) ==
  /\ fresh[d]
  /\ fresh' = [fresh EXCEPT ![d] = FALSE]
  /\ UNCHANGED <<liveStatus, indexed, pgStatus, reqVars, pending, flushVars, sweepVars>>

\* updateDriverStatusInRedis: one pipeline; going offline also leaves drivers:geo.
UpdateStatusInRedis(d, s) ==
  /\ liveStatus' = [liveStatus EXCEPT ![d] = s]
  /\ indexed' = [indexed EXCEPT ![d] = @ /\ s # "offline"]
  /\ fresh' = [fresh EXCEPT ![d] = TRUE]

\* upsertDriverLocation(sBatch): GEOADD and HSET of the status each caller read.
UpsertLocations(rows) ==
  /\ liveStatus' = [d \in Drivers |-> IF rows[d] = "none" THEN liveStatus[d] ELSE rows[d]]
  /\ indexed' = [d \in Drivers |-> indexed[d] \/ rows[d] # "none"]
  /\ fresh' = [d \in Drivers |-> fresh[d] \/ rows[d] # "none"]

\* What searchNearby lets through, the radius and the limit apart.
Searchable(d) == indexed[d] /\ liveStatus[d] = "online" /\ fresh[d]

MutIsStale(d) == liveStatus[d] = "online" /\ ~fresh[d]

\* What findStaleDrivers lets through.
IsStale(d) == liveStatus[d] \notin {"none", "offline"} /\ ~fresh[d]

-----------------------------------------------------------------------------
(***************************************************************************)
(* PATCH /drivers/:id/status and /location.                                 *)
(***************************************************************************)
LegalTransition(from, to) ==
  \/ from = to
  \/ <<from, to>> \in {<<"offline", "online">>, <<"online", "offline">>,
                       <<"online", "busy">>, <<"busy", "online">>}

\* updateDriverStatus reads the row; an illegal transition answers 409 and changes nothing.
PatchStatusRead(r, d, s) ==
  /\ reqPc[r] = "idle"
  /\ LegalTransition(pgStatus[d], s)
  /\ reqPc' = [reqPc EXCEPT ![r] = "write"]
  /\ reqDriver' = [reqDriver EXCEPT ![r] = d]
  /\ reqStatus' = [reqStatus EXCEPT ![r] = s]
  /\ UNCHANGED <<pgStatus, liveVars, pending, flushVars, sweepVars>>

\* The UPDATE has no condition on the status that was read.
PatchStatusWrite(r) ==
  /\ reqPc[r] = "write"
  /\ pgStatus' = [pgStatus EXCEPT ![reqDriver[r]] = reqStatus[r]]
  /\ reqPc' = [reqPc EXCEPT ![r] = "mirrorStatus"]
  /\ UNCHANGED <<reqDriver, reqStatus, liveVars, pending, flushVars, sweepVars>>

ReqDone(r) ==
  /\ reqPc' = [reqPc EXCEPT ![r] = "idle"]
  /\ reqDriver' = [reqDriver EXCEPT ![r] = NoDriver]
  /\ reqStatus' = [reqStatus EXCEPT ![r] = "offline"]

PatchStatusMirror(r) ==
  /\ reqPc[r] = "mirrorStatus"
  /\ UpdateStatusInRedis(reqDriver[r], reqStatus[r])
  /\ ReqDone(r)
  /\ UNCHANGED <<pgStatus, pending, flushVars, sweepVars>>

\* updateDriverLocation: the row's position is written and its status comes back.
PatchLocationWrite(r, d) ==
  /\ reqPc[r] = "idle"
  /\ reqPc' = [reqPc EXCEPT ![r] = "mirrorLocation"]
  /\ reqDriver' = [reqDriver EXCEPT ![r] = d]
  /\ reqStatus' = [reqStatus EXCEPT ![r] = pgStatus[d]]
  /\ UNCHANGED <<pgStatus, liveVars, pending, flushVars, sweepVars>>

PatchLocationMirror(r) ==
  /\ reqPc[r] = "mirrorLocation"
  /\ UpsertLocations([d \in Drivers |-> IF d = reqDriver[r] THEN reqStatus[r] ELSE "none"])
  /\ ReqDone(r)
  /\ UNCHANGED <<pgStatus, pending, flushVars, sweepVars>>

\* A rejected UPDATE ends the handler.  So does a mirror that has no effect: a pipeline's exec()
\* reports the errors of its commands in its result, which nobody looks at, and never rejects.
PatchFails(r) ==
  /\ Faults
  /\ reqPc[r] # "idle"
  /\ ReqDone(r)
  /\ UNCHANGED <<pgStatus, liveVars, pending, flushVars, sweepVars>>

-----------------------------------------------------------------------------
(***************************************************************************)
(* The location batch.                                                      *)
(***************************************************************************)
Enqueue(d) ==
  /\ d \in Pinging
  /\ pending' = pending \cup {d}
  /\ UNCHANGED <<pgStatus, liveVars, reqVars, flushVars, sweepVars>>

\* One UPDATE ... RETURNING for all of them: it writes positions, the status comes back.
BatchUpdateLocations(ids) == flushRows' = [d \in Drivers |-> IF d \in ids THEN pgStatus[d] ELSE "none"]

\* flushBatch up to its first await's result.
FlushWrite ==
  /\ ~flushing
  /\ pending # {}
  /\ flushing' = TRUE
  /\ BatchUpdateLocations(pending)
  /\ pending' = {}
  /\ UNCHANGED <<pgStatus, liveVars, reqVars, sweepVars>>

FlushDone ==
  /\ flushing' = FALSE
  /\ flushRows' = [d \in Drivers |-> "none"]

MutFlushOnline ==
  /\ flushing
  /\ UpsertLocations([d \in Drivers |-> IF flushRows[d] = "none" THEN "none" ELSE "online"])
  /\ FlushDone
  /\ UNCHANGED <<pgStatus, reqVars, pending, sweepVars>>

FlushMirror ==
  /\ flushing
  /\ UpsertLocations(flushRows)
  /\ FlushDone
  /\ UNCHANGED <<pgStatus, reqVars, pending, sweepVars>>

\* The UPDATE is rejected or the pipeline has no effect: the snapshot is gone, the guard reset.
FlushFails ==
  /\ Faults
  /\ \/ flushing /\ pending' = pending
     \/ ~flushing /\ pending # {} /\ pending' = {}
  /\ FlushDone
  /\ UNCHANGED <<pgStatus, liveVars, reqVars, sweepVars>>

-----------------------------------------------------------------------------
(***************************************************************************)
(* reconcileStaleDrivers.                                                   *)
(***************************************************************************)
SweepStart(s) ==
  /\ sweepPc[s] = "idle"
  /\ sweepPc' = [sweepPc EXCEPT ![s] = "scan"]
  /\ toScan' = [toScan EXCEPT ![s] = Drivers]
  /\ UNCHANGED <<stale, evicting, pgStatus, liveVars, reqVars, pending, flushVars>>

\* findStaleDrivers reads one driver's hash.
SweepScan(s, d) ==
  /\ sweepPc[s] = "scan"
  /\ d \in toScan[s]
  /\ toScan' = [toScan EXCEPT ![s] = @ \ {d}]
  /\ stale' = [stale EXCEPT ![s] = IF IsStale(d) THEN @ \cup {d} ELSE @]
  /\ UNCHANGED <<sweepPc, evicting, pgStatus, liveVars, reqVars, pending, flushVars>>

\* The list is complete.
SweepListed(s) ==
  /\ sweepPc[s] = "scan"
  /\ toScan[s] = {}
  /\ sweepPc' = [sweepPc EXCEPT ![s] = IF stale[s] = {} THEN "idle" ELSE "evict"]
  /\ UNCHANGED <<toScan, stale, evicting, pgStatus, liveVars, reqVars, pending, flushVars>>

\* evictStaleDriver, with no second look at the hash.
SweepEvict(s, d) ==
  /\ sweepPc[s] = "evict"
  /\ d \in stale[s]
  /\ UpdateStatusInRedis(d, "offline")
  /\ sweepPc' = [sweepPc EXCEPT ![s] = "correct"]
  /\ stale' = [stale EXCEPT ![s] = @ \ {d}]
  /\ evicting' = [evicting EXCEPT ![s] = d]
  /\ UNCHANGED <<toScan, pgStatus, reqVars, pending, flushVars>>

\* The eviction's pipeline has no effect, and the run goes on all the same.
SweepEvictLost(s, d) ==
  /\ Faults
  /\ sweepPc[s] = "evict"
  /\ d \in stale[s]
  /\ sweepPc' = [sweepPc EXCEPT ![s] = "correct"]
  /\ stale' = [stale EXCEPT ![s] = @ \ {d}]
  /\ evicting' = [evicting EXCEPT ![s] = d]
  /\ UNCHANGED <<toScan, liveVars, pgStatus, reqVars, pending, flushVars>>

\* UPDATE drivers SET status = 'offline' WHERE status <> 'offline'.
SweepCorrect(s) ==
  /\ sweepPc[s] = "correct"
  /\ pgStatus' = [pgStatus EXCEPT ![evicting[s]] = "offline"]
  /\ evicting' = [evicting EXCEPT ![s] = NoDriver]
  /\ sweepPc' = [sweepPc EXCEPT ![s] = IF stale[s] = {} THEN "idle" ELSE "evict"]
  /\ UNCHANGED <<toScan, stale, liveVars, reqVars, pending, flushVars>>

\* A rejected SCAN, HGETALL or UPDATE abandons the rest of the list.
SweepFails(s) ==
  /\ Faults
  /\ sweepPc[s] \in {"scan", "correct"}
  /\ sweepPc' = [sweepPc EXCEPT ![s] = "idle"]
  /\ toScan' = [toScan EXCEPT ![s] = {}]
  /\ stale' = [stale EXCEPT ![s] = {}]
  /\ evicting' = [evicting EXCEPT ![s] = NoDriver]
  /\ UNCHANGED <<pgStatus, liveVars, reqVars, pending, flushVars>>

-----------------------------------------------------------------------------
\* The process dies and restarts: everything held in its memory is gone.
DriverCrash ==
  /\ Faults
  /\ reqPc' = [r \in Requests |-> "idle"]
  /\ reqDriver' = [r \in Requests |-> NoDriver]
  /\ reqStatus' = [r \in Requests |-> "offline"]
  /\ pending' = {}
  /\ FlushDone
  /\ sweepPc' = [s \in Sweeps |-> "idle"]
  /\ toScan' = [s \in Sweeps |-> {}]
  /\ stale' = [s \in Sweeps |-> {}]
  /\ evicting' = [s \in Sweeps |-> NoDriver]
  /\ UNCHANGED <<pgStatus, liveVars>>

PatchNext ==
  \E r \in Requests :
    \/ \E d \in Drivers, s \in Status : PatchStatusRead(r, d, s)
    \/ PatchStatusWrite(r)
    \/ PatchStatusMirror(r)
    \/ \E d \in Drivers : PatchLocationWrite(r, d)
    \/ PatchLocationMirror(r)
    \/ PatchFails(r)

FlushNext ==
  \/ \E d \in Drivers : Enqueue(d)
  \/ FlushWrite
  \/ FlushMirror
  \/ FlushFails

SweepNext ==
  \E s \in Sweeps :
    \/ SweepStart(s)
    \/ \E d \in Drivers : SweepScan(s, d)
    \/ SweepListed(s)
    \/ \E d \in Drivers : SweepEvict(s, d)
    \/ \E d \in Drivers : SweepEvictLost(s, d)
    \/ SweepCorrect(s)
    \/ SweepFails(s)

\* Every step but a crash, which takes the matchmaker down too.
DriverStep ==
  \/ \E d \in Drivers : Ages(d)
  \/ PatchNext
  \/ FlushNext
  \/ SweepNext

DriverNext == DriverStep \/ DriverCrash

(***************************************************************************)
(* The event loop keeps running handlers, the batch timer and the            *)
(* reconciliation timer; a silent driver's hash goes stale.  Nothing obliges *)
(* a client to send anything, nor a store to fail.                           *)
(***************************************************************************)
DriverFairness ==
  /\ \A r \in Requests :
       WF_driverVars(PatchStatusWrite(r) \/ PatchStatusMirror(r) \/ PatchLocationMirror(r))
  /\ WF_driverVars(FlushWrite \/ FlushMirror)
  /\ \A s \in Sweeps :
       WF_driverVars(\/ SweepStart(s) \/ SweepListed(s) \/ SweepCorrect(s)
                     \/ \E d \in Drivers : SweepScan(s, d) \/ SweepEvict(s, d))
  /\ \A d \in Drivers : WF_driverVars(Ages(d))

DriverSpec == DriverInit /\ [][DriverNext]_driverVars

-----------------------------------------------------------------------------
(***************************************************************************)
(* What the two stores promise of each other.                               *)
(***************************************************************************)
\* Nothing heard from d, over HTTP or over its socket, is being worked on.
NothingFrom(d) ==
  /\ d \notin pending
  /\ flushRows[d] = "none"
  /\ \A r \in Requests : reqDriver[r] # d

\* From some moment on no crash or failing store call cuts a run of the job short: a run ends when
\* its list is empty, an eviction and the correction that follows it take effect.
JobUndisturbed ==
  <>[][\A s \in Sweeps :
         /\ sweepPc[s] = "scan" /\ sweepPc'[s] = "idle" => toScan[s] = {} /\ stale[s] = {}
         /\ sweepPc[s] = "evict" => sweepPc'[s] # "idle"
         /\ sweepPc[s] = "evict" /\ sweepPc'[s] = "correct" => liveStatus'[evicting'[s]] = "offline"
         /\ sweepPc[s] = "correct" /\ sweepPc'[s] = "idle"
              => stale[s] = {} /\ pgStatus'[evicting[s]] = "offline"]_driverVars

\* The half of it that holds whatever failed or raced before: Redis stops saying "online" or
\* "busy" of a silent driver.
SilentLeavesLiveView ==
  \A d \in Drivers :
    <>[]NothingFrom(d) /\ <>(liveStatus[d] # "none") /\ JobUndisturbed
      => <>[](liveStatus[d] = "offline")

\* docs/frontend-driver-offers.md: whatever happened to the copy in Redis, a driver whose pings
\* keep getting through heals it, once nobody PATCHes its status and the job runs undisturbed.
PingsHeal ==
  \A d \in Drivers :
    ( /\ <>[](\A r \in Requests : reqPc[r] \notin {"write", "mirrorStatus"})
      /\ JobUndisturbed
      /\ []<><<FlushMirror /\ flushRows[d] # "none">>_driverVars )
    => <>[](liveStatus[d] = pgStatus[d] \/ \E s \in Sweeps : evicting[s] = d)
=============================================================================
