------------------------------ MODULE ShardedGeo ------------------------------
(***************************************************************************)
(* repositories/sharded-driver-geo.repository.ts and geo/regions.ts: one    *)
(* geo set per region, and for every driver the region it was last put in.  *)
(* A report is a chain of three or four round trips to up to three Redis    *)
(* databases; a search reads the shards one by one.  Reports of one driver  *)
(* may overlap, and any round trip may be the last one of its call.         *)
(*                                                                          *)
(* Positions are integers on a small map, distances are compared squared.   *)
(***************************************************************************)
EXTENDS Integers, FiniteSets, Sequences, FiniteSetsExt

CONSTANTS
  Drivers,
  Ops,         \* reports and removals under way at once
  REGIONS,     \* a sequence of bounding boxes, from west to east
  Points,      \* where drivers may be, as [lat |-> .., lng |-> ..]
  Queries,     \* the searches that are made, as [center |-> .., radius |-> ..]
  Limit,       \* COUNT
  NoPoint, NoDriver, NoQuery, NoResult

Regions == DOMAIN REGIONS
NoRegion == 0

ASSUME GeoAssumption ==
  /\ REGIONS \in Seq([minLat : Int, maxLat : Int, minLng : Int, maxLng : Int])
  /\ Points \subseteq [lat : Int, lng : Int]
  /\ Queries \subseteq [center : [lat : Int, lng : Int], radius : Nat]
  /\ Limit \in Nat \ {0}
  /\ IsFiniteSet(Drivers)
  /\ NoPoint \notin Points /\ NoDriver \notin Drivers /\ NoQuery \notin Queries

VARIABLES
  shard,    \* shard[r][d]: the member d of the geo set of region r
  region,   \* driver-shard-region:{id}
  op,       \* the local variables of each upsertDriverLocation and removeDriver
  clean,    \* history: the drivers none of whose calls has overlapped another or stopped half-way
  query,    \* the search under way
  unread,   \* its candidateRegions still to be answered
  found,    \* what the others have answered
  steady,   \* history: the entries that have been there since the search began
  result    \* what a search returns in this step

shardVars == <<shard, region>>
searchVars == <<query, unread, found>>
vars == <<shard, region, op, clean, query, unread, found, steady, result>>

-----------------------------------------------------------------------------
(***************************************************************************)
(* geo/regions.ts                                                           *)
(***************************************************************************)
Sq(n) == n * n
SqDistance(p, q) == Sq(p.lat - q.lat) + Sq(p.lng - q.lng)

Contains(r, p) ==
  LET box == REGIONS[r] IN
  /\ box.minLat <= p.lat /\ p.lat <= box.maxLat
  /\ box.minLng <= p.lng
  /\ IF r = Len(REGIONS) THEN p.lng <= box.maxLng ELSE p.lng < box.maxLng

RegionForPoint(p) ==
  LET owners == {r \in Regions : Contains(r, p)}
  IN IF owners = {} THEN NoRegion ELSE Min(owners)

Clamp(n, lo, hi) == Min({hi, Max({lo, n})})

SqDistanceToBox(p, r) ==
  LET box == REGIONS[r] IN
  SqDistance(p, [lat |-> Clamp(p.lat, box.minLat, box.maxLat),
                 lng |-> Clamp(p.lng, box.minLng, box.maxLng)])

RegionsWithinRadius(q) == {r \in Regions : SqDistanceToBox(q.center, r) <= Sq(q.radius)}

-----------------------------------------------------------------------------
\* An entry of a shard, with what a search needs of it.
Entries(s) == {[region |-> r, driver |-> d, at |-> s[r][d]] :
                 r \in Regions, d \in Drivers}
Members(s) == {e \in Entries(s) : e.at # NoPoint}

Idle == [pc |-> "idle", driver |-> NoDriver, to |-> NoPoint, region |-> NoRegion]
Under(d) == {o \in Ops : op[o].driver = d}

TypeOK ==
  /\ shard \in [Regions -> [Drivers -> Points \cup {NoPoint}]]
  /\ region \in [Drivers -> Regions \cup {NoRegion}]
  /\ op \in [Ops -> [pc : {"idle", "leave", "enter", "record", "removeFrom", "forget"},
                     driver : Drivers \cup {NoDriver}, to : Points \cup {NoPoint},
                     region : Regions \cup {NoRegion}]]
  /\ \A o \in Ops :
       /\ op[o].pc = "idle" => op[o] = Idle
       /\ op[o].pc # "idle" => op[o].driver # NoDriver
       /\ op[o].pc \in {"leave", "removeFrom", "forget"} => op[o].region # NoRegion
       /\ op[o].pc \in {"leave", "enter", "record"} => op[o].to # NoPoint
       /\ op[o].to # NoPoint => RegionForPoint(op[o].to) # NoRegion
  /\ clean \subseteq Drivers
  /\ query \in Queries \cup {NoQuery}
  /\ unread \subseteq Regions
  /\ found \subseteq [region : Regions, driver : Drivers, at : Points]
  /\ steady \subseteq [region : Regions, driver : Drivers, at : Points]

Init ==
  /\ shard = [r \in Regions |-> [d \in Drivers |-> NoPoint]]
  /\ region = [d \in Drivers |-> NoRegion]
  /\ op = [o \in Ops |-> Idle]
  /\ clean = Drivers
  /\ query = NoQuery
  /\ unread = {}
  /\ found = {}
  /\ steady = {}
  /\ result = NoResult

\* The members of a shard change under a search that is under way.
WriteShard(r, d, p) ==
  /\ shard' = [shard EXCEPT ![r][d] = p]
  /\ steady' = IF query = NoQuery THEN {} ELSE steady \cap Members(shard')
  /\ result' = NoResult

KeepShards ==
  /\ UNCHANGED <<shard, steady>>
  /\ result' = NoResult

Goes(o, fields) == op' = [op EXCEPT ![o] = fields]

-----------------------------------------------------------------------------
(***************************************************************************)
(* upsertDriverLocation and removeDriver, up to the answer to their first   *)
(* command: the region the driver is recorded in.  Nothing happens before   *)
(* that command reaches Redis, so the call begins there.                    *)
(***************************************************************************)
Start(o, d, call) ==
  /\ op[o].pc = "idle"
  /\ Goes(o, call)
  /\ clean' = IF Under(d) = {} THEN clean ELSE clean \ {d}
  /\ KeepShards
  /\ UNCHANGED <<region, searchVars>>

MutMigrated(d, p) == FALSE
Migrated(d, p) == region[d] \notin {NoRegion, RegionForPoint(p)}

Reporting(d, p) ==
  [pc |-> IF Migrated(d, p) THEN "leave" ELSE "enter", driver |-> d, to |-> p, region |-> region[d]]

\* A point outside every region is refused before anything is asked.
Upsert(o, d, p) == RegionForPoint(p) # NoRegion /\ Start(o, d, Reporting(d, p))

\* A driver that is recorded nowhere needs no removal.
RemoveDriver(o, d) ==
  /\ region[d] # NoRegion
  /\ Start(o, d, [pc |-> "removeFrom", driver |-> d, to |-> NoPoint, region |-> region[d]])

LeaveShard(o) ==
  /\ op[o].pc = "leave"
  /\ WriteShard(op[o].region, op[o].driver, NoPoint)
  /\ Goes(o, [op[o] EXCEPT !.pc = "enter"])
  /\ UNCHANGED <<region, clean, searchVars>>

EnterShard(o) ==
  /\ op[o].pc = "enter"
  /\ WriteShard(RegionForPoint(op[o].to), op[o].driver, op[o].to)
  /\ Goes(o, [op[o] EXCEPT !.pc = "record"])
  /\ UNCHANGED <<region, clean, searchVars>>

SetCurrentRegion(o) ==
  /\ op[o].pc = "record"
  /\ region' = [region EXCEPT ![op[o].driver] = RegionForPoint(op[o].to)]
  /\ Goes(o, Idle)
  /\ KeepShards
  /\ UNCHANGED <<clean, searchVars>>

RemoveFromShard(o) ==
  /\ op[o].pc = "removeFrom"
  /\ WriteShard(op[o].region, op[o].driver, NoPoint)
  /\ Goes(o, [op[o] EXCEPT !.pc = "forget"])
  /\ UNCHANGED <<region, clean, searchVars>>

ForgetRegion(o) ==
  /\ op[o].pc = "forget"
  /\ region' = [region EXCEPT ![op[o].driver] = NoRegion]
  /\ Goes(o, Idle)
  /\ KeepShards
  /\ UNCHANGED <<clean, searchVars>>

\* A rejected command, or the end of the process, between two of the steps.
OpStops(o) ==
  /\ op[o].pc # "idle"
  /\ Goes(o, Idle)
  /\ clean' = clean \ {op[o].driver}
  /\ KeepShards
  /\ UNCHANGED <<region, searchVars>>

-----------------------------------------------------------------------------
(***************************************************************************)
(* searchNearby: one GEOSEARCH per candidate region, then merge and sort.   *)
(***************************************************************************)
Away(e) == SqDistance(query.center, e.at)

\* The nearest k of S, in any order among equals.
Nearest(S, k) ==
  {T \in SUBSET S :
     /\ Cardinality(T) = Min({k, Cardinality(S)})
     /\ \A x \in T, y \in S \ T : Away(x) <= Away(y)}

\* Each shard's results after the other's, without the merge.
MutMerged(S, k) ==
  {T \in SUBSET S :
     /\ Cardinality(T) = Min({k, Cardinality(S)})
     /\ \A x \in T, y \in S \ T :
          x.region < y.region \/ (x.region = y.region /\ Away(x) <= Away(y))}
Merged(S, k) == Nearest(S, k)

SearchStart(q) ==
  /\ query = NoQuery
  /\ query' = q
  /\ unread' = RegionsWithinRadius(q)
  /\ found' = {}
  /\ steady' = Members(shard)
  /\ result' = NoResult
  /\ UNCHANGED <<shard, region, op, clean>>

GeoSearch(r) ==
  /\ r \in unread
  /\ unread' = unread \ {r}
  /\ LET within == {e \in Members(shard) : e.region = r /\ Away(e) <= Sq(query.radius)}
     IN \E T \in Nearest(within, Limit) : found' = found \cup T
  /\ KeepShards
  /\ UNCHANGED <<region, op, clean, query>>

SearchReturns ==
  /\ query # NoQuery
  /\ unread = {}
  /\ \E T \in Merged(found, Limit) : result' = [query |-> query, found |-> T]
  /\ query' = NoQuery
  /\ found' = {}
  /\ UNCHANGED <<shard, region, op, clean, unread, steady>>

OpStep(o) ==
  \/ LeaveShard(o)
  \/ EnterShard(o)
  \/ SetCurrentRegion(o)
  \/ RemoveFromShard(o)
  \/ ForgetRegion(o)

Next ==
  \/ \E o \in Ops :
       \/ \E d \in Drivers, p \in Points : Upsert(o, d, p)
       \/ \E d \in Drivers : RemoveDriver(o, d)
       \/ OpStep(o)
       \/ OpStops(o)
  \/ \E q \in Queries : SearchStart(q)
  \/ \E r \in Regions : GeoSearch(r)
  \/ SearchReturns

Spec == Init /\ [][Next]_vars

-----------------------------------------------------------------------------
(***************************************************************************)
(* Properties.                                                              *)
(***************************************************************************)
\* A driver none of whose calls has overlapped another or stopped half-way is in one shard at
\* most, even between the steps of a crossing; and when no call for it is under way it is in
\* the shard it is recorded in and nowhere else (docs/sharding.md: no stale duplicate).
OneShard ==
  \A d \in clean :
    /\ \A r, s \in Regions : shard[r][d] # NoPoint /\ shard[s][d] # NoPoint => r = s
    /\ Under(d) = {} => \A r \in Regions : shard[r][d] # NoPoint <=> region[d] = r

\* A search misses nobody: an entry within the radius that was there from its beginning to its
\* end is returned unless Limit others at most as far away are, whatever crosses the
\* boundary meanwhile, whichever shard answers first, and however many calls have failed.
SearchMissesNobody ==
  result # NoResult =>
    \A e \in steady :
      SqDistance(result.query.center, e.at) <= Sq(result.query.radius) =>
        \/ e \in result.found
        \/ /\ Cardinality(result.found) = Limit
           /\ \A x \in result.found :
                SqDistance(result.query.center, x.at) <= SqDistance(result.query.center, e.at)
=============================================================================
