--------------------------- MODULE ShardedGeoProofs ---------------------------
(***************************************************************************)
(* For any map, any number of drivers and of calls: a driver whose calls do  *)
(* not overlap or stop half-way is in one shard at most, and in the one it   *)
(* is recorded in when none of them is under way.                            *)
(*                                                                           *)
(* OneShard says nothing of where a driver is between the steps of its call;  *)
(* InStep does, step by step, and OneCall that there is only one.             *)
(*                                                                           *)
(* And a search misses nobody who stays within its radius: what a shard has   *)
(* answered is in found or crowded out, and a shard that has a member within   *)
(* the radius is a candidate (CandidateRegions, by plain geometry).            *)
(***************************************************************************)
EXTENDS ShardedGeo, FiniteSetTheorems, WellFoundedInduction, TLAPS

\* d is in the shard of region r and in no other; in none if r is NoRegion.
Placed(d, r) == \A s \in Regions : shard[s][d] # NoPoint <=> s = r

OneCall == \A d \in clean : \A o, u \in Under(d) : o = u

\* What each step of a call finds of its driver.
InStep(o, d) ==
  /\ op[o].pc \in {"leave", "removeFrom"} => Placed(d, region[d]) /\ op[o].region = region[d]
  /\ op[o].pc = "enter" => \/ Placed(d, NoRegion)
                           \/ Placed(d, region[d]) /\ region[d] = RegionForPoint(op[o].to)
  /\ op[o].pc = "record" => Placed(d, RegionForPoint(op[o].to))
  /\ op[o].pc = "forget" => Placed(d, NoRegion)

Resting == \A d \in clean : Under(d) = {} => Placed(d, region[d])
Working == \A d \in clean : \A o \in Under(d) : InStep(o, d)

\* The part of TypeOK that is about the shards, and not about searches.
CallsTyped ==
  /\ shard \in [Regions -> [Drivers -> Points \cup {NoPoint}]]
  /\ region \in [Drivers -> Regions \cup {NoRegion}]
  /\ op \in [Ops -> [pc : {"idle", "leave", "enter", "record", "removeFrom", "forget"},
                     driver : Drivers \cup {NoDriver}, to : Points \cup {NoPoint},
                     region : Regions \cup {NoRegion}]]
  /\ \A o \in Ops :
       /\ op[o].pc = "idle" <=> op[o].driver = NoDriver
       /\ op[o].pc \in {"leave", "removeFrom"} => op[o].region # NoRegion
       /\ op[o].pc \in {"leave", "enter", "record"} =>
            op[o].to # NoPoint /\ RegionForPoint(op[o].to) # NoRegion
  /\ clean \subseteq Drivers

IInv == CallsTyped /\ OneCall /\ Resting /\ Working

-----------------------------------------------------------------------------
LEMMA MinOfRegions ==
  ASSUME GeoAssumption, NEW S \in SUBSET Regions, S # {}
  PROVE  Min(S) \in S
<1>1. Regions \subseteq Nat
  BY DEF GeoAssumption, Regions
<1> DEFINE less == OpToRel(<, Nat)
<1>2. PICK x \in S : \A y \in S : <<y, x>> \notin less
  <2>1. IsWellFoundedOn(less, Nat)
    BY NatLessThanWellFounded
  <2> HIDE DEF less
  <2> QED BY <1>1, <2>1, WFMin, Zenon
<1>3. less = {ss \in Nat \X Nat : ss[1] < ss[2]}
  BY Zenon DEF OpToRel
<1> HIDE DEF less
<1>4. \A y \in S : ~(y < x)
  <2> SUFFICES ASSUME NEW y \in S, y < x PROVE FALSE
    OBVIOUS
  <2>1. <<y, x>> \in Nat \X Nat
    BY <1>1, <1>2
  <2> QED BY <1>2, <1>3, <2>1
<1>5. \A y \in S : x =< y
  BY <1>1, <1>4
<1> QED BY <1>5 DEF Min

\* A point belongs to a region or to none.
LEMMA RegionsTyped ==
  ASSUME GeoAssumption, NEW p
  PROVE  RegionForPoint(p) \in Regions \cup {NoRegion}
<1> DEFINE owners == {r \in Regions : Contains(r, p)}
<1>1. owners # {} => Min(owners) \in owners
  <2> HIDE DEF owners
  <2>1. owners \in SUBSET Regions
    BY DEF owners
  <2> QED BY <2>1, MinOfRegions
<1> QED BY <1>1 DEF RegionForPoint

LEMMA NoRegionIsNone ==
  ASSUME GeoAssumption
  PROVE  NoRegion \notin Regions
BY DEF GeoAssumption, Regions, NoRegion

LEMMA InitHolds == GeoAssumption /\ Init => IInv
<1> SUFFICES ASSUME GeoAssumption, Init PROVE IInv
  OBVIOUS
<1>1. CallsTyped
  BY DEF Init, CallsTyped, Idle
<1>2. \A d \in Drivers : Under(d) = {}
  BY DEF Init, Under, Idle, GeoAssumption
<1>3. \A d \in Drivers : Placed(d, region[d])
  BY NoRegionIsNone DEF Init, Placed
<1> QED BY <1>1, <1>2, <1>3 DEF IInv, OneCall, Resting, Working, CallsTyped

-----------------------------------------------------------------------------
(***************************************************************************)
(* A step is a step of one call o and of its driver d; the others find their *)
(* shards, their records and their own calls as they were.                   *)
(***************************************************************************)
LEMMA OthersKeep ==
  ASSUME IInv, NEW d \in Drivers, NEW e \in clean', e # d, clean' \subseteq clean,
         \A s \in Regions : shard'[s][e] = shard[s][e],
         region'[e] = region[e],
         \A u \in Ops : op'[u] = op[u] \/ (op[u].driver # e /\ op'[u].driver # e)
  PROVE  /\ \A o, u \in Under(e)' : o = u
         /\ Under(e)' = {} => Placed(e, region[e])'
         /\ \A o \in Under(e)' : InStep(o, e)'
<1>1. Under(e)' = Under(e) /\ \A u \in Under(e) : op'[u] = op[u]
  BY DEF Under
<1>2. \A r : Placed(e, r)' <=> Placed(e, r)
  BY DEF Placed
<1>3. \A o \in Under(e) : InStep(o, e)' <=> InStep(o, e)
  BY <1>1, <1>2 DEF InStep
<1>4. e \in clean
  OBVIOUS
<1> QED BY <1>1, <1>2, <1>3, <1>4 DEF IInv, OneCall, Resting, Working

\* So what is left to show of a step is what becomes of its own driver.
LEMMA StepKeeps ==
  ASSUME IInv, NEW d \in Drivers, CallsTyped', clean' \subseteq clean,
         \A e \in Drivers \ {d} :
           /\ \A s \in Regions : shard'[s][e] = shard[s][e]
           /\ region'[e] = region[e]
           /\ \A u \in Ops : op'[u] = op[u] \/ (op[u].driver # e /\ op'[u].driver # e),
         d \in clean' => /\ \A o, u \in Under(d)' : o = u
                         /\ Under(d)' = {} => Placed(d, region[d])'
                         /\ \A o \in Under(d)' : InStep(o, d)'
  PROVE  IInv'
<1> SUFFICES ASSUME NEW e \in clean'
             PROVE  /\ \A o, u \in Under(e)' : o = u
                    /\ Under(e)' = {} => Placed(e, region[e])'
                    /\ \A o \in Under(e)' : InStep(o, e)'
  BY DEF IInv, OneCall, Resting, Working
<1>1. CASE e = d
  BY <1>1
<1>2. CASE e # d
  <2>1. e \in Drivers \ {d}
    BY <1>2 DEF CallsTyped
  <2> QED BY <1>2, <2>1, OthersKeep
<1> QED BY <1>1, <1>2

\* What a write to one shard does to its driver, and to nobody else.
LEMMA WriteIsLocal ==
  ASSUME CallsTyped, NEW r \in Regions, NEW d \in Drivers, NEW p \in Points \cup {NoPoint},
         WriteShard(r, d, p)
  PROVE  /\ shard' \in [Regions -> [Drivers -> Points \cup {NoPoint}]]
         /\ \A s \in Regions, e \in Drivers :
              shard'[s][e] = IF s = r /\ e = d THEN p ELSE shard[s][e]
BY DEF CallsTyped, WriteShard

-----------------------------------------------------------------------------
LEMMA StartKeeps ==
  ASSUME GeoAssumption, IInv, NEW o \in Ops, NEW d \in Drivers, NEW call, Start(o, d, call),
         call \in [pc : {"leave", "enter", "removeFrom"}, driver : {d},
                   to : Points \cup {NoPoint}, region : Regions \cup {NoRegion}],
         call.region = region[d],
         call.pc \in {"leave", "removeFrom"} => call.region # NoRegion,
         call.pc \in {"leave", "enter"} => call.to # NoPoint /\ RegionForPoint(call.to) # NoRegion,
         call.pc = "enter" => region[d] \in {NoRegion, RegionForPoint(call.to)}
  PROVE  IInv'
<1>1. CallsTyped'
  BY DEF Start, Goes, KeepShards, IInv, CallsTyped, GeoAssumption
<1>2. \A u \in Ops : op'[u] = IF u = o THEN call ELSE op[u]
  BY DEF Start, Goes, IInv, CallsTyped
<1>3. op[o].driver = NoDriver /\ d # NoDriver
  BY DEF Start, IInv, CallsTyped, GeoAssumption
<1>4. shard' = shard /\ region' = region
  BY DEF Start, KeepShards
<1>5. clean' = IF Under(d) = {} THEN clean ELSE clean \ {d}
  BY DEF Start
<1>6. ASSUME d \in clean'
      PROVE  /\ \A u, v \in Under(d)' : u = v
             /\ Under(d)' = {} => Placed(d, region[d])'
             /\ \A u \in Under(d)' : InStep(u, d)'
  <2>1. Under(d) = {} /\ d \in clean
    BY <1>5, <1>6
  <2>2. Under(d)' = {o}
    BY <1>2, <2>1 DEF Under
  <2>3. Placed(d, region[d])'
    BY <1>4, <2>1 DEF IInv, Resting, Placed
  <2>4. InStep(o, d)'
    BY <1>2, <1>4, <2>3 DEF InStep, Placed
  <2> QED BY <2>2, <2>3, <2>4
<1>7. \A e \in Drivers \ {d}, u \in Ops : op'[u] = op[u] \/ (op[u].driver # e /\ op'[u].driver # e)
  BY <1>2, <1>3, GeoAssumption DEF GeoAssumption
<1> QED BY <1>1, <1>4, <1>5, <1>6, <1>7, StepKeeps

LEMMA UpsertKeeps ==
  ASSUME GeoAssumption, IInv, NEW o \in Ops, NEW d \in Drivers, NEW p \in Points, Upsert(o, d, p)
  PROVE  IInv'
<1>1. RegionForPoint(p) # NoRegion /\ p # NoPoint
  BY DEF Upsert, GeoAssumption
<1>2. region[d] \in Regions \cup {NoRegion}
  BY DEF IInv, CallsTyped
<1> DEFINE call == Reporting(d, p)
<1>3. /\ call \in [pc : {"leave", "enter", "removeFrom"}, driver : {d},
                   to : Points \cup {NoPoint}, region : Regions \cup {NoRegion}]
      /\ call.region = region[d] /\ call.to = p
      /\ call.pc # "removeFrom"
      /\ call.pc = "leave" => region[d] # NoRegion
      /\ call.pc = "enter" => region[d] \in {NoRegion, RegionForPoint(p)}
  BY <1>2 DEF Reporting, Migrated
<1>4. Start(o, d, call)
  BY DEF Upsert
<1> HIDE DEF call
<1> QED BY <1>1, <1>3, <1>4, StartKeeps

LEMMA RemoveDriverKeeps ==
  ASSUME GeoAssumption, IInv, NEW o \in Ops, NEW d \in Drivers, RemoveDriver(o, d)
  PROVE  IInv'
<1> DEFINE call == [pc |-> "removeFrom", driver |-> d, to |-> NoPoint, region |-> region[d]]
<1>1. /\ call \in [pc : {"leave", "enter", "removeFrom"}, driver : {d},
                   to : Points \cup {NoPoint}, region : Regions \cup {NoRegion}]
      /\ call.region = region[d] /\ call.pc = "removeFrom" /\ call.region # NoRegion
  BY DEF RemoveDriver, IInv, CallsTyped
<1>2. Start(o, d, call)
  BY DEF RemoveDriver
<1> HIDE DEF call
<1> QED BY <1>1, <1>2, StartKeeps

\* A step of a call that is not its first: what o is from then on.
LEMMA CallStepKeeps ==
  ASSUME GeoAssumption, IInv, NEW o \in Ops, NEW d \in Drivers, op[o].driver = d,
         CallsTyped', clean' \subseteq clean,
         NEW call, Goes(o, call), call.driver = d \/ call = Idle,
         \A e \in Drivers \ {d} :
           /\ \A s \in Regions : shard'[s][e] = shard[s][e]
           /\ region'[e] = region[e],
         d \in clean' => /\ call = Idle => Placed(d, region[d])'
                         /\ call.driver = d => InStep(o, d)'
  PROVE  IInv'
<1>1. d # NoDriver /\ op[o].pc # "idle"
  BY DEF IInv, CallsTyped, GeoAssumption
<1>2. \A u \in Ops : op'[u] = IF u = o THEN call ELSE op[u]
  BY DEF Goes, IInv, CallsTyped
<1>3. \A e \in Drivers \ {d}, u \in Ops : op'[u] = op[u] \/ (op[u].driver # e /\ op'[u].driver # e)
  <2>1. op'[o].driver \in {d, NoDriver}
    BY <1>2 DEF Idle
  <2>2. NoDriver \notin Drivers
    BY DEF GeoAssumption
  <2> QED BY <1>2, <2>1, <2>2
<1>4. ASSUME d \in clean'
      PROVE  /\ \A u, v \in Under(d)' : u = v
             /\ Under(d)' = {} => Placed(d, region[d])'
             /\ \A u \in Under(d)' : InStep(u, d)'
  <2>1. d \in clean
    BY <1>4
  <2>2. /\ \A u \in Under(d)' : u = o /\ call.driver = d
        /\ \A u, v \in Under(d)' : u = v
        /\ call.driver = d => Under(d)' = {o}
    <3>1. Under(d) = {o}
      BY <1>1, <2>1 DEF IInv, OneCall, Under
    <3>2. ASSUME NEW u \in Under(d)' PROVE u = o /\ call.driver = d
      <4>1. u \in Ops /\ op'[u].driver = d
        BY <3>2 DEF Under
      <4>2. u = o
        BY <1>2, <3>1, <4>1 DEF Under
      <4> QED BY <1>2, <4>1, <4>2
    <3>3. call.driver = d => o \in Under(d)'
      BY <1>2 DEF Under
    <3> QED BY <3>2, <3>3
  <2>3. Under(d)' = {} => Placed(d, region[d])'
    BY <1>4, <2>2
  <2>4. ASSUME NEW u \in Under(d)' PROVE InStep(u, d)'
    <3>1. u = o /\ InStep(o, d)'
      BY <1>4, <2>2, <2>4
    <3> QED BY <3>1 DEF InStep, Placed
  <2> QED BY <2>2, <2>3, <2>4
<1> QED BY <1>3, <1>4, StepKeeps

LEMMA LeaveShardKeeps ==
  ASSUME GeoAssumption, IInv, NEW o \in Ops, LeaveShard(o)
  PROVE  IInv'
<1>1. PICK d \in Drivers : op[o].driver = d
  BY DEF LeaveShard, IInv, CallsTyped
<1> DEFINE call == [op[o] EXCEPT !.pc = "enter"]
<1>2. op[o].region \in Regions /\ op[o] = [pc |-> "leave", driver |-> d, to |-> op[o].to, region |-> op[o].region]
  BY <1>1 DEF LeaveShard, IInv, CallsTyped
<1>3. /\ shard' \in [Regions -> [Drivers -> Points \cup {NoPoint}]]
      /\ \A s \in Regions, e \in Drivers :
           shard'[s][e] = IF s = op[o].region /\ e = d THEN NoPoint ELSE shard[s][e]
  BY <1>1, <1>2, WriteIsLocal DEF LeaveShard, IInv
<1>4. call.pc = "enter" /\ call.driver = d /\ call.to = op[o].to /\ call.region = op[o].region
  BY <1>1, <1>2
<1>5. CallsTyped'
  BY <1>1, <1>3, <1>4 DEF LeaveShard, Goes, IInv, CallsTyped
<1>6. ASSUME d \in clean PROVE InStep(o, d)'
  <2>1. Placed(d, region[d]) /\ op[o].region = region[d]
    BY <1>1, <1>6 DEF LeaveShard, IInv, Working, Under, InStep
  <2>2. Placed(d, NoRegion)'
    BY <1>3, <2>1, NoRegionIsNone DEF Placed
  <2>3. op'[o].pc = "enter"
    BY <1>4 DEF LeaveShard, Goes, IInv, CallsTyped
  <2> QED BY <2>2, <2>3 DEF InStep
<1>7. call # Idle /\ Goes(o, call) /\ UNCHANGED <<region, clean>>
  BY <1>1, <1>4 DEF LeaveShard, Idle, GeoAssumption
<1> HIDE DEF call
<1> QED BY <1>1, <1>3, <1>4, <1>5, <1>6, <1>7, CallStepKeeps

LEMMA EnterShardKeeps ==
  ASSUME GeoAssumption, IInv, NEW o \in Ops, EnterShard(o)
  PROVE  IInv'
<1>1. PICK d \in Drivers : op[o].driver = d
  BY DEF EnterShard, IInv, CallsTyped
<1> DEFINE call == [op[o] EXCEPT !.pc = "record"]
           new == RegionForPoint(op[o].to)
<1>2. /\ new \in Regions /\ op[o].to \in Points
      /\ op[o] = [pc |-> "enter", driver |-> d, to |-> op[o].to, region |-> op[o].region]
  BY <1>1, RegionsTyped DEF EnterShard, IInv, CallsTyped
<1>3. /\ shard' \in [Regions -> [Drivers -> Points \cup {NoPoint}]]
      /\ \A s \in Regions, e \in Drivers :
           shard'[s][e] = IF s = new /\ e = d THEN op[o].to ELSE shard[s][e]
  BY <1>1, <1>2, WriteIsLocal DEF EnterShard, IInv
<1>4. call.pc = "record" /\ call.driver = d /\ call.to = op[o].to /\ call.region = op[o].region
  BY <1>1, <1>2
<1>5. CallsTyped'
  BY <1>1, <1>3, <1>4 DEF EnterShard, Goes, IInv, CallsTyped
<1>6. ASSUME d \in clean PROVE InStep(o, d)'
  <2>1. Placed(d, NoRegion) \/ (Placed(d, region[d]) /\ region[d] = new)
    BY <1>1, <1>6 DEF EnterShard, IInv, Working, Under, InStep
  <2>2. \A s \in Regions : shard'[s][d] # NoPoint <=> s = new
    BY <1>2, <1>3, <2>1, NoRegionIsNone DEF Placed, GeoAssumption
  <2>3. op'[o] = call
    BY DEF EnterShard, Goes, IInv, CallsTyped
  <2> QED BY <1>4, <2>2, <2>3 DEF InStep, Placed
<1>7. call # Idle /\ Goes(o, call) /\ UNCHANGED <<region, clean>>
  BY <1>1, <1>4 DEF EnterShard, Idle, GeoAssumption
<1> HIDE DEF call
<1> QED BY <1>1, <1>3, <1>4, <1>5, <1>6, <1>7, CallStepKeeps

LEMMA SetCurrentRegionKeeps ==
  ASSUME GeoAssumption, IInv, NEW o \in Ops, SetCurrentRegion(o)
  PROVE  IInv'
<1>1. PICK d \in Drivers : op[o].driver = d
  BY DEF SetCurrentRegion, IInv, CallsTyped
<1> DEFINE new == RegionForPoint(op[o].to)
<1>2. new \in Regions \cup {NoRegion}
  BY RegionsTyped
<1>3. \A e \in Drivers : region'[e] = IF e = d THEN new ELSE region[e]
  BY <1>1 DEF SetCurrentRegion, IInv, CallsTyped
<1>4. UNCHANGED <<shard, clean>> /\ Goes(o, Idle) /\ op[o].pc = "record"
  BY DEF SetCurrentRegion, KeepShards
<1>5. CallsTyped'
  <2>1. region' \in [Drivers -> Regions \cup {NoRegion}]
    BY <1>1, <1>2 DEF SetCurrentRegion, IInv, CallsTyped
  <2> QED BY <1>4, <2>1 DEF Goes, Idle, IInv, CallsTyped, GeoAssumption
<1>6. ASSUME d \in clean PROVE Placed(d, region[d])'
  <2>1. Placed(d, new)
    BY <1>1, <1>4, <1>6 DEF IInv, Working, Under, InStep
  <2> QED BY <1>3, <1>4, <2>1 DEF Placed
<1>7. Idle.driver # d
  BY DEF Idle, GeoAssumption
<1> QED BY <1>1, <1>3, <1>4, <1>5, <1>6, <1>7, CallStepKeeps

LEMMA RemoveFromShardKeeps ==
  ASSUME GeoAssumption, IInv, NEW o \in Ops, RemoveFromShard(o)
  PROVE  IInv'
<1>1. PICK d \in Drivers : op[o].driver = d
  BY DEF RemoveFromShard, IInv, CallsTyped
<1> DEFINE call == [op[o] EXCEPT !.pc = "forget"]
<1>2. /\ op[o].region \in Regions
      /\ op[o] = [pc |-> "removeFrom", driver |-> d, to |-> op[o].to, region |-> op[o].region]
  BY <1>1 DEF RemoveFromShard, IInv, CallsTyped
<1>3. /\ shard' \in [Regions -> [Drivers -> Points \cup {NoPoint}]]
      /\ \A s \in Regions, e \in Drivers :
           shard'[s][e] = IF s = op[o].region /\ e = d THEN NoPoint ELSE shard[s][e]
  BY <1>1, <1>2, WriteIsLocal DEF RemoveFromShard, IInv
<1>4. call.pc = "forget" /\ call.driver = d /\ call.to = op[o].to /\ call.region = op[o].region
  BY <1>1, <1>2
<1>5. CallsTyped'
  BY <1>1, <1>3, <1>4 DEF RemoveFromShard, Goes, IInv, CallsTyped
<1>6. ASSUME d \in clean PROVE InStep(o, d)'
  <2>1. Placed(d, region[d]) /\ op[o].region = region[d]
    BY <1>1, <1>6 DEF RemoveFromShard, IInv, Working, Under, InStep
  <2>2. Placed(d, NoRegion)'
    BY <1>3, <2>1, NoRegionIsNone DEF Placed
  <2>3. op'[o].pc = "forget"
    BY <1>4 DEF RemoveFromShard, Goes, IInv, CallsTyped
  <2> QED BY <2>2, <2>3 DEF InStep
<1>7. call # Idle /\ Goes(o, call) /\ UNCHANGED <<region, clean>>
  BY <1>1, <1>4 DEF RemoveFromShard, Idle, GeoAssumption
<1> HIDE DEF call
<1> QED BY <1>1, <1>3, <1>4, <1>5, <1>6, <1>7, CallStepKeeps

LEMMA ForgetRegionKeeps ==
  ASSUME GeoAssumption, IInv, NEW o \in Ops, ForgetRegion(o)
  PROVE  IInv'
<1>1. PICK d \in Drivers : op[o].driver = d
  BY DEF ForgetRegion, IInv, CallsTyped
<1>2. \A e \in Drivers : region'[e] = IF e = d THEN NoRegion ELSE region[e]
  BY <1>1 DEF ForgetRegion, IInv, CallsTyped
<1>3. UNCHANGED <<shard, clean>> /\ Goes(o, Idle) /\ op[o].pc = "forget"
  BY DEF ForgetRegion, KeepShards
<1>4. CallsTyped'
  <2>1. region' \in [Drivers -> Regions \cup {NoRegion}]
    BY <1>1 DEF ForgetRegion, IInv, CallsTyped
  <2> QED BY <1>3, <2>1 DEF Goes, Idle, IInv, CallsTyped, GeoAssumption
<1>5. ASSUME d \in clean PROVE Placed(d, region[d])'
  <2>1. Placed(d, NoRegion)
    BY <1>1, <1>3, <1>5 DEF IInv, Working, Under, InStep
  <2> QED BY <1>2, <1>3, <2>1 DEF Placed
<1>6. Idle.driver # d
  BY DEF Idle, GeoAssumption
<1> QED BY <1>1, <1>2, <1>3, <1>4, <1>5, <1>6, CallStepKeeps

LEMMA OpStopsKeeps ==
  ASSUME GeoAssumption, IInv, NEW o \in Ops, OpStops(o)
  PROVE  IInv'
<1>1. PICK d \in Drivers : op[o].driver = d
  BY DEF OpStops, IInv, CallsTyped
<1>2. UNCHANGED <<shard, region>> /\ Goes(o, Idle) /\ clean' = clean \ {d}
  BY <1>1 DEF OpStops, KeepShards
<1>3. CallsTyped'
  BY <1>2 DEF Goes, Idle, IInv, CallsTyped, GeoAssumption
<1> QED BY <1>1, <1>2, <1>3, CallStepKeeps

\* A search, and a step that changes nothing, leave the calls and the shards alone.
LEMMA SearchKeeps ==
  ASSUME IInv, UNCHANGED <<shard, region, op, clean>>
  PROVE  IInv'
BY DEF IInv, CallsTyped, OneCall, Resting, Working, InStep, Placed, Under

-----------------------------------------------------------------------------
THEOREM Inductive == Spec => []IInv
<1>1. IInv /\ [Next]_vars => IInv'
  <2> SUFFICES ASSUME IInv, [Next]_vars PROVE IInv'
    OBVIOUS
  <2>1. ASSUME NEW o \in Ops, NEW d \in Drivers, NEW p \in Points, Upsert(o, d, p) PROVE IInv'
    BY <2>1, UpsertKeeps, GeoAssumption
  <2>2. ASSUME NEW o \in Ops, NEW d \in Drivers, RemoveDriver(o, d) PROVE IInv'
    BY <2>2, RemoveDriverKeeps, GeoAssumption
  <2>3. ASSUME NEW o \in Ops, OpStep(o) PROVE IInv'
    BY <2>3, LeaveShardKeeps, EnterShardKeeps, SetCurrentRegionKeeps, RemoveFromShardKeeps,
       ForgetRegionKeeps, GeoAssumption DEF OpStep
  <2>4. ASSUME NEW o \in Ops, OpStops(o) PROVE IInv'
    BY <2>4, OpStopsKeeps, GeoAssumption
  <2>5. CASE (\E q \in Queries : SearchStart(q)) \/ (\E r \in Regions : GeoSearch(r)) \/ SearchReturns
    BY <2>5, SearchKeeps DEF SearchStart, GeoSearch, SearchReturns, KeepShards
  <2>6. CASE UNCHANGED vars
    BY <2>6, SearchKeeps DEF vars
  <2> QED BY <2>1, <2>2, <2>3, <2>4, <2>5, <2>6 DEF Next
<1> QED BY <1>1, InitHolds, GeoAssumption, PTL DEF Spec

\* "Crossing a region boundary: no stale duplicate" (docs/sharding.md:91-97) is true of every driver
\* whose calls neither overlap nor stop half-way (sharded-driver-geo.repository.ts:55-90).
THEOREM NoDuplicate == Spec => []OneShard
<1>1. IInv => OneShard
  <2> SUFFICES ASSUME IInv, NEW d \in clean
               PROVE  /\ \A r, s \in Regions : shard[r][d] # NoPoint /\ shard[s][d] # NoPoint => r = s
                      /\ Under(d) = {} => \A r \in Regions : shard[r][d] # NoPoint <=> region[d] = r
    BY DEF OneShard
  <2>1. CASE Under(d) = {}
    BY <2>1 DEF IInv, Resting, Placed
  <2>2. CASE Under(d) # {}
    <3>1. PICK o \in Under(d) : InStep(o, d)
      BY <2>2 DEF IInv, Working
    <3>2. op[o].pc \in {"leave", "enter", "record", "removeFrom", "forget"}
      BY <3>1, GeoAssumption DEF Under, IInv, CallsTyped, GeoAssumption
    <3>3. \E r : Placed(d, r)
      BY <3>1, <3>2 DEF InStep
    <3> QED BY <2>2, <3>3 DEF Placed
  <2> QED BY <2>1, <2>2
<1> QED BY <1>1, Inductive, PTL

-----------------------------------------------------------------------------
(***************************************************************************)
(* Searches.  What an entry that stays is worth: its shard is still to be    *)
(* read, or it has been found, or Limit others have that are no farther.     *)
(***************************************************************************)
Crowded(e) ==
  \E near \in SUBSET found : Cardinality(near) = Limit /\ \A x \in near : Away(x) <= Away(e)

InBox == \A r \in Regions, d \in Drivers : shard[r][d] # NoPoint => RegionForPoint(shard[r][d]) = r

SearchInv ==
  /\ InBox
  /\ IsFiniteSet(found) /\ found \subseteq [region : Regions, driver : Drivers, at : Points]
  /\ query \in Queries \cup {NoQuery}
  /\ query # NoQuery =>
       /\ steady \subseteq Members(shard)
       /\ \A e \in steady : Away(e) <= Sq(query.radius) =>
            e.region \in unread \/ e \in found \/ Crowded(e)
  /\ SearchMissesNobody

LEMMA MinMax ==
  ASSUME NEW a \in Int, NEW b \in Int
  PROVE  /\ Max({a, b}) = IF a >= b THEN a ELSE b
         /\ Min({a, b}) = IF a <= b THEN a ELSE b
<1>1. CASE a >= b
  BY <1>1 DEF Max, Min
<1>2. CASE ~(a >= b)
  BY <1>2 DEF Max, Min
<1> QED BY <1>1, <1>2

LEMMA SquaresGrow ==
  ASSUME NEW x \in Nat, NEW y \in Nat, x <= y
  PROVE  x * x <= y * y
<1>1. x * x <= x * y /\ x * y <= y * y
  OBVIOUS
<1> QED BY <1>1

\* The nearest place of an interval, as Clamp has it.
LEMMA ClampIsNearest ==
  ASSUME NEW n \in Int, NEW lo \in Int, NEW hi \in Int, NEW a \in Int, lo <= a, a <= hi
  PROVE  /\ Clamp(n, lo, hi) \in Int
         /\ Sq(n - Clamp(n, lo, hi)) \in Int /\ Sq(n - a) \in Int
         /\ Sq(n - Clamp(n, lo, hi)) <= Sq(n - a)
<1> DEFINE c == Clamp(n, lo, hi)
<1>1. c = IF n < lo THEN lo ELSE IF n > hi THEN hi ELSE n
  <2> DEFINE m == Max({lo, n})
  <2>1. m = IF lo >= n THEN lo ELSE n
    BY MinMax
  <2>2. c = Min({hi, m})
    BY DEF Clamp
  <2> HIDE DEF m, c
  <2>3. m \in Int
    BY <2>1
  <2>4. Min({hi, m}) = IF hi <= m THEN hi ELSE m
    BY <2>3, MinMax
  <2>5. lo <= hi
    OBVIOUS
  <2> QED BY <2>1, <2>2, <2>3, <2>4, <2>5
<1> HIDE DEF c
<1>2. c \in Int
  BY <1>1
<1>3. (n - c) * (n - c) <= (n - a) * (n - a)
  <2>1. CASE n < lo
    <3>1. c - n \in Nat /\ a - n \in Nat /\ c - n <= a - n
      BY <1>1, <2>1
    <3>2. (c - n) * (c - n) <= (a - n) * (a - n)
      BY ONLY <3>1, SquaresGrow
    <3>3. (c - n) * (c - n) = (n - c) * (n - c) /\ (a - n) * (a - n) = (n - a) * (n - a)
      BY <1>2
    <3> QED BY <3>2, <3>3
  <2>2. CASE n > hi
    <3>1. n - c \in Nat /\ n - a \in Nat /\ n - c <= n - a
      BY <1>1, <2>2
    <3> QED BY ONLY <3>1, SquaresGrow
  <2>3. CASE lo <= n /\ n <= hi
    <3>1. n - c = 0
      BY <1>1, <2>3
    <3>2. (n - a) * (n - a) >= 0
      <4>1. CASE n - a \in Nat
        BY <4>1
      <4>2. CASE a - n \in Nat
        <5>1. (a - n) * (a - n) >= 0
          BY <4>2
        <5> QED BY <5>1
      <4> QED BY <4>1, <4>2
    <3> QED BY <3>1, <3>2
  <2> QED BY <2>1, <2>2, <2>3
<1> QED BY <1>2, <1>3 DEF Sq, c

\* A region with a point within the radius is a candidate.
LEMMA CandidateRegions ==
  ASSUME GeoAssumption, NEW p \in Points, NEW r \in Regions, RegionForPoint(p) = r,
         NEW q \in Queries
  PROVE  /\ SqDistance(q.center, p) \in Int
         /\ SqDistance(q.center, p) <= Sq(q.radius) => r \in RegionsWithinRadius(q)
<1> DEFINE box == REGIONS[r]
           c == q.center
<1>1. /\ p.lat \in Int /\ p.lng \in Int /\ c.lat \in Int /\ c.lng \in Int /\ q.radius \in Nat
      /\ box.minLat \in Int /\ box.maxLat \in Int /\ box.minLng \in Int /\ box.maxLng \in Int
  <2>1. p \in [lat : Int, lng : Int] /\ q \in [center : [lat : Int, lng : Int], radius : Nat]
    BY DEF GeoAssumption
  <2>2. REGIONS[r] \in [minLat : Int, maxLat : Int, minLng : Int, maxLng : Int]
    <3>1. \A S : REGIONS \in Seq(S) => REGIONS[r] \in S
      BY DEF Regions
    <3> QED BY <3>1 DEF GeoAssumption
  <2> QED BY <2>1, <2>2
<1>2. Contains(r, p)
  <2> DEFINE owners == {s \in Regions : Contains(s, p)}
  <2>1. owners # {} /\ r = Min(owners)
    BY NoRegionIsNone DEF RegionForPoint
  <2>2. owners \in SUBSET Regions
    OBVIOUS
  <2> HIDE DEF owners
  <2>3. r \in owners
    BY <2>1, <2>2, MinOfRegions
  <2> QED BY <2>3 DEF owners
<1>3. /\ box.minLat <= p.lat /\ p.lat <= box.maxLat
      /\ box.minLng <= p.lng /\ p.lng <= box.maxLng
  BY <1>1, <1>2 DEF Contains
<1> HIDE DEF box, c
<1> DEFINE la == Clamp(c.lat, box.minLat, box.maxLat)
           ln == Clamp(c.lng, box.minLng, box.maxLng)
<1>4. /\ Sq(c.lat - la) \in Int /\ Sq(c.lat - p.lat) \in Int /\ Sq(c.lat - la) <= Sq(c.lat - p.lat)
      /\ Sq(c.lng - ln) \in Int /\ Sq(c.lng - p.lng) \in Int /\ Sq(c.lng - ln) <= Sq(c.lng - p.lng)
  BY <1>1, <1>3, ClampIsNearest
<1>5. SqDistance(c, p) = Sq(c.lat - p.lat) + Sq(c.lng - p.lng)
  BY DEF SqDistance
<1>6. SqDistanceToBox(c, r) = Sq(c.lat - la) + Sq(c.lng - ln)
  BY DEF SqDistanceToBox, SqDistance, box
<1>7. Sq(q.radius) \in Int
  BY <1>1 DEF Sq
<1> HIDE DEF la, ln
<1>8. SqDistance(c, p) \in Int /\ (SqDistance(c, p) <= Sq(q.radius) => SqDistanceToBox(c, r) <= Sq(q.radius))
  BY <1>4, <1>5, <1>6, <1>7
<1> QED BY <1>8 DEF c, RegionsWithinRadius

LEMMA MembersFinite ==
  ASSUME GeoAssumption, CallsTyped
  PROVE  /\ IsFiniteSet(Members(shard))
         /\ Members(shard) \subseteq [region : Regions, driver : Drivers, at : Points]
         /\ \A e : e \in Members(shard) <=>
              \E r \in Regions, d \in Drivers :
                shard[r][d] # NoPoint /\ e = [region |-> r, driver |-> d, at |-> shard[r][d]]
<1> DEFINE f == [x \in Regions \X Drivers |->
                   [region |-> x[1], driver |-> x[2], at |-> shard[x[1]][x[2]]]]
<1>1. IsFiniteSet(Regions \X Drivers)
  <2>1. Len(REGIONS) \in Nat /\ Regions = 1 .. Len(REGIONS)
    BY DEF GeoAssumption, Regions
  <2>2. IsFiniteSet(Regions)
    BY <2>1, FS_Interval
  <2> QED BY <2>2, FS_Product DEF GeoAssumption
<1>2. f \in Surjection(Regions \X Drivers, Entries(shard))
  <2>1. f \in [Regions \X Drivers -> Entries(shard)]
    BY DEF Entries
  <2>2. ASSUME NEW e \in Entries(shard) PROVE \E x \in Regions \X Drivers : f[x] = e
    <3>1. PICK r \in Regions, d \in Drivers : e = [region |-> r, driver |-> d, at |-> shard[r][d]]
      BY <2>2 DEF Entries
    <3>2. <<r, d>> \in Regions \X Drivers /\ f[<<r, d>>] = e
      BY <3>1
    <3> QED BY <3>2
  <2> QED BY <2>1, <2>2 DEF Surjection
<1>3. IsFiniteSet(Entries(shard))
  BY <1>1, <1>2, FS_Surjection
<1>4. IsFiniteSet(Members(shard))
  BY <1>3, FS_Subset DEF Members
<1>5. \A e : e \in Members(shard) <=>
        \E r \in Regions, d \in Drivers :
          shard[r][d] # NoPoint /\ e = [region |-> r, driver |-> d, at |-> shard[r][d]]
  BY DEF Members, Entries
<1>6. Members(shard) \subseteq [region : Regions, driver : Drivers, at : Points]
  BY <1>5 DEF CallsTyped
<1> QED BY <1>4, <1>5, <1>6

\* What an entry is worth that is not among the nearest k: k others are as near.
LEMMA NotNearest ==
  ASSUME NEW S, IsFiniteSet(S), NEW T \in Nearest(S, Limit), NEW e \in S \ T, GeoAssumption
  PROVE  IsFiniteSet(T) /\ T \subseteq S /\ Cardinality(T) = Limit /\ \A x \in T : Away(x) <= Away(e)
<1>1. /\ T \in SUBSET S /\ T # S /\ Cardinality(T) = Min({Limit, Cardinality(S)})
      /\ \A x \in T : Away(x) <= Away(e)
  BY DEF Nearest
<1>2. Cardinality(S) \in Nat /\ Limit \in Int
  BY FS_CardinalityType DEF GeoAssumption
<1>3. IsFiniteSet(T) /\ Cardinality(S) # Cardinality(T)
  BY <1>1, FS_Subset
<1>4. Min({Limit, Cardinality(S)}) \in {Limit, Cardinality(S)}
  <2>1. Cardinality(S) \in Int
    BY <1>2
  <2> QED BY <1>2, <2>1, MinMax
<1>5. Cardinality(T) = Limit
  BY <1>1, <1>3, <1>4
<1> QED BY <1>1, <1>3, <1>5

LEMMA NearestFinite ==
  ASSUME NEW S, IsFiniteSet(S), NEW T \in Nearest(S, Limit)
  PROVE  IsFiniteSet(T) /\ T \subseteq S
BY FS_Subset DEF Nearest

-----------------------------------------------------------------------------
\* The steps that are no search: whoever stays is still where it was.
LEMMA WritesKeep ==
  ASSUME GeoAssumption, CallsTyped, CallsTyped', SearchInv, InBox',
         UNCHANGED searchVars, result' = NoResult,
         steady' \subseteq steady, query # NoQuery => steady' \subseteq Members(shard')
  PROVE  SearchInv'
<1>1. UNCHANGED <<query, unread, found>>
  BY DEF searchVars
<1>2. ASSUME query # NoQuery, NEW e \in steady', Away(e)' <= Sq(query.radius)
      PROVE  e.region \in unread \/ e \in found \/ Crowded(e)
  <2>1. Away(e)' = Away(e)
    BY <1>1 DEF Away
  <2> QED BY <1>2, <2>1 DEF SearchInv
<1>3. \A e : Crowded(e)' <=> Crowded(e)
  BY <1>1 DEF Crowded, Away
<1>4. query' # NoQuery =>
        /\ steady' \subseteq Members(shard)'
        /\ \A e \in steady' : Away(e)' <= Sq(query'.radius) =>
             e.region \in unread' \/ e \in found' \/ Crowded(e)'
  BY <1>1, <1>2, <1>3
<1>5. SearchMissesNobody'
  BY DEF SearchMissesNobody
<1> QED BY <1>1, <1>4, <1>5 DEF SearchInv

LEMMA SearchStarts ==
  ASSUME GeoAssumption, CallsTyped, SearchInv, NEW q \in Queries, SearchStart(q)
  PROVE  SearchInv'
<1>1. /\ query' = q /\ unread' = RegionsWithinRadius(q) /\ found' = {} /\ steady' = Members(shard)
      /\ result' = NoResult /\ shard' = shard
  BY DEF SearchStart
<1>2. ASSUME NEW e \in steady', Away(e)' <= Sq(q.radius) PROVE e.region \in unread'
  <2>1. PICK r \in Regions, d \in Drivers :
          shard[r][d] # NoPoint /\ e = [region |-> r, driver |-> d, at |-> shard[r][d]]
    BY <1>1, <1>2, MembersFinite
  <2>2. e.region = r /\ e.at \in Points /\ RegionForPoint(e.at) = r
    BY <2>1 DEF SearchInv, InBox, CallsTyped
  <2>3. Away(e)' = SqDistance(q.center, e.at)
    BY <1>1 DEF Away
  <2> QED BY <1>1, <1>2, <2>2, <2>3, CandidateRegions
<1>3. Members(shard)' = Members(shard)
  BY <1>1 DEF Members, Entries
<1>4. InBox' /\ SearchMissesNobody'
  BY <1>1 DEF SearchInv, InBox, SearchMissesNobody
<1>5. IsFiniteSet(found') /\ found' \subseteq [region : Regions, driver : Drivers, at : Points]
  BY <1>1, FS_EmptySet
<1> QED BY <1>1, <1>2, <1>3, <1>4, <1>5 DEF SearchInv

LEMMA GeoSearchKeeps ==
  ASSUME GeoAssumption, CallsTyped, SearchInv, NEW r \in Regions, GeoSearch(r)
  PROVE  SearchInv'
<1> DEFINE within == {e \in Members(shard) : e.region = r /\ Away(e) <= Sq(query.radius)}
<1>1. PICK T \in Nearest(within, Limit) : found' = found \cup T
  BY DEF GeoSearch
<1>2. /\ UNCHANGED <<shard, steady, query>> /\ unread' = unread \ {r} /\ result' = NoResult
  BY DEF GeoSearch, KeepShards
<1>3. IsFiniteSet(within)
  BY MembersFinite, FS_Subset
<1>4. within \subseteq Members(shard)
  OBVIOUS
<1>5. IsFiniteSet(T) /\ T \subseteq within
  <2> HIDE DEF within
  <2> QED BY <1>3, NearestFinite
<1>6. IsFiniteSet(found') /\ found' \subseteq [region : Regions, driver : Drivers, at : Points]
  <2>1. IsFiniteSet(found \cup T)
    BY <1>5, FS_Union DEF SearchInv
  <2>2. T \subseteq [region : Regions, driver : Drivers, at : Points]
    BY <1>4, <1>5, MembersFinite
  <2> QED BY <1>1, <2>1, <2>2 DEF SearchInv
<1>7. \A e : Crowded(e) => Crowded(e)'
  <2>1. \A x : Away(x)' = Away(x)
    BY <1>2 DEF Away
  <2>2. found \subseteq found'
    BY <1>1
  <2> QED BY <2>1, <2>2 DEF Crowded
<1>8. ASSUME query # NoQuery, NEW e \in steady, Away(e) <= Sq(query.radius)
      PROVE  e.region \in unread' \/ e \in found' \/ Crowded(e)'
  <2>1. CASE e.region # r \/ e \in found \/ Crowded(e)
    BY <1>1, <1>2, <1>7, <1>8, <2>1 DEF SearchInv
  <2>2. CASE e.region = r /\ e \in T
    BY <1>1, <2>2
  <2>3. CASE e.region = r /\ e \notin T
    <3>1. e \in within \ T
      BY <1>8, <2>3 DEF SearchInv
    <3> HIDE DEF within
    <3>2. T \in SUBSET found' /\ Cardinality(T) = Limit /\ \A x \in T : Away(x) <= Away(e)
      BY <1>1, <1>3, <3>1, NotNearest
    <3>3. \A x : Away(x)' = Away(x)
      BY <1>2 DEF Away
    <3> QED BY <3>2, <3>3 DEF Crowded
  <2> QED BY <2>1, <2>2, <2>3
<1>9. Members(shard)' = Members(shard) /\ \A x : Away(x)' = Away(x)
  BY <1>2 DEF Members, Entries, Away
<1>10. query' # NoQuery =>
         /\ steady' \subseteq Members(shard)'
         /\ \A e \in steady' : Away(e)' <= Sq(query'.radius) =>
              e.region \in unread' \/ e \in found' \/ Crowded(e)'
  BY <1>2, <1>8, <1>9 DEF SearchInv
<1>11. InBox' /\ SearchMissesNobody'
  BY <1>2 DEF SearchInv, InBox, SearchMissesNobody
<1> QED BY <1>2, <1>6, <1>10, <1>11 DEF SearchInv

LEMMA SearchReturnsKeeps ==
  ASSUME GeoAssumption, CallsTyped, SearchInv, SearchReturns
  PROVE  SearchInv'
<1>1. PICK T \in Nearest(found, Limit) : result' = [query |-> query, found |-> T]
  BY DEF SearchReturns, Merged
<1>2. query # NoQuery /\ unread = {} /\ query' = NoQuery /\ found' = {} /\ UNCHANGED <<shard, steady>>
  BY DEF SearchReturns
<1>3. IsFiniteSet(T) /\ T \subseteq found
  BY NearestFinite DEF SearchInv
<1>4. \A x : Away(x) = SqDistance(query.center, x.at)
  BY DEF Away
<1>5. \A x \in found \cup steady : Away(x) \in Int
  <2>1. \A x \in found \cup steady : x.at \in Points
    BY <1>2, MembersFinite DEF SearchInv
  <2>2. query \in Queries
    BY <1>2 DEF SearchInv
  <2>3. \A p \in Points : SqDistance(query.center, p) \in Int
    BY <2>2, GeoAssumption DEF GeoAssumption, SqDistance, Sq
  <2> QED BY <1>4, <2>1, <2>3
<1>6. ASSUME NEW e \in steady, Away(e) <= Sq(query.radius), e \notin T
      PROVE  Cardinality(T) = Limit /\ \A x \in T : Away(x) <= Away(e)
  <2>1. CASE e \in found
    BY <1>6, <2>1, NotNearest DEF SearchInv
  <2>2. CASE Crowded(e)
    <3>1. PICK near \in SUBSET found : Cardinality(near) = Limit /\ \A x \in near : Away(x) <= Away(e)
      BY <2>2 DEF Crowded
    <3>2. CASE T = near
      BY <3>1, <3>2
    <3>3. CASE T # near
      <4>1. IsFiniteSet(near)
        BY FS_Subset DEF SearchInv
      <4>2. Cardinality(T) = Limit
        <5>1. CASE T = found
          <6>1. Limit <= Cardinality(found)
            BY <3>1, FS_Subset DEF SearchInv
          <6>2. Cardinality(found) \in Int /\ Limit \in Int
            BY FS_CardinalityType DEF SearchInv, GeoAssumption
          <6>3. Cardinality(T) = Min({Limit, Cardinality(found)})
            BY DEF Nearest
          <6> QED BY <6>1, <6>2, <6>3, MinMax
        <5>2. CASE T # found
          <6>1. PICK z \in found \ T : TRUE
            BY <1>3, <5>2
          <6> QED BY <6>1, NotNearest DEF SearchInv
        <5> QED BY <5>1, <5>2
      <4>3. near \ T # {}
        BY <1>3, <3>1, <3>3, <4>1, <4>2, FS_Subset
      <4>4. PICK y \in near \ T : TRUE
        BY <4>3
      <4>5. /\ y \in found /\ Away(y) <= Away(e)
            /\ \A x \in T : Away(x) <= Away(y)
        BY <3>1, <4>4 DEF Nearest
      <4>6. \A x \in T : Away(x) <= Away(e)
        BY <1>3, <1>5, <4>5
      <4> QED BY <4>2, <4>6
    <3> QED BY <3>2, <3>3
  <2> QED BY <1>2, <1>6, <2>1, <2>2 DEF SearchInv
<1>7. SearchMissesNobody'
  <2> SUFFICES ASSUME NEW e \in steady, SqDistance(query.center, e.at) <= Sq(query.radius), e \notin T
               PROVE  /\ Cardinality(T) = Limit
                      /\ \A x \in T : SqDistance(query.center, x.at) <= SqDistance(query.center, e.at)
    BY <1>1, <1>2 DEF SearchMissesNobody
  <2> QED BY <1>4, <1>6
<1>8. InBox' /\ IsFiniteSet(found') /\ found' \subseteq [region : Regions, driver : Drivers, at : Points]
  BY <1>2, FS_EmptySet DEF SearchInv, InBox
<1> QED BY <1>2, <1>7, <1>8 DEF SearchInv

\* A shard is written with a point of its region, or with none.
LEMMA WriteKeeps ==
  ASSUME GeoAssumption, CallsTyped, CallsTyped', SearchInv,
         NEW r \in Regions, NEW d \in Drivers, NEW p \in Points \cup {NoPoint},
         WriteShard(r, d, p), p # NoPoint => RegionForPoint(p) = r, UNCHANGED searchVars
  PROVE  SearchInv'
<1>1. InBox'
  BY WriteIsLocal DEF SearchInv, InBox
<1>2. /\ result' = NoResult
      /\ steady' = IF query = NoQuery THEN {} ELSE steady \cap Members(shard')
  BY DEF WriteShard
<1> QED BY <1>1, <1>2, WritesKeep

LEMMA QuietKeeps ==
  ASSUME GeoAssumption, CallsTyped, CallsTyped', SearchInv, KeepShards, UNCHANGED searchVars
  PROVE  SearchInv'
<1>1. InBox' /\ steady' = steady /\ result' = NoResult /\ shard' = shard /\ query' = query
  BY DEF SearchInv, InBox, KeepShards, searchVars
<1>2. query # NoQuery => steady' \subseteq Members(shard')
  BY <1>1 DEF SearchInv
<1> QED BY <1>1, <1>2, WritesKeep

\* A search misses nobody who stays, whatever crosses a boundary meanwhile
\* (sharded-driver-geo.repository.ts, searchNearby).
THEOREM NobodyIsMissed == Spec => []SearchMissesNobody
<1>1. Init => SearchInv
  BY FS_EmptySet DEF Init, SearchInv, InBox, SearchMissesNobody
<1>2. IInv /\ IInv' /\ SearchInv /\ [Next]_vars => SearchInv'
  <2> SUFFICES ASSUME IInv, IInv', SearchInv, [Next]_vars PROVE SearchInv'
    OBVIOUS
  <2> USE GeoAssumption
  <2>0. CallsTyped /\ CallsTyped'
    BY DEF IInv
  <2>1. ASSUME NEW o \in Ops,
               \/ \E d \in Drivers, p \in Points : Upsert(o, d, p)
               \/ \E d \in Drivers : RemoveDriver(o, d)
               \/ SetCurrentRegion(o) \/ ForgetRegion(o) \/ OpStops(o)
        PROVE  SearchInv'
    BY <2>0, <2>1, QuietKeeps DEF Upsert, RemoveDriver, Start, SetCurrentRegion, ForgetRegion, OpStops
  <2>2. ASSUME NEW o \in Ops, LeaveShard(o) \/ RemoveFromShard(o) PROVE SearchInv'
    <3>1. op[o].region \in Regions /\ op[o].driver \in Drivers
      BY <2>0, <2>2 DEF LeaveShard, RemoveFromShard, CallsTyped
    <3> QED BY <2>0, <2>2, <3>1, WriteKeeps DEF LeaveShard, RemoveFromShard
  <2>3. ASSUME NEW o \in Ops, EnterShard(o) PROVE SearchInv'
    <3>1. op[o].driver \in Drivers /\ op[o].to \in Points /\ RegionForPoint(op[o].to) \in Regions
      BY <2>0, <2>3, RegionsTyped DEF EnterShard, CallsTyped
    <3> QED BY <2>0, <2>3, <3>1, WriteKeeps DEF EnterShard
  <2>4. CASE \E q \in Queries : SearchStart(q)
    BY <2>0, <2>4, SearchStarts
  <2>5. CASE \E r \in Regions : GeoSearch(r)
    BY <2>0, <2>5, GeoSearchKeeps
  <2>6. CASE SearchReturns
    BY <2>0, <2>6, SearchReturnsKeeps
  <2>7. CASE UNCHANGED vars
    BY <2>7 DEF vars, SearchInv, InBox, SearchMissesNobody, Crowded, Away, Members, Entries
  <2> QED BY <2>1, <2>2, <2>3, <2>4, <2>5, <2>6, <2>7 DEF Next, OpStep
<1>3. SearchInv => SearchMissesNobody
  BY DEF SearchInv
<1> QED BY <1>1, <1>2, <1>3, Inductive, PTL DEF Spec
=============================================================================
