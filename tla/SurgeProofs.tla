----------------------------- MODULE SurgeProofs -----------------------------
(***************************************************************************)
(* The surge and the geohash index, which share the grid.                    *)
(*                                                                           *)
(* For any points, zones, multipliers and number of overlapping runs: only    *)
(* riders who wait in a zone raise its multiplier, and a run that no other    *)
(* has written during moves none by more than maxChangePerInterval.           *)
(* Both rest on what a run has in its local variables, counted and read at    *)
(* different moments while other runs and the world went on: RunInv.          *)
(*                                                                           *)
(* For any grid, precision and drivers: a search of the index misses nobody,  *)
(* the nearest neighbours are the nearest, the cells around a point cover the *)
(* radius their precision was chosen for, and a cell is read back from its    *)
(* hash with the point in it.                                                 *)
(***************************************************************************)
EXTENDS Surge, GeohashIndex, FiniteSetTheorems, WellFoundedInduction, TLAPS

RunRecords ==
  [pc : {"idle", "count", "read", "write", "failed"},
   requests : [Zones -> Nat] \cup {Absent},
   drivers : [Zones -> Nat] \cup {Absent},
   new : [Zones -> Multipliers \cup {Absent}] \cup {Absent}]

\* Zone z has been seen to have n riders waiting at once.
DemandSeen(z, n) == n >= minSampleRequests /\ n > 0 => z \in hot

Near(m, n) == m - n <= maxChangePerInterval /\ n - m <= maxChangePerInterval

\* What a run has in its variables; `late' says that another has written since it read surge:state.
RunInv(k, late) ==
  /\ k.pc = "read" => k.requests \in [Zones -> Nat] /\ k.drivers \in [Zones -> Nat]
  /\ k.pc = "write" => k.new \in [Zones -> Multipliers \cup {Absent}]
  /\ \A z \in Zones :
       /\ k.pc = "read" \/ (k.pc = "count" /\ k.requests # Absent) =>
            DemandSeen(z, k.requests[z])
       /\ k.pc = "write" /\ k.new[z] \notin {Absent, minMultiplier} => z \in hot
       /\ k.pc = "write" /\ ~late /\ k.new[z] # Absent => Near(k.new[z], Stored(z))

RunsInv == \A r \in Runs : RunInv(run[r], missed[r])

DemandInv == \A z \in Zones : DemandSeen(z, Requested(z))

IInv == TypeOK /\ RunsInv /\ DemandInv /\ OnlyDemandRaises

-----------------------------------------------------------------------------
(***************************************************************************)
(* Counting: MapThenSumSet over a finite set.                               *)
(***************************************************************************)
\* The function the fold iterates, and the sum of f over S it gives.
IsIteration(g, f, S) ==
  g = [s \in SUBSET S |-> IF s = {} THEN 0
                          ELSE f[CHOOSE x \in s : TRUE] + g[s \ {CHOOSE x \in s : TRUE}]]

SumOver(f, S) == (CHOOSE g : IsIteration(g, f, S))[S]

\* A statement about the sets of a size holds of every finite set if it holds of the empty set and
\* a counterexample always has a smaller one.
LEMMA LeastSize ==
  ASSUME NEW Bad, Bad \subseteq Nat, \A n \in Bad : n # 0 /\ n - 1 \in Bad
  PROVE  Bad = {}
<1> DEFINE less == OpToRel(<, Nat)
<1> SUFFICES ASSUME Bad # {} PROVE FALSE
  OBVIOUS
<1>1. PICK n \in Bad : \A m \in Bad : <<m, n>> \notin less
  <2>1. IsWellFoundedOn(less, Nat)
    BY NatLessThanWellFounded
  <2> HIDE DEF less
  <2> QED BY <2>1, WFMin, Zenon
<1>2. less = {ss \in Nat \X Nat : ss[1] < ss[2]}
  BY Zenon DEF OpToRel
<1> HIDE DEF less
<1>3. n \in Nat /\ n - 1 \in Bad /\ n - 1 \in Nat /\ n - 1 < n
  <2>1. n \in Nat /\ n - 1 \in Nat /\ n - 1 \in Bad
    BY <1>1
  <2> QED BY <2>1
<1>4. <<n - 1, n>> \in Nat \X Nat
  BY <1>3
<1>5. <<n - 1, n>> \in less
  BY <1>2, <1>3, <1>4
<1> QED BY <1>1, <1>3, <1>5

\* Removing the element the fold takes leaves a smaller set.
LEMMA TakeOne ==
  ASSUME NEW S, IsFiniteSet(S), NEW s \in SUBSET S, s # {}
  PROVE  /\ (CHOOSE x \in s : TRUE) \in s
         /\ s \ {CHOOSE x \in s : TRUE} \in SUBSET S
         /\ IsFiniteSet(s) /\ Cardinality(s) \in Nat /\ Cardinality(s) # 0
         /\ Cardinality(s \ {CHOOSE x \in s : TRUE}) = Cardinality(s) - 1
<1> DEFINE x == CHOOSE x \in s : TRUE
<1>1. x \in s
  OBVIOUS
<1> HIDE DEF x
<1>2. IsFiniteSet(s) /\ Cardinality(s) \in Nat
  BY FS_Subset, FS_CardinalityType
<1>3. Cardinality(s \ {x}) = Cardinality(s) - 1
  BY <1>1, <1>2, FS_RemoveElement
<1>4. Cardinality(s) # 0
  BY <1>2, FS_EmptySet
<1> QED BY <1>1, <1>2, <1>3, <1>4 DEF x

\* The recursion has a solution over the subsets of each size: one over the smaller subsets extends.
LEMMA IterationExists ==
  ASSUME NEW S, IsFiniteSet(S), NEW f
  PROVE  \E g : IsIteration(g, f, S)
<1> DEFINE Small(n) == {s \in SUBSET S : Cardinality(s) <= n}
           Of(s) == CHOOSE x \in s : TRUE
           Step(g, s) == IF s = {} THEN 0 ELSE f[Of(s)] + g[s \ {Of(s)}]
           Solved(n) == \E g : g = [s \in Small(n) |-> Step(g, s)]
           Bad == {n \in Nat : ~Solved(n)}
<1>1. \A s \in SUBSET S : IsFiniteSet(s) /\ Cardinality(s) \in Nat /\ (Cardinality(s) = 0 <=> s = {})
  BY FS_Subset, FS_CardinalityType, FS_EmptySet
<1>2. ASSUME NEW n \in Bad PROVE n # 0 /\ n - 1 \in Bad
  <2>1. n # 0
    <3> DEFINE g == [s \in Small(0) |-> 0]
    <3>1. \A s \in Small(0) : s = {}
      BY <1>1
    <3>2. g = [s \in Small(0) |-> Step(g, s)]
      BY <3>1
    <3>3. Solved(0) /\ ~Solved(n)
      BY <3>2
    <3> HIDE DEF Solved
    <3> QED BY <3>3
  <2>2. n - 1 \in Nat
    BY <2>1
  <2>3. ASSUME Solved(n - 1) PROVE Solved(n)
    <3>1. PICK g : g = [s \in Small(n - 1) |-> Step(g, s)]
      BY <2>3
    <3> DEFINE h == [s \in Small(n) |-> Step(g, s)]
    <3>2. ASSUME NEW s \in Small(n - 1) PROVE s \in Small(n) /\ h[s] = g[s]
      <4>1. s \in Small(n)
        BY <1>1, <2>2
      <4>2. g[s] = Step(g, s)
        <5> HIDE DEF Step, Small
        <5> QED BY <3>1
      <4> HIDE DEF Step, Small
      <4> QED BY <4>1, <4>2
    <3>3. ASSUME NEW s \in Small(n) PROVE Step(g, s) = Step(h, s)
      <4>1. CASE s = {}
        BY <4>1
      <4>2. CASE s # {}
        <5>1. s \ {Of(s)} \in SUBSET S /\ Cardinality(s \ {Of(s)}) = Cardinality(s) - 1
              /\ Cardinality(s) \in Nat
          BY <4>2, TakeOne
        <5>2. s \ {Of(s)} \in Small(n - 1)
          BY <2>2, <5>1
        <5>3. h[s \ {Of(s)}] = g[s \ {Of(s)}]
          BY <3>2, <5>2
        <5> HIDE DEF h, Of
        <5> QED BY <4>2, <5>3
      <4> QED BY <4>1, <4>2
    <3>4. h = [s \in Small(n) |-> Step(h, s)]
      <4> HIDE DEF Step, Small
      <4> QED BY <3>3
    <3> QED BY <3>4
  <2> QED BY <2>1, <2>2, <2>3
<1>3. Bad = {}
  <2>1. Bad \subseteq Nat
    OBVIOUS
  <2> HIDE DEF Bad
  <2> QED BY <1>2, <2>1, LeastSize
<1>4. Cardinality(S) \in Nat /\ Solved(Cardinality(S))
  BY <1>1, <1>3
<1>5. Small(Cardinality(S)) = SUBSET S
  <2>1. \A s \in SUBSET S : Cardinality(s) <= Cardinality(S)
    BY FS_Subset
  <2> QED BY <2>1
<1> HIDE DEF Small
<1> QED BY <1>4, <1>5 DEF IsIteration

\* A sum of natural numbers is one, and no greater than the sum of greater ones.
LEMMA SumFacts ==
  ASSUME NEW S, IsFiniteSet(S), NEW f, NEW h,
         \A x \in S : f[x] \in Nat /\ h[x] \in Nat /\ f[x] <= h[x]
  PROVE  SumOver(f, S) \in Nat /\ SumOver(h, S) \in Nat /\ SumOver(f, S) <= SumOver(h, S)
<1> DEFINE gf == CHOOSE g : IsIteration(g, f, S)
           gh == CHOOSE g : IsIteration(g, h, S)
           Of(s) == CHOOSE x \in s : TRUE
           Fine(s) == gf[s] \in Nat /\ gh[s] \in Nat /\ gf[s] <= gh[s]
           Bad == {n \in Nat : \E s \in SUBSET S : Cardinality(s) = n /\ ~Fine(s)}
<1>1. IsIteration(gf, f, S) /\ IsIteration(gh, h, S)
  BY IterationExists
<1> HIDE DEF gf, gh
<1>2. ASSUME NEW s \in SUBSET S
      PROVE  /\ gf[s] = IF s = {} THEN 0 ELSE f[Of(s)] + gf[s \ {Of(s)}]
             /\ gh[s] = IF s = {} THEN 0 ELSE h[Of(s)] + gh[s \ {Of(s)}]
  BY <1>1, Zenon DEF IsIteration
<1>3. ASSUME NEW n \in Bad PROVE n # 0 /\ n - 1 \in Bad
  <2>1. PICK s \in SUBSET S : Cardinality(s) = n /\ ~Fine(s)
    OBVIOUS
  <2>2. s # {}
    <3>1. {} \in SUBSET S
      OBVIOUS
    <3>2. gf[{}] = 0 /\ gh[{}] = 0
      BY <1>2, <3>1
    <3>3. Fine({})
      BY <3>2
    <3> HIDE DEF Fine
    <3> QED BY <2>1, <3>3
  <2> DEFINE x == Of(s)
             t == s \ {Of(s)}
  <2>3. x \in S /\ t \in SUBSET S /\ Cardinality(t) = n - 1 /\ n \in Nat /\ n # 0
    BY <2>1, <2>2, TakeOne
  <2>4. gf[s] = f[x] + gf[t] /\ gh[s] = h[x] + gh[t]
    BY <1>2, <2>2
  <2> HIDE DEF x, t
  <2>5. f[x] \in Nat /\ h[x] \in Nat /\ f[x] <= h[x]
    BY <2>3
  <2>6. ~Fine(t)
    BY <2>1, <2>4, <2>5
  <2> QED BY <2>3, <2>6
<1>4. Bad = {}
  <2>1. Bad \subseteq Nat
    OBVIOUS
  <2> HIDE DEF Bad
  <2> QED BY <1>3, <2>1, LeastSize
<1>5. Fine(S)
  <2>1. Cardinality(S) \in Nat /\ S \in SUBSET S
    BY FS_CardinalityType
  <2> HIDE DEF Fine
  <2> QED BY <1>4, <2>1
<1> QED BY <1>5 DEF SumOver, gf, gh

LEMMA SumOfZeros ==
  ASSUME NEW S, IsFiniteSet(S), NEW f, \A x \in S : f[x] = 0
  PROVE  SumOver(f, S) = 0
<1> DEFINE gf == CHOOSE g : IsIteration(g, f, S)
           Of(s) == CHOOSE x \in s : TRUE
           Bad == {n \in Nat : \E s \in SUBSET S : Cardinality(s) = n /\ gf[s] # 0}
<1>1. IsIteration(gf, f, S)
  BY IterationExists
<1> HIDE DEF gf
<1>2. ASSUME NEW s \in SUBSET S
      PROVE  gf[s] = IF s = {} THEN 0 ELSE f[Of(s)] + gf[s \ {Of(s)}]
  BY <1>1, Zenon DEF IsIteration
<1>3. ASSUME NEW n \in Bad PROVE n # 0 /\ n - 1 \in Bad
  <2>1. PICK s \in SUBSET S : Cardinality(s) = n /\ gf[s] # 0
    OBVIOUS
  <2>2. s # {}
    BY <1>2, <2>1
  <2> DEFINE x == Of(s)
             t == s \ {Of(s)}
  <2>3. x \in S /\ t \in SUBSET S /\ Cardinality(t) = n - 1 /\ n \in Nat /\ n # 0
    BY <2>1, <2>2, TakeOne
  <2>4. gf[s] = f[x] + gf[t]
    BY <1>2, <2>2
  <2> HIDE DEF x, t
  <2>5. gf[t] # 0
    BY <2>1, <2>3, <2>4
  <2> QED BY <2>3, <2>5
<1>4. Bad = {}
  <2>1. Bad \subseteq Nat
    OBVIOUS
  <2> HIDE DEF Bad
  <2> QED BY <1>3, <2>1, LeastSize
<1>5. gf[S] = 0
  <2>1. Cardinality(S) \in Nat /\ S \in SUBSET S
    BY FS_CardinalityType
  <2> QED BY <1>4, <2>1
<1> QED BY <1>5 DEF SumOver, gf

-----------------------------------------------------------------------------
(***************************************************************************)
(* Zones and multipliers.                                                   *)
(***************************************************************************)
\* What is computed from the constants is the same in the next state.
LEMMA Fixed ==
  /\ Zones' = Zones /\ Multipliers' = Multipliers
  /\ PickupsIn' = PickupsIn /\ PositionsIn' = PositionsIn /\ RunRecords' = RunRecords
BY DEF Zones, Multipliers, PickupsIn, PositionsIn, zoneHashFor, RunRecords

\* The open trips and online drivers of a zone, before and after a step.
LEMMA ZoneSums ==
  ASSUME NEW z \in Zones
  PROVE  /\ Requested(z) = SumOver(open, PickupsIn[z])
         /\ Requested(z)' = SumOver(open', PickupsIn[z])
         /\ Online(z) = SumOver(online, PositionsIn[z])
<1>1. Requested(z) = SumOver(open, PickupsIn[z])
  BY Zenon DEF Requested, SumOver, IsIteration, MapThenSumSet, MapThenFoldSet
<1>2. Requested(z)' = SumOver(open', PickupsIn[z])
  BY Zenon DEF Requested, SumOver, IsIteration, MapThenSumSet, MapThenFoldSet,
               PickupsIn, Zones, zoneHashFor
<1>3. Online(z) = SumOver(online, PositionsIn[z])
  BY Zenon DEF Online, SumOver, IsIteration, MapThenSumSet, MapThenFoldSet
<1> QED BY <1>1, <1>2, <1>3

\* Counts are natural numbers, and a trip that is resolved raises none.
LEMMA Counts ==
  ASSUME SurgeAssumption, TypeOK, NEW z \in Zones
  PROVE  /\ Requested(z) \in Nat /\ Online(z) \in Nat
         /\ TypeOK' => Requested(z)' \in Nat
         /\ TypeOK' /\ (\A p \in Pickups : open'[p] <= open[p]) => Requested(z)' <= Requested(z)
<1>1. /\ PickupsIn[z] \subseteq Pickups /\ IsFiniteSet(PickupsIn[z])
      /\ PositionsIn[z] \subseteq Positions /\ IsFiniteSet(PositionsIn[z])
  <2>1. PickupsIn[z] \subseteq Pickups /\ PositionsIn[z] \subseteq Positions
    BY DEF PickupsIn, PositionsIn
  <2> QED BY <2>1, FS_Subset DEF SurgeAssumption
<1>2. \A p \in PickupsIn[z] : open[p] \in Nat
  BY <1>1 DEF TypeOK
<1>3. \A p \in PositionsIn[z] : online[p] \in Nat
  BY <1>1 DEF TypeOK
<1>4. Requested(z) \in Nat
  BY <1>1, <1>2, ZoneSums, SumFacts
<1>5. Online(z) \in Nat
  BY <1>1, <1>3, ZoneSums, SumFacts
<1>6. ASSUME TypeOK' PROVE \A p \in PickupsIn[z] : open'[p] \in Nat
  BY <1>1, <1>6 DEF TypeOK
<1>7. ASSUME TypeOK' PROVE Requested(z)' \in Nat
  BY <1>1, <1>6, <1>7, ZoneSums, SumFacts
<1>8. ASSUME TypeOK', \A p \in Pickups : open'[p] <= open[p]
      PROVE  Requested(z)' <= Requested(z)
  <2>1. \A p \in PickupsIn[z] : open'[p] \in Nat /\ open[p] \in Nat /\ open'[p] <= open[p]
    BY <1>1, <1>2, <1>6, <1>8
  <2>2. SumOver(open', PickupsIn[z]) <= SumOver(open, PickupsIn[z])
    BY <1>1, <2>1, SumFacts
  <2> QED BY <2>2, ZoneSums
<1> QED BY <1>4, <1>5, <1>7, <1>8

LEMMA ClampFacts ==
  ASSUME NEW n \in Int, NEW lo \in Int, NEW hi \in Int, lo <= hi
  PROVE  /\ Clamp(n, lo, hi) \in Int /\ lo <= Clamp(n, lo, hi) /\ Clamp(n, lo, hi) <= hi
         /\ lo <= n /\ n <= hi => Clamp(n, lo, hi) = n
         /\ n <= lo => Clamp(n, lo, hi) = lo
         /\ n >= hi => Clamp(n, lo, hi) = hi
<1> DEFINE m == Max({lo, n})
<1>1. m = IF lo >= n THEN lo ELSE n
  <2>1. CASE lo >= n
    BY <2>1 DEF Max
  <2>2. CASE ~(lo >= n)
    BY <2>2 DEF Max
  <2> QED BY <2>1, <2>2
<1>2. m \in Int
  BY <1>1
<1>3. Clamp(n, lo, hi) = Min({hi, m})
  BY DEF Clamp
<1> HIDE DEF m
<1>4. Clamp(n, lo, hi) = IF hi =< m THEN hi ELSE m
  <2>1. CASE hi =< m
    BY <1>2, <1>3, <2>1 DEF Min
  <2>2. CASE ~(hi =< m)
    BY <1>2, <1>3, <2>2 DEF Min
  <2> QED BY <2>1, <2>2
<1> QED BY <1>1, <1>2, <1>4

\* A target is between the smallest and the largest multiplier, and the smallest without riders.
LEMMA TargetFacts ==
  ASSUME SurgeAssumption, NEW requests \in Nat, NEW drivers \in Nat
  PROVE  /\ Target(requests, drivers) \in Multipliers
         /\ ~(requests >= minSampleRequests /\ requests > 0)
              => Target(requests, drivers) = minMultiplier
<1>1. /\ minMultiplier \in Nat /\ maxMultiplier \in Nat /\ minMultiplier <= maxMultiplier
      /\ UNIT \in Nat /\ minSampleRequests \in Nat
  BY DEF SurgeAssumption
<1>2. PICK d \in Int : d > 0 /\ Max({drivers, 1}) = d
  <2>1. CASE drivers >= 1
    <3>1. Max({drivers, 1}) = drivers
      BY <2>1 DEF Max
    <3> QED BY <2>1, <3>1
  <2>2. CASE ~(drivers >= 1)
    <3>1. Max({drivers, 1}) = 1
      BY <2>2 DEF Max
    <3> QED BY <3>1
  <2> QED BY <2>1, <2>2
<1> DEFINE q == (requests * UNIT) \div d
<1>3. q \in Int /\ (requests = 0 => q = 0)
  <2>1. requests * UNIT \in Nat /\ (requests = 0 => requests * UNIT = 0)
    BY <1>1
  <2>2. q \in Int
    BY <1>2, <2>1
  <2>3. requests = 0 => q = 0
    BY <1>2, <2>1
  <2> QED BY <2>2, <2>3
<1>4. Target(requests, drivers) = IF requests < minSampleRequests THEN minMultiplier
                                  ELSE Clamp(q, minMultiplier, maxMultiplier)
  BY <1>2 DEF Target
<1> HIDE DEF q
<1>5. /\ Clamp(q, minMultiplier, maxMultiplier) \in Multipliers
      /\ requests = 0 => Clamp(q, minMultiplier, maxMultiplier) = minMultiplier
  BY <1>1, <1>3, ClampFacts DEF Multipliers
<1> QED BY <1>1, <1>4, <1>5 DEF Multipliers

\* A multiplier moves by at most the maximal change, within the range, and not at all when it is
\* where it should be.
LEMMA MovedFacts ==
  ASSUME SurgeAssumption, NEW previous \in Multipliers, NEW target \in Multipliers
  PROVE  /\ Moved(previous, target) \in Multipliers
         /\ Near(Moved(previous, target), previous)
         /\ previous = target => Moved(previous, target) = previous
<1>1. /\ minMultiplier \in Nat /\ maxMultiplier \in Nat /\ minMultiplier <= maxMultiplier
      /\ maxChangePerInterval \in Nat
      /\ previous \in Int /\ minMultiplier <= previous /\ previous <= maxMultiplier
      /\ target \in Int
  BY DEF SurgeAssumption, Multipliers
<1> DEFINE delta == Clamp(target - previous, -maxChangePerInterval, maxChangePerInterval)
<1>2. /\ delta \in Int /\ -maxChangePerInterval <= delta /\ delta <= maxChangePerInterval
      /\ previous = target => delta = 0
  BY <1>1, ClampFacts
<1>3. Moved(previous, target) = Clamp(previous + delta, minMultiplier, maxMultiplier)
  BY DEF Moved
<1> HIDE DEF delta
<1> DEFINE m == Clamp(previous + delta, minMultiplier, maxMultiplier)
<1>4. /\ m \in Int /\ minMultiplier <= m /\ m <= maxMultiplier
      /\ minMultiplier <= previous + delta /\ previous + delta <= maxMultiplier => m = previous + delta
      /\ previous + delta <= minMultiplier => m = minMultiplier
      /\ previous + delta >= maxMultiplier => m = maxMultiplier
  BY <1>1, <1>2, ClampFacts
<1> HIDE DEF m
<1>5. m \in Multipliers
  BY <1>1, <1>4 DEF Multipliers
<1>6. Near(m, previous)
  BY <1>1, <1>2, <1>4 DEF Near
<1>7. previous = target => m = previous
  BY <1>1, <1>2, <1>4
<1> QED BY <1>3, <1>5, <1>6, <1>7 DEF m

-----------------------------------------------------------------------------
(***************************************************************************)
(* The steps.                                                               *)
(***************************************************************************)
LEMMA IdleRun == Idle \in RunRecords /\ Idle.pc = "idle" /\ \A m : RunInv(Idle, m)
BY DEF Idle, RunRecords, RunInv

\* What a run has stays right while zones only become hot and the multipliers stay.
LEMMA RunKept ==
  ASSUME NEW k, NEW m, RunInv(k, m), hot \subseteq hot', UNCHANGED surge,
         NEW k2, k2 = k, NEW m2, m2 = m
  PROVE  /\ k2.pc = "read" => k2.requests \in [Zones -> Nat] /\ k2.drivers \in [Zones -> Nat]
         /\ k2.pc = "write" => k2.new \in [Zones -> Multipliers \cup {Absent}]
         /\ \A z \in Zones :
              /\ k2.pc \in {"count", "read"} /\ k2.requests # Absent
                   => (k2.requests[z] >= minSampleRequests /\ k2.requests[z] > 0 => z \in hot')
              /\ k2.pc = "write" /\ k2.new[z] \notin {Absent, minMultiplier} => z \in hot'
              /\ k2.pc = "write" /\ ~m2 /\ k2.new[z] # Absent => Near(k2.new[z], Stored(z))
BY DEF RunInv, DemandSeen

\* Steps of riders and drivers: what they change is the counts, and which zones are hot.
LEMMA WorldKeeps ==
  ASSUME IInv, TypeOK', hot \subseteq hot', UNCHANGED <<surge, run, missed>>,
         \A z \in Zones : Requested(z)' >= minSampleRequests /\ Requested(z)' > 0 => z \in hot'
  PROVE  IInv'
<1>1. DemandInv'
  BY Fixed DEF DemandInv, DemandSeen
<1>2. OnlyDemandRaises'
  BY Fixed DEF IInv, OnlyDemandRaises
<1>3. \A z \in Zones : Stored(z)' = Stored(z)
  BY DEF Stored
<1>4. RunsInv'
  <2> SUFFICES ASSUME NEW r \in Runs PROVE RunInv(run[r], missed[r])'
    BY DEF RunsInv
  <2>1. RunInv(run[r], missed[r])
    BY DEF IInv, RunsInv
  <2>2. run'[r] = run[r] /\ missed'[r] = missed[r]
    OBVIOUS
  <2> QED BY <1>3, <2>1, <2>2, RunKept, Fixed DEF RunInv, DemandSeen, Near
<1> QED BY <1>1, <1>2, <1>4 DEF IInv

LEMMA TripRequestedKeeps ==
  ASSUME SurgeAssumption, IInv, NEW p \in Pickups, TripRequested(p)
  PROVE  IInv'
<1>1. /\ open[p] < MaxOpen[p] /\ open' = [open EXCEPT ![p] = @ + 1]
      /\ hot' = hot \cup {z \in Zones : Requested(z)' >= minSampleRequests}
      /\ UNCHANGED <<online, surge, run, missed>>
  BY DEF TripRequested, NowHot
<1>2. open' \in [Pickups -> Nat] /\ \A q \in Pickups : open'[q] <= MaxOpen[q]
  <2>1. open \in [Pickups -> Nat] /\ \A q \in Pickups : open[q] <= MaxOpen[q] /\ MaxOpen[q] \in Nat
    BY DEF IInv, TypeOK, SurgeAssumption
  <2> QED BY <1>1, <2>1
<1>3. hot' \subseteq Zones
  BY <1>1 DEF IInv, TypeOK
<1>4. TypeOK'
  BY <1>1, <1>2, <1>3, Fixed DEF IInv, TypeOK
<1> QED BY <1>1, <1>4, WorldKeeps

LEMMA TripResolvedKeeps ==
  ASSUME SurgeAssumption, IInv, NEW p \in Pickups, TripResolved(p)
  PROVE  IInv'
<1>1. /\ open[p] > 0 /\ open' = [open EXCEPT ![p] = @ - 1]
      /\ UNCHANGED <<online, surge, run, hot, missed>>
  BY DEF TripResolved
<1>2. /\ open' \in [Pickups -> Nat] /\ \A q \in Pickups : open'[q] <= MaxOpen[q]
      /\ \A q \in Pickups : open'[q] <= open[q]
  <2>1. open \in [Pickups -> Nat] /\ \A q \in Pickups : open[q] <= MaxOpen[q] /\ MaxOpen[q] \in Nat
    BY DEF IInv, TypeOK, SurgeAssumption
  <2> QED BY <1>1, <2>1
<1>3. TypeOK'
  BY <1>1, <1>2, Fixed DEF IInv, TypeOK
<1>4. ASSUME NEW z \in Zones, Requested(z)' >= minSampleRequests, Requested(z)' > 0
      PROVE  z \in hot'
  <2>1. Requested(z)' <= Requested(z) /\ Requested(z)' \in Nat /\ Requested(z) \in Nat
    BY <1>2, <1>3, Counts DEF IInv
  <2>2. minSampleRequests \in Nat
    BY DEF SurgeAssumption
  <2>3. Requested(z) >= minSampleRequests /\ Requested(z) > 0
    BY <1>4, <2>1, <2>2
  <2> QED BY <1>1, <2>3 DEF IInv, DemandInv, DemandSeen
<1> QED BY <1>1, <1>3, <1>4, WorldKeeps

LEMMA DriverMovesKeeps ==
  ASSUME SurgeAssumption, IInv, NEW p \in Positions, DriverComes(p) \/ DriverLeaves(p)
  PROVE  IInv'
<1>1. UNCHANGED <<open, surge, run, hot, missed>>
  BY DEF DriverComes, DriverLeaves
<1>2. online \in [Positions -> Nat] /\ \A q \in Positions : online[q] <= MaxOnline[q] /\ MaxOnline[q] \in Nat
  BY DEF IInv, TypeOK, SurgeAssumption
<1>3. online' \in [Positions -> Nat] /\ \A q \in Positions : online'[q] <= MaxOnline[q]
  <2>1. CASE DriverComes(p)
    BY <1>2, <2>1 DEF DriverComes
  <2>2. CASE DriverLeaves(p)
    BY <1>2, <2>2 DEF DriverLeaves
  <2> QED BY <2>1, <2>2
<1>4. TypeOK'
  BY <1>1, <1>3, Fixed DEF IInv, TypeOK
<1>5. \A z \in Zones : Requested(z)' = Requested(z)
  BY <1>1, ZoneSums
<1>6. \A z \in Zones : Requested(z)' >= minSampleRequests /\ Requested(z)' > 0 => z \in hot'
  BY <1>1, <1>5 DEF IInv, DemandInv, DemandSeen
<1> QED BY <1>1, <1>4, <1>6, WorldKeeps

\* A step of one run that writes no multipliers.
LEMMA OneRunMoves ==
  ASSUME SurgeAssumption, IInv, NEW r \in Runs, NEW k \in RunRecords, NEW m \in BOOLEAN, RunInv(k, m),
         run' = [run EXCEPT ![r] = k], missed' = [missed EXCEPT ![r] = m],
         UNCHANGED <<open, online, surge, hot>>
  PROVE  IInv'
<1>1. run \in [Runs -> RunRecords] /\ missed \in [Runs -> BOOLEAN]
  BY DEF IInv, TypeOK, RunRecords
<1>2. run' \in [Runs -> RunRecords] /\ missed' \in [Runs -> BOOLEAN]
  BY <1>1
<1>3. TypeOK'
  BY <1>2, Fixed DEF IInv, TypeOK, RunRecords
<1>4. OnlyDemandRaises'
  BY Fixed DEF IInv, OnlyDemandRaises
<1>5. DemandInv'
  <2>1. \A z \in Zones : Requested(z)' = Requested(z)
    BY ZoneSums
  <2> QED BY <2>1, Fixed DEF IInv, DemandInv, DemandSeen
<1>6. \A z \in Zones : Stored(z)' = Stored(z)
  BY DEF Stored
<1>7. RunsInv'
  <2> SUFFICES ASSUME NEW s \in Runs PROVE RunInv(run[s], missed[s])'
    BY DEF RunsInv
  <2>1. RunInv(run'[s], missed'[s])
    <3>1. CASE s = r
      BY <1>1, <3>1
    <3>2. CASE s # r
      BY <1>1, <3>2 DEF IInv, RunsInv
    <3> QED BY <3>1, <3>2
  <2> QED BY <1>6, <2>1, RunKept, Fixed DEF RunInv, DemandSeen, Near
<1> QED BY <1>3, <1>4, <1>5, <1>7 DEF IInv

LEMMA RunFacts ==
  ASSUME IInv, NEW r \in Runs
  PROVE  /\ run[r] \in RunRecords /\ RunInv(run[r], missed[r]) /\ missed[r] \in BOOLEAN
         /\ missed = [missed EXCEPT ![r] = missed[r]]
<1>1. run \in [Runs -> RunRecords] /\ missed \in [Runs -> BOOLEAN]
  BY DEF IInv, TypeOK, RunRecords
<1> QED BY <1>1 DEF IInv, RunsInv

LEMMA CountRequestsKeeps ==
  ASSUME SurgeAssumption, IInv, NEW r \in Runs, CountRequests(r)
  PROVE  IInv'
<1> DEFINE n == [z \in Zones |-> RequestCount(z)]
           k == [run[r] EXCEPT !.requests = n,
                               !.pc = IF run[r].drivers = Absent THEN "count" ELSE "read"]
<1>1. run' = [run EXCEPT ![r] = k] /\ UNCHANGED <<open, online, surge, hot, missed>>
  BY DEF CountRequests, Goes, worldVars
<1>2. n \in [Zones -> Nat]
  BY Counts DEF IInv, RequestCount
<1>3. k \in RunRecords
  BY <1>2, RunFacts DEF RunRecords
<1>4. RunInv(k, missed[r])
  <2>1. run[r] \in RunRecords
    BY RunFacts
  <2>2. /\ k.pc = IF run[r].drivers = Absent THEN "count" ELSE "read"
        /\ k.requests = n /\ k.drivers = run[r].drivers
    BY <2>1 DEF RunRecords
  <2>3. k.pc = "read" => k.drivers \in [Zones -> Nat]
    BY <2>1, <2>2 DEF RunRecords
  <2>4. \A z \in Zones : DemandSeen(z, n[z])
    BY DEF IInv, DemandInv, RequestCount
  <2> HIDE DEF n, k
  <2> QED BY <1>2, <2>2, <2>3, <2>4 DEF RunInv
<1>5. missed' = [missed EXCEPT ![r] = missed[r]] /\ missed[r] \in BOOLEAN
  BY <1>1, RunFacts
<1> HIDE DEF k
<1> QED BY <1>1, <1>3, <1>4, <1>5, OneRunMoves

LEMMA CountDriversKeeps ==
  ASSUME SurgeAssumption, IInv, NEW r \in Runs, CountDrivers(r)
  PROVE  IInv'
<1> DEFINE n == [z \in Zones |-> Online(z)]
           k == [run[r] EXCEPT !.drivers = n,
                               !.pc = IF run[r].requests = Absent THEN "count" ELSE "read"]
<1>1. /\ run' = [run EXCEPT ![r] = k] /\ UNCHANGED <<open, online, surge, hot, missed>>
      /\ run[r].pc = "count"
  BY DEF CountDrivers, Goes, worldVars
<1>2. n \in [Zones -> Nat]
  BY Counts DEF IInv
<1>3. k \in RunRecords
  BY <1>2, RunFacts DEF RunRecords
<1>4. RunInv(k, missed[r])
  <2>1. run[r] \in RunRecords /\ RunInv(run[r], missed[r])
    BY RunFacts
  <2>2. /\ k.pc = IF run[r].requests = Absent THEN "count" ELSE "read"
        /\ k.requests = run[r].requests /\ k.drivers = n
    BY <2>1 DEF RunRecords
  <2>3. k.pc = "read" => k.requests \in [Zones -> Nat]
    BY <2>1, <2>2 DEF RunRecords
  <2>4. \A z \in Zones : k.requests # Absent => DemandSeen(z, k.requests[z])
    BY <1>1, <2>1, <2>2 DEF RunInv
  <2> HIDE DEF n, k
  <2> QED BY <1>2, <2>2, <2>3, <2>4 DEF RunInv
<1>5. missed' = [missed EXCEPT ![r] = missed[r]] /\ missed[r] \in BOOLEAN
  BY <1>1, RunFacts
<1> HIDE DEF k
<1> QED BY <1>1, <1>3, <1>4, <1>5, OneRunMoves

\* The loop over the zones: a multiplier leaves the baseline, or stays off it, only in a zone that
\* had riders, since a target without any is the baseline and so is a zone never stored.
LEMMA ReadStatesKeeps ==
  ASSUME SurgeAssumption, IInv, NEW r \in Runs, ReadStates(r)
  PROVE  IInv'
<1>0. /\ missed' = [missed EXCEPT ![r] = FALSE] /\ UNCHANGED <<open, online, surge, hot>>
      /\ run[r].pc = "read"
  BY DEF ReadStates, worldVars
<1>1. CASE AllZones(r) = {}
  <2>1. run' = [run EXCEPT ![r] = Idle]
    BY <1>1 DEF ReadStates, Goes
  <2> QED BY <1>0, <2>1, IdleRun, OneRunMoves
<1>2. CASE AllZones(r) # {}
  <2> DEFINE Target1(z) == Target(run[r].requests[z], run[r].drivers[z])
             n == [z \in Zones |-> IF z \in AllZones(r) THEN Moved(Stored(z), Target1(z))
                                   ELSE Absent]
             k == [Idle EXCEPT !.pc = "write", !.new = n]
  <2>1. run' = [run EXCEPT ![r] = k]
    BY <1>2 DEF ReadStates, Goes
  <2>2. ASSUME NEW z \in Zones
        PROVE  /\ run[r].requests[z] \in Nat /\ run[r].drivers[z] \in Nat
               /\ DemandSeen(z, run[r].requests[z])
               /\ Stored(z) \in Multipliers /\ (z \notin hot => Stored(z) = minMultiplier)
    <3>1. RunInv(run[r], missed[r])
      BY RunFacts
    <3>2. run[r].requests \in [Zones -> Nat] /\ run[r].drivers \in [Zones -> Nat]
      BY <1>0, <3>1 DEF RunInv
    <3>3. DemandSeen(z, run[r].requests[z])
      BY <1>0, <3>1 DEF RunInv
    <3>4. Stored(z) \in Multipliers /\ (z \notin hot => Stored(z) = minMultiplier)
      <4>1. minMultiplier \in Multipliers
        BY DEF SurgeAssumption, Multipliers
      <4> QED BY <4>1 DEF IInv, TypeOK, OnlyDemandRaises, Stored
    <3> QED BY <3>2, <3>3, <3>4
  <2>3. ASSUME NEW z \in Zones
        PROVE  /\ Moved(Stored(z), Target1(z)) \in Multipliers
               /\ Near(Moved(Stored(z), Target1(z)), Stored(z))
               /\ z \notin hot => Moved(Stored(z), Target1(z)) = minMultiplier
    <3>1. Target1(z) \in Multipliers /\ (z \notin hot => Target1(z) = minMultiplier)
      BY <2>2, TargetFacts DEF DemandSeen
    <3> HIDE DEF Target1
    <3> QED BY <2>2, <3>1, MovedFacts
  <2>4. n \in [Zones -> Multipliers \cup {Absent}]
    BY <2>3
  <2>5. k \in RunRecords /\ k.pc = "write" /\ k.new = n
    BY <2>4, IdleRun DEF RunRecords, Idle
  <2>6. \A z \in Zones : n[z] # Absent => n[z] = Moved(Stored(z), Target1(z))
    OBVIOUS
  <2> HIDE DEF k, n, Target1
  <2>7. RunInv(k, FALSE)
    BY <2>3, <2>4, <2>5, <2>6 DEF RunInv
  <2> QED BY <1>0, <2>1, <2>5, <2>7, OneRunMoves
<1> QED BY <1>1, <1>2

\* The write: every other run that is past its read is late from now on.
LEMMA WriteStatesKeeps ==
  ASSUME SurgeAssumption, IInv, NEW r \in Runs, WriteStates(r)
  PROVE  IInv'
<1>1. /\ surge' = [z \in Zones |-> IF run[r].new[z] = Absent THEN surge[z] ELSE run[r].new[z]]
      /\ missed' = [s \in Runs |-> s # r /\ (missed[s] \/ run[s].pc = "write")]
      /\ run' = [run EXCEPT ![r] = Idle] /\ UNCHANGED <<open, online, hot>>
      /\ run[r].pc = "write"
  BY DEF WriteStates, Goes, worldVars
<1>2. RunInv(run[r], missed[r]) /\ run[r].new \in [Zones -> Multipliers \cup {Absent}]
  BY <1>1, RunFacts DEF RunInv
<1>3. run \in [Runs -> RunRecords] /\ missed \in [Runs -> BOOLEAN]
  BY DEF IInv, TypeOK, RunRecords
<1>4. run' \in [Runs -> RunRecords] /\ missed' \in [Runs -> BOOLEAN]
  <2>1. missed' \in [Runs -> BOOLEAN]
    BY <1>1
  <2>2. run' \in [Runs -> RunRecords]
    BY <1>1, <1>3, IdleRun
  <2> QED BY <2>1, <2>2
<1>5. surge' \in [Zones -> Multipliers \cup {Absent}]
  BY <1>1, <1>2 DEF IInv, TypeOK
<1>6. TypeOK'
  BY <1>1, <1>4, <1>5, Fixed DEF IInv, TypeOK, RunRecords
<1>7. OnlyDemandRaises'
  <2>1. \A z \in Zones : surge'[z] \notin {Absent, minMultiplier} => z \in hot
    BY <1>1, <1>2 DEF IInv, OnlyDemandRaises, RunInv
  <2> QED BY <1>1, <2>1, Fixed DEF OnlyDemandRaises
<1>8. DemandInv'
  <2>1. \A z \in Zones : Requested(z)' = Requested(z)
    BY <1>1, ZoneSums
  <2> QED BY <1>1, <2>1, Fixed DEF IInv, DemandInv, DemandSeen
<1>9. RunsInv'
  <2> SUFFICES ASSUME NEW s \in Runs PROVE RunInv(run[s], missed[s])'
    BY DEF RunsInv
  <2>1. CASE s = r
    <3>1. run'[s] = Idle /\ Idle.pc = "idle"
      BY <1>1, <1>3, <2>1, IdleRun
    <3> QED BY <3>1 DEF RunInv
  <2>2. CASE s # r
    <3>1. run'[s] = run[s] /\ RunInv(run[s], missed[s])
      BY <1>1, <1>3, <2>2, RunFacts
    <3>2. run[s].pc = "write" => missed'[s]
      BY <1>1, <2>2
    <3> QED BY <1>1, <3>1, <3>2, Fixed DEF RunInv, DemandSeen
  <2> QED BY <2>1, <2>2
<1> QED BY <1>6, <1>7, <1>8, <1>9 DEF IInv

LEMMA RunStartsKeeps ==
  ASSUME SurgeAssumption, IInv, NEW r \in Runs, RunStarts(r)
  PROVE  IInv'
<1> DEFINE k == [Idle EXCEPT !.pc = "count"]
<1>1. run' = [run EXCEPT ![r] = k] /\ UNCHANGED <<open, online, surge, hot, missed>>
  BY DEF RunStarts, Goes, worldVars
<1>2. k \in RunRecords /\ RunInv(k, missed[r])
  BY DEF RunRecords, Idle, RunInv
<1>3. missed' = [missed EXCEPT ![r] = missed[r]] /\ missed[r] \in BOOLEAN
  BY <1>1, RunFacts
<1> HIDE DEF k
<1> QED BY <1>1, <1>2, <1>3, OneRunMoves

LEMMA RunFailsKeeps ==
  ASSUME SurgeAssumption, IInv, NEW r \in Runs, RunFails(r)
  PROVE  IInv'
<1> DEFINE k == [Idle EXCEPT !.pc = "failed"]
<1>1. /\ run' = [run EXCEPT ![r] = k] /\ missed' = [missed EXCEPT ![r] = FALSE]
      /\ UNCHANGED <<open, online, surge, hot>>
  BY DEF RunFails, Goes, worldVars
<1>2. k \in RunRecords /\ RunInv(k, FALSE)
  BY DEF RunRecords, Idle, RunInv
<1> HIDE DEF k
<1> QED BY <1>1, <1>2, OneRunMoves

LEMMA InitIInv == SurgeAssumption /\ Init => IInv
<1> SUFFICES ASSUME SurgeAssumption, Init PROVE IInv
  OBVIOUS
<1>1. TypeOK
  <2>1. open \in [Pickups -> Nat] /\ \A p \in Pickups : open[p] <= MaxOpen[p]
    BY DEF Init, SurgeAssumption
  <2>2. online \in [Positions -> Nat] /\ \A p \in Positions : online[p] <= MaxOnline[p]
    BY DEF Init, SurgeAssumption
  <2>3. run \in [Runs -> RunRecords]
    BY IdleRun DEF Init
  <2> QED BY <2>1, <2>2, <2>3 DEF Init, TypeOK, RunRecords
<1>2. RunsInv
  BY IdleRun DEF Init, RunsInv
<1>3. ASSUME NEW z \in Zones PROVE ~(Requested(z) > 0)
  <2>1. PickupsIn[z] \subseteq Pickups /\ IsFiniteSet(PickupsIn[z])
    BY FS_Subset DEF PickupsIn, SurgeAssumption
  <2>2. Requested(z) = SumOver(open, PickupsIn[z])
    BY ZoneSums
  <2>3. SumOver(open, PickupsIn[z]) = 0
    BY <2>1, SumOfZeros DEF Init
  <2> QED BY <2>2, <2>3
<1>4. DemandInv
  BY <1>3 DEF DemandInv, DemandSeen
<1>5. OnlyDemandRaises
  BY DEF Init, OnlyDemandRaises
<1> QED BY <1>1, <1>2, <1>4, <1>5 DEF IInv

LEMMA StepIInv == IInv /\ [Next]_vars => IInv'
<1> SUFFICES ASSUME IInv, [Next]_vars PROVE IInv'
  OBVIOUS
<1> USE SurgeAssumption
<1>1. ASSUME NEW p \in Pickups, TripRequested(p) \/ TripResolved(p) PROVE IInv'
  BY <1>1, TripRequestedKeeps, TripResolvedKeeps
<1>2. ASSUME NEW p \in Positions, DriverComes(p) \/ DriverLeaves(p) PROVE IInv'
  BY <1>2, DriverMovesKeeps
<1>3. ASSUME NEW r \in Runs, RunStarts(r) \/ RunStep(r) \/ RunFails(r) PROVE IInv'
  BY <1>3, RunStartsKeeps, CountRequestsKeeps, CountDriversKeeps, ReadStatesKeeps,
     WriteStatesKeeps, RunFailsKeeps DEF RunStep
<1>4. CASE UNCHANGED vars
  <2>1. UNCHANGED <<open, online, surge, run, hot, missed>>
    BY <1>4 DEF vars, worldVars
  <2>2. TypeOK'
    BY <2>1, Fixed DEF IInv, TypeOK
  <2>3. \A z \in Zones : Requested(z)' = Requested(z)
    BY <2>1, ZoneSums
  <2>4. \A z \in Zones : Requested(z)' >= minSampleRequests /\ Requested(z)' > 0 => z \in hot'
    BY <2>1, <2>3 DEF IInv, DemandInv, DemandSeen
  <2> QED BY <2>1, <2>2, <2>4, WorldKeeps
<1> QED BY <1>1, <1>2, <1>3, <1>4 DEF Next

LEMMA IInvHolds == Spec => []IInv
<1>1. Init => IInv
  BY SurgeAssumption, InitIInv
<1> QED BY <1>1, StepIInv, PTL DEF Spec

\* The counts, the multipliers and the local variables of every run keep their types: a run that
\* reads the states has both counts, one that writes has a multiplier in range for each zone.
THEOREM SurgeTypeCorrect == Spec => []TypeOK
<1>1. IInv => TypeOK
  BY DEF IInv
<1> QED BY <1>1, IInvHolds, PTL

\* A zone that never had the minimum sample waiting at once stays at the baseline, however many runs
\* of computeAndUpdateSurge overlap, fail between their awaits or store an older result last.
THEOREM OnlyRidersRaise == Spec => []OnlyDemandRaises
<1>1. IInv => OnlyDemandRaises
  BY DEF IInv
<1> QED BY <1>1, IInvHolds, PTL

\* setSurgeZoneStates moves no zone by more than maxChangePerInterval, unless another run has
\* written since this one read surge:state.
THEOREM StepsAreSmooth == Spec => SmoothSteps
<1> DEFINE Smooth ==
      \A z \in Zones, r \in Runs :
        run[r].pc = "write" /\ run'[r] = Idle /\ surge' # surge /\ ~missed[r] =>
          /\ Stored(z)' - Stored(z) <= maxChangePerInterval
          /\ Stored(z) - Stored(z)' <= maxChangePerInterval
<1>1. ASSUME IInv, Next, NEW z \in Zones, NEW r \in Runs,
             run[r].pc = "write", run'[r] = Idle, surge' # surge, ~missed[r]
      PROVE  Near(Stored(z)', Stored(z))
  <2>1. PICK s \in Runs : WriteStates(s)
    BY <1>1 DEF Next, TripRequested, TripResolved, DriverComes, DriverLeaves, RunStarts, RunStep,
                CountRequests, CountDrivers, ReadStates, RunFails
  <2>2. s = r
    <3>1. run' = [run EXCEPT ![s] = Idle]
      BY <2>1 DEF WriteStates, Goes
    <3>2. s # r => run'[r] = run[r]
      BY <1>1, <3>1 DEF IInv, TypeOK
    <3> QED BY <1>1, <3>2, IdleRun
  <2>3. surge'[z] = IF run[r].new[z] = Absent THEN surge[z] ELSE run[r].new[z]
    BY <2>1, <2>2 DEF WriteStates
  <2>4. CASE run[r].new[z] = Absent
    <3>1. Stored(z)' = Stored(z)
      BY <2>3, <2>4 DEF Stored
    <3>2. Stored(z) \in Int /\ maxChangePerInterval \in Nat
      BY <1>1, SurgeAssumption DEF IInv, TypeOK, Stored, Multipliers, SurgeAssumption
    <3> QED BY <3>1, <3>2 DEF Near
  <2>5. CASE run[r].new[z] # Absent
    <3>1. Stored(z)' = run[r].new[z]
      BY <2>3, <2>5 DEF Stored
    <3>2. Near(run[r].new[z], Stored(z))
      BY <1>1, <2>5 DEF IInv, RunsInv, RunInv
    <3> QED BY <3>1, <3>2
  <2> QED BY <2>4, <2>5
<1>2. IInv /\ [Next]_vars => [Smooth]_vars
  <2> SUFFICES ASSUME IInv, Next PROVE Smooth
    OBVIOUS
  <2> QED BY <1>1 DEF Near
<1> QED BY <1>2, IInvHolds, PTL DEF Spec, SmoothSteps

-----------------------------------------------------------------------------
(***************************************************************************)
(* Powers of two: 2^n is the number of subsets of a set with n members.     *)
(***************************************************************************)
LEMMA PowerFacts ==
  ASSUME NEW n \in Nat
  PROVE  2^n \in Nat /\ 2^n >= 1 /\ 2^0 = 1 /\ 2^(n + 1) = 2^n + 2^n
<1> DEFINE S == 1..n
           x == n + 1
           Q == {A \cup {x} : A \in SUBSET S}
<1>1. IsFiniteSet(S) /\ Cardinality(S) = n /\ IsFiniteSet(1..n + 1) /\ Cardinality(1..n + 1) = n + 1
  BY FS_Interval
<1>2. /\ IsFiniteSet(SUBSET S) /\ Cardinality(SUBSET S) = 2^n
      /\ IsFiniteSet(SUBSET (1..n + 1)) /\ Cardinality(SUBSET (1..n + 1)) = 2^(n + 1)
  BY <1>1, FS_SUBSET
<1>3. 2^n \in Nat /\ 2^n # 0
  <2>1. {} \in SUBSET S
    OBVIOUS
  <2> HIDE DEF S
  <2> QED BY <1>2, <2>1, FS_CardinalityType, FS_EmptySet
<1>4. SUBSET (1..n + 1) = (SUBSET S) \cup Q
  <2>1. 1..n + 1 = S \cup {x}
    OBVIOUS
  <2>2. ASSUME NEW B \in SUBSET (S \cup {x}) PROVE B \in (SUBSET S) \cup Q
    <3>1. CASE x \in B
      <4>1. B \ {x} \in SUBSET S /\ B = (B \ {x}) \cup {x}
        BY <2>2, <3>1
      <4> QED BY <4>1
    <3>2. CASE x \notin B
      BY <2>2, <3>2
    <3> QED BY <3>1, <3>2
  <2>3. ASSUME NEW B \in (SUBSET S) \cup Q PROVE B \in SUBSET (S \cup {x})
    OBVIOUS
  <2> HIDE DEF S, Q, x
  <2>4. SUBSET (S \cup {x}) = (SUBSET S) \cup Q
    BY <2>2, <2>3
  <2> QED BY <2>1, <2>4 DEF x
<1>5. (SUBSET S) \cap Q = {}
  <2>1. x \notin S
    OBVIOUS
  <2> HIDE DEF S, x
  <2> QED BY <2>1
<1>6. IsFiniteSet(Q) /\ Cardinality(Q) = 2^n
  <2> DEFINE f == [A \in SUBSET S |-> A \cup {x}]
  <2>1. x \notin S
    OBVIOUS
  <2> HIDE DEF S, x
  <2>2. f \in Bijection(SUBSET S, Q)
    <3>1. f \in [SUBSET S -> Q]
      OBVIOUS
    <3>2. \A A, B \in SUBSET S : f[A] = f[B] => A = B
      BY <2>1
    <3>3. \A B \in Q : \E A \in SUBSET S : f[A] = B
      OBVIOUS
    <3>4. DOMAIN f = SUBSET S
      OBVIOUS
    <3> HIDE DEF f, Q, S
    <3> QED BY <3>1, <3>2, <3>3, <3>4 DEF Bijection, Injection, Surjection, IsInjective
  <2>3. ExistsBijection(SUBSET S, Q)
    BY <2>2 DEF ExistsBijection
  <2> QED BY <1>2, <2>3, FS_Bijection
<1>7. 2^(n + 1) = 2^n + 2^n
  <2>1. Cardinality((SUBSET S) \cup Q)
          = Cardinality(SUBSET S) + Cardinality(Q) - Cardinality((SUBSET S) \cap Q)
    BY <1>2, <1>6, FS_Union
  <2>2. Cardinality((SUBSET S) \cap Q) = 0
    BY <1>5, FS_EmptySet
  <2>3. Cardinality((SUBSET S) \cup Q) = 2^(n + 1)
    BY <1>2, <1>4
  <2>4. Cardinality((SUBSET S) \cup Q) = 2^n + 2^n - 0
    BY <1>2, <1>6, <2>1, <2>2
  <2> QED BY <1>3, <2>3, <2>4
<1>8. 2^0 = 1
  OBVIOUS
<1> QED BY <1>3, <1>7, <1>8

LEMMA PowerGrows == ASSUME NEW n \in Nat PROVE 2^n >= n
<1> DEFINE Bad == {m \in Nat : ~(2^m >= m)}
<1>1. ASSUME NEW m \in Bad PROVE m # 0 /\ m - 1 \in Bad
  <2>1. m # 0
    BY PowerFacts
  <2>2. m - 1 \in Nat /\ (m - 1) + 1 = m
    BY <2>1
  <2>3. 2^m = 2^(m - 1) + 2^(m - 1) /\ 2^(m - 1) \in Nat /\ 2^(m - 1) >= 1
    BY <2>2, PowerFacts
  <2> QED BY <2>1, <2>2, <2>3
<1>2. Bad = {}
  <2>1. Bad \subseteq Nat
    OBVIOUS
  <2> HIDE DEF Bad
  <2> QED BY <1>1, <2>1, LeastSize
<1> QED BY <1>2

LEMMA PowerAdds == ASSUME NEW m \in Nat, NEW n \in Nat PROVE 2^(m + n) = 2^m * 2^n
<1> DEFINE Bad == {k \in Nat : 2^(m + k) # 2^m * 2^k}
<1>1. ASSUME NEW k \in Bad PROVE k # 0 /\ k - 1 \in Bad
  <2>1. 2^m \in Nat /\ 2^0 = 1 /\ m + 0 = m
    BY PowerFacts
  <2>2. k # 0
    <3>1. 2^(m + 0) = 2^m * 2^0
      BY <2>1
    <3> QED BY <3>1
  <2>3. k - 1 \in Nat /\ (k - 1) + 1 = k /\ m + (k - 1) \in Nat /\ (m + (k - 1)) + 1 = m + k
    BY <2>2
  <2>4. 2^k = 2^(k - 1) + 2^(k - 1) /\ 2^(k - 1) \in Nat
    BY <2>3, PowerFacts
  <2>5. 2^(m + k) = 2^(m + (k - 1)) + 2^(m + (k - 1)) /\ 2^(m + (k - 1)) \in Nat
    BY <2>3, PowerFacts
  <2>6. ASSUME 2^(m + (k - 1)) = 2^m * 2^(k - 1) PROVE FALSE
    <3>1. \A a, b \in Nat : a * (b + b) = a * b + a * b
      OBVIOUS
    <3>2. 2^m * 2^k = 2^m * 2^(k - 1) + 2^m * 2^(k - 1)
      BY <2>1, <2>4, <3>1
    <3> QED BY <2>5, <2>6, <3>2
  <2> QED BY <2>2, <2>3, <2>6
<1>2. Bad = {}
  <2>1. Bad \subseteq Nat
    OBVIOUS
  <2> HIDE DEF Bad
  <2> QED BY <1>1, <2>1, LeastSize
<1> QED BY <1>2

-----------------------------------------------------------------------------
(***************************************************************************)
(* Arithmetic of a grid: quotients, remainders, least members, squares.     *)
(***************************************************************************)
LEMMA Quotients ==
  ASSUME NEW a \in Int, NEW s \in Nat, s >= 1
  PROVE  /\ a \div s \in Int /\ a % s \in 0..s - 1
         /\ s * (a \div s) <= a /\ a < s * (a \div s) + s
         /\ a = s * (a \div s) + (a % s)
OBVIOUS

\* q is the quotient if s fits into a that often.
LEMMA QuotientIs ==
  ASSUME NEW a \in Int, NEW s \in Nat, s >= 1, NEW q \in Int, s * q <= a, a < s * q + s
  PROVE  a \div s = q /\ a % s = a - s * q
<1>1. a \div s \in Int /\ s * (a \div s) <= a /\ a < s * (a \div s) + s /\ a = s * (a \div s) + (a % s)
      /\ a % s \in 0..s - 1
  BY Quotients
<1>2. \A x, y \in Int : x >= y + 1 => s * x >= s * y + s
  <2>1. \A x, y \in Int : x >= y + 1 => s * (x - y - 1) >= 0
    OBVIOUS
  <2>2. \A x, y \in Int : s * (x - y - 1) = s * x - s * y - s
    OBVIOUS
  <2> QED BY <2>1, <2>2
<1>3. ~(a \div s >= q + 1) /\ ~(q >= a \div s + 1)
  BY <1>1, <1>2
<1>4. a \div s = q
  BY <1>1, <1>3
<1> QED BY <1>1, <1>4

\* Points that are at most n steps apart are in cells at most n apart.
LEMMA QuotientsClose ==
  ASSUME NEW a \in Int, NEW b \in Int, NEW s \in Nat, s >= 1, NEW n \in Int, a <= b + n * s
  PROVE  a \div s <= b \div s + n
<1> DEFINE x == a \div s
           y == b \div s
<1>1. x \in Int /\ y \in Int /\ s * x <= a /\ b < s * y + s
  BY Quotients
<1> HIDE DEF x, y
<1>2. s * x < s * y + s + n * s
  BY <1>1
<1>3. s * (x - y - 1 - n) = s * x - s * y - s - n * s
  BY <1>1
<1>4. s * (x - y - 1 - n) < 0
  BY <1>1, <1>2, <1>3
<1>5. ~(x - y - 1 - n >= 0)
  <2>1. \A u \in Int : u >= 0 => s * u >= 0
    OBVIOUS
  <2> QED BY <1>1, <1>4, <2>1
<1> QED BY <1>1, <1>5 DEF x, y

\* A multiple of the divisor is carried out of a quotient and drops out of a remainder.
LEMMA Shifted ==
  ASSUME NEW a \in Int, NEW s \in Nat, s >= 1, NEW k \in Int
  PROVE  (a + k * s) \div s = a \div s + k /\ (a + k * s) % s = a % s
<1> DEFINE q == a \div s
           r == a % s
           b == a + k * s
<1>1. q \in Int /\ r \in Int /\ s * q <= a /\ a < s * q + s /\ a = s * q + r
  BY Quotients
<1> HIDE DEF q, r
<1>2. s * (q + k) = s * q + k * s
  BY <1>1
<1>3. b \in Int /\ q + k \in Int
  BY <1>1
<1>4. s * (q + k) <= b /\ b < s * (q + k) + s /\ b - s * (q + k) = r
  BY <1>1, <1>2
<1> HIDE DEF b
<1>5. b \div s = q + k /\ b % s = b - s * (q + k)
  BY <1>3, <1>4, QuotientIs
<1> QED BY <1>4, <1>5 DEF q, r, b

LEMMA Remainders ==
  ASSUME NEW a \in Int, NEW s \in Nat, s >= 1
  PROVE  /\ 0 <= a /\ a < s => a % s = a
         /\ a < 0 /\ -s <= a => a % s = a + s
OBVIOUS

LEMMA LeastOfTwo ==
  ASSUME NEW a \in Int, NEW b \in Int
  PROVE  /\ Min({a, b}) = IF a <= b THEN a ELSE b
         /\ Max({a, b}) = IF a >= b THEN a ELSE b
<1>1. Min({a, b}) \in {a, b} /\ Min({a, b}) <= a /\ Min({a, b}) <= b
  <2>1. \E x \in {a, b} : \A y \in {a, b} : x <= y
    OBVIOUS
  <2> QED BY <2>1 DEF Min
<1>2. Max({a, b}) \in {a, b} /\ Max({a, b}) >= a /\ Max({a, b}) >= b
  <2>1. \E x \in {a, b} : \A y \in {a, b} : x >= y
    OBVIOUS
  <2> QED BY <2>1 DEF Max
<1> QED BY <1>1, <1>2

LEMMA SquaresGrow ==
  ASSUME NEW a \in Nat, NEW b \in Nat, a <= b
  PROVE  Sq(a) \in Nat /\ Sq(a) <= Sq(b)
<1>1. a * a <= a * b /\ a * b <= b * b
  <2>1. a * (b - a) >= 0 /\ (b - a) * b >= 0
    <3>1. \A x, y \in Nat : x * y >= 0
      OBVIOUS
    <3>2. b - a \in Nat
      OBVIOUS
    <3> QED BY <3>1, <3>2
  <2> QED BY <2>1
<1> QED BY <1>1 DEF Sq

\* Whoever is within a radius is so in either direction.
LEMMA WithinSquare ==
  ASSUME NEW a \in Int, NEW b \in Nat, NEW r \in Nat, Sq(a) + Sq(b) <= Sq(r)
  PROVE  a <= r /\ -a <= r /\ b <= r
<1>1. \A x \in Int : Sq(x) \in Nat /\ Sq(-x) = Sq(x)
  BY DEF Sq
<1>2. \A x \in Nat : x >= r + 1 => Sq(x) > Sq(r)
  <2>1. ASSUME NEW x \in Nat, x >= r + 1 PROVE Sq(x) > Sq(r)
    <3>1. Sq(r + 1) = Sq(r) + r + r + 1 /\ Sq(r) \in Nat /\ Sq(x) \in Nat /\ Sq(r + 1) \in Nat
      BY DEF Sq
    <3>2. Sq(r + 1) <= Sq(x)
      BY <2>1, SquaresGrow
    <3> QED BY <3>1, <3>2
  <2> QED BY <2>1
<1>3. Sq(a) <= Sq(r) /\ Sq(b) <= Sq(r) /\ Sq(-a) = Sq(a) /\ Sq(r) \in Nat /\ Sq(a) \in Nat /\ Sq(b) \in Nat
  BY <1>1
<1>4. ~(a >= r + 1) /\ ~(-a >= r + 1) /\ ~(b >= r + 1)
  BY <1>2, <1>3
<1> QED BY <1>4

-----------------------------------------------------------------------------
(***************************************************************************)
(* The grid: its cells divide the world evenly at every precision.          *)
(***************************************************************************)
LEMMA EvenlyDivided ==
  ASSUME NEW h \in Nat, h >= 1, NEW m \in Nat, NEW n \in Nat, m <= n, h % 2^n = 0
  PROVE  h \div 2^m \in Nat /\ h \div 2^m >= 1 /\ 2^m * (h \div 2^m) = h
<1> DEFINE q == h \div 2^n
           k == n - m
<1>1. k \in Nat /\ m + k = n
  OBVIOUS
<1>2. 2^n = 2^m * 2^k /\ 2^m \in Nat /\ 2^m >= 1 /\ 2^k \in Nat /\ 2^k >= 1 /\ 2^n \in Nat /\ 2^n >= 1
  BY <1>1, PowerAdds, PowerFacts
<1>3. q \in Int /\ h = 2^n * q
  <2> DEFINE d == 2^n
  <2>1. d \in Nat /\ d >= 1 /\ h % d = 0 /\ q = h \div d
    BY <1>2
  <2> HIDE DEF d
  <2>2. h \div d \in Int /\ h = d * (h \div d) + (h % d)
    BY <2>1, Quotients
  <2>3. h = d * q
    BY <2>1, <2>2
  <2> QED BY <2>1, <2>2, <2>3 DEF d
<1> HIDE DEF q, k
<1> DEFINE a == 2^m
           b == 2^k
           p == b * q
<1>4. a \in Nat /\ a >= 1 /\ b \in Nat /\ b >= 1 /\ p \in Int /\ h = (a * b) * q
  BY <1>2, <1>3
<1>5. h = a * p
  <2> HIDE DEF a, b
  <2> QED BY <1>3, <1>4
<1> HIDE DEF p, b
<1>6. p >= 1
  <2>1. \A u, v \in Int : u >= 1 /\ v <= 0 => u * v <= 0
    OBVIOUS
  <2> HIDE DEF a
  <2> QED BY <1>4, <1>5, <2>1
<1>7. h \div a = p
  <2> HIDE DEF a
  <2> QED BY <1>4, <1>5, QuotientIs
<1> QED BY <1>4, <1>5, <1>6, <1>7

LEMMA SpansFit ==
  ASSUME NEW bits \in 1..MAX_BITS
  PROVE  /\ LatBits(bits) \in Nat /\ LngBits(bits) \in Nat
         /\ Rows(bits) \in Nat /\ Rows(bits) >= 1 /\ Cols(bits) \in Nat /\ Cols(bits) >= 1
         /\ LatSpan(bits) \in Nat /\ LatSpan(bits) >= 1 /\ LngSpan(bits) \in Nat /\ LngSpan(bits) >= 1
         /\ Rows(bits) * LatSpan(bits) = Height /\ Cols(bits) * LngSpan(bits) = Width
         /\ Height \in Nat /\ Height >= 1 /\ Width \in Nat /\ Width >= 1
<1>1. Height \in Nat /\ Height >= 1 /\ Width \in Nat /\ Width >= 1
  BY WorldAssumption DEF WorldAssumption
<1>2. /\ Height % 2^LatBits(MAX_BITS) = 0 /\ Width % 2^LngBits(MAX_BITS) = 0
      /\ MAX_BITS \in Nat /\ bits \in Nat /\ bits <= MAX_BITS
  BY WorldAssumption DEF WorldAssumption, LatBits, LngBits
<1>3. /\ LatBits(bits) \in Nat /\ LatBits(MAX_BITS) \in Nat /\ LatBits(bits) <= LatBits(MAX_BITS)
      /\ LngBits(bits) \in Nat /\ LngBits(MAX_BITS) \in Nat /\ LngBits(bits) <= LngBits(MAX_BITS)
  BY <1>2 DEF LatBits, LngBits
<1>4. Rows(bits) \in Nat /\ Rows(bits) >= 1 /\ Cols(bits) \in Nat /\ Cols(bits) >= 1
  BY <1>3, PowerFacts DEF Rows, Cols
<1>5. LatSpan(bits) \in Nat /\ LatSpan(bits) >= 1 /\ Rows(bits) * LatSpan(bits) = Height
  BY <1>1, <1>2, <1>3, EvenlyDivided DEF LatSpan, Rows
<1>6. LngSpan(bits) \in Nat /\ LngSpan(bits) >= 1 /\ Cols(bits) * LngSpan(bits) = Width
  BY <1>1, <1>2, <1>3, EvenlyDivided DEF LngSpan, Cols
<1> QED BY <1>1, <1>3, <1>4, <1>5, <1>6

\* Where a point is: its row and its column, the last row when it is the north pole.
RowOf(lat, bits) == Min({Rows(bits) - 1, clampLat(lat) \div LatSpan(bits)})
ColOf(lng, bits) == normalizeLng(lng) \div LngSpan(bits)

LEMMA ClampedLat ==
  ASSUME NEW lat \in Int
  PROVE  /\ clampLat(lat) \in 0..Height
         /\ clampLat(lat) = IF lat < 0 THEN 0 ELSE IF lat > Height THEN Height ELSE lat
<1>1. Height \in Nat
  BY WorldAssumption DEF WorldAssumption
<1>2. Max({0, lat}) = IF lat < 0 THEN 0 ELSE lat
  BY LeastOfTwo
<1>3. Max({0, lat}) \in Int
  BY <1>2
<1>4. clampLat(lat) = IF Height <= Max({0, lat}) THEN Height ELSE Max({0, lat})
  BY <1>1, <1>3, LeastOfTwo DEF clampLat
<1> QED BY <1>1, <1>2, <1>4

LEMMA CellIsOfTheGrid ==
  ASSUME NEW bits \in 1..MAX_BITS, NEW p, p.lat \in Int, p.lng \in Int
  PROVE  /\ CellOf(p, bits) = [row |-> RowOf(p.lat, bits), col |-> ColOf(p.lng, bits)]
         /\ CellOf(p, bits) \in Cells(bits)
         /\ normalizeLng(p.lng) \in 0..Width - 1 /\ clampLat(p.lat) \in 0..Height
<1> DEFINE x == clampLat(p.lat)
           y == normalizeLng(p.lng)
           R == Rows(bits)
           C == Cols(bits)
           s == LatSpan(bits)
           g == LngSpan(bits)
<1>1. R \in Nat /\ R >= 1 /\ C \in Nat /\ C >= 1 /\ s \in Nat /\ s >= 1 /\ g \in Nat /\ g >= 1
      /\ C * g = Width /\ Height \in Nat /\ Width \in Nat /\ Width >= 1
  BY SpansFit
<1>2. x \in 0..Height
  BY <1>1, ClampedLat
<1>3. y \in 0..Width - 1
  BY <1>1, Quotients DEF normalizeLng
<1> HIDE DEF x, y, R, C, s, g
<1>4. x \div s \in Nat
  BY <1>1, <1>2
<1>5. Min({R - 1, x \div s}) \in 0..R - 1
  BY <1>1, <1>4, LeastOfTwo
<1>6. y \div g \in 0..C - 1
  <2>1. y \div g \in Int /\ g * (y \div g) <= y /\ y < g * (y \div g) + g
    BY <1>1, <1>3, Quotients
  <2> DEFINE q == y \div g
  <2> HIDE DEF q
  <2>2. ~(q <= -1)
    <3>1. q \in Int /\ q <= -1 => g * (-1 - q) >= 0
      BY <1>1
    <3>2. q \in Int => g * (-1 - q) = - g - g * q
      BY <1>1
    <3> QED BY <1>1, <1>3, <2>1, <3>1, <3>2 DEF q
  <2>3. ~(q >= C)
    <3>1. q \in Int /\ q >= C => g * (q - C) >= 0
      BY <1>1
    <3>2. q \in Int => g * (q - C) = g * q - C * g
      BY <1>1
    <3> QED BY <1>1, <1>3, <2>1, <3>1, <3>2 DEF q
  <2> QED BY <1>1, <2>1, <2>2, <2>3 DEF q
<1>7. Min({C - 1, y \div g}) = y \div g
  BY <1>1, <1>6, LeastOfTwo
<1>8. CellOf(p, bits) = [row |-> Min({R - 1, x \div s}), col |-> y \div g]
  BY <1>7 DEF CellOf, R, C, s, g, x, y
<1> QED BY <1>2, <1>3, <1>5, <1>6, <1>8 DEF R, C, s, g, x, y, Cells, RowOf, ColOf

\* Points no further apart than n rows are long are in rows at most n apart.
LEMMA RowsClose ==
  ASSUME NEW bits \in 1..MAX_BITS, NEW a \in Int, NEW b \in Int, NEW n \in Nat,
         a - b <= n * LatSpan(bits), b - a <= n * LatSpan(bits)
  PROVE  RowOf(b, bits) - RowOf(a, bits) \in -n..n
<1> DEFINE R == Rows(bits)
           s == LatSpan(bits)
           x == clampLat(a)
           y == clampLat(b)
<1>1. R \in Nat /\ R >= 1 /\ s \in Nat /\ s >= 1 /\ Height \in Nat
  BY SpansFit
<1>2. n * s \in Nat
  BY <1>1
<1>3. x \in Int /\ y \in Int /\ x <= y + n * s /\ y <= x + n * s
  <2>1. a <= b + n * s /\ b <= a + n * s
    BY <1>1, <1>2
  <2> HIDE DEF s
  <2> QED BY <1>1, <1>2, <2>1, ClampedLat
<1> HIDE DEF R, s, x, y
<1>4. /\ x \div s <= y \div s + n /\ y \div s <= x \div s + n
      /\ x \div s \in Int /\ y \div s \in Int
  <2>1. x \div s <= y \div s + n
    BY <1>1, <1>3, QuotientsClose
  <2>2. y \div s <= x \div s + n
    BY <1>1, <1>3, QuotientsClose
  <2>3. x \div s \in Int /\ y \div s \in Int
    BY <1>1, <1>3, Quotients
  <2> QED BY <2>1, <2>2, <2>3
<1>5. ASSUME NEW u \in Int, NEW v \in Int, u <= v + n, v <= u + n
      PROVE  Min({R - 1, v}) - Min({R - 1, u}) \in -n..n
  BY <1>1, <1>5, LeastOfTwo
<1> QED BY <1>4, <1>5 DEF RowOf, R, s, x, y

\* The distance around the world is the distance to one of the copies a whole turn away.
LEMMA ShorterWay ==
  ASSUME NEW a \in Int, NEW b \in Int
  PROVE  /\ LngDistance(a, b) \in 0..Height
         /\ \E k \in Int : LET d == normalizeLng(a) - normalizeLng(b) - k * Width IN
              LngDistance(a, b) = d \/ LngDistance(a, b) = -d
<1> DEFINE W == Width
           x == a % W
           y == b % W
           e == (a - b) % W
           p == a \div W
           q == b \div W
<1>1. W \in Nat /\ W >= 1 /\ W = 2 * Height /\ Height \in Nat
  BY WorldAssumption DEF WorldAssumption
<1> HIDE DEF W
<1>2. p \in Int /\ q \in Int /\ x \in 0..W - 1 /\ y \in 0..W - 1 /\ a = W * p + x /\ b = W * q + y
  BY <1>1, Quotients
<1>3. e \in 0..W - 1
  BY <1>1, Quotients
<1>4. e = (x - y) % W
  <2> DEFINE k == p - q
             z == x - y
  <2> HIDE DEF x, y, p, q
  <2>1. k \in Int /\ k * W = W * p - W * q
    BY <1>1, <1>2
  <2>2. W * p \in Int /\ W * q \in Int /\ z \in Int
    BY <1>1, <1>2
  <2>3. a - b = z + k * W
    <3> HIDE DEF k
    <3> QED BY <1>2, <2>1, <2>2
  <2> HIDE DEF k, z
  <2>4. (z + k * W) % W = z % W
    BY <1>1, <2>1, <2>2, Shifted
  <2> QED BY <2>3, <2>4 DEF z
<1> HIDE DEF x, y, p, q, e
<1>5. LngDistance(a, b) = IF e <= W - e THEN e ELSE W - e
  <2>1. LngDistance(a, b) = Min({e, W - e})
    BY DEF LngDistance, e, W
  <2> QED BY <1>1, <1>3, <2>1, LeastOfTwo
<1>6. normalizeLng(a) = x /\ normalizeLng(b) = y
  BY DEF normalizeLng, x, y, W
<1>7. \E j \in {0, -1} : e = x - y - j * W
  <2>1. CASE x >= y
    <3>1. x - y \in Int /\ 0 <= x - y /\ x - y < W
      BY <1>1, <1>2, <2>1
    <3>2. e = x - y
      BY <1>1, <1>4, <3>1, Remainders
    <3> QED BY <1>1, <1>2, <3>2
  <2>2. CASE x < y
    <3>1. x - y \in Int /\ x - y < 0 /\ -W <= x - y
      BY <1>1, <1>2, <2>2
    <3>2. e = x - y + W
      BY <1>1, <1>4, <3>1, Remainders
    <3> QED BY <1>1, <1>2, <3>2
  <2> QED BY <1>2, <2>1, <2>2
<1>8. \E k \in Int : LET d == x - y - k * W IN LngDistance(a, b) = d \/ LngDistance(a, b) = -d
  <2>1. PICK j \in {0, -1} : e = x - y - j * W
    BY <1>7
  <2>2. CASE e <= W - e
    BY <1>5, <2>1, <2>2
  <2>3. CASE ~(e <= W - e)
    <3>1. j + 1 \in Int /\ W - e = -(x - y - (j + 1) * W)
      BY <1>1, <1>2, <1>3, <2>1
    <3> QED BY <1>5, <2>3, <3>1
  <2> QED BY <2>2, <2>3
<1>9. LngDistance(a, b) \in 0..Height
  BY <1>1, <1>3, <1>5
<1> QED BY <1>6, <1>8, <1>9 DEF W

\* Points no further apart than n columns are long, around the world, are in columns at most n apart.
LEMMA ColsClose ==
  ASSUME NEW bits \in 1..MAX_BITS, NEW a \in Int, NEW b \in Int, NEW n \in Nat,
         LngDistance(a, b) <= n * LngSpan(bits)
  PROVE  \E e \in -n..n : ColOf(b, bits) = (ColOf(a, bits) + e) % Cols(bits)
<1> DEFINE C == Cols(bits)
           g == LngSpan(bits)
           x == normalizeLng(a)
           y == normalizeLng(b)
           u == x \div g
           v == y \div g
           D == LngDistance(a, b)
<1>1. C \in Nat /\ C >= 1 /\ g \in Nat /\ g >= 1 /\ C * g = Width /\ Width \in Nat /\ Width >= 1
  BY SpansFit
<1>2. x \in Int /\ y \in Int
  BY <1>1, Quotients DEF normalizeLng
<1>3. v \in 0..C - 1
  <2> DEFINE p == [lat |-> 0, lng |-> b]
  <2>1. CellOf(p, bits) \in Cells(bits) /\ CellOf(p, bits).col = ColOf(b, bits)
    BY CellIsOfTheGrid
  <2> QED BY <2>1 DEF Cells, ColOf
<1>4. PICK k \in Int : D = x - y - k * Width \/ D = -(x - y - k * Width)
  BY ShorterWay
<1>5. D \in Nat /\ D <= n * g
  BY ShorterWay
<1> HIDE DEF C, g, x, y, D
<1> DEFINE j == k * C
           z == y + j * g
           w == z \div g
<1>6. j \in Int /\ z \in Int /\ z = y + k * Width
  <2>1. (k * C) * g = k * (C * g)
    BY <1>1
  <2> QED BY <1>1, <1>2, <2>1
<1>7. w = v + j /\ u \in Int /\ w \in Int
  <2> HIDE DEF j
  <2>1. (y + j * g) \div g = y \div g + j
    BY <1>1, <1>2, <1>6, Shifted
  <2>2. u \in Int
    BY <1>1, <1>2, Quotients
  <2> QED BY <1>3, <1>6, <2>1, <2>2
<1>8. x <= z + n * g /\ z <= x + n * g
  <2> HIDE DEF z
  <2> QED BY <1>1, <1>2, <1>4, <1>5, <1>6
<1>9. u <= w + n /\ w <= u + n
  <2>1. u <= w + n
    BY <1>1, <1>2, <1>6, <1>8, QuotientsClose
  <2>2. w <= u + n
    BY <1>1, <1>2, <1>6, <1>8, QuotientsClose
  <2> QED BY <2>1, <2>2
<1>10. w % C = v
  <2>1. v % C = v
    <3>1. v \in Int /\ 0 <= v /\ v < C
      BY <1>1, <1>3
    <3> HIDE DEF v
    <3> QED BY <1>1, <3>1, Remainders
  <2> HIDE DEF v, w, z
  <2>2. v \in Int
    BY <1>3
  <2>3. (v + k * C) % C = v % C
    BY <1>1, <2>2, Shifted
  <2> QED BY <1>7, <2>1, <2>3
<1> HIDE DEF u, v, w, j, z
<1>11. w - u \in -n..n /\ u + (w - u) = w
  BY <1>7, <1>9
<1> QED BY <1>10, <1>11 DEF ColOf, u, v, x, y, g, C

Points == [lat : Int, lng : Int]

LEMMA SquareDistances ==
  ASSUME NEW c \in Points, NEW p \in Points
  PROVE  /\ SqDistance(c, p) = Sq(c.lat - p.lat) + Sq(LngDistance(c.lng, p.lng))
         /\ c.lat - p.lat \in Int /\ LngDistance(c.lng, p.lng) \in Nat /\ SqDistance(c, p) \in Nat
<1>1. LngDistance(c.lng, p.lng) \in Nat /\ c.lat - p.lat \in Int
  BY ShorterWay DEF Points
<1>2. \A x \in Int : Sq(x) \in Nat
  BY DEF Sq
<1>3. SqDistance(c, p) = Sq(c.lat - p.lat) + Sq(LngDistance(c.lng, p.lng))
  BY DEF SqDistance
<1> QED BY <1>1, <1>2, <1>3

LEMMA CellDim ==
  /\ bucketBits \in 1..MAX_BITS
  /\ MinCellDim \in Nat /\ MinCellDim >= 1
  /\ MinCellDim <= LatSpan(bucketBits) /\ MinCellDim <= LngSpan(bucketBits)
BY IndexAssumption, SpansFit, LeastOfTwo DEF IndexAssumption, MinCellDim

\* The scanned block has the cell of every point within the radius, if its rings are that wide.
LEMMA ScanCovers ==
  ASSUME NEW c \in Points, NEW p \in Points, NEW r \in Nat, NEW n \in Nat,
         r <= n * MinCellDim, SqDistance(c, p) <= Sq(r)
  PROVE  CellOf(p, bucketBits) \in ScanCells(c, n)
<1> DEFINE k == RowOf(p.lat, bucketBits) - RowOf(c.lat, bucketBits)
           D == LngDistance(c.lng, p.lng)
<1>1. /\ bucketBits \in 1..MAX_BITS
      /\ c.lat \in Int /\ c.lng \in Int /\ p.lat \in Int /\ p.lng \in Int
  BY CellDim DEF Points
<1>2. r <= n * LatSpan(bucketBits) /\ r <= n * LngSpan(bucketBits)
      /\ LatSpan(bucketBits) \in Nat /\ LngSpan(bucketBits) \in Nat
  <2>1. LatSpan(bucketBits) \in Nat /\ LngSpan(bucketBits) \in Nat
    BY <1>1, SpansFit
  <2>2. ASSUME NEW s \in Nat, MinCellDim <= s PROVE r <= n * s
    <3>1. n * (s - MinCellDim) >= 0
      <4>1. \A u, v \in Nat : u * v >= 0
        OBVIOUS
      <4> QED BY <2>2, <4>1, CellDim
    <3>2. n * (s - MinCellDim) = n * s - n * MinCellDim
      BY CellDim
    <3>3. n * s \in Nat /\ n * MinCellDim \in Nat
      BY CellDim
    <3> QED BY <3>1, <3>2, <3>3
  <2> QED BY <2>1, <2>2, CellDim
<1>3. c.lat - p.lat <= r /\ p.lat - c.lat <= r /\ D <= r /\ D \in Nat
  <2>1. D \in Nat /\ c.lat - p.lat \in Int /\ Sq(c.lat - p.lat) + Sq(D) <= Sq(r)
    BY SquareDistances
  <2> HIDE DEF D
  <2>2. c.lat - p.lat <= r /\ -(c.lat - p.lat) <= r /\ D <= r
    BY <2>1, WithinSquare
  <2> QED BY <1>1, <2>1, <2>2
<1>4. k \in -n..n
  <2>1. /\ c.lat - p.lat <= n * LatSpan(bucketBits)
        /\ p.lat - c.lat <= n * LatSpan(bucketBits)
    <3>1. n * LatSpan(bucketBits) \in Nat
      BY <1>2
    <3> QED BY <1>1, <1>2, <1>3, <3>1
  <2> QED BY <1>1, <2>1, RowsClose
<1>5. PICK e \in -n..n : ColOf(p.lng, bucketBits) = (ColOf(c.lng, bucketBits) + e) % Cols(bucketBits)
  <2>1. D <= n * LngSpan(bucketBits)
    <3>1. n * LngSpan(bucketBits) \in Nat
      BY <1>2
    <3> QED BY <1>2, <1>3, <3>1
  <2> QED BY <1>1, <2>1, ColsClose
<1>6. /\ CellOf(p, bucketBits) = [row |-> RowOf(p.lat, bucketBits), col |-> ColOf(p.lng, bucketBits)]
      /\ CellOf(c, bucketBits) = [row |-> RowOf(c.lat, bucketBits), col |-> ColOf(c.lng, bucketBits)]
      /\ RowOf(p.lat, bucketBits) \in 0..Rows(bucketBits) - 1
      /\ RowOf(c.lat, bucketBits) \in 0..Rows(bucketBits) - 1
  BY <1>1, CellIsOfTheGrid DEF Cells
<1>7. RowOf(p.lat, bucketBits) = RowOf(c.lat, bucketBits) + k
  BY <1>1, <1>6, SpansFit
<1> HIDE DEF k
<1>8. k \in {j \in -n..n : RowOf(c.lat, bucketBits) + j \in 0..Rows(bucketBits) - 1}
  BY <1>4, <1>6, <1>7
<1> QED BY <1>5, <1>6, <1>7, <1>8 DEF ScanCells

-----------------------------------------------------------------------------
(***************************************************************************)
(* Hashes: the bits of a row and a column add up to a number that has as many. *)
(***************************************************************************)
LEMMA SubsetSums ==
  ASSUME NEW S, IsFiniteSet(S), NEW f, NEW g, IsIteration(g, f, S), \A x \in S : f[x] \in Nat,
         NEW s \in SUBSET S
  PROVE  g[s] \in Nat
<1> DEFINE Of(t) == CHOOSE x \in t : TRUE
           Bad == {n \in Nat : \E t \in SUBSET S : Cardinality(t) = n /\ g[t] \notin Nat}
<1>1. ASSUME NEW t \in SUBSET S
      PROVE  g[t] = IF t = {} THEN 0 ELSE f[Of(t)] + g[t \ {Of(t)}]
  BY Zenon DEF IsIteration
<1>2. ASSUME NEW n \in Bad PROVE n # 0 /\ n - 1 \in Bad
  <2>1. PICK t \in SUBSET S : Cardinality(t) = n /\ g[t] \notin Nat
    OBVIOUS
  <2>2. t # {}
    BY <1>1, <2>1
  <2> DEFINE c == Of(t)
             u == t \ {c}
  <2>3. c \in S /\ u \in SUBSET S /\ Cardinality(u) = n - 1 /\ n \in Nat /\ n # 0
    BY <2>1, <2>2, TakeOne
  <2>4. g[t] = f[c] + g[u]
    BY <1>1, <2>2
  <2> HIDE DEF c, u
  <2>5. g[u] \notin Nat
    BY <2>1, <2>3, <2>4
  <2> QED BY <2>3, <2>5
<1>3. Bad = {}
  <2>1. Bad \subseteq Nat
    OBVIOUS
  <2> HIDE DEF Bad
  <2> QED BY <1>2, <2>1, LeastSize
<1>4. Cardinality(s) \in Nat
  BY FS_Subset, FS_CardinalityType
<1> QED BY <1>3, <1>4

\* A sum may be taken in any order.
LEMMA AnyElement ==
  ASSUME NEW S, IsFiniteSet(S), NEW f, NEW g, IsIteration(g, f, S), \A x \in S : f[x] \in Nat,
         NEW s \in SUBSET S
  PROVE  g[s] \in Nat /\ g[{}] = 0 /\ \A x \in s : g[s] = f[x] + g[s \ {x}]
<1> DEFINE Of(t) == CHOOSE x \in t : TRUE
           Fine(t) == g[t] \in Nat /\ \A x \in t : g[t] = f[x] + g[t \ {x}]
           Bad == {n \in Nat : \E t \in SUBSET S : Cardinality(t) = n /\ ~Fine(t)}
<1>1. ASSUME NEW t \in SUBSET S
      PROVE  g[t] = IF t = {} THEN 0 ELSE f[Of(t)] + g[t \ {Of(t)}]
  BY Zenon DEF IsIteration
<1>2. ASSUME NEW n \in Bad PROVE n # 0 /\ n - 1 \in Bad
  <2> SUFFICES ASSUME n # 0 => n - 1 \notin Bad PROVE FALSE
    OBVIOUS
  <2>1. PICK t \in SUBSET S : Cardinality(t) = n /\ ~Fine(t)
    OBVIOUS
  <2>2. t # {}
    <3>1. Fine({})
      <4>1. g[{}] = 0
        BY <1>1
      <4> QED BY <4>1
    <3> HIDE DEF Fine
    <3> QED BY <2>1, <3>1
  <2> DEFINE c == Of(t)
  <2>3. c \in t /\ IsFiniteSet(t) /\ n \in Nat /\ n # 0 /\ n - 1 \in Nat
    <3>1. c \in t /\ IsFiniteSet(t) /\ Cardinality(t) \in Nat /\ Cardinality(t) # 0
      BY <2>2, TakeOne
    <3> HIDE DEF c
    <3> QED BY <2>1, <3>1
  <2>4. n - 1 \notin Bad
    BY <2>3
  <2>5. ASSUME NEW x \in t
        PROVE  t \ {x} \in SUBSET S /\ Fine(t \ {x})
    <3>1. t \ {x} \in SUBSET S /\ Cardinality(t \ {x}) = n - 1
      BY <2>1, <2>3, FS_RemoveElement
    <3> HIDE DEF Fine
    <3> QED BY <2>3, <2>4, <3>1
  <2>6. g[t] = f[c] + g[t \ {c}] /\ f[c] \in Nat
    BY <1>1, <2>2, <2>3
  <2>7. g[t] \in Nat
    BY SubsetSums
  <2>8. ASSUME NEW x \in t PROVE g[t] = f[x] + g[t \ {x}]
    <3>1. CASE x = c
      BY <2>6, <3>1
    <3>2. CASE x # c
      <4>1. x \in t \ {c} /\ c \in t \ {x}
        BY <2>3, <3>2
      <4>2. g[t \ {c}] = f[x] + g[(t \ {c}) \ {x}]
        BY <2>3, <2>5, <4>1
      <4>3. g[t \ {x}] = f[c] + g[(t \ {x}) \ {c}] /\ g[t \ {x}] \in Nat
        BY <2>5, <4>1
      <4>4. (t \ {c}) \ {x} = (t \ {x}) \ {c}
        OBVIOUS
      <4>5. (t \ {x}) \ {c} \in SUBSET S /\ g[(t \ {x}) \ {c}] \in Nat /\ f[x] \in Nat
        <5>1. (t \ {x}) \ {c} \in SUBSET S
          OBVIOUS
        <5> QED BY <5>1, SubsetSums
      <4> DEFINE u == g[(t \ {x}) \ {c}]
                 v == g[t \ {c}]
                 w == g[t \ {x}]
      <4>6. v = f[x] + u /\ w = f[c] + u /\ g[t] = f[c] + v /\ u \in Nat
        BY <2>6, <4>2, <4>3, <4>4, <4>5
      <4> HIDE DEF u, v, w
      <4>7. g[t] = f[x] + w
        BY <2>6, <4>5, <4>6
      <4> QED BY <4>7 DEF w
    <3> QED BY <3>1, <3>2
  <2> QED BY <2>1, <2>7, <2>8
<1>3. Bad = {}
  <2>1. Bad \subseteq Nat
    OBVIOUS
  <2> HIDE DEF Bad
  <2> QED BY <1>2, <2>1, LeastSize
<1>4. Fine(s)
  <2>1. Cardinality(s) \in Nat
    BY FS_Subset, FS_CardinalityType
  <2> HIDE DEF Fine
  <2> QED BY <1>3, <2>1
<1> QED BY <1>1, <1>4

\* The bits of a column and a row in the order of a hash.
BitsOf(cell, bits) ==
  [i \in 0..bits - 1 |-> IF i % 2 = 0 THEN Bit(cell.col, LngBits(bits) - 1 - (i \div 2))
                                     ELSE Bit(cell.row, LatBits(bits) - 1 - (i \div 2))]

Weighted(b, n) == [i \in 0..n - 1 |-> 2^(n - 1 - i) * b[i]]

LEMMA BitIsBinary == ASSUME NEW n \in Int, NEW k \in Nat PROVE Bit(n, k) \in {0, 1}
<1>1. n \div 2^k \in Int
  BY PowerFacts, Quotients
<1> DEFINE q == n \div 2^k
<1> HIDE DEF q
<1>2. q % 2 \in 0..1
  BY <1>1 DEF q
<1> QED BY <1>2 DEF Bit, q

LEMMA PlacesOfBits ==
  ASSUME NEW bits \in Nat, NEW i \in 0..bits - 1
  PROVE  /\ i % 2 \in {0, 1} /\ i \div 2 \in Nat /\ i = 2 * (i \div 2) + (i % 2)
         /\ i % 2 = 0 => LngBits(bits) - 1 - (i \div 2) \in Nat
         /\ i % 2 # 0 => LatBits(bits) - 1 - (i \div 2) \in Nat
BY DEF LngBits, LatBits

\* The next bit of a number, from the right.
LEMMA NextBit ==
  ASSUME NEW x \in Nat, NEW m \in Nat
  PROVE  /\ x % 2^(m + 1) = 2^m * Bit(x, m) + (x % 2^m)
         /\ x % 2^m \in Nat /\ x % 2^m <= 2^m - 1 /\ x % 2^0 = 0
         /\ x < 2^m => x % 2^m = x
<1> DEFINE s == 2^m
           q == x \div s
           r == x % s
           h == q \div 2
           b == q % 2
<1>1. s \in Nat /\ s >= 1 /\ 2^(m + 1) = s + s /\ 2^0 = 1
  BY PowerFacts
<1>2. q \in Int /\ r \in 0..s - 1 /\ x = s * q + r
  <2> HIDE DEF s
  <2> QED BY <1>1, Quotients
<1>3. Bit(x, m) = b
  BY DEF Bit
<1> HIDE DEF r, s
<1>4. h \in Int /\ b \in {0, 1} /\ q = 2 * h + b
  <2> HIDE DEF q
  <2> QED BY <1>2
<1> HIDE DEF q, h, b
<1>5. s * q = (s + s) * h + s * b
  <2>1. s * (2 * h + b) = (s + s) * h + s * b
    BY <1>1, <1>4
  <2> QED BY <1>4, <2>1
<1>6. s * b \in Nat /\ s * b <= s
  BY <1>1, <1>4
<1>7. x % (s + s) = s * b + r
  <2> DEFINE t == s + s
             u == t * h
             v == s * b
  <2>1. t \in Nat /\ t >= 1 /\ x = u + v + r /\ v + r < t /\ v + r >= 0
    BY <1>1, <1>2, <1>5, <1>6
  <2>2. v \in Int /\ r \in Int /\ u \in Int
    BY <1>1, <1>2, <1>4, <1>6
  <2> HIDE DEF t, v
  <2>3. t * h <= x /\ x < t * h + t /\ x - t * h = v + r
    BY <2>1, <2>2
  <2>4. t \in Nat /\ t >= 1 /\ x \in Int
    BY <2>1
  <2>5. x % t = x - t * h
    BY <1>4, <2>3, <2>4, QuotientIs
  <2> QED BY <2>3, <2>5 DEF t, v
<1>8. x % 1 = 0
  OBVIOUS
<1>9. x < s => x % s = x
  BY <1>1
<1> QED BY <1>1, <1>2, <1>3, <1>7, <1>8, <1>9 DEF r, s

\* A number made of weighted bits has as many bits, and they are those it was made of.
LEMMA WeightedSum ==
  ASSUME NEW n \in Nat, NEW b, \A i \in 0..n - 1 : b[i] \in {0, 1},
         NEW g, IsIteration(g, Weighted(b, n), 0..n - 1)
  PROVE  /\ g[0..n - 1] \in 0..2^n - 1
         /\ \A i \in 0..n - 1 : Bit(g[0..n - 1], n - 1 - i) = b[i]
<1> DEFINE S == 0..n - 1
           f == Weighted(b, n)
           Last(m) == {i \in S : i >= n - m}
           Fits(m) == g[Last(m)] <= 2^m - 1
           Above(m) == \E c \in Int : g[S] = 2^m * c + g[Last(m)]
           Bad == {m \in Nat : m <= n /\ ~Fits(m)}
           Short == {k \in Nat : k <= n /\ ~Above(n - k)}
<1>1. IsFiniteSet(S)
  BY FS_Interval
<1>2. ASSUME NEW i \in S
      PROVE  f[i] \in Nat /\ f[i] = 2^(n - 1 - i) * b[i] /\ f[i] <= 2^(n - 1 - i)
  <2>1. n - 1 - i \in Nat
    OBVIOUS
  <2>2. 2^(n - 1 - i) \in Nat /\ b[i] \in {0, 1}
    BY <2>1, PowerFacts
  <2>3. f[i] = 2^(n - 1 - i) * b[i]
    BY Zenon DEF Weighted
  <2> HIDE DEF f
  <2> QED BY <2>2, <2>3
<1>3. \A s \in SUBSET S : g[s] \in Nat /\ g[{}] = 0 /\ \A x \in s : g[s] = f[x] + g[s \ {x}]
  <2>1. \A x \in S : f[x] \in Nat
    BY <1>2
  <2>2. IsIteration(g, f, S)
    OBVIOUS
  <2> HIDE DEF S, f
  <2> QED BY <1>1, <2>1, <2>2, AnyElement
<1> HIDE DEF f
\* The last m places but one, and that one.
<1>4. ASSUME NEW m \in Nat, m # 0, m <= n
      PROVE  /\ m - 1 \in Nat /\ n - m \in S /\ 2^m = 2^(m - 1) + 2^(m - 1) /\ 2^(m - 1) \in Nat
             /\ 2^(m - 1) >= 1
             /\ g[Last(m)] = 2^(m - 1) * b[n - m] + g[Last(m - 1)]
             /\ g[Last(m - 1)] \in Nat /\ b[n - m] \in {0, 1}
  <2> DEFINE x == n - m
  <2>1. m - 1 \in Nat /\ x \in S /\ x \in Last(m) /\ n - 1 - x = m - 1 /\ (m - 1) + 1 = m
    BY <1>4
  <2>2. Last(m) \ {x} = Last(m - 1) /\ Last(m) \in SUBSET S /\ Last(m - 1) \in SUBSET S
    BY <1>4
  <2>3. g[Last(m)] = f[x] + g[Last(m - 1)] /\ g[Last(m - 1)] \in Nat
    <3> HIDE DEF S, Last, x
    <3> QED BY <1>3, <2>1, <2>2
  <2>4. f[x] = 2^(m - 1) * b[x]
    <3>1. f[x] = 2^(n - 1 - x) * b[x]
      BY <1>2, <2>1
    <3> HIDE DEF x
    <3> QED BY <2>1, <3>1
  <2>5. 2^m = 2^(m - 1) + 2^(m - 1) /\ 2^(m - 1) \in Nat /\ 2^(m - 1) >= 1
    BY <2>1, PowerFacts
  <2>6. b[x] \in {0, 1}
    BY <2>1
  <2> HIDE DEF Last
  <2> QED BY <2>1, <2>3, <2>4, <2>5, <2>6
<1>5. \A m \in Nat : m <= n => Fits(m)
  <2>1. ASSUME NEW m \in Bad PROVE m # 0 /\ m - 1 \in Bad
    <3>1. m # 0
      <4>1. Last(0) = {}
        OBVIOUS
      <4>2. {} \in SUBSET S
        OBVIOUS
      <4>3. g[Last(0)] = 0 /\ 2^0 = 1
        BY <1>3, <4>1, <4>2, PowerFacts
      <4>4. Fits(0)
        BY <4>3
      <4> HIDE DEF Fits
      <4> QED BY <4>4
    <3>2. m \in Nat /\ m <= n /\ ~(g[Last(m)] <= 2^m - 1)
      OBVIOUS
    <3> HIDE DEF Last
    <3> DEFINE p == 2^(m - 1)
               d == b[n - m]
               r == g[Last(m - 1)]
    <3>3. ~(r <= p - 1)
      <4>1. 2^m = p + p /\ p \in Nat /\ g[Last(m)] = p * d + r /\ r \in Nat /\ d \in {0, 1}
        BY <1>4, <3>1, <3>2
      <4> HIDE DEF p, d, r
      <4>2. ~(p * d + r <= p + p - 1) /\ p * d \in Nat /\ p * d <= p
        BY <3>2, <4>1
      <4> QED BY <4>1, <4>2
    <3> QED BY <1>4, <3>1, <3>2, <3>3
  <2>2. Bad = {}
    <3>1. Bad \subseteq Nat
      OBVIOUS
    <3> HIDE DEF Bad
    <3> QED BY <2>1, <3>1, LeastSize
  <2> HIDE DEF Fits
  <2> QED BY <2>2
<1>6. Last(n) = S
  OBVIOUS
<1>7. g[S] \in Nat /\ S \in SUBSET S
  <2> HIDE DEF S
  <2> QED BY <1>3
<1>8. \A m \in 0..n : Above(m)
  <2>1. ASSUME NEW k \in Short PROVE k # 0 /\ k - 1 \in Short
    <3>1. k # 0
      <4>1. Above(n)
        <5>1. 2^n \in Nat
          BY PowerFacts
        <5> DEFINE p == 2^n
                   x == g[S]
        <5>2. x \in Nat /\ p \in Nat /\ g[Last(n)] = x
          BY <1>6, <1>7, <5>1, Zenon
        <5> HIDE DEF S, Last, p, x
        <5>3. 0 \in Int /\ x = p * 0 + x
          BY <5>2
        <5>4. x = p * 0 + g[Last(n)]
          BY <5>2, <5>3, Zenon
        <5> QED BY <5>3, <5>4 DEF p, x
      <4>2. n - 0 = n
        OBVIOUS
      <4> HIDE DEF Above
      <4> QED BY <4>1, <4>2
    <3> DEFINE m == n - (k - 1)
    <3>2. k - 1 \in Nat /\ k - 1 <= n /\ m \in Nat /\ m # 0 /\ m <= n /\ m - 1 = n - k
      BY <3>1
    <3>3. ASSUME Above(m) PROVE Above(m - 1)
      <4>1. PICK c \in Int : g[S] = 2^m * c + g[Last(m)]
        BY <3>3
      <4> HIDE DEF m, Last, S
      <4> DEFINE p == 2^(m - 1)
                 d == b[n - m]
                 r == g[Last(m - 1)]
      <4>2. 2^m = p + p /\ p \in Nat /\ g[Last(m)] = p * d + r /\ r \in Nat /\ d \in {0, 1}
        BY <1>4, <3>2
      <4> HIDE DEF p, d, r
      <4>3. g[S] = (p + p) * c + (p * d + r)
        BY <4>1, <4>2
      <4>4. g[S] = p * (2 * c + d) + r /\ 2 * c + d \in Int
        BY <4>2, <4>3
      <4> QED BY <4>4 DEF p, r
    <3>4. ~Above(n - k)
      OBVIOUS
    <3> HIDE DEF Above
    <3>5. ~Above(m)
      BY <3>2, <3>3, <3>4
    <3> QED BY <3>1, <3>2, <3>5
  <2>2. Short = {}
    <3>1. Short \subseteq Nat
      OBVIOUS
    <3> HIDE DEF Short
    <3> QED BY <2>1, <3>1, LeastSize
  <2>3. ASSUME NEW m \in 0..n PROVE Above(m)
    <3>1. n - m \in Nat /\ n - m <= n /\ n - (n - m) = m
      OBVIOUS
    <3> HIDE DEF Above
    <3> QED BY <2>2, <3>1
  <2> QED BY <2>3
<1>9. ASSUME NEW i \in S PROVE Bit(g[S], n - 1 - i) = b[i]
  <2> DEFINE k == n - 1 - i
             p == 2^k
             d == b[i]
             r == g[Last(k)]
             x == g[S]
  <2>1. k \in Nat /\ k <= n /\ k + 1 \in Nat /\ k + 1 # 0 /\ k + 1 <= n /\ n - (k + 1) = i
        /\ (k + 1) - 1 = k
    OBVIOUS
  <2>2. PICK c \in Int : x = 2^(k + 1) * c + g[Last(k + 1)]
    <3>1. k + 1 \in 0..n
      BY <2>1
    <3>2. Above(k + 1)
      <4> HIDE DEF Above, k
      <4> QED BY <1>8, <3>1
    <3> QED BY <3>2
  <2> HIDE DEF Last, S, x, k
  <2>3. 2^(k + 1) = p + p /\ p \in Nat /\ p >= 1 /\ g[Last(k + 1)] = p * d + r /\ r \in Nat
        /\ d \in {0, 1}
    BY <1>4, <2>1
  <2>4. r <= p - 1
    BY <1>5, <2>1
  <2> HIDE DEF p, d, r
  <2>5. x = (p + p) * c + (p * d + r)
    BY <2>2, <2>3
  <2>6. x = p * (2 * c + d) + r /\ 2 * c + d \in Int
    BY <2>3, <2>5
  <2> DEFINE q == 2 * c + d
  <2>7. p * q <= x /\ x < p * q + p /\ x \in Int /\ q \in Int
    <3>1. p * q \in Int
      BY <2>3, <2>6
    <3> DEFINE y == p * q
    <3>2. x = y + r /\ y \in Int
      BY <2>6, <3>1
    <3> HIDE DEF y
    <3>3. y <= x /\ x < y + p /\ x \in Int
      BY <2>3, <2>4, <3>2
    <3> QED BY <2>6, <3>3 DEF y
  <2>8. x \div p = q
    <3> HIDE DEF q
    <3> QED BY <2>3, <2>7, QuotientIs
  <2>9. q % 2 = d
    BY <2>3
  <2> QED BY <2>8, <2>9 DEF Bit, x, p, d, k
<1>10. g[S] <= 2^n - 1 /\ 2^n \in Nat
  <2>1. Fits(n)
    <3> HIDE DEF Fits
    <3> QED BY <1>5
  <2> HIDE DEF Last
  <2> QED BY <1>6, <2>1, PowerFacts
<1> QED BY <1>7, <1>9, <1>10

\* A hash is the sum of the weighted bits of its cell.
LEMMA HashIsSum ==
  ASSUME NEW bits \in 1..MAX_BITS, NEW cell \in Cells(bits)
  PROVE  /\ \A i \in 0..bits - 1 : BitsOf(cell, bits)[i] \in {0, 1}
         /\ \E g : /\ IsIteration(g, Weighted(BitsOf(cell, bits), bits), 0..bits - 1)
                   /\ CellHash(cell, bits) = g[0..bits - 1]
<1> DEFINE S == 0..bits - 1
           B(i) == IF i % 2 = 0 THEN Bit(cell.col, LngBits(bits) - 1 - (i \div 2))
                                ELSE Bit(cell.row, LatBits(bits) - 1 - (i \div 2))
           W(i) == 2^(bits - 1 - i)
           f == Weighted(BitsOf(cell, bits), bits)
           Of(s) == CHOOSE x \in s : TRUE
           IsSum(h) == h = [s \in SUBSET S |-> IF s = {} THEN 0 ELSE W(Of(s)) * B(Of(s)) + h[s \ {Of(s)}]]
           g == CHOOSE h : IsSum(h)
<1>1. bits \in Nat /\ IsFiniteSet(S)
  BY WorldAssumption, FS_Interval DEF WorldAssumption
<1>2. ASSUME NEW i \in S PROVE BitsOf(cell, bits)[i] = B(i) /\ B(i) \in {0, 1}
  <2>1. cell.col \in Int /\ cell.row \in Int
    BY SpansFit DEF Cells
  <2>2. /\ i % 2 = 0 => LngBits(bits) - 1 - (i \div 2) \in Nat
        /\ i % 2 # 0 => LatBits(bits) - 1 - (i \div 2) \in Nat
    BY <1>1, PlacesOfBits
  <2>3. B(i) \in {0, 1}
    <3> HIDE DEF S
    <3> QED BY <2>1, <2>2, BitIsBinary
  <2>4. BitsOf(cell, bits)[i] = B(i)
    BY DEF BitsOf
  <2> QED BY <2>3, <2>4
<1>3. ASSUME NEW i \in S PROVE f[i] = W(i) * B(i)
  <2>1. f[i] = W(i) * BitsOf(cell, bits)[i]
    BY DEF Weighted
  <2> HIDE DEF f, W, B, S
  <2> QED BY <1>2, <2>1
<1>4. CellHash(cell, bits) = g[S]
  BY Zenon DEF CellHash, Interleave, MapThenSumSet, MapThenFoldSet
<1>5. IsIteration(g, f, S)
  <2>1. ASSUME NEW h PROVE IsSum(h) <=> IsIteration(h, f, S)
    <3>1. ASSUME NEW s \in SUBSET S, s # {} PROVE W(Of(s)) * B(Of(s)) = f[Of(s)]
      <4>1. Of(s) \in S
        BY <3>1
      <4> HIDE DEF Of, W, B, S, f
      <4> QED BY <1>3, <4>1
    <3> HIDE DEF f, W, B
    <3> QED BY <3>1 DEF IsIteration
  <2>2. \E h : IsSum(h)
    <3> HIDE DEF IsSum, f, S
    <3> QED BY <1>1, <2>1, IterationExists
  <2>3. IsSum(g)
    <3> HIDE DEF IsSum
    <3> QED BY <2>2
  <2> HIDE DEF IsSum, g, f, S
  <2> QED BY <2>1, <2>3
<1> HIDE DEF g, B
<1> QED BY <1>2, <1>4, <1>5, Zenon

\* It has no more bits than it should, and they are those of the cell.
LEMMA HashesFit ==
  ASSUME NEW bits \in 1..MAX_BITS, NEW cell \in Cells(bits)
  PROVE  /\ CellHash(cell, bits) \in 0..2^bits - 1
         /\ \A i \in 0..bits - 1 :
              Bit(CellHash(cell, bits), bits - 1 - i) = BitsOf(cell, bits)[i]
<1>1. bits \in Nat
  BY WorldAssumption DEF WorldAssumption
<1>2. \A i \in 0..bits - 1 : BitsOf(cell, bits)[i] \in {0, 1}
  BY HashIsSum
<1>3. PICK g : /\ IsIteration(g, Weighted(BitsOf(cell, bits), bits), 0..bits - 1)
               /\ CellHash(cell, bits) = g[0..bits - 1]
  BY HashIsSum
<1> DEFINE b == BitsOf(cell, bits)
<1> HIDE DEF b
<1>4. /\ g[0..bits - 1] \in 0..2^bits - 1
      /\ \A i \in 0..bits - 1 : Bit(g[0..bits - 1], bits - 1 - i) = b[i]
  BY <1>1, <1>2, <1>3, WeightedSum DEF b
<1> QED BY <1>3, <1>4 DEF b

\* The places of a hash a coordinate has its bits in, and what they add up to: e is 0 for the
\* columns and 1 for the rows, n how many bits a coordinate x has.
Places(e, bits) == {i \in 0..bits - 1 : i % 2 = e}
Spread(x, n, e, bits) == [i \in Places(e, bits) |-> 2^(n - 1 - (i \div 2)) * Bit(x, n - 1 - (i \div 2))]

LEMMA SumOfBits ==
  ASSUME NEW bits \in Nat, NEW e \in {0, 1}, NEW n \in Nat, n = (bits + 1 - e) \div 2,
         NEW x \in Nat, x < 2^n,
         NEW g, IsIteration(g, Spread(x, n, e, bits), Places(e, bits))
  PROVE  g[Places(e, bits)] = x
<1> DEFINE I == Places(e, bits)
           f == Spread(x, n, e, bits)
           Tail(m) == {i \in I : n - 1 - (i \div 2) < m}
           Sums(m) == g[Tail(m)] = x % 2^m
           Bad == {m \in Nat : m <= n /\ ~Sums(m)}
<1>1. IsFiniteSet(I)
  <2>1. I \subseteq 0..bits - 1
    BY DEF Places
  <2>2. IsFiniteSet(0..bits - 1)
    BY FS_Interval
  <2> HIDE DEF I
  <2> QED BY <2>1, <2>2, FS_Subset
<1>2. ASSUME NEW i \in I
      PROVE  n - 1 - (i \div 2) \in Nat /\ f[i] \in Nat
             /\ f[i] = 2^(n - 1 - (i \div 2)) * Bit(x, n - 1 - (i \div 2))
  <2>1. n - 1 - (i \div 2) \in Nat
    BY DEF Places
  <2>2. 2^(n - 1 - (i \div 2)) \in Nat /\ Bit(x, n - 1 - (i \div 2)) \in {0, 1}
    BY <2>1, PowerFacts, BitIsBinary
  <2>3. f[i] = 2^(n - 1 - (i \div 2)) * Bit(x, n - 1 - (i \div 2))
    BY Zenon DEF Spread
  <2> HIDE DEF f
  <2> QED BY <2>1, <2>2, <2>3
<1>3. \A s \in SUBSET I : g[s] \in Nat /\ g[{}] = 0 /\ \A i \in s : g[s] = f[i] + g[s \ {i}]
  <2>1. \A i \in I : f[i] \in Nat
    BY <1>2
  <2> HIDE DEF I, f
  <2>2. IsIteration(g, f, I)
    BY DEF I, f
  <2> QED BY <1>1, <2>1, <2>2, AnyElement
<1> HIDE DEF f
<1>4. ASSUME NEW m \in Bad PROVE m # 0 /\ m - 1 \in Bad
  <2>1. m # 0
    <3>1. Tail(0) = {}
      BY <1>2
    <3>2. {} \in SUBSET I
      OBVIOUS
    <3>3. g[Tail(0)] = 0 /\ x % 2^0 = 0
      BY <1>3, <3>1, <3>2, NextBit
    <3>4. Sums(0)
      BY <3>3
    <3> HIDE DEF Sums
    <3> QED BY <3>4
  <2> DEFINE k == m - 1
             i == 2 * (n - m) + e
  <2>2. m \in Nat /\ m <= n /\ k \in Nat /\ k <= n /\ k + 1 = m
    BY <2>1
  <2>3. i \in I /\ i \div 2 = n - m /\ n - 1 - (i \div 2) = k
    <3>1. i \in 0..bits - 1
      BY <2>2
    <3>2. i \div 2 = n - m /\ i % 2 = e
      BY <2>2
    <3>3. n - 1 - (n - m) = k
      BY <2>2
    <3> HIDE DEF i, k
    <3> QED BY <3>1, <3>2, <3>3 DEF Places
  <2>4. i \in Tail(m) /\ Tail(m) \in SUBSET I
    <3> HIDE DEF i
    <3> QED BY <2>2, <2>3
  <2>5. Tail(m) \ {i} = Tail(k) /\ Tail(k) \in SUBSET I
    <3>1. ASSUME NEW j \in I PROVE j # i <=> j \div 2 # n - m
      <4>1. j \in 0..bits - 1 /\ j % 2 = e
        BY DEF Places
      <4> HIDE DEF I
      <4> QED BY <2>2, <2>3, <4>1
    <3>2. ASSUME NEW j \in I
          PROVE  (n - 1 - (j \div 2) < m /\ j # i) <=> n - 1 - (j \div 2) < k
      <4>1. j \div 2 \in Int
        BY DEF Places
      <4> HIDE DEF I, i
      <4> QED BY <2>2, <3>1, <4>1
    <3> HIDE DEF I, i, k
    <3> QED BY <3>2
  <2>6. g[Tail(m)] = 2^k * Bit(x, k) + g[Tail(k)]
    <3>1. g[Tail(m)] = f[i] + g[Tail(k)]
      <4> HIDE DEF Tail, I, i, k
      <4> QED BY <1>3, <2>4, <2>5
    <3>2. f[i] = 2^k * Bit(x, k)
      <4> HIDE DEF I, i, k
      <4> QED BY <1>2, <2>3
    <3> HIDE DEF Tail, i, k
    <3> QED BY <3>1, <3>2
  <2>7. x % 2^m = 2^k * Bit(x, k) + (x % 2^k)
    <3> HIDE DEF k
    <3> QED BY <2>2, NextBit
  <2>8. ~Sums(m)
    OBVIOUS
  <2>9. ~Sums(k)
    <3> HIDE DEF Tail, k
    <3> QED BY <2>6, <2>7, <2>8
  <2> HIDE DEF Sums
  <2> QED BY <2>1, <2>2, <2>9
<1>5. Bad = {}
  <2>1. Bad \subseteq Nat
    OBVIOUS
  <2> HIDE DEF Bad
  <2> QED BY <1>4, <2>1, LeastSize
<1>6. Tail(n) = I
  <2>1. \A i \in I : n - 1 - (i \div 2) < n
    BY DEF Places
  <2> QED BY <2>1
<1>7. Sums(n)
  <2> HIDE DEF Sums
  <2> QED BY <1>5
<1>8. x % 2^n = x
  BY NextBit
<1> HIDE DEF Tail, I
<1> QED BY <1>6, <1>7, <1>8 DEF I

\* The coordinate deinterleave reads there.
Read(hash, n, e, bits) ==
  MapThenSumSet(LAMBDA i : 2^(n - 1 - (i \div 2)) * Bit(hash, bits - 1 - i), Places(e, bits))

\* Reading those places of a hash gives the coordinate back.
LEMMA CoordinateRead ==
  ASSUME NEW bits \in Nat, NEW e \in {0, 1}, NEW n \in Nat, n = (bits + 1 - e) \div 2,
         NEW x \in Nat, x < 2^n, NEW hash,
         \A i \in Places(e, bits) : Bit(hash, bits - 1 - i) = Bit(x, n - 1 - (i \div 2))
  PROVE  Read(hash, n, e, bits) = x
<1> DEFINE S == Places(e, bits)
           B(i) == Bit(hash, bits - 1 - i)
           W(i) == 2^(n - 1 - (i \div 2))
           f == Spread(x, n, e, bits)
           Of(s) == CHOOSE i \in s : TRUE
           IsSum(h) == h = [s \in SUBSET S |-> IF s = {} THEN 0 ELSE W(Of(s)) * B(Of(s)) + h[s \ {Of(s)}]]
           g == CHOOSE h : IsSum(h)
<1>1. IsFiniteSet(S)
  <2>1. S \subseteq 0..bits - 1
    BY DEF Places
  <2>2. IsFiniteSet(0..bits - 1)
    BY FS_Interval
  <2> HIDE DEF S
  <2> QED BY <2>1, <2>2, FS_Subset
<1>2. ASSUME NEW i \in S PROVE f[i] = W(i) * B(i)
  <2>1. f[i] = W(i) * Bit(x, n - 1 - (i \div 2))
    BY Zenon DEF Spread
  <2>2. B(i) = Bit(x, n - 1 - (i \div 2))
    OBVIOUS
  <2> HIDE DEF f, W, B
  <2> QED BY <2>1, <2>2
<1>3. Read(hash, n, e, bits) = g[S]
  BY Zenon DEF Read, MapThenSumSet, MapThenFoldSet
<1>4. IsIteration(g, f, S)
  <2>1. ASSUME NEW h PROVE IsSum(h) <=> IsIteration(h, f, S)
    <3>1. ASSUME NEW s \in SUBSET S, s # {} PROVE W(Of(s)) * B(Of(s)) = f[Of(s)]
      <4>1. Of(s) \in S
        BY <3>1
      <4> HIDE DEF Of, W, B, S, f
      <4> QED BY <1>2, <4>1
    <3> HIDE DEF f, W, B
    <3> QED BY <3>1 DEF IsIteration
  <2>2. \E h : IsSum(h)
    <3> HIDE DEF IsSum, f, S
    <3> QED BY <1>1, <2>1, IterationExists
  <2>3. IsSum(g)
    <3> HIDE DEF IsSum
    <3> QED BY <2>2
  <2> HIDE DEF IsSum, g, f, S
  <2> QED BY <2>1, <2>3
<1> HIDE DEF g
<1>5. g[S] = x
  BY <1>4, SumOfBits
<1> QED BY <1>3, <1>5

\* No two cells have the same hash: deinterleave gives back what interleave was given, for any
\* precision, an odd one too, where the column has a bit more than the row (geohash.ts:87-122).
THEOREM HashesAreRead ==
  ASSUME NEW bits \in 1..MAX_BITS, NEW cell \in Cells(bits)
  PROVE  Deinterleave(CellHash(cell, bits), bits) = cell
<1> DEFINE hash == CellHash(cell, bits)
           n == LatBits(bits)
           m == LngBits(bits)
<1>1. bits \in Nat /\ n \in Nat /\ m \in Nat
  BY WorldAssumption, SpansFit DEF WorldAssumption
<1>2. /\ cell = [row |-> cell.row, col |-> cell.col]
      /\ cell.row \in Nat /\ cell.row < 2^n /\ cell.col \in Nat /\ cell.col < 2^m
  BY SpansFit DEF Cells, Rows, Cols
<1>3. n = (bits + 1 - 1) \div 2 /\ m = (bits + 1 - 0) \div 2
  BY <1>1 DEF LatBits, LngBits
<1>4. \A i \in 0..bits - 1 : Bit(hash, bits - 1 - i) = BitsOf(cell, bits)[i]
  BY HashesFit
<1> HIDE DEF hash
<1>5. \A i \in Places(1, bits) : Bit(hash, bits - 1 - i) = Bit(cell.row, n - 1 - (i \div 2))
  BY <1>4 DEF Places, BitsOf
<1>6. \A i \in Places(0, bits) : Bit(hash, bits - 1 - i) = Bit(cell.col, m - 1 - (i \div 2))
  BY <1>4 DEF Places, BitsOf
<1> HIDE DEF n, m
<1>7. Read(hash, n, 1, bits) = cell.row
  BY <1>1, <1>2, <1>3, <1>5, CoordinateRead
<1>8. Read(hash, m, 0, bits) = cell.col
  BY <1>1, <1>2, <1>3, <1>6, CoordinateRead
<1> QED BY <1>2, <1>7, <1>8, Zenon DEF Deinterleave, Read, Places, n, m, hash

\* A point and what its hash is decoded to: n and m are no further apart than `error'.
Within(n, m, error) == n - m <= error /\ m - n <= error

\* A point is in the cell its own hash is decoded to, within the error that is given with the
\* centre, whatever the world and the precision, the north pole in the last row (geohash.ts:142-153;
\* TLC evaluates it over a whole small world).
THEOREM HashesKeepPlaces ==
  \A bits \in 1..MAX_BITS, p \in [lat : 0..Height, lng : Int] :
    LET d == Decode(Encode(p, bits), bits)
    IN Within(2 * p.lat, d.lat, d.latError) /\ Within(2 * normalizeLng(p.lng), d.lng, d.lngError)
<1> SUFFICES ASSUME NEW bits \in 1..MAX_BITS, NEW p \in [lat : 0..Height, lng : Int]
             PROVE  LET d == Decode(Encode(p, bits), bits)
                    IN /\ Within(2 * p.lat, d.lat, d.latError)
                       /\ Within(2 * normalizeLng(p.lng), d.lng, d.lngError)
  OBVIOUS
<1> DEFINE cell == CellOf(p, bits)
           x == p.lat
           y == normalizeLng(p.lng)
           R == Rows(bits)
           s == LatSpan(bits)
           t == LngSpan(bits)
<1>1. p.lat \in 0..Height /\ p.lng \in Int
  OBVIOUS
<1>2. Decode(Encode(p, bits), bits) = CellBounds(cell, bits)
  <2>1. cell \in Cells(bits)
    BY <1>1, SpansFit, CellIsOfTheGrid
  <2> HIDE DEF cell
  <2> QED BY <2>1, HashesAreRead DEF Decode, Encode, cell
<1>3. /\ R \in Nat /\ R >= 1 /\ s \in Nat /\ s >= 1 /\ t \in Nat /\ t >= 1
      /\ R * s = Height /\ Height \in Nat
  BY SpansFit
<1>4. y \in Int /\ cell.col = y \div t /\ cell.row = RowOf(x, bits)
  BY <1>1, <1>3, CellIsOfTheGrid DEF ColOf
<1> DEFINE r == cell.row
           c == cell.col
<1>5. r \in Int /\ r * s <= x /\ x <= r * s + s
  <2> DEFINE q == x \div s
  <2>1. x \in Int /\ 0 <= x /\ x <= R * s
    BY <1>1, <1>3
  <2>2. clampLat(x) = x
    BY <1>1, <1>3, ClampedLat
  <2>3. r = Min({R - 1, q})
    BY <1>4, <2>2 DEF RowOf
  <2> HIDE DEF x, s, R, r
  <2>4. q \in Int /\ s * q <= x /\ x < s * q + s
    BY <1>3, <2>1, Quotients
  <2> HIDE DEF q
  <2>5. r = IF R - 1 <= q THEN R - 1 ELSE q
    BY <1>3, <2>3, <2>4, LeastOfTwo
  <2>6. CASE r = q
    BY <1>3, <2>1, <2>4, <2>6
  <2>7. CASE r = R - 1 /\ R - 1 <= q
    <3>1. s * (q - r) >= 0
      BY <1>3, <2>4, <2>7
    <3>2. s * (q - r) = s * q - r * s
      BY <1>3, <2>4, <2>7
    <3>3. R * s = r * s + s
      BY <1>3, <2>7
    <3> QED BY <1>3, <2>1, <2>4, <2>7, <3>1, <3>2, <3>3
  <2> QED BY <2>5, <2>6, <2>7
<1>6. c \in Int /\ c * t <= y /\ y < c * t + t
  <2> HIDE DEF t, y
  <2> QED BY <1>3, <1>4, Quotients
<1>7. /\ CellBounds(cell, bits).lat = 2 * r * s + s /\ CellBounds(cell, bits).latError = s
      /\ CellBounds(cell, bits).lng = 2 * c * t + t /\ CellBounds(cell, bits).lngError = t
  BY DEF CellBounds
<1>8. Within(2 * x, 2 * r * s + s, s)
  <2> HIDE DEF x, r, s
  <2>1. x \in Int
    BY <1>1 DEF x
  <2> QED BY <1>3, <1>5, <2>1 DEF Within
<1>9. Within(2 * y, 2 * c * t + t, t)
  <2> HIDE DEF y, c, t
  <2> QED BY <1>3, <1>4, <1>6 DEF Within
<1> HIDE DEF cell, r, c, s, t, x, y
<1> QED BY <1>2, <1>7, <1>8, <1>9 DEF x, y

-----------------------------------------------------------------------------
(***************************************************************************)
(* The index: a driver is in the bucket of its cell, and in no other.       *)
(***************************************************************************)
Bucketed ==
  /\ \A id \in Ids : idToHash[id] = IF positions[id] = NoPoint THEN NoHash ELSE BucketHash[positions[id]]
  /\ \A h \in Hashes : buckets[h] = {id \in Ids : idToHash[id] = h}

IndexInv == IndexTypeOK /\ Bucketed

LEMMA BucketsAreHashes ==
  /\ BucketHash \in [Spots -> Hashes] /\ NoHash \notin Hashes
  /\ Spots \subseteq Points /\ NoPoint \notin Spots /\ IsFiniteSet(Ids)
<1>1. bucketBits \in 1..MAX_BITS /\ Spots \subseteq Points /\ NoPoint \notin Spots /\ IsFiniteSet(Ids)
  BY IndexAssumption DEF IndexAssumption, Points
<1>2. ASSUME NEW p \in Spots PROVE Encode(p, bucketBits) \in Hashes
  <2>1. p.lat \in Int /\ p.lng \in Int
    BY <1>1 DEF Points
  <2> QED BY <1>1, <2>1, CellIsOfTheGrid, HashesFit DEF Encode, Hashes
<1>3. NoHash \notin Hashes
  BY DEF NoHash, Hashes
<1> QED BY <1>1, <1>2, <1>3 DEF BucketHash

LEMMA IndexStart == IndexInit => IndexInv
BY BucketsAreHashes DEF IndexInit, IndexInv, IndexTypeOK, Bucketed

LEMMA UpsertKeeps ==
  ASSUME IndexInv, NEW id \in Ids, NEW p \in Spots, Upsert(id, p)
  PROVE  IndexInv'
<1> DEFINE h0 == BucketHash[p]
<1>1. h0 \in Hashes /\ p # NoPoint /\ NoHash \notin Hashes
  BY BucketsAreHashes
<1>2. IndexTypeOK'
  BY <1>1 DEF IndexInv, IndexTypeOK, Upsert
<1>3. \A d \in Ids : idToHash'[d] = IF positions'[d] = NoPoint THEN NoHash ELSE BucketHash[positions'[d]]
  BY <1>1 DEF IndexInv, IndexTypeOK, Bucketed, Upsert
<1>4. ASSUME NEW h \in Hashes PROVE buckets'[h] = {d \in Ids : idToHash'[d] = h}
  BY <1>1 DEF IndexInv, IndexTypeOK, Bucketed, Upsert
<1> QED BY <1>2, <1>3, <1>4 DEF IndexInv, Bucketed, BucketHash, Hashes, NoHash

LEMMA RemoveKeeps ==
  ASSUME IndexInv, NEW id \in Ids, Remove(id)
  PROVE  IndexInv'
<1>1. NoHash \notin Hashes
  BY BucketsAreHashes
<1>2. IndexTypeOK'
  BY DEF IndexInv, IndexTypeOK, Remove
<1>3. \A d \in Ids : idToHash'[d] = IF positions'[d] = NoPoint THEN NoHash ELSE BucketHash[positions'[d]]
  BY DEF IndexInv, IndexTypeOK, Bucketed, Remove
<1>4. ASSUME NEW h \in Hashes PROVE buckets'[h] = {d \in Ids : idToHash'[d] = h}
  BY <1>1 DEF IndexInv, IndexTypeOK, Bucketed, Remove
<1> QED BY <1>2, <1>3, <1>4 DEF IndexInv, Bucketed, BucketHash, Hashes, NoHash

LEMMA IndexInvHolds == IndexSpec => []IndexInv
<1>1. IndexInv /\ [IndexNext]_indexVars => IndexInv'
  <2> SUFFICES ASSUME IndexInv, [IndexNext]_indexVars PROVE IndexInv'
    OBVIOUS
  <2>1. CASE UNCHANGED indexVars
    BY <2>1 DEF indexVars, IndexInv, IndexTypeOK, Bucketed, BucketHash, Hashes, NoHash
  <2>2. CASE IndexNext
    BY <2>2, UpsertKeeps, RemoveKeeps DEF IndexNext
  <2> QED BY <2>1, <2>2
<1> QED BY <1>1, IndexStart, PTL DEF IndexSpec

\* A search returns the drivers within the radius and nobody else, for any centre and radius.
Exact(c, radius) ==
  RadiusSearch(c, radius) = {id \in Located : SqDistance(c, positions[id]) <= Sq(radius)}

LEMMA RingsReach ==
  ASSUME NEW radius \in Nat
  PROVE  RingCount(radius) \in Nat /\ RingCount(radius) >= 1 /\ radius <= RingCount(radius) * MinCellDim
<1> DEFINE d == MinCellDim
           q == (radius + d - 1) \div d
<1>1. d \in Nat /\ d >= 1
  BY CellDim
<1> HIDE DEF d
<1>2. q \in Int /\ radius + d - 1 < d * q + d
  BY <1>1, Quotients
<1>3. RingCount(radius) = Max({1, q + 1})
  BY DEF RingCount, CeilDiv, d
<1> HIDE DEF q
<1> DEFINE k == RingCount(radius)
<1>4. k \in Nat /\ k >= 1 /\ k >= q + 1
  <2>1. q + 1 \in Int
    BY <1>2
  <2> QED BY <1>3, <2>1, LeastOfTwo
<1> HIDE DEF k
<1>5. d * (q + 1) = d * q + d /\ d * q \in Int
  BY <1>1, <1>2
<1>6. d * (k - (q + 1)) >= 0
  <2>1. \A u, v \in Nat : u * v >= 0
    OBVIOUS
  <2>2. k - (q + 1) \in Nat
    BY <1>2, <1>4
  <2> QED BY <1>1, <2>1, <2>2
<1>7. d * (k - (q + 1)) = k * d - (d * q + d) /\ k * d \in Int
  BY <1>1, <1>2, <1>4
<1>8. radius <= k * d
  BY <1>1, <1>2, <1>5, <1>6, <1>7
<1> QED BY <1>4, <1>8 DEF d, k

\* No cell that is scanned is off the grid: columns wrap, rows beyond a pole are left out.
LEMMA ScanStays ==
  ASSUME NEW c \in Points, NEW n \in Nat
  PROVE  ScanCells(c, n) \subseteq Cells(bucketBits)
<1>1. CellOf(c, bucketBits).row \in Int /\ CellOf(c, bucketBits).col \in Int
  BY CellDim, CellIsOfTheGrid, SpansFit DEF Points, Cells
<1>2. ASSUME NEW e \in -n..n
      PROVE  (CellOf(c, bucketBits).col + e) % Cols(bucketBits) \in 0..Cols(bucketBits) - 1
  <2> DEFINE x == CellOf(c, bucketBits).col + e
             C == Cols(bucketBits)
  <2>1. x \in Int /\ C \in Nat /\ C >= 1
    BY <1>1, CellDim, SpansFit
  <2> HIDE DEF x, C
  <2>2. x % C \in 0..C - 1
    BY <2>1, Quotients
  <2> QED BY <2>2 DEF x, C
<1> QED BY <1>2 DEF ScanCells, Cells

LEMMA SearchIsExact ==
  ASSUME IndexInv, NEW c \in Points, NEW radius \in Nat
  PROVE  Exact(c, radius)
<1> DEFINE n == RingCount(radius)
<1>1. ASSUME NEW id \in Located, SqDistance(c, positions[id]) <= Sq(radius)
      PROVE  id \in RadiusSearch(c, radius)
  <2> DEFINE p == positions[id]
             cell == CellOf(p, bucketBits)
  <2>1. p \in Spots /\ id \in Ids /\ p # NoPoint /\ p \in Points
    BY BucketsAreHashes DEF Located, IndexInv, IndexTypeOK
  <2>2. cell \in ScanCells(c, n)
    BY <1>1, <2>1, RingsReach, ScanCovers
  <2>3. cell \in Cells(bucketBits)
    BY <2>1, CellIsOfTheGrid, CellDim DEF Points
  <2>4. HashOf[cell] = BucketHash[p]
    BY <2>1, <2>3 DEF HashOf, BucketHash, Encode
  <2>5. id \in buckets[BucketHash[p]]
    BY <2>1, BucketsAreHashes DEF IndexInv, Bucketed
  <2> QED BY <1>1, <2>1, <2>2, <2>4, <2>5 DEF RadiusSearch
<1>2. ASSUME NEW id \in RadiusSearch(c, radius)
      PROVE  id \in Located /\ SqDistance(c, positions[id]) <= Sq(radius)
  <2>1. PICK cell \in ScanCells(c, n) : id \in buckets[HashOf[cell]]
    BY DEF RadiusSearch
  <2>2. cell \in Cells(bucketBits)
    BY <2>1, RingsReach, ScanStays
  <2>3. HashOf[cell] \in Hashes
    BY <2>2, CellDim, HashesFit DEF HashOf, Hashes
  <2>4. id \in Ids
    BY <2>1, <2>3 DEF IndexInv, IndexTypeOK
  <2> QED BY <2>4 DEF RadiusSearch, Located
<1> QED BY <1>1, <1>2 DEF Exact

LEMMA CentersArePoints == Centers \subseteq [lat : 0..Height, lng : Int]
<1>1. Height \in Nat /\ Height >= 1 /\ Width \in Int /\ Width \div 2 \in Int
      /\ Height \div 2 \in 0..Height
  BY WorldAssumption DEF WorldAssumption
<1> QED BY <1>1 DEF Centers

LEMMA ExactIsExhaustive == IndexInv => SearchIsExhaustive
<1> SUFFICES ASSUME IndexInv, NEW c \in Centers, NEW radius \in {1, Height \div 2, Height - 2}
             PROVE  Exact(c, radius)
  BY DEF SearchIsExhaustive, Exact
<1>1. c \in Points
  BY CentersArePoints DEF Points
<1>2. Height \in Nat /\ Height >= 2
  <2>1. 2 \in 1..MAX_BITS
    BY WorldAssumption DEF WorldAssumption
  <2>2. Rows(2) = 2
    BY DEF Rows, LatBits
  <2>3. 2 * LatSpan(2) = Height /\ LatSpan(2) \in Nat /\ LatSpan(2) >= 1
    BY <2>1, <2>2, SpansFit
  <2> QED BY <2>3
<1> QED BY <1>1, <1>2, SearchIsExact

\* Whatever drivers have been upserted and removed, a search around any point for any radius
\* returns those within the radius and nobody else.
THEOREM EverySearchIsExact == IndexSpec => [](\A c \in Points, radius \in Nat : Exact(c, radius))
<1>1. IndexInv => \A c \in Points, radius \in Nat : Exact(c, radius)
  BY SearchIsExact
<1> QED BY <1>1, IndexInvHolds, PTL

\* The index finds every driver within the radius of a centre and nobody else: the rings reach as
\* far, the columns wrap where the world does, and each driver is in the bucket of its cell.
THEOREM SearchesAreExhaustive == IndexSpec => []SearchIsExhaustive
BY IndexInvHolds, ExactIsExhaustive, PTL

\* No two points are farther apart than the world is wide.
LEMMA WorldIsSmall ==
  ASSUME NEW c \in [lat : 0..Height, lng : Int], NEW p \in [lat : 0..Height, lng : Int]
  PROVE  SqDistance(c, p) <= Sq(Width)
<1> DEFINE a == c.lat - p.lat
           D == LngDistance(c.lng, p.lng)
<1>1. Height \in Nat /\ Width = 2 * Height
  BY WorldAssumption DEF WorldAssumption
<1>2. c \in Points /\ p \in Points
  BY <1>1 DEF Points
<1>3. a \in -Height..Height /\ D \in 0..Height /\ SqDistance(c, p) = Sq(a) + Sq(D)
  <2>1. c.lat \in 0..Height /\ p.lat \in 0..Height /\ c.lng \in Int /\ p.lng \in Int
    OBVIOUS
  <2>2. a \in -Height..Height
    BY <1>1, <2>1
  <2>3. D \in 0..Height
    BY <2>1, ShorterWay
  <2> QED BY <1>2, <2>2, <2>3, SquareDistances
<1> HIDE DEF a, D
<1>4. Sq(a) <= Sq(Height) /\ Sq(D) <= Sq(Height) /\ Sq(a) \in Nat /\ Sq(D) \in Nat
  <2>1. Sq(-a) = Sq(a) /\ Sq(a) \in Nat /\ Sq(D) \in Nat
    BY <1>1, <1>3 DEF Sq
  <2>2. a >= 0 => Sq(a) <= Sq(Height)
    BY <1>1, <1>3, SquaresGrow
  <2>3. a < 0 => Sq(-a) <= Sq(Height)
    BY <1>1, <1>3, SquaresGrow
  <2>4. Sq(D) <= Sq(Height)
    BY <1>1, <1>3, SquaresGrow
  <2> QED BY <1>1, <1>3, <2>1, <2>2, <2>3, <2>4
<1>5. Sq(Width) = 4 * Sq(Height) /\ Sq(Height) \in Nat
  BY <1>1 DEF Sq
<1> QED BY <1>3, <1>4, <1>5

LEMMA LeastNatural ==
  ASSUME NEW S \in SUBSET Nat, S # {}
  PROVE  Min(S) \in S /\ \A m \in S : Min(S) <= m
<1> DEFINE less == OpToRel(<, Nat)
<1>1. PICK n \in S : \A m \in S : <<m, n>> \notin less
  <2>1. IsWellFoundedOn(less, Nat)
    BY NatLessThanWellFounded
  <2> HIDE DEF less
  <2> QED BY <2>1, WFMin, Zenon
<1>2. less = {ss \in Nat \X Nat : ss[1] < ss[2]}
  BY Zenon DEF OpToRel
<1> HIDE DEF less
<1>3. \A m \in S : n <= m
  <2> SUFFICES ASSUME NEW m \in S, m < n PROVE FALSE
    OBVIOUS
  <2>1. <<m, n>> \in Nat \X Nat
    OBVIOUS
  <2> QED BY <1>1, <1>2, <2>1
<1> QED BY <1>3 DEF Min

LEMMA NearestAreExact == IndexInv => NearestAreNearest
<1> SUFFICES ASSUME IndexInv, NEW c \in Centers, NEW k \in 1..Cardinality(Ids),
                    NEW T \in NearestNeighbors(c, k, Width)
             PROVE  T \in FirstOf(c, Located, k)
  BY DEF NearestAreNearest
<1> DEFINE Tried(i) == MinCellDim * 2^i
           Enough == {i \in 0..Width : \/ Tried(i) >= Width
                                       \/ Cardinality(RadiusSearch(c, Tried(i))) >= k}
           r == Tried(Min(Enough))
           S == RadiusSearch(c, r)
<1>1. c \in [lat : 0..Height, lng : Int] /\ c \in Points /\ Height \in Nat /\ Width \in Nat
  BY CentersArePoints, WorldAssumption DEF Points, WorldAssumption
<1>2. T \in FirstOf(c, S, k)
  BY DEF NearestNeighbors
<1>3. MinCellDim \in Nat /\ MinCellDim >= 1
  BY CellDim
<1>4. Enough \in SUBSET Nat /\ Enough # {}
  <2>1. 2^Width \in Nat /\ 2^Width >= Width
    BY <1>1, PowerFacts, PowerGrows
  <2>2. \A x \in Nat : MinCellDim * x >= x
    <3>1. \A u, v \in Nat : u * v >= 0
      OBVIOUS
    <3>2. \A x \in Nat : (MinCellDim - 1) * x >= 0
      BY <1>3, <3>1
    <3>3. \A x \in Nat : (MinCellDim - 1) * x = MinCellDim * x - x
      BY <1>3
    <3> QED BY <1>3, <3>2, <3>3
  <2>3. Tried(Width) >= Width
    <3> DEFINE x == 2^Width
    <3> HIDE DEF x
    <3>1. x \in Nat /\ x >= Width /\ MinCellDim * x >= x /\ MinCellDim * x \in Nat
      BY <1>3, <2>1, <2>2 DEF x
    <3>2. MinCellDim * x >= Width
      BY <1>1, <3>1
    <3> QED BY <3>2 DEF x
  <2>4. Width \in Enough
    <3> HIDE DEF Tried
    <3> QED BY <1>1, <2>3
  <2> QED BY <1>1, <2>4
<1>5. Min(Enough) \in Enough /\ Min(Enough) \in Nat
  <2> HIDE DEF Enough
  <2> QED BY <1>4, LeastNatural
<1>6. r \in Nat /\ (r >= Width \/ Cardinality(S) >= k)
  <2>1. 2^Min(Enough) \in Nat
    BY <1>5, PowerFacts
  <2>2. r \in Nat
    <3> HIDE DEF Enough
    <3> QED BY <1>3, <2>1
  <2>3. r >= Width \/ Cardinality(S) >= k
    <3> DEFINE m == Min(Enough)
    <3>1. m \in Enough
      BY <1>5
    <3> HIDE DEF m, Tried
    <3>2. Tried(m) >= Width \/ Cardinality(RadiusSearch(c, Tried(m))) >= k
      BY <3>1
    <3> QED BY <3>2 DEF m
  <2> QED BY <2>2, <2>3
<1> HIDE DEF r, Enough, Tried
<1>7. S = {id \in Located : SqDistance(c, positions[id]) <= Sq(r)}
  BY <1>1, <1>6, SearchIsExact DEF Exact
<1>8. /\ \A id \in Located : SqDistance(c, positions[id]) \in Nat /\ SqDistance(c, positions[id]) <= Sq(Width)
      /\ Located \subseteq Ids
  <2>1. ASSUME NEW id \in Located
        PROVE  positions[id] \in [lat : 0..Height, lng : Int] /\ positions[id] \in Points
    BY IndexAssumption, <1>1 DEF Located, IndexInv, IndexTypeOK, IndexAssumption, Points
  <2> QED BY <1>1, <2>1, WorldIsSmall, SquareDistances DEF Located
<1>9. Sq(r) \in Nat /\ (r >= Width => Sq(Width) <= Sq(r)) /\ Sq(Width) \in Nat
  BY <1>1, <1>6, SquaresGrow
<1>10. CASE r >= Width
  <2>1. S = Located
    BY <1>7, <1>8, <1>9, <1>10
  <2> HIDE DEF S
  <2> QED BY <1>2, <2>1
<1>11. CASE Cardinality(S) >= k
  <2>1. /\ S \subseteq Located /\ IsFiniteSet(Located) /\ IsFiniteSet(S)
        /\ Cardinality(S) \in Nat /\ Cardinality(Located) \in Nat
        /\ Cardinality(S) <= Cardinality(Located)
    <3>1. IsFiniteSet(Located) /\ S \subseteq Located
      BY <1>7, <1>8, BucketsAreHashes, FS_Subset
    <3> HIDE DEF S
    <3> QED BY <3>1, FS_Subset, FS_CardinalityType
  <2>2. k \in Int
    BY <1>11
  <2> HIDE DEF S
  <2>3. T \in SUBSET S /\ Cardinality(T) = Min({k, Cardinality(S)})
        /\ \A x \in T, y \in S \ T : SqDistance(c, positions[x]) <= SqDistance(c, positions[y])
    BY <1>2 DEF FirstOf
  <2>4. Cardinality(T) = Min({k, Cardinality(Located)})
    BY <1>11, <2>1, <2>2, <2>3, LeastOfTwo
  <2>5. ASSUME NEW x \in T, NEW y \in Located \ T
        PROVE  SqDistance(c, positions[x]) <= SqDistance(c, positions[y])
    <3>1. CASE y \in S
      BY <2>3, <3>1
    <3>2. CASE y \notin S
      <4> DEFINE dx == SqDistance(c, positions[x])
                 dy == SqDistance(c, positions[y])
      <4>1. dx \in Nat /\ dy \in Nat /\ dx <= Sq(r) /\ ~(dy <= Sq(r))
        BY <1>7, <1>8, <2>3, <3>2
      <4> HIDE DEF dx, dy
      <4>2. dx <= dy
        BY <1>9, <4>1
      <4> QED BY <4>2 DEF dx, dy
    <3> QED BY <3>1, <3>2
  <2> QED BY <2>1, <2>3, <2>4, <2>5 DEF FirstOf
<1> QED BY <1>6, <1>10, <1>11

\* Doubling the radius from the size of a cell misses no driver that belongs to the nearest k:
\* whoever lies beyond the last radius is farther than all that were found.
THEOREM NearestAreFound == IndexSpec => []NearestAreNearest
BY IndexInvHolds, NearestAreExact, PTL

\* The 3 x 3 block of cells around a point, at the precision chosen for a radius.
BlockCovers(radius, p, q) ==
  LET bits == PrecisionForRadius(radius) IN
  CellOf(q, bits) \in {CellOf(p, bits)} \cup NeighborCells(CellOf(p, bits), bits)

LEMMA ChosenPrecision ==
  ASSUME NEW radius \in 1..(Height \div 2)
  PROVE  /\ PrecisionForRadius(radius) \in 1..MAX_BITS
         /\ radius <= LatSpan(PrecisionForRadius(radius))
         /\ radius <= LngSpan(PrecisionForRadius(radius))
<1> DEFINE Fits(b) == LatSpan(b) >= radius /\ LngSpan(b) >= radius
           S == {2} \cup {b \in 2..MAX_BITS : (MAX_BITS - b) % 2 = 0 /\ Fits(b)}
           Q == {n \in 0..MAX_BITS : MAX_BITS - n \in S}
<1>1. MAX_BITS \in Nat /\ MAX_BITS >= 2 /\ Height \in Nat /\ Width = 2 * Height
  BY WorldAssumption DEF WorldAssumption
<1>2. 2^1 = 2
  OBVIOUS
<1>3. 2 \div 2 = 1 /\ (2 + 1) \div 2 = 1
  OBVIOUS
<1>4. LatSpan(2) = Height \div 2 /\ LngSpan(2) = Width \div 2
  BY <1>2, <1>3 DEF LatSpan, LngSpan, Rows, Cols, LatBits, LngBits
<1>5. Fits(2)
  BY <1>1, <1>4
<1> HIDE DEF Fits
<1>6. S \subseteq 2..MAX_BITS /\ \A b \in S : Fits(b)
  BY <1>1, <1>5
<1>7. Max(S) \in S
  <2>1. MAX_BITS - 2 \in Q /\ Q \in SUBSET Nat
    BY <1>1
  <2>2. Min(Q) \in Q
    <3> HIDE DEF Q
    <3> QED BY <2>1, LeastNatural
  <2>3. \A m \in Q : Min(Q) <= m
    <3> HIDE DEF Q
    <3> QED BY <2>1, LeastNatural
  <2> DEFINE x == MAX_BITS - Min(Q)
  <2>4. x \in S
    BY <2>2
  <2>5. ASSUME NEW y \in S PROVE x >= y
    <3>1. y \in Int /\ MAX_BITS - y \in 0..MAX_BITS /\ MAX_BITS - (MAX_BITS - y) = y
      BY <1>1, <1>6
    <3>2. MAX_BITS - y \in Q
      BY <3>1
    <3>3. Min(Q) <= MAX_BITS - y /\ Min(Q) \in Int
      BY <2>2, <2>3, <3>2
    <3> QED BY <1>1, <3>1, <3>3
  <2> HIDE DEF x, S
  <2> QED BY <2>4, <2>5 DEF Max
<1>8. PrecisionForRadius(radius) = Max(S)
  BY DEF PrecisionForRadius, Fits
<1> HIDE DEF S
<1>9. ASSUME NEW b \in S
      PROVE  b \in 1..MAX_BITS /\ radius <= LatSpan(b) /\ radius <= LngSpan(b)
  <2>1. b \in 1..MAX_BITS /\ Fits(b)
    BY <1>6
  <2> QED BY <2>1, SpansFit DEF Fits
<1> QED BY <1>7, <1>8, <1>9

\* Whatever is within a radius of a point is in the point's cell or in one of its neighbours, at
\* the precision precisionForRadius chooses: for any world, at the poles and across the
\* antimeridian too (geohash.ts:193-199; TLC evaluates it over a whole small one).
THEOREM NeighborsCoverRadius ==
  \A radius \in 1..(Height \div 2), p, q \in Points :
    SqDistance(p, q) <= Sq(radius) => BlockCovers(radius, p, q)
<1> SUFFICES ASSUME NEW radius \in 1..(Height \div 2), NEW p \in Points, NEW q \in Points,
                    SqDistance(p, q) <= Sq(radius)
             PROVE  BlockCovers(radius, p, q)
  OBVIOUS
<1> DEFINE bits == PrecisionForRadius(radius)
           D == LngDistance(p.lng, q.lng)
<1>1. bits \in 1..MAX_BITS /\ radius <= LatSpan(bits) /\ radius <= LngSpan(bits) /\ radius \in Nat
  BY ChosenPrecision
<1> HIDE DEF bits
<1>2. p.lat \in Int /\ p.lng \in Int /\ q.lat \in Int /\ q.lng \in Int
  BY DEF Points
<1>3. p.lat - q.lat <= radius /\ -(p.lat - q.lat) <= radius /\ D <= radius /\ D \in Nat
  <2>1. D \in Nat /\ p.lat - q.lat \in Int /\ Sq(p.lat - q.lat) + Sq(D) <= Sq(radius)
    BY SquareDistances
  <2> HIDE DEF D
  <2> QED BY <1>1, <2>1, WithinSquare
<1>4. /\ LatSpan(bits) \in Nat /\ LngSpan(bits) \in Nat
      /\ Rows(bits) \in Nat /\ Rows(bits) >= 1
  BY <1>1, SpansFit
<1>5. RowOf(q.lat, bits) - RowOf(p.lat, bits) \in -1..1
  <2>1. p.lat - q.lat <= 1 * LatSpan(bits) /\ q.lat - p.lat <= 1 * LatSpan(bits)
    BY <1>1, <1>2, <1>3, <1>4
  <2> QED BY <1>1, <1>2, <2>1, RowsClose
<1>6. PICK e \in -1..1 : ColOf(q.lng, bits) = (ColOf(p.lng, bits) + e) % Cols(bits)
  <2>1. D <= 1 * LngSpan(bits)
    BY <1>1, <1>3, <1>4
  <2> QED BY <1>1, <1>2, <2>1, ColsClose
<1>7. /\ CellOf(q, bits) = [row |-> RowOf(q.lat, bits), col |-> ColOf(q.lng, bits)]
      /\ CellOf(p, bits) = [row |-> RowOf(p.lat, bits), col |-> ColOf(p.lng, bits)]
      /\ RowOf(q.lat, bits) \in 0..Rows(bits) - 1
      /\ RowOf(p.lat, bits) \in 0..Rows(bits) - 1
  BY <1>1, <1>2, CellIsOfTheGrid DEF Cells
<1>8. PICK n \in -1..1 : RowOf(q.lat, bits) = RowOf(p.lat, bits) + n
  BY <1>4, <1>5, <1>7
<1>9. Min({Rows(bits) - 1, Max({0, RowOf(p.lat, bits) + n})}) = RowOf(q.lat, bits)
  <2> DEFINE x == RowOf(p.lat, bits) + n
             R == Rows(bits)
  <2>1. x \in Int /\ x >= 0 /\ x <= R - 1 /\ R - 1 \in Int /\ x = RowOf(q.lat, bits)
    BY <1>4, <1>7, <1>8
  <2> HIDE DEF x, R
  <2>2. Max({0, x}) = x
    BY <2>1, LeastOfTwo
  <2>3. Min({R - 1, x}) = x
    BY <2>1, LeastOfTwo
  <2> QED BY <2>1, <2>2, <2>3 DEF x, R
<1>10. CellOf(q, bits) \in {[row |-> Min({Rows(bits) - 1, Max({0, CellOf(p, bits).row + m})}),
                             col |-> (CellOf(p, bits).col + f) % Cols(bits)] : m \in -1..1, f \in -1..1}
  <2> DEFINE Beside(m, f) == [row |-> Min({Rows(bits) - 1, Max({0, CellOf(p, bits).row + m})}),
                              col |-> (CellOf(p, bits).col + f) % Cols(bits)]
  <2>1. CellOf(p, bits).row = RowOf(p.lat, bits) /\ CellOf(p, bits).col = ColOf(p.lng, bits)
    BY <1>7
  <2>2. Beside(n, e) = [row |-> RowOf(q.lat, bits), col |-> ColOf(q.lng, bits)]
    BY <1>6, <1>9, <2>1
  <2>3. CellOf(q, bits) = Beside(n, e)
    BY <1>7, <2>2
  <2> HIDE DEF Beside
  <2>4. CellOf(q, bits) \in {Beside(m, f) : m \in -1..1, f \in -1..1}
    BY <2>3
  <2> QED BY <2>4 DEF Beside
<1> QED BY <1>10 DEF BlockCovers, NeighborCells, bits
=============================================================================
