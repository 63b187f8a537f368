--------------------------- MODULE EtaProofs ---------------------------
(***************************************************************************)
(* For any trips, calls, phones' clocks, intervals and configurations of the *)
(* engine: an ETA answered as 'ok' is recent, one for the pickup fades once   *)
(* the trip is under way, and a flush that is running has what will end it.   *)
(*                                                                           *)
(* The answers are judged by what a call has in its local variables, which    *)
(* it read before other calls wrote, and by records others have stored.       *)
(* CallsFollow says what a call knows of the time since it started, and       *)
(* RecordsFollow what that leaves of a record it may have stored.             *)
(***************************************************************************)
EXTENDS Eta, FiniteSetTheorems, WellFoundedInduction, TLAPS

CallRecords ==
  [pc : {"idle", "driver", "stale", "cache", "engine", "store"},
   trip : Trips \cup {NoTrip}, leg : Legs,
   place : Places \cup {NoPlace}, skew : Skews,
   age : 0..MaxCall, now : 0..MaxCall,
   source : Sources, prior : EtaRecord \cup {NoEta}]

\* A call under way for the pickup of trip t, which has started: it has not been so for longer
\* than the call.
StartedBefore(t, n) == trip[t] = "in_progress" => legAge[t] <= n

\* What a call knows.  A GET measures time by the server's clock alone and may look at it late;
\* a recomputation of a flush looks at it when it starts.
Follows(c, k) ==
  k.pc # "idle" =>
    /\ k.trip \in Trips
    /\ k.now <= k.age
    /\ k.pc = "driver" => k.now = 0
    /\ k.pc \in {"cache", "engine", "store"} => k.place \in Places
    /\ c \in Gets => k.skew = 0
    /\ c \in Recomputations => k.now = k.age /\ k.pc \in {"cache", "engine", "store"}
    /\ k.leg = "pickup" => StartedBefore(k.trip, k.age)

CallsFollow == \A c \in Calls : Follows(c, call[c])

\* What a stored record says of the time since its trip was started.
TellsLeg(t, eta) ==
  eta.leg = "pickup" /\ eta.age < AgeCap =>
    /\ StartedBefore(t, eta.age + MaxCall)
    /\ eta.skew # 0 => StartedBefore(t, eta.age)

RecordsFollow == \A t \in Trips : cache[t] # NoEta => TellsLeg(t, cache[t])

IInv == TypeOK /\ CallsFollow /\ RecordsFollow /\ FlushCanEnd /\ OkIsRecent /\ OldLegFades

-----------------------------------------------------------------------------
(***************************************************************************)
(* The numbers the ages are compared with.                                  *)
(***************************************************************************)
\* A finite set of integers that has a member has a least and a greatest one: a smallest set
\* without them would have a smaller one, without any one of its members.
LEMMA FiniteBounds ==
  ASSUME NEW S \in SUBSET Int, IsFiniteSet(S), S # {}
  PROVE  (\E hi \in S : \A y \in S : hi >= y) /\ (\E lo \in S : \A y \in S : lo =< y)
<1> DEFINE Bounded(A) == (\E hi \in A : \A y \in A : hi >= y) /\ (\E lo \in A : \A y \in A : lo =< y)
           T == {n \in Nat : \E A \in SUBSET S : A # {} /\ Cardinality(A) = n /\ ~Bounded(A)}
           less == OpToRel(<, Nat)
<1>1. \A A \in SUBSET S : IsFiniteSet(A) /\ Cardinality(A) \in Nat
  BY FS_Subset, FS_CardinalityType
<1>2. T = {}
  <2> SUFFICES ASSUME T # {} PROVE FALSE
    OBVIOUS
  <2>1. PICK n \in T : \A m \in T : <<m, n>> \notin less
    <3>1. IsWellFoundedOn(less, Nat)
      BY NatLessThanWellFounded
    <3>2. T \subseteq Nat
      OBVIOUS
    <3> HIDE DEF less, T
    <3> QED BY <3>1, <3>2, WFMin, Zenon
  <2>2. less = {ss \in Nat \X Nat : ss[1] < ss[2]}
    BY Zenon DEF OpToRel
  <2> HIDE DEF less
  <2>3. \A m \in Nat : m < n => m \notin T
    <3> SUFFICES ASSUME NEW m \in Nat, m < n, m \in T PROVE FALSE
      OBVIOUS
    <3>1. <<m, n>> \in Nat \X Nat
      BY <2>1
    <3> HIDE DEF T
    <3> QED BY <2>1, <2>2, <3>1
  <2>4. PICK A \in SUBSET S : A # {} /\ Cardinality(A) = n /\ ~Bounded(A)
    BY <2>1
  <2>5. PICK x \in A : x \in Int
    BY <2>4
  <2>6. Cardinality(A \ {x}) = n - 1 /\ n - 1 \in Nat /\ n - 1 < n /\ A \ {x} \in SUBSET S
    <3>1. IsFiniteSet(A) /\ n \in Nat
      BY <1>1, <2>4
    <3>2. Cardinality(A \ {x}) = n - 1
      BY <2>4, <2>5, <3>1, FS_RemoveElement
    <3>3. A \ {x} \in SUBSET S
      BY <2>4
    <3>4. Cardinality(A \ {x}) \in Nat
      BY <1>1, <3>3
    <3> QED BY <3>1, <3>2, <3>3, <3>4
  <2>7. A \ {x} = {} \/ Bounded(A \ {x})
    <3>1. n - 1 \notin T
      BY <2>3, <2>6
    <3> HIDE DEF Bounded
    <3> QED BY <2>6, <3>1
  <2>8. CASE A \ {x} = {}
    BY <2>4, <2>5, <2>8
  <2>9. CASE Bounded(A \ {x})
    <3>1. PICK hi \in A \ {x} : \A y \in A \ {x} : hi >= y
      BY <2>9
    <3>2. PICK lo \in A \ {x} : \A y \in A \ {x} : lo =< y
      BY <2>9
    <3>3. hi \in Int /\ lo \in Int /\ A \subseteq Int
      BY <3>1, <3>2
    <3>4. \E h \in A : \A y \in A : h >= y
      <4>1. CASE hi >= x
        BY <3>1, <4>1
      <4>2. CASE ~(hi >= x)
        BY <2>5, <3>1, <3>3, <4>2
      <4> QED BY <4>1, <4>2
    <3>5. \E l \in A : \A y \in A : l =< y
      <4>1. CASE lo =< x
        BY <3>2, <4>1
      <4>2. CASE ~(lo =< x)
        BY <2>5, <3>2, <3>3, <4>2
      <4> QED BY <4>1, <4>2
    <3> QED BY <2>4, <3>4, <3>5
  <2> QED BY <2>7, <2>8, <2>9
<1>3. Cardinality(S) \in Nat /\ Cardinality(S) \notin T
  BY <1>1, <1>2
<1> QED BY <1>3

LEMMA MaxOfTwo ==
  ASSUME NEW a \in Int, NEW b \in Int
  PROVE  Max({a, b}) \in {a, b} /\ Max({a, b}) >= a /\ Max({a, b}) >= b
<1>1. \E x \in {a, b} : \A y \in {a, b} : x >= y
  <2>1. CASE a >= b
    BY <2>1
  <2>2. CASE b >= a
    BY <2>2
  <2> QED BY <2>1, <2>2
<1> QED BY <1>1 DEF Max

LEMMA Numbers ==
  ASSUME EtaAssumption
  PROVE  /\ MaxCall \in Nat \ {0} /\ StaleAfter \in Nat /\ 0 \in Skews
         /\ MaxSkew \in Nat /\ MinSkew \in Int /\ MinSkew <= 0
         /\ \A k \in Skews : k \in Int /\ MinSkew <= k /\ k <= MaxSkew
         /\ LongestInterval \in Nat \ {0}
         /\ Interval \in Nat \ {0} /\ Interval <= LongestInterval
         /\ AgeCap = LongestInterval + MaxCall + MaxSkew - MinSkew
         /\ LegBound \in Nat
         /\ LegBound >= LongestInterval + MaxSkew + MaxCall - 1
         /\ LegBound >= LongestInterval + MaxCall + MaxCall - 1
<1>1. /\ Skews \subseteq Int /\ 0 \in Skews /\ IsFiniteSet(Skews)
      /\ RecomputeInterval \in Nat \ {0} /\ MlCacheTtl \in Nat \ {0}
      /\ StaleAfter \in Nat \ {0} /\ MaxCall \in Nat \ {0}
  BY DEF EtaAssumption
<1>2. (\E hi \in Skews : \A y \in Skews : hi >= y) /\ (\E lo \in Skews : \A y \in Skews : lo =< y)
  <2>1. Skews # {}
    BY <1>1
  <2> QED BY <1>1, <2>1, FiniteBounds
<1>3. MaxSkew \in Skews /\ \A y \in Skews : MaxSkew >= y
  BY <1>2 DEF MaxSkew, Max
<1>4. MinSkew \in Skews /\ \A y \in Skews : MinSkew =< y
  BY <1>2 DEF MinSkew, Min
<1>5. MaxSkew \in Nat /\ MinSkew \in Int /\ MinSkew <= 0
  BY <1>1, <1>3, <1>4
<1>6. /\ LongestInterval \in Nat \ {0}
      /\ LongestInterval >= RecomputeInterval /\ LongestInterval >= MlCacheTtl
  <2>1. RecomputeInterval \in Int /\ MlCacheTtl \in Int
    BY <1>1
  <2>2. /\ LongestInterval \in {RecomputeInterval, MlCacheTtl}
        /\ LongestInterval >= RecomputeInterval /\ LongestInterval >= MlCacheTtl
    BY <2>1, MaxOfTwo, Zenon DEF LongestInterval
  <2> QED BY <1>1, <2>2
<1>7. Interval \in Nat \ {0} /\ Interval <= LongestInterval
  BY <1>1, <1>6 DEF Interval
<1>8. /\ Max({MaxSkew, MaxCall}) \in Nat
      /\ Max({MaxSkew, MaxCall}) >= MaxSkew /\ Max({MaxSkew, MaxCall}) >= MaxCall
  <2>1. MaxSkew \in Int /\ MaxCall \in Int
    BY <1>1, <1>5
  <2>2. /\ Max({MaxSkew, MaxCall}) \in {MaxSkew, MaxCall}
        /\ Max({MaxSkew, MaxCall}) >= MaxSkew /\ Max({MaxSkew, MaxCall}) >= MaxCall
    BY <2>1, MaxOfTwo, Zenon
  <2> QED BY <1>1, <1>5, <2>2
<1>9. /\ LegBound \in Nat
      /\ LegBound >= LongestInterval + MaxSkew + MaxCall - 1
      /\ LegBound >= LongestInterval + MaxCall + MaxCall - 1
  BY <1>1, <1>5, <1>6, <1>8 DEF LegBound
<1> QED BY <1>1, <1>3, <1>4, <1>5, <1>6, <1>7, <1>9 DEF AgeCap

-----------------------------------------------------------------------------
(***************************************************************************)
(* Calls.                                                                   *)
(***************************************************************************)
LEMMA IdleRecord == EtaAssumption => Idle \in CallRecords /\ \A c : Follows(c, Idle)
<1> SUFFICES ASSUME EtaAssumption PROVE Idle \in CallRecords /\ \A c : Follows(c, Idle)
  OBVIOUS
<1>1. 0 \in Skews /\ 0 \in 0..MaxCall
  BY Numbers
<1> QED BY <1>1 DEF Idle, CallRecords, Follows, Legs, Sources

\* What a call in progress has in its variables.
LEMMA CallFacts ==
  ASSUME IInv, NEW c \in Calls
  PROVE  /\ call[c] \in CallRecords
         /\ Follows(c, call[c])
         /\ call[c].age \in Nat /\ call[c].now \in Nat /\ call[c].now <= MaxCall /\ call[c].age <= MaxCall
         /\ call[c].skew \in Skews
BY DEF IInv, TypeOK, CallsFollow, CallRecords

\* A step of one call.
LEMMA OneCallMoves ==
  ASSUME IInv, NEW c \in Calls, NEW k \in CallRecords, Follows(c, k),
         call' = [call EXCEPT ![c] = k], UNCHANGED <<trip, legAge>>
  PROVE  call' \in [Calls -> CallRecords] /\ CallsFollow'
<1>1. call \in [Calls -> CallRecords]
  BY DEF IInv, TypeOK, CallRecords
<1>2. \A e \in Calls : call'[e] = IF e = c THEN k ELSE call[e]
  BY <1>1
<1>3. \A e \in Calls : Follows(e, call'[e])
  BY <1>2 DEF IInv, CallsFollow
<1>4. \A e \in Calls : Follows(e, call[e])'
  BY <1>3 DEF Follows, StartedBefore
<1> QED BY <1>1, <1>4 DEF CallsFollow

\* A call that goes on, or one that ends in the way CallEnds describes, leaves a flush that is
\* running something to end it.
LEMMA FlushKept ==
  ASSUME IInv, NEW c \in Calls, NEW k \in CallRecords, call' = [call EXCEPT ![c] = k],
         UNCHANGED flushed,
         \/ UNCHANGED flushing /\ (c \in Recomputations /\ call[c].pc # "idle" => k.pc # "idle")
         \/ flushing' = (flushing /\ FlushCalls # {c})
         \/ flushing' = (flushing /\ c \in Gets)
  PROVE  FlushCanEnd' /\ flushing' \in BOOLEAN
<1>1. call \in [Calls -> CallRecords] /\ flushing \in BOOLEAN /\ FlushCanEnd
  BY DEF IInv, TypeOK, CallRecords
<1>2. \A e \in Calls : call'[e] = IF e = c THEN k ELSE call[e]
  BY <1>1
<1>3. Gets \cap Recomputations = {} /\ Recomputations \subseteq Calls
  BY EtaAssumption DEF EtaAssumption, Calls
<1>4. flushing' \in BOOLEAN /\ (flushing' => flushing)
  <2>1. CASE UNCHANGED flushing
    BY <1>1, <2>1
  <2>2. CASE flushing' = (flushing /\ FlushCalls # {c})
    BY <2>2
  <2>3. CASE flushing' = (flushing /\ c \in Gets)
    BY <2>3
  <2> QED BY <2>1, <2>2, <2>3
<1>5. ASSUME flushing' PROVE FlushCalls' # {} \/ \E t \in Trips : flushed'[t].place # NoPlace
  <2>1. CASE \E t \in Trips : flushed[t].place # NoPlace
    BY <2>1
  <2>2. CASE FlushCalls # {}
    <3>1. PICK e \in FlushCalls : TRUE
      BY <2>2
    <3>2. CASE \E u \in FlushCalls : u # c
      BY <1>2, <1>3, <3>2 DEF FlushCalls
    <3>3. CASE FlushCalls = {c}
      BY <1>2, <1>3, <1>5, <3>3 DEF FlushCalls
    <3> QED BY <2>2, <3>2, <3>3
  <2> QED BY <1>1, <1>4, <1>5, <2>1, <2>2 DEF FlushCanEnd
<1> QED BY <1>4, <1>5 DEF FlushCanEnd

\* Nothing is promised of no answer, nor of one that is not 'ok'.
LEMMA Unanswered ==
  ASSUME answer' = NoAnswer \/ answer'.status # "ok"
  PROVE  OkIsRecent' /\ OldLegFades'
BY DEF OkIsRecent, OldLegFades

\* A call that goes on.
LEMMA ContinuesKeeps ==
  ASSUME IInv, NEW c \in Calls, NEW k \in CallRecords, Follows(c, k), k.pc # "idle",
         Continues(c, k), UNCHANGED <<engine, trip, legAge, row, cache, flushed>>
  PROVE  IInv'
<1>1. call' = [call EXCEPT ![c] = k] /\ answer' = NoAnswer /\ UNCHANGED flushing
  BY DEF Continues
<1>2. call' \in [Calls -> CallRecords] /\ CallsFollow'
  BY <1>1, OneCallMoves
<1>3. FlushCanEnd'
  BY <1>1, FlushKept
<1>4. OkIsRecent' /\ OldLegFades'
  BY <1>1, Unanswered
<1>5. TypeOK'
  BY <1>1, <1>2 DEF IInv, TypeOK, CallRecords
<1>6. RecordsFollow'
  BY DEF IInv, RecordsFollow, TellsLeg, StartedBefore
<1> QED BY <1>2, <1>3, <1>4, <1>5, <1>6 DEF IInv

\* A call that ends without storing anything.
LEMMA EndKeeps ==
  ASSUME IInv, NEW c \in Calls, call' = [call EXCEPT ![c] = Idle],
         flushing' = (flushing /\ FlushCalls # {c}) \/ flushing' = (flushing /\ c \in Gets),
         UNCHANGED <<engine, trip, legAge, row, cache, flushed>>,
         OkIsRecent', OldLegFades'
  PROVE  IInv'
<1>1. Idle \in CallRecords /\ Follows(c, Idle)
  BY EtaAssumption, IdleRecord
<1>2. call' \in [Calls -> CallRecords] /\ CallsFollow'
  BY <1>1, OneCallMoves
<1>3. FlushCanEnd' /\ flushing' \in BOOLEAN
  BY <1>1, FlushKept
<1>5. TypeOK'
  BY <1>2, <1>3 DEF IInv, TypeOK, CallRecords
<1>6. RecordsFollow'
  BY DEF IInv, RecordsFollow, TellsLeg, StartedBefore
<1> QED BY <1>2, <1>3, <1>5, <1>6 DEF IInv

LEMMA GetKeeps ==
  ASSUME IInv, NEW c \in Gets, NEW t \in Trips, GetTripEta(c, t)
  PROVE  IInv'
<1>0. c \in Calls /\ c \notin Recomputations
  BY EtaAssumption DEF EtaAssumption, Calls
<1>1. CASE Active(t)
  <2> DEFINE k == [Idle EXCEPT !.pc = "driver", !.trip = t, !.leg = LegOf(t)]
  <2>1. Idle \in CallRecords
    BY EtaAssumption, IdleRecord
  <2>2. LegOf(t) \in Legs /\ (LegOf(t) = "pickup" => trip[t] # "in_progress")
    BY DEF LegOf, Legs
  <2>3. k \in CallRecords
    BY <2>1, <2>2 DEF CallRecords, Idle
  <2>4. Follows(c, k)
    BY <1>0, <2>2 DEF Follows, StartedBefore, Idle
  <2>5. k.pc # "idle"
    BY DEF Idle
  <2>6. Continues(c, k) /\ UNCHANGED <<engine, trip, legAge, row, cache, flushed>>
    BY <1>1 DEF GetTripEta
  <2> HIDE DEF k
  <2> QED BY <1>0, <2>3, <2>4, <2>5, <2>6, ContinuesKeeps
<1>2. CASE ~Active(t)
  <2>1. UNCHANGED <<engine, trip, legAge, row, cache, flushed, call, flushing>>
    BY <1>2 DEF GetTripEta
  <2>2. answer'.status # "ok"
    BY <1>2 DEF GetTripEta
  <2>3. OkIsRecent' /\ OldLegFades'
    BY <2>2, Unanswered
  <2>4. TypeOK' /\ CallsFollow' /\ RecordsFollow' /\ FlushCanEnd'
    BY <2>1 DEF IInv, TypeOK, CallsFollow, Follows, RecordsFollow, TellsLeg, StartedBefore,
                FlushCanEnd, FlushCalls
  <2> QED BY <2>3, <2>4 DEF IInv
<1> QED BY <1>1, <1>2

\* What a GET is told as 'ok' from the cache is recent by its own clock, and its leg is the
\* trip's unless the trip has only just been started.
LEMMA CachedAnswer ==
  ASSUME IInv, NEW c \in Gets, call[c].pc = "cache",
         ~ShouldRecompute(c, cache[call[c].trip]), UNCHANGED <<engine, trip, legAge>>,
         answer' = [trip |-> call[c].trip, status |-> "ok", eta |-> cache[call[c].trip],
                    now |-> call[c].now]
  PROVE  OkIsRecent' /\ OldLegFades'
<1> DEFINE t == call[c].trip
           eta == cache[t]
           n == call[c].now
<1>0. c \in Calls
  BY DEF Calls
<1>1. t \in Trips /\ call[c].skew = 0 /\ n \in Nat /\ n <= MaxCall
  BY <1>0, CallFacts DEF Follows
<1>2. eta # NoEta /\ eta \in EtaRecord /\ TellsLeg(t, eta)
  BY <1>1 DEF ShouldRecompute, IInv, TypeOK, RecordsFollow
<1>3. eta.age \in 0..AgeCap /\ eta.skew \in Skews /\ eta.leg \in Legs
  BY <1>2 DEF EtaRecord
<1>4. ~((eta.age - eta.skew) - (n - 0) >= Interval)
  BY <1>1 DEF ShouldRecompute, TooOld, TimeSince
<1>5. /\ Interval \in Nat /\ Interval <= LongestInterval /\ LongestInterval \in Nat
      /\ eta.skew \in Int /\ MinSkew <= eta.skew /\ eta.skew <= MaxSkew /\ MaxSkew \in Nat
      /\ MinSkew \in Int /\ MinSkew <= 0 /\ MaxCall \in Nat
      /\ AgeCap = LongestInterval + MaxCall + MaxSkew - MinSkew
      /\ LegBound >= LongestInterval + MaxSkew + MaxCall - 1
      /\ LegBound >= LongestInterval + MaxCall + MaxCall - 1
      /\ LegBound \in Nat
  BY <1>3, Numbers, EtaAssumption
<1>6. AgeCap \in Nat /\ eta.age \in Nat
  BY <1>3, <1>5
<1>7. eta.age - n < Interval + MaxSkew /\ eta.age < AgeCap
  BY <1>1, <1>4, <1>5, <1>6
<1>8. answer'.eta = eta /\ answer'.now = n /\ answer'.trip = t /\ answer'.status = "ok"
  OBVIOUS
<1>9. OkIsRecent'
  BY <1>7, <1>8 DEF OkIsRecent, Interval, MaxSkew
<1>10. ASSUME trip[t] = "in_progress", legAge[t] > LegBound PROVE eta.leg = "dropoff"
  <2>1. legAge[t] \in Nat
    BY <1>1, <1>5 DEF IInv, TypeOK
  <2> SUFFICES ASSUME eta.leg = "pickup" PROVE FALSE
    BY <1>3 DEF Legs
  <2>2. legAge[t] <= eta.age + MaxCall /\ (eta.skew # 0 => legAge[t] <= eta.age)
    BY <1>2, <1>7, <1>10 DEF TellsLeg, StartedBefore
  <2>3. CASE eta.skew = 0
    BY <1>1, <1>4, <1>5, <1>6, <1>10, <2>1, <2>2, <2>3
  <2>4. CASE eta.skew # 0
    BY <1>1, <1>4, <1>5, <1>6, <1>10, <2>1, <2>2, <2>4
  <2> QED BY <2>3, <2>4
<1>11. OldLegFades'
  BY <1>8, <1>10 DEF OldLegFades, LegBound, LongestInterval, MaxSkew
<1> QED BY <1>9, <1>11

\* A call stores what it computed, over whatever others have stored since it read the cache.
LEMMA StoreKeeps ==
  ASSUME IInv, NEW c \in Calls, StoreEta(c)
  PROVE  IInv'
<1> DEFINE k == call[c]
           t == k.trip
           eta == ComputedEta(c)
<1>1. /\ k \in CallRecords /\ Follows(c, k) /\ k.now \in Nat /\ k.age \in Nat /\ k.skew \in Skews
      /\ k.now <= MaxCall /\ k.age <= MaxCall
  BY CallFacts
<1>2. t \in Trips /\ k.pc = "store" /\ k.place \in Places /\ k.now <= k.age
  BY <1>1 DEF Follows, StoreEta
<1>3. /\ MaxCall \in Nat \ {0} /\ AgeCap \in Nat /\ MaxCall < AgeCap /\ MaxSkew \in Nat
      /\ LegBound \in Nat /\ MaxCall <= LegBound /\ Interval \in Nat \ {0}
  BY EtaAssumption, Numbers
<1>4. eta = [place |-> k.place, leg |-> k.leg, source |-> k.source, age |-> k.now, skew |-> k.skew]
  BY DEF ComputedEta
<1>5. eta \in EtaRecord
  BY <1>1, <1>2, <1>3, <1>4 DEF EtaRecord, CallRecords
<1> HIDE DEF eta
<1>6. /\ cache' = [cache EXCEPT ![t] = eta] /\ UNCHANGED <<engine, trip, legAge, row, flushed>>
      /\ call' = [call EXCEPT ![c] = Idle] /\ flushing' = (flushing /\ FlushCalls # {c})
  BY DEF StoreEta, SetCachedEta, Finishes, CallEnds, eta
<1>7. Idle \in CallRecords /\ Follows(c, Idle)
  BY EtaAssumption, IdleRecord
<1>8. call' \in [Calls -> CallRecords] /\ CallsFollow'
  BY <1>6, <1>7, OneCallMoves
<1>9. FlushCanEnd' /\ flushing' \in BOOLEAN
  BY <1>6, <1>7, FlushKept
<1>10. TypeOK'
  BY <1>5, <1>6, <1>8, <1>9 DEF IInv, TypeOK, CallRecords
<1>11. c \in Gets \/ c \in Recomputations
  BY DEF Calls
<1>12. legAge[t] \in Nat
  BY <1>2, <1>3 DEF IInv, TypeOK
<1>13. TellsLeg(t, eta)
  <2> SUFFICES ASSUME eta.leg = "pickup", trip[t] = "in_progress"
               PROVE  legAge[t] <= eta.age + MaxCall /\ (eta.skew # 0 => legAge[t] <= eta.age)
    BY DEF TellsLeg, StartedBefore
  <2>1. legAge[t] <= k.age /\ eta.age = k.now /\ eta.skew = k.skew
    BY <1>1, <1>2, <1>4 DEF Follows, StartedBefore
  <2>2. c \in Gets => k.skew = 0
    BY <1>1, <1>2 DEF Follows
  <2>3. c \in Recomputations => k.now = k.age
    BY <1>1, <1>2 DEF Follows
  <2> QED BY <1>1, <1>3, <1>11, <1>12, <2>1, <2>2, <2>3
<1>14. RecordsFollow'
  <2>1. \A u \in Trips : cache'[u] = IF u = t THEN eta ELSE cache[u]
    BY <1>6 DEF IInv, TypeOK
  <2>2. \A u \in Trips : cache'[u] # NoEta => TellsLeg(u, cache'[u])
    BY <1>13, <2>1 DEF IInv, RecordsFollow
  <2>3. \A u \in Trips : (cache[u] # NoEta => TellsLeg(u, cache[u]))'
    BY <1>6, <2>2 DEF TellsLeg, StartedBefore
  <2> QED BY <2>3 DEF RecordsFollow
<1>15. OkIsRecent' /\ OldLegFades'
  <2>1. CASE c \in Recomputations
    <3>1. answer' = NoAnswer
      BY <2>1 DEF StoreEta, Finishes
    <3> QED BY <3>1, Unanswered
  <2>2. CASE c \notin Recomputations
    <3>1. answer' = [trip |-> t, status |-> "ok", eta |-> eta, now |-> k.now]
      BY <2>2 DEF StoreEta, Finishes, eta
    <3>2. answer'.eta.age - answer'.now < Interval + MaxSkew
      BY <1>1, <1>3, <1>4, <3>1
    <3>3. OkIsRecent'
      BY <1>6, <3>2 DEF OkIsRecent, Interval
    <3>4. trip[t] = "in_progress" /\ legAge[t] > LegBound => k.leg = "dropoff"
      <4>1. k.leg \in Legs
        BY <1>1 DEF CallRecords
      <4>2. k.leg = "pickup" /\ trip[t] = "in_progress" => legAge[t] <= k.age
        BY <1>1, <1>2 DEF Follows, StartedBefore
      <4> QED BY <1>1, <1>3, <1>12, <4>1, <4>2 DEF Legs
    <3>5. OldLegFades'
      BY <1>4, <1>6, <3>1, <3>4 DEF OldLegFades
    <3> QED BY <3>3, <3>5
  <2> QED BY <2>1, <2>2
<1> QED BY <1>8, <1>9, <1>10, <1>14, <1>15 DEF IInv

\* One lemma for the steps of a call.
LEMMA CallKeeps ==
  ASSUME IInv, NEW c \in Calls, CallStep(c)
  PROVE  IInv'
<1> DEFINE k == call[c]
           t == k.trip
<1>0. /\ k \in CallRecords /\ Follows(c, k) /\ k.now \in Nat /\ k.age \in Nat /\ k.skew \in Skews
      /\ k.now <= MaxCall /\ k.age <= MaxCall
  BY CallFacts
<1>00. c \in Gets \/ c \in Recomputations
  BY DEF Calls
<1>000. c \in Gets => c \notin Recomputations
  BY EtaAssumption DEF EtaAssumption
<1>1. CASE GetReadsDriver(c)
  <2> DEFINE r == row[t]
             n == [k EXCEPT !.pc = IF LocationStale(r) THEN "stale" ELSE "cache", !.place = r.place]
  <2>1. t \in Trips /\ k.pc = "driver" /\ c \notin Recomputations /\ k.skew = 0
    BY <1>0, <1>00, <1>1 DEF Follows, GetReadsDriver
  <2>2. r.place \in Places \cup {NoPlace} /\ (~LocationStale(r) => r.place \in Places)
    BY <2>1 DEF IInv, TypeOK, LocationStale
  <2>3. n \in CallRecords
    BY <1>0, <2>2 DEF CallRecords
  <2>4. Follows(c, n) /\ n.pc # "idle"
    BY <1>0, <2>1, <2>2 DEF Follows, CallRecords
  <2>5. Continues(c, n) /\ UNCHANGED <<engine, trip, legAge, row, cache, flushed>>
    BY <1>1 DEF GetReadsDriver
  <2> HIDE DEF n
  <2> QED BY <2>3, <2>4, <2>5, ContinuesKeeps
<1>2. CASE GetStaleAnswer(c)
  <2>1. call' = [call EXCEPT ![c] = Idle] /\ flushing' = (flushing /\ FlushCalls # {c})
    BY <1>2 DEF GetStaleAnswer, Finishes, CallEnds
  <2>2. answer' = NoAnswer \/ answer'.status # "ok"
    BY <1>2 DEF GetStaleAnswer, Finishes
  <2>3. UNCHANGED <<engine, trip, legAge, row, cache, flushed>>
    BY <1>2 DEF GetStaleAnswer
  <2> QED BY <2>1, <2>2, <2>3, Unanswered, EndKeeps
<1>3. CASE ReadCache(c)
  <2> DEFINE eta == cache[t]
  <2>1. t \in Trips /\ k.pc = "cache" /\ UNCHANGED <<engine, trip, legAge, row, cache, flushed>>
    BY <1>0, <1>3 DEF Follows, ReadCache
  <2>2. CASE ShouldRecompute(c, eta)
    <3> DEFINE n == [k EXCEPT !.pc = "engine", !.prior = IF EngineMayFail THEN eta ELSE NoEta]
    <3>1. eta \in EtaRecord \cup {NoEta}
      BY <2>1 DEF IInv, TypeOK
    <3>2. n \in CallRecords
      BY <1>0, <3>1 DEF CallRecords
    <3>3. Follows(c, n) /\ n.pc # "idle"
      BY <1>0, <2>1 DEF Follows, CallRecords
    <3>4. Continues(c, n)
      BY <1>3, <2>2 DEF ReadCache, GetCachedEta
    <3> HIDE DEF n
    <3> QED BY <2>1, <3>2, <3>3, <3>4, ContinuesKeeps
  <2>3. CASE ~ShouldRecompute(c, eta)
    <3>1. Finishes(c, "ok", eta)
      BY <1>3, <2>3 DEF ReadCache, GetCachedEta
    <3>2. call' = [call EXCEPT ![c] = Idle] /\ flushing' = (flushing /\ FlushCalls # {c})
      BY <3>1 DEF Finishes, CallEnds
    <3>3. CASE c \in Recomputations
      <4>1. answer' = NoAnswer
        BY <3>1, <3>3 DEF Finishes
      <4> QED BY <2>1, <3>2, <4>1, Unanswered, EndKeeps
    <3>4. CASE c \in Gets
      <4>1. answer' = [trip |-> t, status |-> "ok", eta |-> eta, now |-> k.now]
        BY <1>000, <3>1, <3>4 DEF Finishes
      <4>2. OkIsRecent' /\ OldLegFades'
        BY <2>1, <2>3, <3>4, <4>1, CachedAnswer
      <4> QED BY <2>1, <3>2, <4>2, EndKeeps
    <3> QED BY <1>00, <3>3, <3>4
  <2> QED BY <2>2, <2>3
<1>4. CASE EngineComputes(c)
  <2>1. PICK s \in EngineSources :
          Continues(c, [k EXCEPT !.pc = "store", !.source = s, !.prior = NoEta])
    BY <1>4 DEF EngineComputes
  <2> DEFINE n == [k EXCEPT !.pc = "store", !.source = s, !.prior = NoEta]
  <2>2. s \in Sources
    <3>1. engine.mode \in {"heuristic", "ml", "ml_with_fallback"}
      BY EtaAssumption DEF IInv, TypeOK, EtaAssumption
    <3> QED BY <3>1 DEF EngineSources, HeuristicSources, Sources
  <2>3. n \in CallRecords
    BY <1>0, <2>2 DEF CallRecords
  <2>4. Follows(c, n) /\ n.pc # "idle"
    BY <1>0, <1>4 DEF Follows, CallRecords, EngineComputes
  <2>5. UNCHANGED <<engine, trip, legAge, row, cache, flushed>>
    BY <1>4 DEF EngineComputes
  <2>6. Continues(c, n)
    BY <2>1
  <2> HIDE DEF n
  <2> QED BY <2>3, <2>4, <2>5, <2>6, ContinuesKeeps
<1>5. CASE EngineUnavailable(c)
  <2>1. call' = [call EXCEPT ![c] = Idle] /\ flushing' = (flushing /\ FlushCalls # {c})
    BY <1>5 DEF EngineUnavailable, Finishes, CallEnds
  <2>2. answer' = NoAnswer \/ answer'.status # "ok"
    BY <1>5 DEF EngineUnavailable, Finishes
  <2>3. UNCHANGED <<engine, trip, legAge, row, cache, flushed>>
    BY <1>5 DEF EngineUnavailable
  <2> QED BY <2>1, <2>2, <2>3, Unanswered, EndKeeps
<1>6. CASE StoreEta(c)
  BY <1>6, StoreKeeps
<1>7. CASE CallFails(c)
  <2>1. call' = [call EXCEPT ![c] = Idle] /\ flushing' = (flushing /\ c \in Gets)
        /\ answer' = NoAnswer /\ UNCHANGED <<engine, trip, legAge, row, cache, flushed>>
    BY <1>7 DEF CallFails
  <2> QED BY <2>1, Unanswered, EndKeeps
<1> QED BY <1>1, <1>2, <1>3, <1>4, <1>5, <1>6, <1>7 DEF CallStep


-----------------------------------------------------------------------------
(***************************************************************************)
(* The steps outside a call.  None of them sends an answer.                 *)
(***************************************************************************)
\* What becomes of the two invariants about the leg when a trip's row changes.
LEMMA TripMoves ==
  ASSUME IInv, UNCHANGED <<cache, call>>,
         \A t \in Trips, n \in Nat : StartedBefore(t, n) => StartedBefore(t, n)'
  PROVE  CallsFollow' /\ RecordsFollow'
<1>1. ASSUME NEW c \in Calls PROVE Follows(c, call[c])'
  <2>1. Follows(c, call[c]) /\ call[c].age \in Nat
    BY CallFacts
  <2>2. call[c].pc # "idle" /\ call[c].leg = "pickup" => StartedBefore(call[c].trip, call[c].age)'
    BY <2>1 DEF Follows
  <2> QED BY <2>1, <2>2 DEF Follows
<1>2. ASSUME NEW t \in Trips, cache[t] # NoEta PROVE TellsLeg(t, cache[t])'
  <2>1. TellsLeg(t, cache[t]) /\ cache[t].age \in Nat /\ MaxCall \in Nat
    <3>1. cache[t] \in EtaRecord /\ TellsLeg(t, cache[t])
      BY <1>2 DEF IInv, TypeOK, RecordsFollow
    <3>2. MaxCall \in Nat /\ AgeCap \in Int
      BY EtaAssumption, Numbers
    <3> QED BY <3>1, <3>2 DEF EtaRecord
  <2>2. cache[t].age + MaxCall \in Nat
    BY <2>1
  <2>3. UNCHANGED cache /\ (AgeCap)' = AgeCap
    BY DEF AgeCap, LongestInterval, MaxSkew, MinSkew
  <2> QED BY <2>1, <2>2, <2>3 DEF TellsLeg
<1> QED BY <1>1, <1>2 DEF CallsFollow, RecordsFollow

LEMMA FlushKeepsPositions ==
  ASSUME IInv, NEW S \in (SUBSET Trips) \ {{}}, NEW p \in Places, NEW k \in Skews,
         FlushPositions(S, p, k)
  PROVE  IInv'
<1>1. /\ flushing' = TRUE /\ UNCHANGED <<engine, trip, legAge, cache, call>> /\ answer' = NoAnswer
      /\ row' = [t \in Trips |-> IF t \in S THEN [place |-> p, age |-> 0] ELSE row[t]]
      /\ flushed' = [t \in Trips |-> IF t \in S THEN [place |-> p, skew |-> k] ELSE NoUpdate]
  BY DEF FlushPositions
<1>2. StaleAfter \in Nat /\ 0 \in Skews
  BY EtaAssumption, Numbers
<1>3. row' \in [Trips -> [place : Places \cup {NoPlace}, age : 0..(StaleAfter + 1)]]
  BY <1>1, <1>2 DEF IInv, TypeOK
<1>4. flushed' \in [Trips -> [place : Places \cup {NoPlace}, skew : Skews]]
  BY <1>1, <1>2 DEF NoUpdate
<1>5. TypeOK'
  BY <1>1, <1>3, <1>4 DEF IInv, TypeOK
<1>6. PICK t \in S : t \in Trips
  OBVIOUS
<1>7. flushed'[t].place = p /\ p # NoPlace
  BY <1>1, <1>6, EtaAssumption DEF EtaAssumption
<1>8. FlushCanEnd'
  BY <1>6, <1>7 DEF FlushCanEnd
<1>9. CallsFollow' /\ RecordsFollow'
  BY <1>1, TripMoves DEF StartedBefore
<1> QED BY <1>1, <1>5, <1>8, <1>9, Unanswered DEF IInv

LEMMA LookupKeeps ==
  ASSUME IInv, FlushLookup
  PROVE  IInv'
<1> DEFINE due == {t \in Trips : LooksUp(t)}
           free == {c \in Recomputations : call[c].pc = "idle"}
           Started(t) == [Idle EXCEPT !.pc = "cache", !.trip = t, !.leg = LegOf(t),
                                      !.place = flushed[t].place, !.skew = flushed[t].skew]
<1>1. /\ flushed' = [t \in Trips |-> NoUpdate] /\ answer' = NoAnswer
      /\ UNCHANGED <<engine, trip, legAge, row, cache>>
  BY DEF FlushLookup
<1>2. PICK slot \in [due -> free] :
        /\ call' = [c \in Calls |->
             IF \E t \in due : slot[t] = c THEN Started(CHOOSE u \in due : slot[u] = c)
             ELSE call[c]]
        /\ flushing' = (due # {})
  BY DEF FlushLookup
<1>3. ASSUME NEW t \in due
      PROVE  Started(t) \in CallRecords /\ \A c \in Recomputations : Follows(c, Started(t))
  <2>1. t \in Trips /\ flushed[t].place \in Places /\ flushed[t].skew \in Skews
    BY DEF LooksUp, IInv, TypeOK
  <2>2. LegOf(t) \in Legs /\ (LegOf(t) = "pickup" => trip[t] # "in_progress")
    BY DEF LegOf, Legs
  <2>3. Idle \in CallRecords
    BY EtaAssumption, IdleRecord
  <2>4. Started(t) \in CallRecords
    BY <2>1, <2>2, <2>3 DEF CallRecords, Idle
  <2>5. \A c \in Recomputations : c \notin Gets
    BY EtaAssumption DEF EtaAssumption
  <2>6. ASSUME NEW c \in Recomputations PROVE Follows(c, Started(t))
    BY <2>1, <2>2, <2>5 DEF Follows, StartedBefore, Idle
  <2> QED BY <2>4, <2>6
<1>4. ASSUME NEW c \in Calls PROVE call'[c] \in CallRecords /\ Follows(c, call'[c])
  <2>1. CASE \E t \in due : slot[t] = c
    <3> DEFINE u == CHOOSE u \in due : slot[u] = c
    <3>1. u \in due /\ slot[u] = c
      BY <2>1
    <3>2. c \in Recomputations
      BY <1>2, <3>1
    <3>3. call'[c] = Started(u)
      BY <1>2, <2>1
    <3> HIDE DEF u, due, Started
    <3> QED BY <1>3, <3>1, <3>2, <3>3
  <2>2. CASE ~\E t \in due : slot[t] = c
    <3>1. call'[c] = call[c]
      BY <1>2, <2>2
    <3> QED BY <3>1, CallFacts
  <2> QED BY <2>1, <2>2
<1> HIDE DEF Started
<1>5. call' \in [Calls -> CallRecords]
  BY <1>2, <1>4
<1>6. \A c \in Calls : Follows(c, call[c])'
  BY <1>1, <1>4 DEF Follows, StartedBefore
<1>7. TypeOK'
  <2>1. NoUpdate \in [place : Places \cup {NoPlace}, skew : Skews]
    BY EtaAssumption, Numbers DEF NoUpdate
  <2>2. flushing' \in BOOLEAN
    BY <1>2
  <2> QED BY <1>1, <1>5, <2>1, <2>2 DEF IInv, TypeOK, CallRecords
<1>8. ASSUME flushing' PROVE FlushCalls' # {}
  <2>1. PICK t \in due : TRUE
    BY <1>2, <1>8
  <2>2. slot[t] \in Recomputations /\ slot[t] \in Calls
    BY <1>2, <2>1 DEF Calls
  <2>3. call'[slot[t]] = Started(CHOOSE u \in due : slot[u] = slot[t])
    BY <1>2, <2>1, <2>2
  <2>4. \A u : Started(u).pc = "cache"
    BY DEF Started, Idle
  <2>5. call'[slot[t]].pc = "cache"
    BY <2>3, <2>4
  <2> QED BY <2>2, <2>5 DEF FlushCalls
<1>9. RecordsFollow'
  BY <1>1 DEF IInv, RecordsFollow, TellsLeg, StartedBefore
<1> QED BY <1>1, <1>6, <1>7, <1>8, <1>9, Unanswered DEF IInv, CallsFollow, FlushCanEnd

LEMMA FailureKeeps ==
  ASSUME IInv, FlushFails
  PROVE  IInv'
<1>1. /\ flushing' = FALSE /\ flushed' = [t \in Trips |-> NoUpdate] /\ answer' = NoAnswer
      /\ UNCHANGED <<engine, trip, legAge, row, cache, call>>
  BY DEF FlushFails
<1>2. NoUpdate \in [place : Places \cup {NoPlace}, skew : Skews]
  BY EtaAssumption, Numbers DEF NoUpdate
<1>3. TypeOK' /\ FlushCanEnd'
  BY <1>1, <1>2 DEF IInv, TypeOK, FlushCanEnd
<1>4. CallsFollow' /\ RecordsFollow'
  BY <1>1, TripMoves DEF StartedBefore
<1> QED BY <1>1, <1>3, <1>4, Unanswered DEF IInv

LEMMA RestartKeeps ==
  ASSUME IInv, Restart
  PROVE  IInv'
<1>1. /\ flushing' = FALSE /\ flushed' = [t \in Trips |-> NoUpdate] /\ answer' = NoAnswer
      /\ call' = [c \in Calls |-> Idle] /\ UNCHANGED <<engine, trip, legAge, row, cache>>
  BY DEF Restart
<1>2. NoUpdate \in [place : Places \cup {NoPlace}, skew : Skews]
  BY EtaAssumption, Numbers DEF NoUpdate
<1>3. Idle \in CallRecords /\ Idle.pc = "idle"
  BY EtaAssumption, IdleRecord DEF Idle
<1>4. TypeOK' /\ FlushCanEnd'
  BY <1>1, <1>2, <1>3 DEF IInv, TypeOK, FlushCanEnd, CallRecords
<1>5. CallsFollow'
  BY <1>1, <1>3 DEF CallsFollow, Follows
<1>6. RecordsFollow'
  BY <1>1 DEF IInv, RecordsFollow, TellsLeg, StartedBefore
<1> QED BY <1>1, <1>4, <1>5, <1>6, Unanswered DEF IInv

\* Rows and keys that others write: a trip's status, an age refreshed, a key that expires.
LEMMA WorldKeeps ==
  ASSUME IInv, NEW t \in Trips,
         \/ \E s \in {"matched", "cancelled"} : TripDecided(t, s)
         \/ TripAdvances(t)
         \/ StatusWritten(t)
         \/ CacheExpires(t)
  PROVE  IInv'
<1>0. StaleAfter \in Nat /\ LegBound \in Nat
  BY EtaAssumption, Numbers
<1>1. ASSUME NEW s \in {"matched", "cancelled"}, TripDecided(t, s) PROVE IInv'
  <2>1. /\ trip' = [trip EXCEPT ![t] = s] /\ answer' = NoAnswer
        /\ UNCHANGED <<engine, legAge, row, cache, flushing, flushed, call>>
    BY <1>1 DEF TripDecided
  <2>2. TypeOK' /\ FlushCanEnd'
    BY <2>1 DEF IInv, TypeOK, FlushCanEnd, FlushCalls, Status
  <2>3. \A u \in Trips, n \in Nat : StartedBefore(u, n) => StartedBefore(u, n)'
    BY <2>1 DEF StartedBefore, IInv, TypeOK
  <2> QED BY <2>1, <2>2, <2>3, TripMoves, Unanswered DEF IInv
<1>2. CASE TripAdvances(t)
  <2>1. /\ trip' = [trip EXCEPT ![t] = IF @ = "matched" THEN "in_progress" ELSE "completed"]
        /\ legAge' = [legAge EXCEPT ![t] = 0] /\ answer' = NoAnswer
        /\ UNCHANGED <<engine, row, cache, flushing, flushed, call>>
    BY <1>2 DEF TripAdvances
  <2>2. TypeOK' /\ FlushCanEnd'
    BY <1>0, <2>1 DEF IInv, TypeOK, FlushCanEnd, FlushCalls, Status
  <2>3. \A u \in Trips, n \in Nat : StartedBefore(u, n) => StartedBefore(u, n)'
    BY <2>1 DEF StartedBefore, IInv, TypeOK
  <2> QED BY <2>1, <2>2, <2>3, TripMoves, Unanswered DEF IInv
<1>3. CASE StatusWritten(t)
  <2>1. /\ row' = [row EXCEPT ![t].age = 0] /\ answer' = NoAnswer
        /\ UNCHANGED <<engine, trip, legAge, cache, flushing, flushed, call>>
    BY <1>3 DEF StatusWritten
  <2>2. TypeOK' /\ FlushCanEnd'
    BY <1>0, <2>1 DEF IInv, TypeOK, FlushCanEnd, FlushCalls
  <2>3. CallsFollow' /\ RecordsFollow'
    BY <2>1, TripMoves DEF StartedBefore
  <2> QED BY <2>1, <2>2, <2>3, Unanswered DEF IInv
<1>4. CASE CacheExpires(t)
  <2>1. /\ cache' = [cache EXCEPT ![t] = NoEta] /\ answer' = NoAnswer
        /\ UNCHANGED <<engine, trip, legAge, row, flushing, flushed, call>>
    BY <1>4 DEF CacheExpires
  <2>2. TypeOK' /\ FlushCanEnd'
    BY <2>1 DEF IInv, TypeOK, FlushCanEnd, FlushCalls
  <2>3. CallsFollow'
    BY <2>1 DEF IInv, CallsFollow, Follows, StartedBefore
  <2>4. \A u \in Trips : cache'[u] # NoEta => cache'[u] = cache[u]
    BY <2>1 DEF IInv, TypeOK
  <2>5. RecordsFollow'
    BY <2>1, <2>4 DEF IInv, RecordsFollow, TellsLeg, StartedBefore
  <2> QED BY <2>1, <2>2, <2>3, <2>5, Unanswered DEF IInv
<1> QED BY <1>1, <1>2, <1>3, <1>4

\* Time passes for everyone at once: what a call knows, what a record tells and how long a trip
\* has been under way grow together.
LEMMA TickKeeps ==
  ASSUME IInv, Tick
  PROVE  IInv'
<1>1. /\ UNCHANGED <<engine, trip, flushing, flushed>> /\ answer' = NoAnswer
      /\ legAge' = [t \in Trips |-> IF trip[t] = "in_progress" THEN Older(legAge[t], LegBound + 1)
                                    ELSE 0]
      /\ row' = [t \in Trips |-> [row[t] EXCEPT !.age = Older(@, StaleAfter + 1)]]
      /\ cache' = [t \in Trips |-> Aged(cache[t])]
      /\ \A c \in Calls : call[c].age < MaxCall
  BY DEF Tick
<1> DEFINE Next1(c) == [call[c] EXCEPT !.age = @ + 1, !.prior = Aged(@),
                                       !.now = IF call[c].pc = "driver" THEN 0 ELSE @ + 1]
<1>2. call' = [c \in Calls |-> IF call[c].pc = "idle" THEN Idle ELSE Next1(c)]
  BY DEF Tick
<1>3. StaleAfter \in Nat /\ LegBound \in Nat /\ MaxCall \in Nat \ {0} /\ AgeCap \in Nat
  BY EtaAssumption, Numbers
<1>4. ASSUME NEW t \in Trips, NEW n \in Nat, StartedBefore(t, n)
      PROVE  trip'[t] = "in_progress" => legAge'[t] <= n + 1
  <2>1. legAge[t] \in Nat
    BY <1>3 DEF IInv, TypeOK
  <2>2. trip[t] = "in_progress" => legAge'[t] <= legAge[t] + 1
    BY <1>1, <1>3, <2>1 DEF Older
  <2>3. trip'[t] = "in_progress" => legAge'[t] <= n + 1
    <3>1. CASE trip[t] = "in_progress"
      <4>1. legAge'[t] \in Nat
        BY <1>1, <1>3, <2>1, <3>1 DEF Older
      <4> QED BY <1>4, <2>1, <2>2, <3>1, <4>1 DEF StartedBefore
    <3>2. CASE trip[t] # "in_progress"
      BY <1>1, <3>2
    <3> QED BY <3>1, <3>2
  <2> QED BY <2>3
<1>5. ASSUME NEW eta \in EtaRecord \cup {NoEta}
      PROVE  /\ Aged(eta) \in EtaRecord \cup {NoEta}
             /\ eta # NoEta => /\ Aged(eta).leg = eta.leg /\ Aged(eta).skew = eta.skew
                               /\ Aged(eta).age < AgeCap => eta.age < AgeCap
                                                            /\ Aged(eta).age = eta.age + 1
  <2>1. CASE eta = NoEta
    BY <2>1 DEF Aged
  <2>2. CASE eta # NoEta
    <3>1. eta \in EtaRecord /\ eta.age \in 0..AgeCap
      BY <2>2 DEF EtaRecord
    <3>2. Aged(eta) = [eta EXCEPT !.age = Older(@, AgeCap)]
      BY <2>2 DEF Aged
    <3>3. Older(eta.age, AgeCap) \in 0..AgeCap
          /\ (Older(eta.age, AgeCap) < AgeCap
                => eta.age < AgeCap /\ Older(eta.age, AgeCap) = eta.age + 1)
      BY <1>3, <3>1 DEF Older
    <3>4. Aged(eta) \in EtaRecord
      BY <3>1, <3>2, <3>3 DEF EtaRecord
    <3>5. Aged(eta).leg = eta.leg /\ Aged(eta).skew = eta.skew
          /\ Aged(eta).age = Older(eta.age, AgeCap)
      BY <3>1, <3>2 DEF EtaRecord
    <3> QED BY <3>3, <3>4, <3>5
  <2> QED BY <2>1, <2>2
<1>6. ASSUME NEW c \in Calls, call[c].pc # "idle"
      PROVE  call'[c] \in CallRecords /\ call'[c].pc = call[c].pc /\ Follows(c, call[c])'
  <2> DEFINE k == call[c]
             m == Next1(c)
  <2>0. call'[c] = m
    BY <1>2, <1>6
  <2>1. /\ k \in CallRecords /\ Follows(c, k) /\ k.age \in Nat /\ k.now \in Nat /\ k.age < MaxCall
        /\ k.prior \in EtaRecord \cup {NoEta}
    BY <1>1, CallFacts DEF CallRecords
  <2>2. k.now <= k.age
    BY <1>6, <2>1 DEF Follows
  <2>3. Aged(k.prior) \in EtaRecord \cup {NoEta}
    BY <1>5, <2>1
  <2>4. /\ m.age = k.age + 1 /\ m.pc = k.pc /\ m.trip = k.trip
        /\ m.leg = k.leg /\ m.place = k.place /\ m.skew = k.skew
        /\ m.now = IF k.pc = "driver" THEN 0 ELSE k.now + 1
    BY <2>1 DEF CallRecords
  <2>5. /\ k.age + 1 \in 0..MaxCall
        /\ (IF k.pc = "driver" THEN 0 ELSE k.now + 1) \in 0..MaxCall
    BY <1>3, <2>1, <2>2
  <2>6. m \in CallRecords
    BY <2>1, <2>3, <2>5 DEF CallRecords
  <2>7. k.leg = "pickup" => (trip'[k.trip] = "in_progress" => legAge'[k.trip] <= k.age + 1)
    <3>1. k.leg = "pickup" => k.trip \in Trips /\ StartedBefore(k.trip, k.age)
      BY <1>6, <2>1 DEF Follows
    <3> QED BY <1>4, <2>1, <3>1
  <2>8. Follows(c, call[c])'
    <3> HIDE DEF m
    <3> QED BY <1>6, <2>0, <2>1, <2>2, <2>4, <2>7 DEF Follows, StartedBefore
  <2> QED BY <2>0, <2>4, <2>6, <2>8
<1>7. ASSUME NEW c \in Calls
      PROVE  /\ call'[c] \in CallRecords /\ Follows(c, call[c])'
             /\ (call'[c].pc = "idle") = (call[c].pc = "idle")
  <2>1. CASE call[c].pc = "idle"
    <3>1. call'[c] = Idle /\ Idle.pc = "idle" /\ Idle \in CallRecords
      BY <1>2, <2>1, EtaAssumption, IdleRecord DEF Idle
    <3> QED BY <2>1, <3>1 DEF Follows
  <2>2. CASE call[c].pc # "idle"
    BY <1>6, <2>2
  <2> QED BY <2>1, <2>2
<1> HIDE DEF Next1
<1>8. call' \in [Calls -> CallRecords] /\ CallsFollow'
  BY <1>2, <1>7 DEF CallsFollow
<1>9. FlushCanEnd'
  <2>1. Recomputations \subseteq Calls
    BY DEF Calls
  <2>2. FlushCalls' = FlushCalls
    BY <1>7, <2>1 DEF FlushCalls
  <2> QED BY <1>1, <2>2 DEF IInv, FlushCanEnd
<1>10. cache' \in [Trips -> EtaRecord \cup {NoEta}]
  BY <1>1, <1>5 DEF IInv, TypeOK
<1>11. legAge' \in [Trips -> 0..(LegBound + 1)]
  BY <1>1, <1>3 DEF IInv, TypeOK, Older
<1>12. row' \in [Trips -> [place : Places \cup {NoPlace}, age : 0..(StaleAfter + 1)]]
  <2>1. ASSUME NEW t \in Trips
        PROVE  [row[t] EXCEPT !.age = Older(@, StaleAfter + 1)]
                 \in [place : Places \cup {NoPlace}, age : 0..(StaleAfter + 1)]
    <3>1. row[t] \in [place : Places \cup {NoPlace}, age : 0..(StaleAfter + 1)]
      BY DEF IInv, TypeOK
    <3>2. Older(row[t].age, StaleAfter + 1) \in 0..(StaleAfter + 1)
      BY <1>3, <3>1 DEF Older
    <3> QED BY <3>1, <3>2
  <2> QED BY <1>1, <2>1
<1>13. TypeOK'
  BY <1>1, <1>8, <1>10, <1>11, <1>12 DEF IInv, TypeOK, CallRecords
<1>14. ASSUME NEW t \in Trips, cache'[t] # NoEta PROVE TellsLeg(t, cache[t])'
  <2> DEFINE eta == cache[t]
  <2>1. eta \in EtaRecord \cup {NoEta} /\ cache'[t] = Aged(eta)
    BY <1>1 DEF IInv, TypeOK
  <2>2. eta # NoEta /\ eta \in EtaRecord
    BY <1>14, <2>1 DEF Aged
  <2>3. TellsLeg(t, eta) /\ eta.age \in Nat
    BY <1>3, <2>2 DEF IInv, RecordsFollow, EtaRecord
  <2>4. /\ cache'[t].leg = eta.leg /\ cache'[t].skew = eta.skew
        /\ cache'[t].age < AgeCap => eta.age < AgeCap /\ cache'[t].age = eta.age + 1
    BY <1>5, <2>1, <2>2
  <2>5. SUFFICES ASSUME eta.leg = "pickup", cache'[t].age < AgeCap
                 PROVE  /\ trip'[t] = "in_progress" => legAge'[t] <= (eta.age + 1) + MaxCall
                        /\ eta.skew # 0 => (trip'[t] = "in_progress" => legAge'[t] <= eta.age + 1)
    BY <2>4 DEF TellsLeg, StartedBefore, AgeCap, LongestInterval, MaxSkew, MinSkew
  <2>6. StartedBefore(t, eta.age + MaxCall) /\ (eta.skew # 0 => StartedBefore(t, eta.age))
    BY <2>3, <2>4, <2>5 DEF TellsLeg
  <2>7. trip'[t] = "in_progress" => legAge'[t] <= (eta.age + MaxCall) + 1
    <3>1. eta.age + MaxCall \in Nat
      BY <1>3, <2>3
    <3> HIDE DEF eta
    <3> QED BY <1>4, <2>6, <3>1
  <2>8. eta.skew # 0 => (trip'[t] = "in_progress" => legAge'[t] <= eta.age + 1)
    BY <1>4, <2>3, <2>6
  <2>9. (eta.age + MaxCall) + 1 = (eta.age + 1) + MaxCall
    BY <1>3, <2>3
  <2> QED BY <2>7, <2>8, <2>9
<1>15. RecordsFollow'
  BY <1>14 DEF RecordsFollow
<1> QED BY <1>1, <1>8, <1>9, <1>13, <1>15, Unanswered DEF IInv

-----------------------------------------------------------------------------
(***************************************************************************)
(* The invariant.                                                           *)
(***************************************************************************)
LEMMA InitIInv == EtaAssumption /\ Init => IInv
<1> SUFFICES ASSUME EtaAssumption, Init PROVE IInv
  OBVIOUS
<1>1. Idle \in CallRecords /\ Idle.pc = "idle"
  BY IdleRecord DEF Idle
<1>2. NoUpdate \in [place : Places \cup {NoPlace}, skew : Skews]
  BY Numbers DEF NoUpdate
<1>3. StaleAfter \in Nat /\ LegBound \in Nat
  BY Numbers
<1>4. TypeOK
  <2>1. 0 \in 0..(LegBound + 1) /\ 0 \in 0..(StaleAfter + 1)
    BY <1>3
  <2>2. call \in [Calls -> CallRecords]
    BY <1>1 DEF Init
  <2>3. row \in [Trips -> [place : Places \cup {NoPlace}, age : 0..(StaleAfter + 1)]]
    BY <2>1 DEF Init
  <2> QED BY <1>2, <2>1, <2>2, <2>3 DEF Init, TypeOK, CallRecords, Status
<1>5. CallsFollow
  BY <1>1 DEF Init, CallsFollow, Follows
<1>6. RecordsFollow /\ FlushCanEnd /\ OkIsRecent /\ OldLegFades
  BY DEF Init, RecordsFollow, FlushCanEnd, OkIsRecent, OldLegFades
<1> QED BY <1>4, <1>5, <1>6 DEF IInv

LEMMA StepIInv == IInv /\ [Next]_vars => IInv'
<1> SUFFICES ASSUME IInv, [Next]_vars PROVE IInv'
  OBVIOUS
<1>1. ASSUME NEW c \in Gets, NEW t \in Trips, GetTripEta(c, t) PROVE IInv'
  BY <1>1, GetKeeps
<1>2. ASSUME NEW c \in Calls, CallStep(c) PROVE IInv'
  BY <1>2, CallKeeps
<1>3. ASSUME NEW S \in (SUBSET Trips) \ {{}}, NEW p \in Places, NEW k \in Skews,
             FlushPositions(S, p, k)
      PROVE  IInv'
  BY <1>3, FlushKeepsPositions
<1>4. CASE FlushLookup
  BY <1>4, LookupKeeps
<1>5. CASE FlushFails
  BY <1>5, FailureKeeps
<1>6. ASSUME NEW t \in Trips,
             \/ \E s \in {"matched", "cancelled"} : TripDecided(t, s)
             \/ TripAdvances(t)
             \/ StatusWritten(t)
             \/ CacheExpires(t)
      PROVE  IInv'
  BY <1>6, WorldKeeps
<1>7. CASE Restart
  BY <1>7, RestartKeeps
<1>8. CASE Tick
  BY <1>8, TickKeeps
<1>9. CASE UNCHANGED vars
  <2>1. UNCHANGED <<engine, trip, legAge, row, cache, flushing, flushed, call, answer>>
    BY <1>9 DEF vars
  <2>2. TypeOK' /\ FlushCanEnd'
    BY <2>1 DEF IInv, TypeOK, FlushCanEnd, FlushCalls
  <2>3. CallsFollow' /\ RecordsFollow'
    BY <2>1, TripMoves DEF StartedBefore
  <2>4. OkIsRecent' /\ OldLegFades'
    BY <2>1 DEF IInv, OkIsRecent, OldLegFades, Interval
  <2> QED BY <2>2, <2>3, <2>4 DEF IInv
<1> QED BY <1>1, <1>2, <1>3, <1>4, <1>5, <1>6, <1>7, <1>8, <1>9 DEF Next

LEMMA IInvHolds == Spec => []IInv
<1>1. Init => IInv
  BY EtaAssumption, InitIInv
<1> QED BY <1>1, StepIInv, PTL DEF Spec

\* Every variable keeps its type: what a recomputation or a GET has in its local variables, what
\* the Redis hash of a trip holds, and ages within their caps.
THEOREM EtaTypeCorrect == Spec => []TypeOK
<1>1. IInv => TypeOK
  BY DEF IInv
<1> QED BY <1>1, IInvHolds, PTL

\* getTripEta answers 'ok' only with an ETA computed less than the interval of its mode, plus the
\* lead of the fastest phone, before it looked at the clock: whatever recomputations of flushes and
\* of other GETs read, computed and stored in between, in whatever order.
THEOREM OkAnswersAreRecent == Spec => []OkIsRecent
<1>1. IInv => OkIsRecent
  BY DEF IInv
<1> QED BY <1>1, IInvHolds, PTL

\* The key trip:{id}:eta does not name the leg and a recomputation may store an ETA for the pickup
\* after the pickup.  It is not answered as 'ok' for longer than LegBound even so.
THEOREM PickupEtaFades == Spec => []OldLegFades
<1>1. IInv => OldLegFades
  BY DEF IInv
<1> QED BY <1>1, IInvHolds, PTL

\* flushBatch does not start while one is running: one that is running always has its query for
\* the trips, or a recomputation that has not ended, ahead of it, whatever fails.
THEOREM FlushesEnd == Spec => []FlushCanEnd
<1>1. IInv => FlushCanEnd
  BY DEF IInv
<1> QED BY <1>1, IInvHolds, PTL
=============================================================================
