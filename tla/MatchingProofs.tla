-------------------------- MODULE MatchingProofs --------------------------
(***************************************************************************)
(* Theorems about Matching, for any set of drivers and trips, any number of  *)
(* PATCH handlers and reconciliation runs, with store failures and crashes   *)
(* wherever no assumption excludes them.                                     *)
(***************************************************************************)
EXTENDS Matching, TLAPS

-----------------------------------------------------------------------------
(***************************************************************************)
(* Types of DriverStatus, in the form Matching builds on: one lemma per      *)
(* group of actions, one for a crash.                                        *)
(***************************************************************************)
\* The helper that mirrors a status into Redis keeps the live view well-typed.
LEMMA UpdateStatusTyped ==
  ASSUME DriverTypeOK, NEW d \in Drivers, NEW s \in Status, UpdateStatusInRedis(d, s)
  PROVE  /\ liveStatus' \in [Drivers -> StatusOrNone]
         /\ indexed' \in [Drivers -> BOOLEAN]
         /\ fresh' \in [Drivers -> BOOLEAN]
BY DEF DriverTypeOK, UpdateStatusInRedis, StatusOrNone, Status

\* So does the helper that mirrors a batch of locations.
LEMMA UpsertTyped ==
  ASSUME DriverTypeOK, NEW rows \in [Drivers -> StatusOrNone], UpsertLocations(rows)
  PROVE  /\ liveStatus' \in [Drivers -> StatusOrNone]
         /\ indexed' \in [Drivers -> BOOLEAN]
         /\ fresh' \in [Drivers -> BOOLEAN]
BY DEF DriverTypeOK, UpsertLocations, StatusOrNone, Status

\* Every step of a PATCH handler keeps the types.
LEMMA PatchTyped == DriverTypeOK /\ PatchNext => DriverTypeOK'
<1> SUFFICES ASSUME DriverTypeOK, NEW r \in Requests,
                    \/ \E d \in Drivers, s \in Status : PatchStatusRead(r, d, s)
                    \/ PatchStatusWrite(r)
                    \/ PatchStatusMirror(r)
                    \/ \E d \in Drivers : PatchLocationWrite(r, d)
                    \/ PatchLocationMirror(r)
                    \/ PatchFails(r)
             PROVE  DriverTypeOK'
  BY DEF PatchNext
<1> USE DEF DriverTypeOK, pgVars, liveVars, flushVars, sweepVars
<1>1. ASSUME NEW d \in Drivers, NEW s \in Status, PatchStatusRead(r, d, s)
      PROVE  DriverTypeOK'
  BY <1>1 DEF PatchStatusRead
<1>2. CASE PatchStatusWrite(r)
  BY <1>2 DEF PatchStatusWrite
<1>3. CASE PatchStatusMirror(r)
  <2>1. reqDriver[r] \in Drivers /\ reqStatus[r] \in Status
    BY <1>3 DEF PatchStatusMirror
  <2>2. UpdateStatusInRedis(reqDriver[r], reqStatus[r])
    BY <1>3 DEF PatchStatusMirror
  <2>3. QED
    BY <1>3, <2>1, <2>2, UpdateStatusTyped DEF PatchStatusMirror, ReqDone, Status
<1>4. ASSUME NEW d \in Drivers, PatchLocationWrite(r, d)
      PROVE  DriverTypeOK'
  BY <1>4 DEF PatchLocationWrite
<1>5. CASE PatchLocationMirror(r)
  <2> DEFINE rows == [d \in Drivers |-> IF d = reqDriver[r] THEN reqStatus[r] ELSE "none"]
  <2>1. rows \in [Drivers -> StatusOrNone]
    BY DEF StatusOrNone
  <2>2. UpsertLocations(rows)
    BY <1>5 DEF PatchLocationMirror
  <2> HIDE DEF rows
  <2>3. QED
    BY <1>5, <2>1, <2>2, UpsertTyped DEF PatchLocationMirror, ReqDone, Status
<1>6. CASE PatchFails(r)
  BY <1>6 DEF PatchFails, ReqDone, Status
<1>7. QED
  BY <1>1, <1>2, <1>3, <1>4, <1>5, <1>6

\* Every step of the location batch keeps the types.
LEMMA FlushTyped == DriverTypeOK /\ FlushNext => DriverTypeOK'
<1> SUFFICES ASSUME DriverTypeOK, FlushNext
             PROVE  DriverTypeOK'
  OBVIOUS
<1> USE DEF DriverTypeOK, pgVars, liveVars, reqVars, flushVars, sweepVars, StatusOrNone
<1>1. ASSUME NEW d \in Drivers, Enqueue(d)
      PROVE  DriverTypeOK'
  BY <1>1 DEF Enqueue
<1>2. CASE FlushWrite
  BY <1>2 DEF FlushWrite, BatchUpdateLocations
<1>3. CASE FlushMirror
  <2>1. flushRows \in [Drivers -> StatusOrNone] /\ UpsertLocations(flushRows)
    BY <1>3 DEF FlushMirror
  <2>2. QED
    BY <1>3, <2>1, UpsertTyped DEF FlushMirror, FlushDone
<1>4. CASE FlushFails
  BY <1>4 DEF FlushFails, FlushDone
<1>5. QED
  BY <1>1, <1>2, <1>3, <1>4 DEF FlushNext

\* Every step of a reconciliation run keeps the types.
LEMMA SweepTyped == DriverTypeOK /\ SweepNext => DriverTypeOK'
<1> SUFFICES ASSUME DriverTypeOK, NEW s \in Sweeps,
                    \/ SweepStart(s)
                    \/ \E d \in Drivers : SweepScan(s, d)
                    \/ SweepListed(s)
                    \/ \E d \in Drivers : SweepEvict(s, d)
                    \/ \E d \in Drivers : SweepEvictLost(s, d)
                    \/ SweepCorrect(s)
                    \/ SweepFails(s)
             PROVE  DriverTypeOK'
  BY DEF SweepNext
<1> USE DEF DriverTypeOK, pgVars, liveVars, reqVars, flushVars
<1>1. CASE SweepStart(s)
  BY <1>1 DEF SweepStart
<1>2. ASSUME NEW d \in Drivers, SweepScan(s, d)
      PROVE  DriverTypeOK'
  BY <1>2 DEF SweepScan
<1>3. CASE SweepListed(s)
  BY <1>3 DEF SweepListed
<1>4. ASSUME NEW d \in Drivers, SweepEvict(s, d)
      PROVE  DriverTypeOK'
  <2>1. UpdateStatusInRedis(d, "offline") /\ "offline" \in Status
    BY <1>4 DEF SweepEvict, Status
  <2>2. QED
    BY <1>4, <2>1, UpdateStatusTyped DEF SweepEvict
<1>5. CASE SweepCorrect(s)
  BY <1>5 DEF SweepCorrect, Status
<1>6. CASE SweepFails(s)
  BY <1>6 DEF SweepFails
<1>7. ASSUME NEW d \in Drivers, SweepEvictLost(s, d)
      PROVE  DriverTypeOK'
  BY <1>7 DEF SweepEvictLost
<1>8. QED
  BY <1>1, <1>2, <1>3, <1>4, <1>5, <1>6, <1>7

\* Types survive every step but a crash, whoever else takes steps in between.
LEMMA DriverStepTyped == DriverTypeOK /\ DriverStep => DriverTypeOK'
<1>1. ASSUME DriverTypeOK, NEW d \in Drivers, Ages(d)
      PROVE  DriverTypeOK'
  BY <1>1 DEF Ages, DriverTypeOK, pgVars, reqVars, flushVars, sweepVars
<1>2. QED
  BY <1>1, PatchTyped, FlushTyped, SweepTyped DEF DriverStep

\* And a crash.
LEMMA DriverCrashTyped == DriverTypeOK /\ DriverCrash => DriverTypeOK'
<1> SUFFICES ASSUME DriverTypeOK, DriverCrash
             PROVE  DriverTypeOK'
  OBVIOUS
<1>1. /\ pgStatus' \in [Drivers -> Status]
      /\ liveStatus' \in [Drivers -> StatusOrNone]
      /\ indexed' \in [Drivers -> BOOLEAN]
      /\ fresh' \in [Drivers -> BOOLEAN]
  BY DEF DriverTypeOK, DriverCrash, liveVars
<1>2. /\ reqPc' \in [Requests -> {"idle", "write", "mirrorStatus", "mirrorLocation"}]
      /\ \A r \in Requests : reqPc'[r] = "idle"
      /\ reqDriver' \in [Requests -> Drivers \cup {NoDriver}]
      /\ reqStatus' \in [Requests -> Status]
  BY DEF DriverCrash, Status
<1>3. /\ pending' \subseteq Drivers
      /\ flushing' \in BOOLEAN
      /\ flushRows' \in [Drivers -> StatusOrNone]
  BY DEF DriverCrash, FlushDone, StatusOrNone
<1>4. /\ sweepPc' \in [Sweeps -> {"idle", "scan", "evict", "correct"}]
      /\ \A s \in Sweeps : sweepPc'[s] = "idle"
      /\ toScan' \in [Sweeps -> SUBSET Drivers]
      /\ stale' \in [Sweeps -> SUBSET Drivers]
      /\ evicting' \in [Sweeps -> Drivers \cup {NoDriver}]
  BY DEF DriverCrash
<1>5. QED
  BY <1>1, <1>2, <1>3, <1>4 DEF DriverTypeOK

\* The initial states are well-typed.
LEMMA DriverInitTyped == DriverInit => DriverTypeOK
<1> SUFFICES ASSUME DriverInit
             PROVE  DriverTypeOK
  OBVIOUS
<1>1. /\ pgStatus \in [Drivers -> Status]
      /\ liveStatus \in [Drivers -> StatusOrNone]
      /\ indexed \in [Drivers -> BOOLEAN]
      /\ fresh \in [Drivers -> BOOLEAN]
  <2>1. liveStatus \in [Drivers -> StatusOrNone]
    BY DEF DriverInit, StatusOrNone, Status
  <2>2. QED
    BY <2>1, Zenon DEF DriverInit
<1>2. /\ reqPc \in [Requests -> {"idle", "write", "mirrorStatus", "mirrorLocation"}]
      /\ \A r \in Requests : reqPc[r] = "idle"
      /\ reqDriver \in [Requests -> Drivers \cup {NoDriver}]
      /\ reqStatus \in [Requests -> Status]
  BY DEF DriverInit, Status
<1>3. /\ pending \subseteq Drivers
      /\ flushing \in BOOLEAN
      /\ flushRows \in [Drivers -> StatusOrNone]
  BY DEF DriverInit, StatusOrNone
<1>4. /\ sweepPc \in [Sweeps -> {"idle", "scan", "evict", "correct"}]
      /\ \A s \in Sweeps : sweepPc[s] = "idle"
      /\ toScan \in [Sweeps -> SUBSET Drivers]
      /\ stale \in [Sweeps -> SUBSET Drivers]
      /\ evicting \in [Sweeps -> Drivers \cup {NoDriver}]
  BY DEF DriverInit
<1>5. QED
  BY <1>1, <1>2, <1>3, <1>4 DEF DriverTypeOK

\* Type correctness of the two stores and of the processes that write them.
THEOREM DriverTypeCorrect == DriverSpec => []DriverTypeOK
<1>1. DriverTypeOK /\ [DriverNext]_driverVars => DriverTypeOK'
  <2>1. DriverTypeOK /\ UNCHANGED driverVars => DriverTypeOK'
    BY DEF DriverTypeOK, driverVars
  <2>2. QED
    BY <2>1, DriverStepTyped, DriverCrashTyped DEF DriverNext
<1>2. QED
  BY DriverInitTyped, <1>1, PTL DEF DriverSpec

-----------------------------------------------------------------------------
(***************************************************************************)
(* Types of Matching.                                                       *)
(***************************************************************************)
\* The part of the type invariant that is about the matchmaker's own variables.
MatchTypeOK ==
  /\ tripStatus \in [Trips -> {"absent", "requested", "matched", "cancelled"}]
  /\ tripDriver \in [Trips -> Drivers \cup {NoDriver}]
  /\ tripReason \in [Trips -> Reasons \cup {"none"}]
  /\ lock \in [Drivers -> Trips \cup {NoTrip}]
  /\ pc \in [Trips -> PCs]
  /\ cands \in [Trips -> SUBSET Drivers]
  /\ cur \in [Trips -> Drivers \cup {NoDriver}]
  /\ \A t \in Trips : pc[t] \in Held => cur[t] \in Drivers
  /\ verdict \in [Trips -> {"none", "next", "matched", "threw"}]
  /\ offer \in [Trips -> [Drivers -> {"none", "open", "accepted", "declined"}]]

\* The type invariant of Matching is that of DriverStatus and this part.
LEMMA TypeOKSplits == TypeOK <=> DriverTypeOK /\ MatchTypeOK
BY DEF TypeOK, MatchTypeOK

\* Matching's steps that leave every variable of DriverStatus alone.
LEMMA MatchOnlyTyped ==
  ASSUME TypeOK, UNCHANGED driverVars, NEW t \in Trips,
         \/ RequestTrip(t) \/ ReadTrip(t) \/ SearchNearby(t)
         \/ \E d \in Drivers : AcquireLock(t, d) \/ AcquireAnswerLost(t, d)
         \/ SendOffer(t) \/ OfferTimeout(t)
         \/ \E d \in Drivers, accept \in BOOLEAN : DriverResponds(d, t, accept)
         \/ ConfirmMatch(t) \/ ReleaseLock(t) \/ ResolveUnmatched(t) \/ MatchFails(t)
         \/ MirrorLost(t)
  PROVE  TypeOK'
<1>1. DriverTypeOK'
  BY DEF TypeOK, DriverTypeOK, driverVars
<1> USE DEF PCs, Held, Goto
<1> SUFFICES ASSUME MatchTypeOK PROVE MatchTypeOK'
  BY <1>1, TypeOKSplits DEF TypeOK, MatchTypeOK
<1>2. CASE RequestTrip(t)
  BY <1>2 DEF RequestTrip, MatchTypeOK
<1>3. CASE ReadTrip(t)
  BY <1>3 DEF ReadTrip, MatchTypeOK, tripVars
<1>4. CASE SearchNearby(t)
  <2>1. PICK C \in SUBSET Drivers : /\ cands' = [cands EXCEPT ![t] = C]
                                    /\ Goto(t, IF C = {} THEN "none_found" ELSE "next")
    BY <1>4 DEF SearchNearby
  <2>2. QED
    BY <1>4, <2>1 DEF SearchNearby, MatchTypeOK, tripVars
<1>5. ASSUME NEW d \in Drivers, AcquireLock(t, d)
      PROVE  MatchTypeOK'
  <2>1. CASE LockFree(d)
    <3>1. cands' \in [Trips -> SUBSET Drivers]
      BY <1>5 DEF AcquireLock, MatchTypeOK
    <3>2. lock' \in [Drivers -> Trips \cup {NoTrip}] /\ pc' \in [Trips -> PCs]
      BY <1>5, <2>1 DEF AcquireLock, MatchTypeOK
    <3>3. /\ cur' \in [Trips -> Drivers \cup {NoDriver}]
          /\ \A u \in Trips : pc'[u] \in Held => cur'[u] \in Drivers
      BY <1>5, <2>1 DEF AcquireLock, MatchTypeOK
    <3>4. QED
      BY <1>5, <3>1, <3>2, <3>3 DEF AcquireLock, MatchTypeOK, tripVars
  <2>2. CASE ~LockFree(d)
    <3>1. cands' \in [Trips -> SUBSET Drivers]
      BY <1>5 DEF AcquireLock, MatchTypeOK
    <3>2. UNCHANGED <<tripVars, lock, pc, cur, verdict, offer>>
      BY <1>5, <2>2 DEF AcquireLock
    <3>3. QED
      BY <3>1, <3>2 DEF MatchTypeOK, tripVars
  <2>3. QED
    BY <2>1, <2>2
<1>6. ASSUME NEW d \in Drivers, AcquireAnswerLost(t, d)
      PROVE  MatchTypeOK'
  BY <1>6 DEF AcquireAnswerLost, MatchTypeOK, tripVars
<1>7. CASE SendOffer(t)
  <2>1. offer' \in [Trips -> [Drivers -> {"none", "open", "accepted", "declined"}]]
    <3>1. cur[t] \in Drivers /\ offer[t] \in [Drivers -> {"none", "open", "accepted", "declined"}]
      BY <1>7 DEF SendOffer, MatchTypeOK
    <3>2. CASE offer' = [offer EXCEPT ![t][cur[t]] = "open"]
      <4>1. [offer[t] EXCEPT ![cur[t]] = "open"]
              \in [Drivers -> {"none", "open", "accepted", "declined"}]
        BY <3>1
      <4>2. QED
        BY <3>2, <4>1 DEF MatchTypeOK
    <3>3. CASE UNCHANGED offer
      BY <3>3 DEF MatchTypeOK
    <3>4. QED
      BY <1>7, <3>2, <3>3 DEF SendOffer
  <2>2. pc' \in [Trips -> PCs] /\ verdict' \in [Trips -> {"none", "next", "matched", "threw"}]
    BY <1>7 DEF SendOffer, Leave, MatchTypeOK
  <2>3. \A u \in Trips : pc'[u] \in Held => cur[u] \in Drivers
    BY <1>7 DEF SendOffer, Leave, MatchTypeOK
  <2>4. QED
    BY <1>7, <2>1, <2>2, <2>3 DEF SendOffer, MatchTypeOK, tripVars
<1>8. CASE OfferTimeout(t)
  BY <1>8 DEF OfferTimeout, OfferPending, Leave, MatchTypeOK, tripVars
<1>9. ASSUME NEW d \in Drivers, NEW accept \in BOOLEAN, DriverResponds(d, t, accept)
      PROVE  MatchTypeOK'
  <2>1. offer' \in [Trips -> [Drivers -> {"none", "open", "accepted", "declined"}]]
    BY <1>9 DEF DriverResponds, MatchTypeOK
  <2>2. QED
    BY <1>9, <2>1 DEF DriverResponds, OfferPending, Leave, MatchTypeOK, tripVars
<1>10. CASE ConfirmMatch(t)
  BY <1>10 DEF ConfirmMatch, Leave, MatchTypeOK, tripVars
<1>11. CASE ReleaseLock(t)
  <2>1. lock' \in [Drivers -> Trips \cup {NoTrip}]
    BY <1>11 DEF ReleaseLock, MatchTypeOK
  <2>2. QED
    BY <1>11, <2>1 DEF ReleaseLock, AfterRelease, MatchTypeOK, tripVars
<1>12. CASE ResolveUnmatched(t)
  BY <1>12 DEF ResolveUnmatched, UnmatchedReason, Reasons, MatchTypeOK, tripVars
<1>13. CASE MatchFails(t)
  BY <1>13 DEF MatchFails, Leave, MatchTypeOK, tripVars
<1>14. CASE MirrorLost(t)
  BY <1>14 DEF MirrorLost, MatchTypeOK, tripVars
<1>15. QED
  BY <1>2, <1>3, <1>4, <1>5, <1>6, <1>7, <1>8, <1>9, <1>10, <1>11, <1>12, <1>13, <1>14

\* The commit and the mirror write both a row of DriverStatus and the run's own state.
LEMMA CommitTyped ==
  ASSUME TypeOK, NEW t \in Trips, FinalizeMatch(t) \/ FinalizeAnswerLost(t) \/ MirrorBusy(t)
  PROVE  TypeOK'
<1>1. cur[t] \in Drivers
  BY DEF TypeOK, Held, FinalizeMatch, FinalizeAnswerLost, MirrorBusy
<1>2. MatchTypeOK /\ DriverTypeOK
  BY TypeOKSplits
<1>3. DriverTypeOK'
  <2>1. CASE MirrorBusy(t)
    <3>1. UpdateStatusInRedis(cur[t], "busy") /\ "busy" \in Status
      BY <2>1 DEF MirrorBusy, Status
    <3>2. QED
      BY <1>1, <1>2, <2>1, <3>1, UpdateStatusTyped
      DEF MirrorBusy, DriverTypeOK, reqVars, flushVars, sweepVars
  <2>2. CASE FinalizeMatch(t) \/ FinalizeAnswerLost(t)
    <3>1. pgStatus' \in [Drivers -> Status]
      BY <1>1, <1>2, <2>2
      DEF FinalizeMatch, FinalizeAnswerLost, CommitMatch, DriverTypeOK, Status
    <3>2. QED
      BY <1>2, <2>2, <3>1
      DEF FinalizeMatch, FinalizeAnswerLost, DriverTypeOK, liveVars, reqVars, flushVars, sweepVars
  <2>3. QED
    BY <2>1, <2>2
<1>4. MatchTypeOK'
  <2> USE DEF MatchTypeOK, PCs, Held, Goto, Leave
  <2>1. CASE MirrorBusy(t)
    BY <1>2, <2>1 DEF MirrorBusy, tripVars
  <2>2. CASE FinalizeMatch(t)
    BY <1>1, <1>2, <2>2 DEF FinalizeMatch, CommitMatch
  <2>3. CASE FinalizeAnswerLost(t)
    BY <1>1, <1>2, <2>3 DEF FinalizeAnswerLost, CommitMatch
  <2>4. QED
    BY <2>1, <2>2, <2>3
<1>5. QED
  BY <1>3, <1>4, TypeOKSplits DEF TypeOK, MatchTypeOK

\* The steps that are not a run's own: a TTL, the other writers of DriverStatus, a crash.
LEMMA EnvironmentTyped ==
  ASSUME TypeOK,
         \/ \E d \in Drivers : LockExpires(d)
         \/ DriverStep /\ UNCHANGED matchVars
         \/ Crash
  PROVE  TypeOK'
<1>1. ASSUME NEW d \in Drivers, LockExpires(d)
      PROVE  TypeOK'
  BY <1>1 DEF LockExpires, TypeOK, DriverTypeOK, driverVars, tripVars
<1>2. CASE DriverStep /\ UNCHANGED matchVars
  <2>1. DriverTypeOK'
    BY <1>2, DriverStepTyped DEF TypeOK
  <2>2. QED
    BY <1>2, <2>1 DEF TypeOK, matchVars
<1>3. CASE Crash
  <2>1. DriverTypeOK'
    BY <1>3, DriverCrashTyped DEF TypeOK, Crash
  <2>2. pc' \in [Trips -> PCs] /\ \A t \in Trips : pc'[t] \notin Held
    BY <1>3 DEF Crash, PCs, Held
  <2>3. /\ cands' \in [Trips -> SUBSET Drivers]
        /\ cur' \in [Trips -> Drivers \cup {NoDriver}]
        /\ verdict' \in [Trips -> {"none", "next", "matched", "threw"}]
    BY <1>3 DEF Crash
  <2>4. QED
    BY <1>3, <2>1, <2>2, <2>3 DEF Crash, TypeOK, tripVars
<1>4. QED
  BY <1>1, <1>2, <1>3

\* The initial states are well-typed.
LEMMA InitTyped == Init => TypeOK
<1> SUFFICES ASSUME Init PROVE TypeOK
  OBVIOUS
<1>1. DriverTypeOK
  BY DriverInitTyped DEF Init
<1>2. MatchTypeOK
  BY DEF Init, MatchTypeOK, PCs, Held
<1>3. QED
  BY <1>1, <1>2, TypeOKSplits

\* And every step keeps them so.
LEMMA NextTyped == TypeOK /\ [Next]_vars => TypeOK'
<1> SUFFICES ASSUME TypeOK, [Next]_vars PROVE TypeOK'
  OBVIOUS
<1>1. CASE UNCHANGED vars
  BY <1>1 DEF vars, driverVars, matchVars, TypeOK, DriverTypeOK
<1>2. ASSUME NEW t \in Trips,
             \/ RequestTrip(t) \/ MatchStep(t)
             \/ \E d \in Drivers, accept \in BOOLEAN : DriverResponds(d, t, accept)
             \/ MatchFails(t) \/ MirrorLost(t)
             \/ \E d \in Drivers : AcquireAnswerLost(t, d)
             \/ FinalizeAnswerLost(t)
      PROVE  TypeOK'
  <2>1. CASE FinalizeMatch(t) \/ FinalizeAnswerLost(t) \/ MirrorBusy(t)
    BY <2>1, CommitTyped
  <2>2. CASE ~(FinalizeMatch(t) \/ FinalizeAnswerLost(t) \/ MirrorBusy(t))
    <3>1. \/ RequestTrip(t) \/ ReadTrip(t) \/ SearchNearby(t)
          \/ \E d \in Drivers : AcquireLock(t, d) \/ AcquireAnswerLost(t, d)
          \/ SendOffer(t) \/ OfferTimeout(t)
          \/ \E d \in Drivers, accept \in BOOLEAN : DriverResponds(d, t, accept)
          \/ ConfirmMatch(t) \/ ReleaseLock(t) \/ ResolveUnmatched(t) \/ MatchFails(t)
          \/ MirrorLost(t)
      BY <1>2, <2>2 DEF MatchStep
    <3>2. UNCHANGED driverVars
      BY <3>1 DEF RequestTrip, ReadTrip, SearchNearby, AcquireLock, AcquireAnswerLost,
                  SendOffer, OfferTimeout, DriverResponds, ConfirmMatch, ReleaseLock,
                  ResolveUnmatched, MatchFails, MirrorLost
    <3>3. QED
      BY <3>1, <3>2, MatchOnlyTyped
  <2>3. QED
    BY <2>1, <2>2
<1>3. QED
  BY <1>1, <1>2, EnvironmentTyped DEF Next

\* The types of the composed system: whoever interleaves, crashes or fails with whom.
THEOREM TypeCorrect == Spec => []TypeOK
BY InitTyped, NextTyped, PTL DEF Spec

-----------------------------------------------------------------------------
(***************************************************************************)
(* Where a run is, given the trip's row.                                    *)
(***************************************************************************)
\* A trip without a row has no run; the run of a matched trip is past its commit.
PhaseInv ==
  \A t \in Trips :
    /\ tripStatus[t] = "absent" => pc[t] = "idle"
    /\ tripStatus[t] = "matched" => \/ pc[t] \in {"mirror", "confirm", "done"}
                                    \/ pc[t] = "release" /\ verdict[t] # "next"

\* PhaseInv is inductive.
LEMMA PhaseKept == TypeOK /\ PhaseInv /\ [Next]_vars => PhaseInv'
<1> SUFFICES ASSUME TypeOK, PhaseInv, [Next]_vars
             PROVE  PhaseInv'
  OBVIOUS
<1>1. /\ tripStatus \in [Trips -> {"absent", "requested", "matched", "cancelled"}]
      /\ pc \in [Trips -> PCs]
      /\ verdict \in [Trips -> {"none", "next", "matched", "threw"}]
  BY DEF TypeOK
<1> USE <1>1 DEF PhaseInv, Goto, Leave, tripVars
<1>2. CASE UNCHANGED matchVars
  BY <1>2 DEF matchVars
<1>3. CASE Crash
  BY <1>3 DEF Crash
<1>4. ASSUME NEW d \in Drivers, LockExpires(d)
      PROVE  PhaseInv'
  BY <1>4 DEF LockExpires
<1>5. ASSUME NEW t \in Trips, \/ RequestTrip(t) \/ MatchStep(t)
                              \/ \E d \in Drivers, accept \in BOOLEAN : DriverResponds(d, t, accept)
                              \/ MatchFails(t) \/ MirrorLost(t)
                              \/ \E d \in Drivers : AcquireAnswerLost(t, d)
                              \/ FinalizeAnswerLost(t)
      PROVE  PhaseInv'
  <2>1. CASE RequestTrip(t)
    BY <2>1 DEF RequestTrip
  <2>2. CASE ReadTrip(t)
    BY <2>2 DEF ReadTrip
  <2>3. CASE SearchNearby(t)
    BY <2>3 DEF SearchNearby
  <2>4. ASSUME NEW d \in Drivers, AcquireLock(t, d)
        PROVE  PhaseInv'
    BY <2>4 DEF AcquireLock
  <2>5. CASE SendOffer(t)
    BY <2>5 DEF SendOffer
  <2>6. CASE OfferTimeout(t)
    BY <2>6 DEF OfferTimeout, OfferPending
  <2>7. ASSUME NEW d \in Drivers, NEW accept \in BOOLEAN, DriverResponds(d, t, accept)
        PROVE  PhaseInv'
    BY <2>7 DEF DriverResponds, OfferPending
  <2>8. CASE FinalizeMatch(t)
    BY <2>8 DEF FinalizeMatch, CanFinalize, CommitMatch
  <2>9. CASE FinalizeAnswerLost(t)
    BY <2>9 DEF FinalizeAnswerLost, CanFinalize, CommitMatch
  <2>10. CASE MirrorBusy(t)
    BY <2>10 DEF MirrorBusy
  <2>11. CASE ConfirmMatch(t)
    BY <2>11 DEF ConfirmMatch
  <2>12. CASE ReleaseLock(t)
    BY <2>12 DEF ReleaseLock, AfterRelease
  <2>13. CASE ResolveUnmatched(t)
    BY <2>13 DEF ResolveUnmatched
  <2>14. CASE MatchFails(t) \/ MirrorLost(t)
    BY <2>14 DEF MatchFails, MirrorLost
  <2>15. ASSUME NEW d \in Drivers, AcquireAnswerLost(t, d)
         PROVE  PhaseInv'
    BY <2>15 DEF AcquireAnswerLost
  <2>16. QED
    BY <1>5, <2>1, <2>2, <2>3, <2>4, <2>5, <2>6, <2>7, <2>8, <2>9, <2>10, <2>11, <2>12,
       <2>13, <2>14, <2>15 DEF MatchStep
<1>6. QED
  BY <1>2, <1>3, <1>4, <1>5 DEF Next, vars

-----------------------------------------------------------------------------
(***************************************************************************)
(* Acceptances.                                                             *)
(***************************************************************************)
\* The driver a run waits for or is about to commit was sent the offer; a commit is only begun
\* once somebody accepted.
OfferInv ==
  \A t \in Trips :
    /\ pc[t] \in {"waiting", "finalize"} => offer[t][cur[t]] # "none"
    /\ pc[t] = "finalize" => \E d \in Drivers : offer[t][d] = "accepted"

\* OfferInv and MatchHasAcceptance are inductive together.
LEMMA AcceptanceKept ==
  TypeOK /\ PhaseInv /\ OfferInv /\ MatchHasAcceptance /\ [Next]_vars
    => OfferInv' /\ MatchHasAcceptance'
<1> SUFFICES ASSUME TypeOK, PhaseInv, OfferInv, MatchHasAcceptance, [Next]_vars
             PROVE  OfferInv' /\ MatchHasAcceptance'
  OBVIOUS
<1>1. /\ tripStatus \in [Trips -> {"absent", "requested", "matched", "cancelled"}]
      /\ tripDriver \in [Trips -> Drivers \cup {NoDriver}]
      /\ pc \in [Trips -> PCs]
      /\ cur \in [Trips -> Drivers \cup {NoDriver}]
      /\ \A t \in Trips : pc[t] \in Held => cur[t] \in Drivers
      /\ verdict \in [Trips -> {"none", "next", "matched", "threw"}]
      /\ offer \in [Trips -> [Drivers -> {"none", "open", "accepted", "declined"}]]
  BY DEF TypeOK
<1> USE <1>1 DEF OfferInv, MatchHasAcceptance, Goto, Leave, tripVars
<1>2. CASE UNCHANGED matchVars
  BY <1>2 DEF matchVars
<1>3. CASE Crash
  BY <1>3 DEF Crash
<1>4. ASSUME NEW d \in Drivers, LockExpires(d)
      PROVE  OfferInv' /\ MatchHasAcceptance'
  BY <1>4 DEF LockExpires
<1>5. ASSUME NEW t \in Trips, \/ RequestTrip(t) \/ MatchStep(t)
                              \/ \E d \in Drivers, accept \in BOOLEAN : DriverResponds(d, t, accept)
                              \/ MatchFails(t) \/ MirrorLost(t)
                              \/ \E d \in Drivers : AcquireAnswerLost(t, d)
                              \/ FinalizeAnswerLost(t)
      PROVE  OfferInv' /\ MatchHasAcceptance'
  <2>1. CASE RequestTrip(t)
    BY <2>1 DEF RequestTrip
  <2>2. CASE ReadTrip(t)
    BY <2>2 DEF ReadTrip
  <2>3. CASE SearchNearby(t)
    BY <2>3 DEF SearchNearby
  <2>4. ASSUME NEW d \in Drivers, AcquireLock(t, d)
        PROVE  OfferInv' /\ MatchHasAcceptance'
    BY <2>4 DEF AcquireLock
  <2>5. CASE SendOffer(t)
    <3>1. pc[t] = "send" /\ cur[t] \in Drivers /\ tripStatus[t] # "matched"
      BY <2>5 DEF SendOffer, Held, PhaseInv
    <3>2. QED
      BY <2>5, <3>1 DEF SendOffer
  <2>6. CASE OfferTimeout(t)
    BY <2>6 DEF OfferTimeout, OfferPending
  <2>7. ASSUME NEW d \in Drivers, NEW accept \in BOOLEAN, DriverResponds(d, t, accept)
        PROVE  OfferInv' /\ MatchHasAcceptance'
    <3>1. \A u \in Trips, e \in Drivers :
            /\ offer[u][e] # "none" => offer'[u][e] # "none"
            /\ offer[u][e] = "accepted" => offer'[u][e] = "accepted"
      BY <2>7 DEF DriverResponds
    <3>2. MatchHasAcceptance'
      BY <2>7, <3>1 DEF DriverResponds
    <3>3. accept => offer'[t][d] = "accepted"
      BY <2>7 DEF DriverResponds
    <3>4. \A u \in Trips : /\ u # t => pc'[u] = pc[u]
                           /\ pc'[t] \in {"waiting", "finalize"} => pc[t] \in {"waiting", "finalize"}
                           /\ pc'[t] = "finalize" => accept \/ pc[t] = "finalize"
      BY <2>7 DEF DriverResponds, OfferPending
    <3>5. \A u \in Trips : pc'[u] \in {"waiting", "finalize"} => offer'[u][cur[u]] # "none"
      <4>1. \A u \in Trips : pc'[u] \in {"waiting", "finalize"} => pc[u] \in {"waiting", "finalize"}
        BY <3>4
      <4>2. QED
        BY <3>1, <4>1 DEF Held
    <3>6. \A u \in Trips : pc'[u] = "finalize" => \E e \in Drivers : offer'[u][e] = "accepted"
      BY <3>1, <3>3, <3>4
    <3>7. cur' = cur
      BY <2>7 DEF DriverResponds
    <3>8. QED
      BY <3>2, <3>5, <3>6, <3>7
  <2>8. CASE FinalizeMatch(t)
    BY <2>8 DEF FinalizeMatch, CommitMatch, Held
  <2>9. CASE FinalizeAnswerLost(t)
    BY <2>9 DEF FinalizeAnswerLost, CommitMatch, Held
  <2>10. CASE MirrorBusy(t)
    BY <2>10 DEF MirrorBusy
  <2>11. CASE ConfirmMatch(t)
    BY <2>11 DEF ConfirmMatch
  <2>12. CASE ReleaseLock(t)
    BY <2>12 DEF ReleaseLock, AfterRelease
  <2>13. CASE ResolveUnmatched(t)
    BY <2>13 DEF ResolveUnmatched
  <2>14. CASE MatchFails(t) \/ MirrorLost(t)
    BY <2>14 DEF MatchFails, MirrorLost
  <2>15. ASSUME NEW d \in Drivers, AcquireAnswerLost(t, d)
         PROVE  OfferInv' /\ MatchHasAcceptance'
    BY <2>15 DEF AcquireAnswerLost
  <2>16. QED
    BY <1>5, <2>1, <2>2, <2>3, <2>4, <2>5, <2>6, <2>7, <2>8, <2>9, <2>10, <2>11, <2>12,
       <2>13, <2>14, <2>15 DEF MatchStep
<1>6. QED
  BY <1>2, <1>3, <1>4, <1>5 DEF Next, vars

-----------------------------------------------------------------------------
(***************************************************************************)
(* Locks.                                                                   *)
(***************************************************************************)
\* A run's steps that touch neither the lock table nor the run's candidate.
KeepsLock(t) ==
  \/ RequestTrip(t) \/ ReadTrip(t) \/ SearchNearby(t) \/ SendOffer(t) \/ OfferTimeout(t)
  \/ \E d \in Drivers, accept \in BOOLEAN : DriverResponds(d, t, accept)
  \/ FinalizeMatch(t) \/ FinalizeAnswerLost(t) \/ MirrorBusy(t) \/ ConfirmMatch(t)
  \/ ResolveUnmatched(t) \/ MatchFails(t) \/ MirrorLost(t)

\* Such a step moves one run only, enters "waiting" from "send" only, and, as long as no store
\* call fails, does not leave the part of the run where the lock is held.
LEMMA KeepsLockFrame ==
  ASSUME TypeOK, PhaseInv, NEW t \in Trips, KeepsLock(t)
  PROVE  /\ UNCHANGED <<lock, cur>>
         /\ \A u \in Trips : u # t => pc'[u] = pc[u]
         /\ pc'[t] \in {"send", "waiting"} => pc[t] \in {"send", "waiting"}
         /\ ~Faults => (pc[t] \in Held => pc'[t] \in Held)
<1>1. /\ pc \in [Trips -> PCs]
      /\ cands \in [Trips -> SUBSET Drivers]
  BY DEF TypeOK
<1> USE <1>1 DEF Held, Goto, Leave
<1>2. CASE RequestTrip(t)
  <2>1. pc[t] = "idle" /\ pc' = [pc EXCEPT ![t] = "read"]
    BY <1>2 DEF RequestTrip, PhaseInv
  <2>2. QED
    BY <1>2, <2>1 DEF RequestTrip
<1>3. CASE ReadTrip(t) \/ SearchNearby(t)
  BY <1>3 DEF ReadTrip, SearchNearby
<1>4. CASE SendOffer(t)
  BY <1>4 DEF SendOffer
<1>5. CASE OfferTimeout(t)
  BY <1>5 DEF OfferTimeout, OfferPending
<1>6. ASSUME NEW d \in Drivers, NEW accept \in BOOLEAN, DriverResponds(d, t, accept)
      PROVE  /\ UNCHANGED <<lock, cur>>
             /\ \A u \in Trips : u # t => pc'[u] = pc[u]
             /\ pc'[t] \in {"send", "waiting"} => pc[t] \in {"send", "waiting"}
             /\ ~Faults => (pc[t] \in Held => pc'[t] \in Held)
  BY <1>6 DEF DriverResponds, OfferPending
<1>7. CASE FinalizeMatch(t) \/ FinalizeAnswerLost(t) \/ MirrorBusy(t) \/ ConfirmMatch(t)
  BY <1>7 DEF FinalizeMatch, FinalizeAnswerLost, MirrorBusy, ConfirmMatch
<1>8. CASE ResolveUnmatched(t) \/ MatchFails(t) \/ MirrorLost(t)
  BY <1>8 DEF ResolveUnmatched, MatchFails, MirrorLost
<1>9. QED
  BY <1>2, <1>3, <1>4, <1>5, <1>6, <1>7, <1>8 DEF KeepsLock

\* The steps of the system, sorted by what they do to the locks.
LEMMA NextByLock ==
  ASSUME [Next]_vars
  PROVE  \/ UNCHANGED matchVars
         \/ \E t \in Trips : \/ KeepsLock(t)
                             \/ \E d \in Drivers : AcquireLock(t, d) \/ AcquireAnswerLost(t, d)
                             \/ ReleaseLock(t)
         \/ \E d \in Drivers : LockExpires(d)
         \/ Crash
BY DEF Next, MatchStep, KeepsLock, vars

\* OfferHoldsLock is inductive: an acquisition takes no held lock, a release compares the
\* owner, and the TTL spares a lock whose offer is open.
LEMMA OfferHoldsLockKept == TypeOK /\ PhaseInv /\ OfferHoldsLock /\ [Next]_vars => OfferHoldsLock'
<1> SUFFICES ASSUME TypeOK, PhaseInv, OfferHoldsLock, [Next]_vars,
                    NEW u \in Trips, pc'[u] \in {"send", "waiting"}
             PROVE  lock'[cur'[u]] = u
  BY DEF OfferHoldsLock
<1>1. /\ pc \in [Trips -> PCs]
      /\ lock \in [Drivers -> Trips \cup {NoTrip}]
      /\ cur \in [Trips -> Drivers \cup {NoDriver}]
      /\ \A t \in Trips : pc[t] \in Held => cur[t] \in Drivers
  BY DEF TypeOK
<1>2. \A t \in Trips : pc[t] \in {"send", "waiting"} => lock[cur[t]] = t /\ cur[t] \in Drivers
  BY <1>1 DEF OfferHoldsLock, Held
<1> USE DEF Goto
<1>3. CASE UNCHANGED matchVars
  BY <1>2, <1>3 DEF matchVars
<1>4. ASSUME NEW t \in Trips, KeepsLock(t)
      PROVE  lock'[cur'[u]] = u
  <2>1. pc[u] \in {"send", "waiting"} /\ UNCHANGED <<lock, cur>>
    BY <1>4, KeepsLockFrame
  <2>2. QED
    BY <1>2, <2>1
<1>5. ASSUME NEW t \in Trips, NEW d \in Drivers, AcquireLock(t, d)
      PROVE  lock'[cur'[u]] = u
  <2>1. CASE ~LockFree(d)
    BY <1>2, <1>5, <2>1 DEF AcquireLock
  <2>2. CASE LockFree(d) /\ u = t
    BY <1>1, <1>5, <2>2 DEF AcquireLock
  <2>3. CASE LockFree(d) /\ u # t
    <3>1. pc[u] \in {"send", "waiting"} /\ cur'[u] = cur[u] /\ lock' = [lock EXCEPT ![d] = t]
      BY <1>1, <1>5, <2>3 DEF AcquireLock
    <3>2. cur[u] # d
      BY <1>2, <2>3, <3>1, NoTripAssumption DEF LockFree
    <3>3. QED
      BY <1>1, <1>2, <3>1, <3>2
  <2>4. QED
    BY <2>1, <2>2, <2>3
<1>6. ASSUME NEW t \in Trips, NEW d \in Drivers, AcquireAnswerLost(t, d)
      PROVE  lock'[cur'[u]] = u
  <2>1. /\ pc[u] \in {"send", "waiting"} /\ cur'[u] = cur[u] /\ lock' = [lock EXCEPT ![d] = t]
        /\ LockFree(d)
    BY <1>1, <1>6 DEF AcquireAnswerLost
  <2>2. cur[u] # d
    BY <1>2, <2>1, NoTripAssumption DEF LockFree
  <2>3. QED
    BY <1>1, <1>2, <2>1, <2>2
<1>7. ASSUME NEW t \in Trips, ReleaseLock(t)
      PROVE  lock'[cur'[u]] = u
  <2>1. u # t /\ pc[u] \in {"send", "waiting"} /\ cur'[u] = cur[u]
    BY <1>1, <1>7 DEF ReleaseLock, AfterRelease
  <2>2. lock' = [lock EXCEPT ![cur[t]] = IF OwnsLock(t, cur[t]) THEN NoTrip ELSE lock[cur[t]]]
    BY <1>7 DEF ReleaseLock
  <2>3. CASE cur[u] = cur[t]
    <3>1. ~OwnsLock(t, cur[t])
      BY <1>2, <2>1, <2>3 DEF OwnsLock
    <3>2. QED
      BY <1>1, <1>2, <2>1, <2>2, <2>3, <3>1
  <2>4. CASE cur[u] # cur[t]
    BY <1>1, <1>2, <2>1, <2>2, <2>4
  <2>5. QED
    BY <2>3, <2>4
<1>8. ASSUME NEW d \in Drivers, LockExpires(d)
      PROVE  lock'[cur'[u]] = u
  <2>1. pc[u] \in {"send", "waiting"} /\ UNCHANGED cur /\ lock' = [lock EXCEPT ![d] = NoTrip]
    BY <1>8 DEF LockExpires
  <2>2. cur[u] # d
    BY <1>2, <1>8, <2>1 DEF LockExpires, Held
  <2>3. QED
    BY <1>1, <1>2, <2>1, <2>2
<1>9. CASE Crash
  BY <1>9 DEF Crash
<1>10. QED
  BY <1>3, <1>4, <1>5, <1>6, <1>7, <1>8, <1>9, NextByLock

\* LockOnlyWhileTrying is inductive.
LEMMA LockOnlyKept ==
  TypeOK /\ PhaseInv /\ LockOnlyWhileTrying /\ [Next]_vars => LockOnlyWhileTrying'
<1> SUFFICES ASSUME TypeOK, PhaseInv, LockOnlyWhileTrying, [Next]_vars, ~Faults,
                    NEW u \in Trips, NEW e \in Drivers, lock'[e] = u
             PROVE  pc'[u] \in Held /\ cur'[u] = e
  BY DEF LockOnlyWhileTrying
<1>1. /\ pc \in [Trips -> PCs]
      /\ lock \in [Drivers -> Trips \cup {NoTrip}]
      /\ cur \in [Trips -> Drivers \cup {NoDriver}]
      /\ \A t \in Trips : pc[t] \in Held => cur[t] \in Drivers
  BY DEF TypeOK
<1>2. \A t \in Trips, d \in Drivers : lock[d] = t => pc[t] \in Held /\ cur[t] = d
  BY DEF LockOnlyWhileTrying
<1> USE DEF Goto
<1>3. CASE UNCHANGED matchVars
  BY <1>2, <1>3 DEF matchVars
<1>4. ASSUME NEW t \in Trips, KeepsLock(t)
      PROVE  pc'[u] \in Held /\ cur'[u] = e
  BY <1>2, <1>4, KeepsLockFrame
<1>5. ASSUME NEW t \in Trips, NEW d \in Drivers, AcquireLock(t, d)
      PROVE  pc'[u] \in Held /\ cur'[u] = e
  <2>1. CASE ~LockFree(d)
    BY <1>2, <1>5, <2>1 DEF AcquireLock
  <2>2. CASE LockFree(d)
    <3>1. /\ lock' = [lock EXCEPT ![d] = t] /\ cur' = [cur EXCEPT ![t] = d]
          /\ pc' = [pc EXCEPT ![t] = "send"] /\ pc[t] \notin Held
      BY <1>5, <2>2 DEF AcquireLock, Held
    <3>2. CASE e = d
      BY <1>1, <3>1, <3>2 DEF Held
    <3>3. CASE e # d
      <4>1. lock[e] = u
        BY <1>1, <3>1, <3>3
      <4>2. u # t
        BY <1>2, <3>1, <4>1
      <4>3. QED
        BY <1>1, <1>2, <3>1, <4>1, <4>2
    <3>4. QED
      BY <3>2, <3>3
  <2>3. QED
    BY <2>1, <2>2
<1>6. ASSUME NEW t \in Trips, NEW d \in Drivers, AcquireAnswerLost(t, d)
      PROVE  FALSE
  BY <1>6 DEF AcquireAnswerLost
<1>7. ASSUME NEW t \in Trips, ReleaseLock(t)
      PROVE  pc'[u] \in Held /\ cur'[u] = e
  <2>1. lock' = [lock EXCEPT ![cur[t]] = IF OwnsLock(t, cur[t]) THEN NoTrip ELSE lock[cur[t]]]
    BY <1>7 DEF ReleaseLock
  <2>2. lock[e] = u /\ pc[u] \in Held /\ cur[u] = e
    BY <1>1, <1>2, <2>1, NoTripAssumption
  <2>3. u # t
    BY <1>1, <2>1, <2>2, NoTripAssumption DEF OwnsLock
  <2>4. QED
    BY <1>1, <1>7, <2>2, <2>3 DEF ReleaseLock
<1>8. ASSUME NEW d \in Drivers, LockExpires(d)
      PROVE  pc'[u] \in Held /\ cur'[u] = e
  BY <1>1, <1>2, <1>8, NoTripAssumption DEF LockExpires
<1>9. CASE Crash
  BY <1>9 DEF Crash, DriverCrash
<1>10. QED
  BY <1>3, <1>4, <1>5, <1>6, <1>7, <1>8, <1>9, NextByLock

-----------------------------------------------------------------------------
\* The inductive invariant of Matching.
IInv == TypeOK /\ PhaseInv /\ OfferInv /\ MatchHasAcceptance /\ OfferHoldsLock /\ LockOnlyWhileTrying

\* It holds of the initial states and is preserved by every step.
THEOREM Inductive == Spec => []IInv
<1>1. Init => IInv
  <2> SUFFICES ASSUME Init PROVE IInv
    OBVIOUS
  <2>1. TypeOK
    BY InitTyped
  <2>2. PhaseInv /\ OfferInv /\ MatchHasAcceptance /\ OfferHoldsLock
    BY DEF Init, PhaseInv, OfferInv, MatchHasAcceptance, OfferHoldsLock
  <2>3. LockOnlyWhileTrying
    BY NoTripAssumption DEF Init, LockOnlyWhileTrying
  <2>4. QED
    BY <2>1, <2>2, <2>3 DEF IInv
<1>2. IInv /\ [Next]_vars => IInv'
  BY NextTyped, PhaseKept, AcceptanceKept, OfferHoldsLockKept, LockOnlyKept DEF IInv
<1>3. QED
  BY <1>1, <1>2, PTL DEF Spec

\* An open offer is protected by its driver's lock, whatever fails, crashes or is slow.
THEOREM OfferProtected == Spec => []OfferHoldsLock
BY Inductive, PTL DEF IInv

\* Hence no driver is ever asked about two trips at a time.
THEOREM OneOfferPerDriver == Spec => []OfferExclusive
<1>1. IInv => OfferExclusive
  BY DEF IInv, OfferHoldsLock, OfferExclusive
<1>2. QED
  BY <1>1, Inductive, PTL

\* While no store call fails, every lock has a run that is using it.
THEOREM LocksAccounted == Spec => []LockOnlyWhileTrying
BY Inductive, PTL DEF IInv

\* No trip is matched without an acceptance, whatever fails, crashes or is slow.
THEOREM MatchesAccepted == Spec => []MatchHasAcceptance
BY Inductive, PTL DEF IInv

-----------------------------------------------------------------------------
(***************************************************************************)
(* One trip per driver.                                                     *)
(***************************************************************************)
\* Every step commits a match, creates or cancels a trip, or leaves trips' status and drivers.
LEMMA NextByTrip ==
  ASSUME TypeOK, [Next]_vars
  PROVE  \/ \E t \in Trips : /\ CanFinalize(t, cur[t]) /\ cur[t] \in Drivers
                             /\ CommitMatch(t, cur[t]) /\ UNCHANGED tripReason
         \/ \E t \in Trips : RequestTrip(t) \/ ResolveUnmatched(t)
         \/ UNCHANGED tripVars
<1>1. ASSUME NEW t \in Trips, FinalizeMatch(t) \/ FinalizeAnswerLost(t)
      PROVE  \/ /\ CanFinalize(t, cur[t]) /\ cur[t] \in Drivers
                /\ CommitMatch(t, cur[t]) /\ UNCHANGED tripReason
             \/ UNCHANGED tripVars
  BY <1>1 DEF FinalizeMatch, FinalizeAnswerLost, TypeOK, Held, tripVars
<1>2. ASSUME NEW t \in Trips,
             \/ ReadTrip(t) \/ SearchNearby(t) \/ SendOffer(t) \/ OfferTimeout(t)
             \/ MirrorBusy(t) \/ ConfirmMatch(t) \/ ReleaseLock(t) \/ MatchFails(t) \/ MirrorLost(t)
             \/ \E d \in Drivers : AcquireLock(t, d) \/ AcquireAnswerLost(t, d)
             \/ \E d \in Drivers, accept \in BOOLEAN : DriverResponds(d, t, accept)
      PROVE  UNCHANGED tripVars
  BY <1>2 DEF ReadTrip, SearchNearby, SendOffer, OfferTimeout, MirrorBusy, ConfirmMatch,
              ReleaseLock, MatchFails, MirrorLost, AcquireLock, AcquireAnswerLost, DriverResponds
<1>3. CASE (\E d \in Drivers : LockExpires(d)) \/ (DriverStep /\ UNCHANGED matchVars) \/ Crash
  BY <1>3 DEF LockExpires, Crash, matchVars, tripVars
<1>4. CASE UNCHANGED vars
  BY <1>4 DEF vars, matchVars, tripVars
<1>5. QED
  BY <1>1, <1>2, <1>3, <1>4 DEF Next, MatchStep

\* No step takes a driver out of "busy": no PATCH ends its trip, no run of the
\* reconciliation job finds it silent.
StaysBusy == \A d \in Drivers : pgStatus[d] = "busy" => pgStatus'[d] = "busy"

\* A commit needs an online driver and makes it busy in the same step, so two runs that
\* commit the same driver cannot both find it online.
LEMMA BusyKept ==
  /\ TypeOK /\ MatchedDriverBusy /\ OneActiveTripPerDriver /\ [Next]_vars /\ [StaysBusy]_vars
  => MatchedDriverBusy' /\ OneActiveTripPerDriver'
<1> SUFFICES ASSUME TypeOK, MatchedDriverBusy, OneActiveTripPerDriver, [Next]_vars, [StaysBusy]_vars
             PROVE  MatchedDriverBusy' /\ OneActiveTripPerDriver'
  OBVIOUS
<1>1. /\ tripStatus \in [Trips -> {"absent", "requested", "matched", "cancelled"}]
      /\ tripDriver \in [Trips -> Drivers \cup {NoDriver}]
      /\ pgStatus \in [Drivers -> Status]
  BY DEF TypeOK, DriverTypeOK
<1>2. StaysBusy
  <2>1. CASE UNCHANGED vars
    BY <2>1 DEF vars, driverVars, StaysBusy
  <2>2. QED
    BY <2>1
<1>3. ASSUME NEW t \in Trips, CanFinalize(t, cur[t]), cur[t] \in Drivers, CommitMatch(t, cur[t])
      PROVE  MatchedDriverBusy' /\ OneActiveTripPerDriver'
  <2>1. \A u \in Trips : tripStatus[u] = "matched" => tripDriver[u] # cur[t]
    BY <1>3 DEF CanFinalize, MatchedDriverBusy
  <2>2. /\ tripStatus' = [tripStatus EXCEPT ![t] = "matched"]
        /\ tripDriver' = [tripDriver EXCEPT ![t] = cur[t]]
        /\ pgStatus' = [pgStatus EXCEPT ![cur[t]] = "busy"]
    BY <1>3 DEF CommitMatch
  <2>3. MatchedDriverBusy'
    BY <1>1, <1>3, <2>2 DEF MatchedDriverBusy
  <2>4. OneActiveTripPerDriver'
    BY <1>1, <2>1, <2>2 DEF OneActiveTripPerDriver
  <2>5. QED
    BY <2>3, <2>4
<1>4. ASSUME NEW t \in Trips, RequestTrip(t) \/ ResolveUnmatched(t)
      PROVE  MatchedDriverBusy' /\ OneActiveTripPerDriver'
  <2>1. /\ UNCHANGED tripDriver
        /\ \A u \in Trips : tripStatus'[u] = "matched" => tripStatus[u] = "matched"
    BY <1>1, <1>4 DEF RequestTrip, ResolveUnmatched, tripVars
  <2>2. QED
    BY <1>2, <2>1 DEF MatchedDriverBusy, OneActiveTripPerDriver, StaysBusy
<1>5. CASE UNCHANGED tripVars
  BY <1>2, <1>5 DEF MatchedDriverBusy, OneActiveTripPerDriver, StaysBusy, tripVars
<1>6. QED
  BY <1>3, <1>4, <1>5, NextByTrip

\* The two facts are each other's reason: a commit that finds its driver online knows that no
\* matched trip has it, since the driver of one is busy.
LEMMA BusyInductive ==
  Spec /\ [][StaysBusy]_vars => [](OneActiveTripPerDriver /\ MatchedDriverBusy)
<1>1. Init => OneActiveTripPerDriver /\ MatchedDriverBusy
  BY DEF Init, OneActiveTripPerDriver, MatchedDriverBusy
<1>2. QED
  BY <1>1, BusyKept, TypeCorrect, PTL DEF Spec

\* As long as nobody takes a driver out of "busy", no driver is on two trips: what the row
\* locks and the status check of tryFinalizeMatch are worth by themselves, without the Redis
\* lock, which may have expired or been lost.
THEOREM NoDoubleBooking == Spec /\ [][StaysBusy]_vars => []OneActiveTripPerDriver
BY BusyInductive, PTL

\* On the same condition the driver of a matched trip is busy in Postgres from the commit on,
\* whatever pings, mirrors of a status, failures and restarts do in between.
THEOREM MatchedStaysBusy == Spec /\ [][StaysBusy]_vars => []MatchedDriverBusy
BY BusyInductive, PTL

\* The condition is about PATCH handlers and the reconciliation job only: a system that has
\* neither, but pings, expiring locks, late replies, failures and crashes, meets it.
THEOREM MatchedStaysBusyWithoutPatches ==
  ASSUME Requests = {}, Sweeps = {}
  PROVE  Spec => [](OneActiveTripPerDriver /\ MatchedDriverBusy)
<1>1. TypeOK /\ [Next]_vars => [StaysBusy]_vars
  <2> SUFFICES ASSUME TypeOK, Next PROVE StaysBusy
    OBVIOUS
  <2>1. pgStatus \in [Drivers -> Status]
    BY DEF TypeOK, DriverTypeOK
  <2>2. ASSUME NEW t \in Trips, FinalizeMatch(t) \/ FinalizeAnswerLost(t)
        PROVE  StaysBusy
    BY <2>1, <2>2 DEF FinalizeMatch, FinalizeAnswerLost, CommitMatch, StaysBusy
  <2>3. ASSUME NEW t \in Trips,
               \/ RequestTrip(t) \/ ReadTrip(t) \/ SearchNearby(t) \/ SendOffer(t)
               \/ OfferTimeout(t) \/ MirrorBusy(t) \/ ConfirmMatch(t) \/ ReleaseLock(t)
               \/ ResolveUnmatched(t) \/ MatchFails(t) \/ MirrorLost(t)
               \/ \E d \in Drivers : AcquireLock(t, d) \/ AcquireAnswerLost(t, d)
               \/ \E d \in Drivers, accept \in BOOLEAN : DriverResponds(d, t, accept)
        PROVE  UNCHANGED pgStatus
    BY <2>3 DEF RequestTrip, ReadTrip, SearchNearby, SendOffer, OfferTimeout, MirrorBusy,
                ConfirmMatch, ReleaseLock, ResolveUnmatched, MatchFails, MirrorLost, AcquireLock,
                AcquireAnswerLost, DriverResponds, driverVars, pgVars
  <2>4. (\E d \in Drivers : LockExpires(d)) \/ Crash => UNCHANGED pgStatus
    BY DEF LockExpires, Crash, DriverCrash, driverVars, pgVars
  <2>5. DriverStep => UNCHANGED pgStatus
    BY DEF DriverStep, PatchNext, SweepNext, Ages, FlushNext, Enqueue, FlushWrite, FlushMirror,
                FlushFails, pgVars
  <2>6. CASE UNCHANGED pgStatus
    BY <2>6 DEF StaysBusy
  <2> QED BY <2>2, <2>3, <2>4, <2>5, <2>6 DEF Next, MatchStep
<1> QED BY <1>1, TypeCorrect, BusyInductive, PTL DEF Spec

-----------------------------------------------------------------------------
(***************************************************************************)
(* Matching implements the abstract assignment.                             *)
(***************************************************************************)
\* Every step of the system is a step of TripAssignment or a stutter.
LEMMA StepRefines == TypeOK /\ [Next]_vars => [Assignment!Next]_(Assignment!assignVars)
<1> SUFFICES ASSUME TypeOK, [Next]_vars
             PROVE  Assignment!Next \/ UNCHANGED Assignment!assignVars
  OBVIOUS
<1> DEFINE free == {d \in Drivers : pgStatus[d] = "online"}
<1>1. pgStatus \in [Drivers -> Status]
  BY DEF TypeOK, DriverTypeOK
<1>2. ASSUME NEW t \in Trips, CanFinalize(t, cur[t]), cur[t] \in Drivers,
             CommitMatch(t, cur[t]), UNCHANGED tripReason
      PROVE  Assignment!Assign(t, cur[t])
  <2>1. cur[t] \in free /\ free' = free \ {cur[t]}
    BY <1>1, <1>2 DEF CanFinalize, CommitMatch
  <2>2. QED
    BY <1>2, <2>1 DEF CanFinalize, CommitMatch, Assignment!Assign
<1>3. ASSUME NEW t \in Trips, RequestTrip(t)
      PROVE  Assignment!Request(t)
  BY <1>3 DEF RequestTrip, driverVars, Assignment!Request
<1>4. ASSUME NEW t \in Trips, ResolveUnmatched(t)
      PROVE  \/ Assignment!Cancel(t, UnmatchedReason(t))
             \/ UNCHANGED Assignment!assignVars
  BY <1>4 DEF ResolveUnmatched, driverVars, Assignment!Cancel, Assignment!assignVars
<1>5. ASSUME UNCHANGED tripVars
      PROVE  Assignment!ComeAndGo
  BY <1>5 DEF tripVars, Assignment!ComeAndGo
<1>6. \A t \in Trips : UnmatchedReason(t) \in {"no_drivers_available", "all_candidates_declined"}
  BY DEF UnmatchedReason
<1>7. ASSUME NEW t \in Trips, CanFinalize(t, cur[t]), cur[t] \in Drivers,
             CommitMatch(t, cur[t]), UNCHANGED tripReason
      PROVE  Assignment!Next
  <2>1. cur[t] \in Drivers /\ Assignment!Assign(t, cur[t])
    BY <1>2, <1>7
  <2>2. Assignment!Resolve(t)
    BY <2>1 DEF Assignment!Resolve, Assignment!Assign
  <2>3. QED
    BY <2>2 DEF Assignment!Next
<1>8. ASSUME NEW t \in Trips, RequestTrip(t) \/ ResolveUnmatched(t)
      PROVE  Assignment!Next \/ UNCHANGED Assignment!assignVars
  <2>1. CASE RequestTrip(t)
    <3>1. Assignment!Request(t)
      BY <1>3, <2>1
    <3>2. QED
      BY <3>1 DEF Assignment!Next
  <2>2. CASE ResolveUnmatched(t) /\ Assignment!Cancel(t, UnmatchedReason(t))
    <3>1. Assignment!Resolve(t)
      BY <1>6, <2>2 DEF Assignment!Resolve
    <3>2. QED
      BY <3>1 DEF Assignment!Next
  <2>3. QED
    BY <1>4, <1>8, <2>1, <2>2
<1>9. QED
  BY <1>5, <1>7, <1>8, NextByTrip DEF Assignment!Next

\* Whatever the stores, the clients, the job and the clock do, a trip is resolved at most once,
\* and a match takes a driver who is online at that instant.
THEOREM ImplementsTripAssignment == Spec => ImplementsAssignment
<1>1. Init => Assignment!Init
  BY DEF Init, Assignment!Init
<1>2. QED
  BY <1>1, StepRefines, TypeCorrect, PTL DEF Spec, ImplementsAssignment, Assignment!Spec

=============================================================================
