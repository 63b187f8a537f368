--------------------------- MODULE RiderPageProofs ---------------------------
(***************************************************************************)
(* For any number of trips, of pickups and of POSTs under way: the page makes *)
(* one request at a time, shows no other trip's ETA and no other pickup's     *)
(* price, does not take a trip for ended that goes on, and remembers the trip  *)
(* the rider is on.                                                          *)
(*                                                                           *)
(* None of them is inductive alone: what may come back to the page depends on  *)
(* what is on screen, and what is on screen may lag behind the state by one    *)
(* Commit.  Phases says by how much.                                         *)
(***************************************************************************)
EXTENDS RiderPage, FiniteSetTheorems, TLAPS

\* A trip somebody holds the id of has a row.
Known(t) == row[t] # "none"

\* How far each POST is says whether it has a trip.
PostsKnown ==
  \A s \in Posts :
    /\ post[s].at \in {"none", "sent"} => post[s].trip = NoTrip
    /\ post[s].at \in {"inserted", "ok"} => post[s].trip # NoTrip
    /\ post[s].trip # NoTrip => Known(post[s].trip)

TripsKnown ==
  /\ flow.phase \in {"tracking", "resuming"} <=> flow.trip # NoTrip
  /\ flow.trip # NoTrip => Known(flow.trip)
  /\ rendered.flow.phase = "tracking" => rendered.flow.trip # NoTrip /\ Known(rendered.flow.trip)
  /\ stored # NoTrip => Known(stored)
  /\ \A t \in finals : Known(t)

\* What the screen, one Commit late, says of the state.
Phases ==
  /\ rendered.flow.phase = "tracking" =>
       flow = rendered.flow \/ (flow.phase = "picking" /\ stored = NoTrip)
  /\ rendered.flow.phase = "picking" => flow.phase \in {"picking", "submitting"}

\* The page waits for one POST at most, and submittingRef is set while it does.
OnePost ==
  /\ \A s \in Posts : post[s].mine => submitting
  /\ \A s, u \in Posts : post[s].mine /\ post[u].mine => s = u

EtaFollows ==
  /\ EtaIsOfThisTrip
  /\ \A a \in etaAsked : a.live => a.trip = Following /\ ~rendered.terminal
  /\ etaPoll = "on" => Following # NoTrip /\ ~rendered.terminal

PriceFollows ==
  /\ PriceIsOfThisPickup
  /\ \A a \in priceAsked : a.live => a.point = rendered.pickup /\ Picking(rendered.flow)
  /\ pricePoll = "on" => rendered.pickup # NoPoint /\ Picking(rendered.flow)

\* An end that was told of the trip on screen is one, and so is what resuming has read.
EndsAreTrue ==
  /\ about = NoTrip /\ view \in Ended => Following # NoTrip /\ row[Following] \in Ended
  /\ flow.phase = "resuming" /\ flow.read \in Ended => row[flow.trip] \in Ended
  /\ NoFalseEnd

\* What is stored is the trip on screen or, after a failed resumption, one the next POST replaces;
\* a POST that has failed has told its page nothing.
Remembers ==
  /\ flow.phase \in {"tracking", "resuming"} => stored \in {flow.trip, NoTrip}
  /\ \A s \in Posts : post[s].at = "failed" /\ post[s].trip # NoTrip => post[s].trip \in unknown
  /\ ActiveIsRemembered

IInv ==
  /\ TypeOK /\ PostsKnown /\ TripsKnown /\ Phases /\ OnePost
  /\ EtaFollows /\ PriceFollows /\ EndsAreTrue /\ Remembers
-----------------------------------------------------------------------------
(***************************************************************************)
(* Types.                                                                    *)
(***************************************************************************)
\* Rows are never deleted, an end is final, and no active trip comes from nowhere but an INSERT.
LEMMA RowsOnlyAdvance ==
  ASSUME TypeOK, PostsKnown, Next
  PROVE  /\ \A t \in Trips : Known(t) => Known(t)'
         /\ \A t \in Trips : row[t] \in Ended => row'[t] = row[t]
         /\ \A t \in Trips : Active(t)' /\ Known(t) => Active(t)
<1>1. CASE UNCHANGED row
  BY <1>1 DEF Known, Active
<1>2. CASE \E s \in Posts, t \in Trips : PostInserts(s, t)
  BY <1>2 DEF PostInserts, Known, Active, Ended, Status, TypeOK
<1>3. CASE \E t \in Trips : TripMoves(t)
  BY <1>3 DEF TripMoves, Known, Active, Ended, Status, TypeOK
<1>4. UNCHANGED row \/ (\E s \in Posts, t \in Trips : PostInserts(s, t)) \/ \E t \in Trips : TripMoves(t)
  BY Zenon DEF Next, PostStep, HandleSubmit, PostRefused, PostBreaks, PostReplies, AnswerLost, PostAnswered,
     FinalState, FinalStateFails, Commit, HandleRequestAnother, ChoosePoints, SurgePoll, ToldMatched,
     ToldCancelled, ToldEnded, EtaAsks, EtaAnswered, Reload, RiderFound, RiderCheckFails, RetryCheck,
     CreateRider, ResumeReads, ResumeAnswered, ResumeFails, serverVars
<1>5. QED
  BY <1>1, <1>2, <1>3, <1>4

\* The polls of an effect that is cancelled, and one poll more: of the ETA,
LEMMA EtaPolls ==
  ASSUME NEW S, S \subseteq [trip : Trips, live : BOOLEAN]
  PROVE  /\ {[trip |-> a.trip, live |-> FALSE] : a \in S} \subseteq [trip : Trips, live : BOOLEAN]
         /\ \A t \in Trips : S \cup {[trip |-> t, live |-> TRUE]} \subseteq [trip : Trips, live : BOOLEAN]
<1>1. ASSUME NEW a \in S PROVE [trip |-> a.trip, live |-> FALSE] \in [trip : Trips, live : BOOLEAN]
  <2>1. a \in [trip : Trips, live : BOOLEAN]
    OBVIOUS
  <2>2. QED
    BY <2>1
<1>2. ASSUME NEW t \in Trips PROVE [trip |-> t, live |-> TRUE] \in [trip : Trips, live : BOOLEAN]
  OBVIOUS
<1>3. QED
  BY <1>1, <1>2, Zenon

\* and of the surge.
LEMMA PricePolls ==
  ASSUME NEW S, S \subseteq [point : Points, live : BOOLEAN]
  PROVE  /\ {[point |-> a.point, live |-> FALSE] : a \in S} \subseteq [point : Points, live : BOOLEAN]
         /\ \A p \in Points : S \cup {[point |-> p, live |-> TRUE]} \subseteq [point : Points, live : BOOLEAN]
<1>1. ASSUME NEW a \in S PROVE [point |-> a.point, live |-> FALSE] \in [point : Points, live : BOOLEAN]
  <2>1. a \in [point : Points, live : BOOLEAN]
    OBVIOUS
  <2>2. QED
    BY <2>1
<1>2. ASSUME NEW p \in Points PROVE [point |-> p, live |-> TRUE] \in [point : Points, live : BOOLEAN]
  OBVIOUS
<1>3. QED
  BY <1>1, <1>2, Zenon

\* The points a rider chooses and what is shown for them.
LEMMA PriceTyped ==
  ASSUME TypeOK, PriceFollows, Next
  PROVE  PriceTypeOK'
<1> PriceTypeOK
  BY DEF TypeOK
<1>1. CASE UNCHANGED priceVars
  BY <1>1 DEF PriceTypeOK, priceVars
<1>2. CASE Commit
  <2>1. pickup' \in Points \cup {NoPoint} /\ dropoff' \in BOOLEAN
    BY <1>2 DEF Commit, PriceTypeOK
  <2>2. CASE UNCHANGED <<pricePoll, priceAsked, priceShown, carried>>
    BY <2>1, <2>2 DEF PriceTypeOK
  <2>3. CASE PriceEffect(pickup, Picking(flow))
    <3>1. /\ pricePoll' \in {"off", "on", "stopped"} /\ priceShown' \in Points \cup {NoPoint}
          /\ priceAsked' \subseteq [point : Points, live : BOOLEAN]
      BY <2>3, PricePolls DEF PriceEffect, PriceTypeOK
    <3>2. carried' \in BOOLEAN
      BY <2>3, Zenon DEF PriceEffect
    <3>3. QED
      BY <2>1, <3>1, <3>2 DEF PriceTypeOK
  <2>4. QED
    BY <1>2, <2>2, <2>3 DEF Commit
<1>3. CASE HandleRequestAnother
  BY <1>3 DEF HandleRequestAnother, PriceTypeOK
<1>4. CASE ChoosePoints
  BY <1>4 DEF ChoosePoints, SetPickup, SetDropoff, PriceTypeOK
<1>5. CASE SurgePoll
  <2>1. CASE PriceAsks(rendered.pickup)
    <3>1. rendered.pickup \in Points
      BY <2>1 DEF PriceAsks, PriceFollows, TypeOK
    <3>2. QED
      BY <2>1, <3>1, PricePolls DEF PriceAsks, PriceTypeOK
  <2>2. CASE \E a \in priceAsked : PriceAnswered(a)
    BY <2>2 DEF PriceAnswered, PriceTypeOK
  <2>3. QED
    BY <1>5, <2>1, <2>2 DEF SurgePoll
<1>6. CASE Reload
  BY <1>6 DEF Reload, PriceReset, PriceTypeOK
<1>7. \/ UNCHANGED priceVars
      \/ Commit \/ HandleRequestAnother \/ ChoosePoints \/ SurgePoll \/ Reload
  BY Zenon DEF Next, PostStep, HandleSubmit, PostRefused, PostInserts, PostBreaks, PostReplies, AnswerLost,
     PostAnswered, TripMoves, FinalState, FinalStateFails, ToldMatched, ToldCancelled, ToldEnded, EtaAsks,
     EtaAnswered, RiderFound, RiderCheckFails, RetryCheck, CreateRider, ResumeReads, ResumeAnswered,
     ResumeFails, riderVars, priceVars
<1>8. QED
  BY <1>1, <1>2, <1>3, <1>4, <1>5, <1>6, <1>7

\* The requests for a trip.
LEMMA PostsTyped ==
  ASSUME TypeOK, PostsKnown, NEW s \in Posts, PostStep(s), PriceTypeOK'
  PROVE  TypeOK'
<1> USE DEF TypeOK, Goes, NoPost, At, Flow
<1>1. CASE HandleSubmit(s)
  BY <1>1 DEF HandleSubmit, serverVars, riderVars, trackVars, etaVars, history
<1>2. CASE PostRefused(s)
  BY <1>2 DEF PostRefused, Fails, serverVars, riderVars, trackVars, etaVars, history
<1>3. ASSUME NEW t \in Trips, PostInserts(s, t) PROVE TypeOK'
  <2>1. post' = [post EXCEPT ![s] = [at |-> "inserted", trip |-> t, mine |-> post[s].mine]]
    BY <1>3 DEF PostInserts
  <2>2. row' \in [Trips -> Status \cup {"none"}]
    BY <1>3 DEF PostInserts, Status
  <2>3. QED
    BY <1>3, <2>1, <2>2 DEF PostInserts, riderVars, trackVars, etaVars
<1>4. CASE PostBreaks(s)
  BY <1>4 DEF PostBreaks, Fails, PostsKnown, serverVars, riderVars, trackVars, etaVars
<1>5. CASE PostReplies(s)
  BY <1>5 DEF PostReplies, PostsKnown, riderVars, trackVars, etaVars, history
<1>6. CASE AnswerLost(s)
  BY <1>6 DEF AnswerLost, Fails, PostsKnown, serverVars, riderVars, trackVars, etaVars
<1>7. CASE PostAnswered(s)
  <2>1. /\ flow' \in Flow /\ (flow'.phase = "tracking" => flow'.trip # NoTrip)
        /\ stored' \in Trips \cup {NoTrip}
    BY <1>7 DEF PostAnswered, PostsKnown
  <2>2. replaced' \subseteq Trips
    BY <1>7 DEF PostAnswered
  <2>3. post' \in [Posts -> [at : {"none", "sent", "inserted", "ok", "failed"},
                             trip : Trips \cup {NoTrip}, mine : BOOLEAN]]
    BY <1>7 DEF PostAnswered
  <2>4. QED
    BY <1>7, <2>1, <2>2, <2>3 DEF PostAnswered, serverVars, riderVars, trackVars, etaVars
<1>8. QED
  BY <1>1, <1>2, <1>3, <1>4, <1>5, <1>6, <1>7 DEF PostStep

\* Everything else that happens to the page and its trip.
LEMMA PageTyped ==
  ASSUME TypeOK, PostsKnown, TripsKnown, EtaFollows, PriceTypeOK', Next,
         ~ \E s \in Posts : PostStep(s)
  PROVE  TypeOK'
<1> USE DEF TypeOK
<1>1. ASSUME NEW t \in Trips, TripMoves(t) PROVE TypeOK'
  BY <1>1 DEF TripMoves, Status, Ended, riderVars, trackVars, etaVars, history
<1>2. ASSUME NEW t \in Trips, FinalState(t) PROVE TypeOK'
  BY <1>2 DEF FinalState, Known, TripsKnown, serverVars, riderVars, etaVars, history
<1>3. ASSUME NEW t \in Trips, FinalStateFails(t) PROVE TypeOK'
  BY <1>3 DEF FinalStateFails, serverVars, riderVars, etaVars, history
<1>4. CASE Commit
  <2>1. rendered' \in [flow : Flow, pickup : Points \cup {NoPoint}, terminal : BOOLEAN]
    BY <1>4 DEF Commit, Screen, PriceTypeOK
  <2>2. view' \in Status /\ about' \in Trips \cup {NoTrip} /\ stored' \in Trips \cup {NoTrip}
    BY <1>4 DEF Commit, Status
  <2>3. Tracked(flow) \in Trips \cup {NoTrip}
    BY DEF Tracked, Flow
  <2>4. misled' \subseteq Trips
    BY <1>4, <2>3 DEF Commit, Forgets
  <2>5. /\ etaPoll' \in {"off", "on", "stopped"} /\ etaShown' \in Trips \cup {NoTrip}
        /\ etaAsked' \subseteq [trip : Trips, live : BOOLEAN]
    <3>1. CASE UNCHANGED etaVars
      BY <3>1 DEF etaVars
    <3>2. CASE ~ UNCHANGED etaVars
      BY <1>4, <3>2, EtaPolls DEF Commit
    <3>3. QED
      BY <3>1, <3>2
  <2>6. QED
    BY <1>4, <2>1, <2>2, <2>4, <2>5 DEF Commit, serverVars
<1>5. CASE HandleRequestAnother
  BY <1>5 DEF HandleRequestAnother, At, Flow, serverVars, trackVars, etaVars, history
<1>6. CASE ChoosePoints \/ SurgePoll
  BY <1>6 DEF ChoosePoints, SurgePoll, serverVars, trackVars, etaVars, history
<1>7. CASE ToldMatched \/ ToldCancelled \/ ToldEnded
  BY <1>7 DEF ToldMatched, ToldCancelled, ToldEnded, Status, Ended, Following, Tracked, Flow,
     serverVars, riderVars, etaVars, history
<1>8. CASE EtaAsks
  <2>1. Following \in Trips
    BY <1>8 DEF EtaAsks, EtaFollows, Following, Tracked, Flow
  <2>2. etaAsked' \subseteq [trip : Trips, live : BOOLEAN]
    BY <1>8, <2>1, EtaPolls DEF EtaAsks
  <2>3. QED
    BY <1>8, <2>2 DEF EtaAsks, serverVars, riderVars, trackVars, history
<1>9. ASSUME NEW a \in etaAsked, EtaAnswered(a) PROVE TypeOK'
  BY <1>9 DEF EtaAnswered, serverVars, riderVars, trackVars, history
<1>10. CASE Reload
  <2>1. post' \in [Posts -> [at : {"none", "sent", "inserted", "ok", "failed"},
                             trip : Trips \cup {NoTrip}, mine : BOOLEAN]]
    BY <1>10 DEF Reload, NoPost
  <2>2. unknown' \subseteq Trips
    BY <1>10 DEF Reload
  <2>3. flow' \in Flow /\ flow'.phase # "tracking"
    BY <1>10 DEF Reload, At, Flow
  <2>4. rendered' \in [flow : Flow, pickup : Points \cup {NoPoint}, terminal : BOOLEAN]
    BY <1>10, <2>3 DEF Reload
  <2>5. QED
    BY <1>10, <2>1, <2>2, <2>3, <2>4 DEF Reload, serverVars, Status
<1>11. CASE RiderFound \/ RiderCheckFails \/ RetryCheck \/ CreateRider
  <2>1. flow' \in Flow /\ flow'.phase # "tracking" /\ rendered' = [rendered EXCEPT !.flow = flow']
    BY <1>11 DEF RiderFound, RiderCheckFails, RetryCheck, CreateRider, Mounts, Shows, At, Flow
  <2>2. QED
    BY <1>11, <2>1 DEF RiderFound, RiderCheckFails, RetryCheck, CreateRider, serverVars, riderVars,
       trackVars, etaVars, history
<1>12. CASE ResumeReads
  <2>1. flow' = [phase |-> "resuming", trip |-> flow.trip, read |-> row[flow.trip]]
    BY <1>12 DEF ResumeReads, Shows, Flow
  <2>2. row[flow.trip] \in Status \cup {"none"}
    BY <1>12 DEF ResumeReads, TripsKnown, Flow
  <2>3. flow' \in Flow
    BY <2>1, <2>2 DEF Flow
  <2>4. QED
    BY <1>12, <2>1, <2>3 DEF ResumeReads, Shows, serverVars, riderVars, trackVars, etaVars, history
<1>13. CASE ResumeAnswered \/ ResumeFails
  BY <1>13 DEF ResumeAnswered, ResumeFails, TripsKnown, At, Flow, serverVars, riderVars, trackVars, etaVars, history
<1>14. QED
  BY <1>1, <1>2, <1>3, <1>4, <1>5, <1>6, <1>7, <1>8, <1>9, <1>10, <1>11, <1>12, <1>13 DEF Next

-----------------------------------------------------------------------------
(***************************************************************************)
(* The requests, and which trips are known.                                  *)
(***************************************************************************)
LEMMA PostFrame ==
  ASSUME Next
  PROVE  UNCHANGED <<post, submitting>> \/ Reload \/ \E s \in Posts : PostStep(s)
BY Zenon DEF Next, TripMoves, FinalState, FinalStateFails, Commit, HandleRequestAnother, ChoosePoints,
   SurgePoll, ToldMatched, ToldCancelled, ToldEnded, EtaAsks, EtaAnswered, RiderFound, RiderCheckFails,
   RetryCheck, CreateRider, ResumeReads, ResumeAnswered, ResumeFails

\* A step of a POST changes that POST only.
LEMMA OneStepsAtATime ==
  ASSUME TypeOK, NEW s \in Posts, PostStep(s)
  PROVE  /\ \A u \in Posts : u # s => post'[u] = post[u]
         /\ post'[s].mine => post[s].mine \/ ~submitting
BY DEF PostStep, HandleSubmit, PostRefused, PostInserts, PostBreaks, PostReplies, AnswerLost, PostAnswered,
   Goes, Fails, NoPost, TypeOK

LEMMA OnePostKept ==
  ASSUME TypeOK, OnePost, Next
  PROVE  OnePost'
<1>1. CASE UNCHANGED <<post, submitting>>
  BY <1>1 DEF OnePost
<1>2. CASE Reload
  BY <1>2 DEF Reload, OnePost, NoPost
<1>3. ASSUME NEW s \in Posts, PostStep(s) PROVE OnePost'
  <2>1. CASE HandleSubmit(s)
    BY <2>1 DEF HandleSubmit, Goes, OnePost, TypeOK
  <2>2. CASE PostAnswered(s)
    BY <2>2 DEF PostAnswered, Goes, NoPost, OnePost, TypeOK
  <2>3. CASE UNCHANGED submitting /\ (post'[s].mine => post[s].mine)
    BY <1>3, <2>3, OneStepsAtATime DEF OnePost
  <2>4. HandleSubmit(s) \/ PostAnswered(s) \/ (UNCHANGED submitting /\ (post'[s].mine => post[s].mine))
    BY <1>3 DEF PostStep, PostRefused, PostInserts, PostBreaks, PostReplies, AnswerLost,
       Goes, Fails, NoPost, TypeOK
  <2>5. QED
    BY <2>1, <2>2, <2>3, <2>4
<1>4. QED
  BY <1>1, <1>2, <1>3, PostFrame

LEMMA PostsKnownKept ==
  ASSUME TypeOK, PostsKnown, Next
  PROVE  PostsKnown'
<1>1. \A t \in Trips : Known(t) => Known(t)'
  BY RowsOnlyAdvance
<1>2. CASE UNCHANGED post
  BY <1>1, <1>2 DEF PostsKnown, Known, TypeOK
<1>3. CASE Reload
  BY <1>1, <1>3 DEF Reload, NoPost, PostsKnown, Known, TypeOK
<1>4. ASSUME NEW s \in Posts, PostStep(s) PROVE PostsKnown'
  <2>1. /\ post'[s].at \in {"none", "sent"} => post'[s].trip = NoTrip
        /\ post'[s].at \in {"inserted", "ok"} => post'[s].trip # NoTrip
        /\ post'[s].trip # NoTrip => row'[post'[s].trip] # "none"
    <3>1. ASSUME NEW t \in Trips, PostInserts(s, t)
          PROVE  post'[s].at = "inserted" /\ post'[s].trip = t /\ row'[t] = "requested" /\ t # NoTrip
      BY <3>1, RiderAssumption DEF PostInserts, Goes, TypeOK, Status
    <3>2. CASE \E t \in Trips : PostInserts(s, t)
      BY <3>1, <3>2 DEF Known
    <3>3. CASE ~ \E t \in Trips : PostInserts(s, t)
      <4>1. row' = row
        BY <1>4, <3>3 DEF PostStep, HandleSubmit, PostRefused, PostBreaks, PostReplies, AnswerLost,
           PostAnswered, serverVars
      <4>2. \/ post'[s] = NoPost \/ (post'[s].at = "sent" /\ post'[s].trip = NoTrip)
            \/ (post'[s].at = "failed" /\ post'[s].trip = post[s].trip)
            \/ (post'[s].at = "ok" /\ post[s].at = "inserted" /\ post'[s].trip = post[s].trip)
        BY <1>4, <3>3 DEF PostStep, HandleSubmit, PostRefused, PostBreaks, PostReplies, AnswerLost,
           PostAnswered, Goes, Fails, TypeOK
      <4>3. QED
        BY <4>1, <4>2 DEF NoPost, PostsKnown, Known
    <3>4. QED
      BY <3>2, <3>3
  <2>2. ASSUME NEW u \in Posts, u # s
        PROVE  post'[u] = post[u] /\ (post[u].trip # NoTrip => row'[post[u].trip] # "none")
    <3>1. post[u].trip \in Trips \cup {NoTrip}
      BY DEF TypeOK
    <3>2. post'[u] = post[u]
      BY <1>4, <2>2, OneStepsAtATime
    <3>3. post[u].trip # NoTrip => Known(post[u].trip)
      BY DEF PostsKnown
    <3>4. QED
      BY <1>1, <3>1, <3>2, <3>3 DEF Known
  <2>3. QED
    BY <2>1, <2>2 DEF PostsKnown, Known
<1>5. QED
  BY <1>2, <1>3, <1>4, PostFrame

LEMMA FlowFrame ==
  ASSUME Next
  PROVE  \/ UNCHANGED <<flow, rendered, stored>>
         \/ Commit \/ HandleRequestAnother \/ Reload
         \/ RiderFound \/ RiderCheckFails \/ RetryCheck \/ CreateRider
         \/ ResumeReads \/ ResumeAnswered \/ ResumeFails
         \/ \E s \in Posts : HandleSubmit(s) \/ PostAnswered(s)
BY Zenon DEF Next, PostStep, PostRefused, PostInserts, PostBreaks, PostReplies, AnswerLost, TripMoves,
   FinalState, FinalStateFails, ChoosePoints, SurgePoll, ToldMatched, ToldCancelled, ToldEnded, EtaAsks,
   EtaAnswered

\* What the steps that change the flow leave there, and in localStorage.
LEMMA FlowSteps ==
  ASSUME TypeOK, PostsKnown, TripsKnown, Next
  PROVE  /\ flow'.phase \in {"tracking", "resuming"} <=> flow'.trip # NoTrip
         /\ flow'.trip # NoTrip => Known(flow'.trip)
         /\ stored' # NoTrip => Known(stored')
<1>1. CASE UNCHANGED <<flow, stored>>
  BY <1>1 DEF TripsKnown
<1>2. CASE Commit
  BY <1>2 DEF Commit, TripsKnown
<1>3. CASE HandleRequestAnother \/ Reload \/ RiderCheckFails \/ RetryCheck \/ ResumeFails
  BY <1>3 DEF HandleRequestAnother, Reload, RiderCheckFails, RetryCheck, ResumeFails, Shows, At, TripsKnown
<1>4. CASE RiderFound \/ CreateRider
  BY <1>4 DEF RiderFound, CreateRider, Mounts, Shows, At, TripsKnown
<1>5. CASE ResumeReads
  <2>1. flow' = [phase |-> flow.phase, trip |-> flow.trip, read |-> row[flow.trip]]
    BY <1>5 DEF ResumeReads, Shows, TypeOK, Flow
  <2>2. QED
    BY <1>5, <2>1 DEF ResumeReads, TripsKnown
<1>6. CASE ResumeAnswered
  BY <1>6 DEF ResumeAnswered, At, TripsKnown
<1>7. ASSUME NEW s \in Posts, HandleSubmit(s) PROVE flow'.phase = "submitting" /\ flow'.trip = NoTrip /\ stored' = stored
  BY <1>7 DEF HandleSubmit, At
<1>8. ASSUME NEW s \in Posts, PostAnswered(s)
      PROVE  \/ flow' = At("tracking", post[s].trip) /\ stored' = post[s].trip /\ post[s].trip # NoTrip /\ Known(post[s].trip)
             \/ flow' = At("error", NoTrip) /\ stored' = stored
  BY <1>8 DEF PostAnswered, PostsKnown
<1>9. QED
  BY <1>1, <1>2, <1>3, <1>4, <1>5, <1>6, <1>7, <1>8, FlowFrame DEF TripsKnown, At

LEMMA TripsKnownKept ==
  ASSUME TypeOK, PostsKnown, TripsKnown, Next, TypeOK'
  PROVE  TripsKnown'
<1>1. \A t \in Trips : Known(t) => Known(t)'
  BY RowsOnlyAdvance
<1>2. /\ flow'.phase \in {"tracking", "resuming"} <=> flow'.trip # NoTrip
      /\ flow'.trip # NoTrip => row'[flow'.trip] # "none"
      /\ stored' # NoTrip => row'[stored'] # "none"
  BY <1>1, FlowSteps DEF TypeOK, Flow, Known
<1>3. rendered'.flow.phase = "tracking" => rendered'.flow.trip # NoTrip /\ row'[rendered'.flow.trip] # "none"
  <2>1. rendered'.flow = rendered.flow \/ rendered'.flow = flow \/ rendered'.flow = flow'
    <3>1. CASE Reload \/ RiderFound \/ RiderCheckFails \/ RetryCheck \/ CreateRider \/ ResumeReads
      BY <3>1 DEF Reload, RiderFound, RiderCheckFails, RetryCheck, CreateRider, ResumeReads, Mounts, Shows,
         TypeOK
    <3>2. CASE Commit
      BY <3>2 DEF Commit, Screen
    <3>3. CASE rendered' = rendered
      BY <3>3
    <3>4. QED
      BY <3>1, <3>2, <3>3, FlowFrame DEF HandleRequestAnother, ResumeAnswered, ResumeFails, HandleSubmit,
         PostAnswered
  <2>2. QED
    BY <1>1, <1>2, <2>1 DEF TripsKnown, TypeOK, Flow, Known
<1>4. \A t \in finals' : row'[t] # "none"
  <2>1. finals' \subseteq finals \cup {t \in Trips : Known(t)}
    <3>1. \/ finals' \subseteq finals \/ ToldCancelled \/ ToldEnded
      BY DEF Next, PostStep, HandleSubmit, PostRefused, PostInserts, PostBreaks, PostReplies, AnswerLost,
         PostAnswered, TripMoves, FinalState, FinalStateFails, Commit, HandleRequestAnother, ChoosePoints,
         SurgePoll, ToldMatched, EtaAsks, EtaAnswered, Reload, RiderFound, RiderCheckFails, RetryCheck,
         CreateRider, ResumeReads, ResumeAnswered, ResumeFails, trackVars
    <3>2. CASE ToldCancelled \/ ToldEnded
      BY <3>2 DEF ToldCancelled, ToldEnded, Ended, Known, Following, Tracked, TypeOK, Flow
    <3>3. QED
      BY <3>1, <3>2
  <2>2. QED
    BY <1>1, <2>1 DEF TripsKnown, TypeOK, Known
<1>5. QED
  BY <1>2, <1>3, <1>4 DEF TripsKnown, Known

LEMMA PhasesKept ==
  ASSUME TypeOK, TripsKnown, Phases, Next
  PROVE  Phases'
<1>1. CASE UNCHANGED <<flow, rendered, stored>>
  BY <1>1 DEF Phases
<1>2. CASE Commit
  BY <1>2 DEF Commit, Screen, Phases
<1>3. CASE HandleRequestAnother
  BY <1>3 DEF HandleRequestAnother, Tracked, At, TripsKnown, Phases
<1>4. CASE Reload \/ RiderFound \/ RiderCheckFails \/ RetryCheck \/ CreateRider \/ ResumeReads
  <2>1. rendered'.flow = flow' /\ flow'.phase # "tracking"
    BY <1>4 DEF Reload, RiderFound, RiderCheckFails, RetryCheck, CreateRider, ResumeReads, Mounts, Shows, At,
       TypeOK, Flow
  <2>2. QED
    BY <2>1 DEF Phases
<1>5. CASE ResumeAnswered \/ ResumeFails
  BY <1>5 DEF ResumeAnswered, ResumeFails, Phases
<1>6. ASSUME NEW s \in Posts, HandleSubmit(s) \/ PostAnswered(s) PROVE Phases'
  BY <1>6 DEF HandleSubmit, PostAnswered, At, Phases
<1>7. QED
  BY <1>1, <1>2, <1>3, <1>4, <1>5, <1>6, FlowFrame

-----------------------------------------------------------------------------
(***************************************************************************)
(* What is polled, and what is shown of it.                                  *)
(***************************************************************************)
LEMMA EtaFrame ==
  ASSUME Next
  PROVE  \/ UNCHANGED <<etaVars, rendered>>
         \/ Commit \/ EtaAsks \/ Reload
         \/ RiderFound \/ RiderCheckFails \/ RetryCheck \/ CreateRider \/ ResumeReads
         \/ \E a \in etaAsked : EtaAnswered(a)
BY Zenon DEF Next, PostStep, HandleSubmit, PostRefused, PostInserts, PostBreaks, PostReplies, AnswerLost,
   PostAnswered, TripMoves, FinalState, FinalStateFails, HandleRequestAnother, ChoosePoints, SurgePoll,
   ToldMatched, ToldCancelled, ToldEnded, ResumeAnswered, ResumeFails

\* Before the rider is known, and while a trip is resumed, the screen follows and picks nothing;
\* what is shown then follows nothing either.
LEMMA ShowsAfterNothing ==
  ASSUME TypeOK, Phases,
         RiderFound \/ RiderCheckFails \/ RetryCheck \/ CreateRider \/ ResumeReads
  PROVE  /\ Following = NoTrip /\ ~Picking(rendered.flow)
         /\ Tracked(rendered'.flow) = NoTrip
         /\ UNCHANGED <<etaVars, pricePoll, priceAsked, priceShown, carried>>
         /\ rendered'.pickup = rendered.pickup /\ rendered'.terminal = rendered.terminal
<1>1. flow.phase \in {"checking", "check_failed", "needs_rider", "resuming"}
  BY DEF RiderFound, RiderCheckFails, RetryCheck, CreateRider, ResumeReads
<1>2. Following = NoTrip /\ ~Picking(rendered.flow)
  BY <1>1 DEF Phases, Following, Tracked, Picking
<1>3. rendered' = [rendered EXCEPT !.flow = flow'] /\ flow'.phase # "tracking"
  BY DEF RiderFound, RiderCheckFails, RetryCheck, CreateRider, ResumeReads, Mounts, Shows, At, TypeOK, Flow
<1>4. Tracked(rendered'.flow) = NoTrip /\ rendered'.pickup = rendered.pickup /\ rendered'.terminal = rendered.terminal
  BY <1>3 DEF Tracked, TypeOK
<1>5. UNCHANGED <<etaVars, pricePoll, priceAsked, priceShown, carried>>
  BY DEF RiderFound, RiderCheckFails, RetryCheck, CreateRider, ResumeReads, riderVars, priceVars
<1>6. QED
  BY <1>2, <1>4, <1>5

\* One Commit changes the trip the page follows to none, or from none.
LEMMA OneTripAtATime ==
  ASSUME TypeOK, TripsKnown, Phases
  PROVE  Following # NoTrip => Tracked(flow) \in {Following, NoTrip}
BY DEF TypeOK, Flow, TripsKnown, Phases, Following, Tracked

LEMMA EtaFollowsKept ==
  ASSUME TypeOK, TripsKnown, Phases, EtaFollows, Next
  PROVE  EtaFollows'
<1>1. CASE UNCHANGED <<etaVars, rendered>>
  BY <1>1 DEF etaVars, EtaFollows, EtaIsOfThisTrip, Following
<1>2. CASE Commit
  <2>1. rendered'.terminal = (view \in Ended) /\ Following' = Tracked(flow)
    BY <1>2 DEF Commit, Screen, Following
  <2>2. CASE Tracked(flow) = Following /\ Polls(Following) = (Following # NoTrip /\ ~rendered.terminal)
             /\ UNCHANGED etaVars
    <3>1. Following # NoTrip /\ ~rendered.terminal => view \notin Ended
      BY <2>2, Zenon DEF Polls
    <3>2. view \notin Ended => ~rendered'.terminal
      BY <2>1, Zenon
    <3>3. Following' = Following /\ UNCHANGED <<etaPoll, etaAsked, etaShown>>
      BY <2>1, <2>2 DEF etaVars
    <3>4. ASSUME NEW a \in etaAsked, a.live PROVE a.trip = Following /\ Following # NoTrip /\ ~rendered.terminal
      <4>1. a.trip \in Trips
        BY DEF TypeOK
      <4>2. QED
        BY <3>4, <4>1, RiderAssumption DEF EtaFollows
    <3>5. QED
      BY <3>1, <3>2, <3>3, <3>4 DEF EtaFollows, EtaIsOfThisTrip
  <2>3. CASE /\ etaPoll' = IF Polls(Tracked(flow)) THEN "on" ELSE "off"
             /\ etaAsked' = {[trip |-> a.trip, live |-> FALSE] : a \in etaAsked}
             /\ etaShown' = IF Polls(Tracked(flow)) THEN etaShown ELSE NoTrip
    <3>1. \A a \in etaAsked' : ~a.live
      BY <2>3
    <3>2. etaShown' # NoTrip => etaShown' = Tracked(flow) /\ view \notin Ended
      BY <2>3, OneTripAtATime DEF Polls, EtaFollows, EtaIsOfThisTrip
    <3>3. etaPoll' = "on" => Tracked(flow) # NoTrip /\ view \notin Ended
      BY <2>3 DEF Polls
    <3>4. QED
      BY <2>1, <3>1, <3>2, <3>3 DEF EtaFollows, EtaIsOfThisTrip
  <2>4. QED
    BY <1>2, <2>2, <2>3 DEF Commit, Following
<1>3. CASE EtaAsks
  BY <1>3 DEF EtaAsks, EtaFollows, EtaIsOfThisTrip, Following
<1>4. CASE Reload
  BY <1>4 DEF Reload, At, Tracked, EtaFollows, EtaIsOfThisTrip, Following
<1>5. CASE RiderFound \/ RiderCheckFails \/ RetryCheck \/ CreateRider \/ ResumeReads
  <2>1. \A a \in etaAsked : a.trip # NoTrip
    BY RiderAssumption DEF TypeOK
  <2>2. etaShown = NoTrip /\ etaPoll # "on" /\ \A a \in etaAsked : ~a.live
    BY <1>5, <2>1, ShowsAfterNothing DEF EtaFollows, EtaIsOfThisTrip
  <2>3. QED
    BY <1>5, <2>2, ShowsAfterNothing DEF EtaFollows, EtaIsOfThisTrip, etaVars
<1>6. ASSUME NEW a \in etaAsked, EtaAnswered(a) PROVE EtaFollows'
  BY <1>6 DEF EtaAnswered, EtaFollows, EtaIsOfThisTrip, Following
<1>7. QED
  BY <1>1, <1>2, <1>3, <1>4, <1>5, <1>6, EtaFrame

LEMMA PriceFrame ==
  ASSUME Next
  PROVE  \/ UNCHANGED <<pricePoll, priceAsked, priceShown, carried, rendered>>
         \/ Commit \/ SurgePoll \/ Reload
         \/ RiderFound \/ RiderCheckFails \/ RetryCheck \/ CreateRider \/ ResumeReads
BY Zenon DEF Next, PostStep, HandleSubmit, PostRefused, PostInserts, PostBreaks, PostReplies, AnswerLost,
   PostAnswered, TripMoves, FinalState, FinalStateFails, HandleRequestAnother, ChoosePoints, SetPickup,
   SetDropoff, ToldMatched, ToldCancelled, ToldEnded, EtaAsks, EtaAnswered, ResumeAnswered, ResumeFails,
   riderVars, priceVars

LEMMA PriceFollowsKept ==
  ASSUME TypeOK, Phases, PriceFollows, Next
  PROVE  PriceFollows'
<1>1. CASE UNCHANGED <<pricePoll, priceAsked, priceShown, carried, rendered>>
  BY <1>1 DEF PriceFollows, PriceIsOfThisPickup, Picking
<1>2. CASE Commit
  <2>1. rendered'.pickup = pickup /\ rendered'.flow = flow
    BY <1>2 DEF Commit, Screen
  <2>2. CASE /\ pickup = rendered.pickup /\ Picking(flow) = Picking(rendered.flow)
             /\ UNCHANGED <<pricePoll, priceAsked, priceShown, carried>>
    BY <2>1, <2>2 DEF PriceFollows, PriceIsOfThisPickup, Picking
  <2>3. CASE PriceEffect(pickup, Picking(flow))
    <3>1. \A a \in priceAsked' : ~a.live
      BY <2>3 DEF PriceEffect
    <3>2. priceShown' # NoPoint => Picking(flow) /\ carried'
      BY <2>3, Zenon DEF PriceEffect
    <3>3. pricePoll' = "on" => pickup # NoPoint /\ Picking(flow)
      BY <2>3 DEF PriceEffect
    <3>4. QED
      BY <2>1, <3>1, <3>2, <3>3 DEF PriceFollows, PriceIsOfThisPickup, Picking
  <2>4. QED
    BY <1>2, <2>2, <2>3 DEF Commit
<1>3. CASE SurgePoll
  <2>1. CASE PriceAsks(rendered.pickup) /\ UNCHANGED rendered
    BY <2>1 DEF PriceAsks, PriceFollows, PriceIsOfThisPickup, Picking
  <2>2. ASSUME NEW a \in priceAsked, PriceAnswered(a), UNCHANGED rendered PROVE PriceFollows'
    BY <2>2 DEF PriceAnswered, PriceFollows, PriceIsOfThisPickup, Picking
  <2>3. QED
    BY <1>3, <2>1, <2>2 DEF SurgePoll
<1>4. CASE Reload
  BY <1>4 DEF Reload, PriceReset, PriceFollows, PriceIsOfThisPickup
<1>5. CASE RiderFound \/ RiderCheckFails \/ RetryCheck \/ CreateRider \/ ResumeReads
  <2>1. priceShown = NoPoint /\ pricePoll # "on" /\ \A a \in priceAsked : ~a.live
    BY <1>5, ShowsAfterNothing DEF PriceFollows, PriceIsOfThisPickup, Picking
  <2>2. QED
    BY <1>5, <2>1, ShowsAfterNothing DEF PriceFollows, PriceIsOfThisPickup
<1>6. QED
  BY <1>1, <1>2, <1>3, <1>4, <1>5, PriceFrame

-----------------------------------------------------------------------------
(***************************************************************************)
(* What the page takes for an end.                                           *)
(***************************************************************************)
LEMMA TrackFrame ==
  ASSUME Next
  PROVE  \/ UNCHANGED <<view, about, rendered, misled>>
         \/ Commit \/ ToldMatched \/ ToldCancelled \/ Reload
         \/ RiderFound \/ RiderCheckFails \/ RetryCheck \/ CreateRider \/ ResumeReads
         \/ \E t \in Trips : FinalState(t)
BY Zenon DEF Next, PostStep, HandleSubmit, PostRefused, PostInserts, PostBreaks, PostReplies, AnswerLost,
   PostAnswered, TripMoves, FinalStateFails, HandleRequestAnother, ChoosePoints, SurgePoll, ToldEnded,
   EtaAsks, EtaAnswered, ResumeAnswered, ResumeFails, trackVars, history

\* An end the tracked trip was told is its own.
LEMMA ToldEndKept ==
  ASSUME TypeOK, PostsKnown, TripsKnown, Phases, EndsAreTrue, Next
  PROVE  about' = NoTrip /\ view' \in Ended => Following' # NoTrip /\ row'[Following'] \in Ended
<1>1. \A t \in Trips : row[t] \in Ended => row'[t] = row[t]
  BY RowsOnlyAdvance
<1>2. Following \in Trips \cup {NoTrip}
  BY DEF Following, Tracked, TypeOK, Flow
<1>3. CASE UNCHANGED <<view, about, rendered>>
  BY <1>1, <1>2, <1>3 DEF EndsAreTrue, Following
<1>4. CASE Commit
  <2>1. Following' = Tracked(flow) /\ row' = row
    BY <1>4 DEF Commit, Screen, Following, serverVars
  <2>2. CASE Tracked(flow) = Following
    BY <1>4, <2>1, <2>2 DEF Commit, Resets, EndsAreTrue, Following
  <2>3. CASE Tracked(flow) # Following
    BY <1>4, <2>3 DEF Commit, Resets, Following, Ended
  <2>4. QED
    BY <2>2, <2>3
<1>5. CASE ToldMatched
  BY <1>5 DEF ToldMatched, Ended
<1>6. CASE ToldCancelled
  BY <1>6 DEF ToldCancelled, Ended, Following, serverVars
<1>7. CASE Reload
  BY <1>7 DEF Reload, Ended
<1>8. CASE RiderFound \/ RiderCheckFails \/ RetryCheck \/ CreateRider \/ ResumeReads
  <2>1. UNCHANGED <<view, about>>
    BY <1>8 DEF RiderFound, RiderCheckFails, RetryCheck, CreateRider, ResumeReads, trackVars
  <2>2. QED
    BY <1>8, <2>1, ShowsAfterNothing DEF EndsAreTrue
<1>9. ASSUME NEW t \in Trips, FinalState(t)
      PROVE  about' = NoTrip /\ view' \in Ended => Following' # NoTrip /\ row'[Following'] \in Ended
  BY <1>9, RiderAssumption DEF FinalState, Following, serverVars
<1>10. QED
  BY <1>3, <1>4, <1>5, <1>6, <1>7, <1>8, <1>9, TrackFrame

\* Neither does what a resumption has read change any more.
LEMMA ResumedEndKept ==
  ASSUME TypeOK, PostsKnown, TripsKnown, EndsAreTrue, Next
  PROVE  flow'.phase = "resuming" /\ flow'.read \in Ended => row'[flow'.trip] \in Ended
<1>1. \A t \in Trips : row[t] \in Ended => row'[t] = row[t]
  BY RowsOnlyAdvance
<1>2. CASE UNCHANGED flow
  BY <1>1, <1>2 DEF EndsAreTrue, TripsKnown, TypeOK, Flow
<1>3. CASE ResumeReads
  <2>1. flow' = [phase |-> flow.phase, trip |-> flow.trip, read |-> row[flow.trip]]
    BY <1>3 DEF ResumeReads, Shows, TypeOK, Flow
  <2>2. QED
    BY <1>3, <2>1 DEF ResumeReads, serverVars
<1>4. CASE ~ UNCHANGED flow /\ ~ ResumeReads
  <2>1. \E phase, t : flow' = At(phase, t)
    <3>1. CASE Reload \/ RiderFound \/ CreateRider
      BY <3>1 DEF Reload, RiderFound, CreateRider, Mounts, Shows
    <3>2. CASE HandleRequestAnother \/ RiderCheckFails \/ RetryCheck \/ ResumeFails \/ ResumeAnswered
      BY <3>2 DEF HandleRequestAnother, RiderCheckFails, RetryCheck, Shows, ResumeFails, ResumeAnswered
    <3>3. ASSUME NEW s \in Posts, HandleSubmit(s) \/ PostAnswered(s) PROVE \E phase, t : flow' = At(phase, t)
      BY <3>3 DEF HandleSubmit, PostAnswered
    <3>4. QED
      BY <1>4, <3>1, <3>2, <3>3, FlowFrame DEF Commit
  <2>2. QED
    BY <2>1 DEF At, Ended
<1>5. QED
  BY <1>2, <1>3, <1>4

LEMMA NoFalseEndKept ==
  ASSUME TypeOK, PostsKnown, TripsKnown, Phases, EndsAreTrue, Next, TypeOK'
  PROVE  NoFalseEnd'
<1>1. \A t \in Trips : Active(t)' /\ Known(t) => Active(t)
  BY RowsOnlyAdvance
<1>2. CASE UNCHANGED rendered /\ misled \subseteq misled'
  BY <1>1, <1>2 DEF EndsAreTrue, NoFalseEnd, TripsKnown, TypeOK, Flow, Active, Known
<1>3. CASE Commit
  <2> SUFFICES ASSUME flow.phase = "tracking", view \in Ended, row[flow.trip] \in Status \ Ended
               PROVE  flow.trip \in misled'
    BY <1>3 DEF Commit, Screen, NoFalseEnd, Active, serverVars
  <2>1. Tracked(flow) = flow.trip /\ flow.trip # NoTrip
    BY DEF Tracked, TripsKnown
  <2>2. CASE about # NoTrip
    BY <1>3, <2>1, <2>2 DEF Commit, Forgets
  <2>3. CASE about = NoTrip
    <3>1. Following # NoTrip /\ row[Following] \in Ended
      BY <2>3 DEF EndsAreTrue
    <3>2. Following = flow.trip
      BY <2>1, <3>1, OneTripAtATime
    <3>3. QED
      BY <3>1, <3>2
  <2>4. QED
    BY <2>2, <2>3
<1>4. CASE Reload \/ RiderFound \/ RiderCheckFails \/ RetryCheck \/ CreateRider \/ ResumeReads
  <2>1. rendered'.flow.phase # "tracking"
    BY <1>4 DEF Reload, RiderFound, RiderCheckFails, RetryCheck, CreateRider, ResumeReads, Mounts, Shows, At,
       TypeOK, Flow
  <2>2. QED
    BY <2>1 DEF NoFalseEnd
<1>5. (UNCHANGED rendered /\ misled \subseteq misled') \/ Commit \/ Reload \/ RiderFound \/ RiderCheckFails
        \/ RetryCheck \/ CreateRider \/ ResumeReads
  BY TrackFrame DEF ToldMatched, ToldCancelled, FinalState, history
<1>6. QED
  BY <1>2, <1>3, <1>4, <1>5

-----------------------------------------------------------------------------
(***************************************************************************)
(* What the page remembers.                                                  *)
(***************************************************************************)
\* What is stored is the trip on screen.
LEMMA StoredIsShown ==
  ASSUME TypeOK, PostsKnown, TripsKnown, Remembers, Next
  PROVE  flow'.phase \in {"tracking", "resuming"} => stored' \in {flow'.trip, NoTrip}
<1>1. CASE UNCHANGED <<flow, stored>>
  BY <1>1 DEF Remembers
<1>2. CASE Commit
  BY <1>2 DEF Commit, Remembers
<1>3. CASE HandleRequestAnother \/ Reload \/ RiderCheckFails \/ RetryCheck \/ ResumeFails
  BY <1>3 DEF HandleRequestAnother, Reload, RiderCheckFails, RetryCheck, ResumeFails, Shows, At
<1>4. CASE RiderFound \/ CreateRider
  BY <1>4 DEF RiderFound, CreateRider, Mounts, Shows, At
<1>5. CASE ResumeReads
  <2>1. flow' = [phase |-> flow.phase, trip |-> flow.trip, read |-> row[flow.trip]]
    BY <1>5 DEF ResumeReads, Shows, TypeOK, Flow
  <2>2. QED
    BY <1>5, <2>1 DEF ResumeReads, Remembers
<1>6. CASE ResumeAnswered
  BY <1>6 DEF ResumeAnswered, At, Remembers
<1>7. ASSUME NEW s \in Posts, HandleSubmit(s) \/ PostAnswered(s)
      PROVE  flow'.phase \in {"tracking", "resuming"} => stored' \in {flow'.trip, NoTrip}
  BY <1>7 DEF HandleSubmit, PostAnswered, At
<1>8. QED
  BY <1>1, <1>2, <1>3, <1>4, <1>5, <1>6, <1>7, FlowFrame

\* The history variables only grow.
LEMMA HistoryGrows ==
  ASSUME Next
  PROVE  unknown \subseteq unknown' /\ replaced \subseteq replaced' /\ misled \subseteq misled'
BY DEF Next, PostStep, HandleSubmit, PostRefused, PostInserts, PostBreaks, PostReplies, AnswerLost,
   PostAnswered, TripMoves, FinalState, FinalStateFails, Commit, HandleRequestAnother, ChoosePoints,
   SurgePoll, ToldMatched, ToldCancelled, ToldEnded, EtaAsks, EtaAnswered, Reload, RiderFound,
   RiderCheckFails, RetryCheck, CreateRider, ResumeReads, ResumeAnswered, ResumeFails, history

\* A POST that has failed leaves a trip nobody was told of.
LEMMA FailedIsUnknown ==
  ASSUME TypeOK, PostsKnown, Remembers, Next
  PROVE  \A s \in Posts : post'[s].at = "failed" /\ post'[s].trip # NoTrip => post'[s].trip \in unknown'
<1>1. CASE UNCHANGED post
  BY <1>1, HistoryGrows DEF Remembers
<1>2. CASE Reload
  BY <1>2 DEF Reload, NoPost
<1>3. ASSUME NEW s \in Posts, PostStep(s), NEW u \in Posts, post'[u].at = "failed", post'[u].trip # NoTrip
      PROVE  post'[u].trip \in unknown'
  <2>1. CASE u # s
    BY <1>3, <2>1, OneStepsAtATime, HistoryGrows DEF Remembers
  <2>2. CASE u = s
    BY <1>3, <2>2 DEF PostStep, HandleSubmit, PostRefused, PostInserts, PostBreaks, PostReplies, AnswerLost,
       PostAnswered, Goes, Fails, NoPost, PostsKnown, TypeOK
  <2>3. QED
    BY <2>1, <2>2
<1>4. QED
  BY <1>1, <1>2, <1>3, PostFrame

\* The id of an active trip stays where it is stored, or goes where the exceptions are counted.
LEMMA StoredStays ==
  ASSUME TypeOK, PostsKnown, TripsKnown, Phases, EndsAreTrue, Remembers, Next,
         NEW t \in Trips, Active(t), stored = t, t \notin replaced' \cup misled'
  PROVE  stored' = t
<1>1. t # NoTrip /\ row[t] \notin Ended /\ t \notin misled
  BY RiderAssumption, HistoryGrows DEF Active
<1>2. CASE Commit
  <2> SUFFICES ASSUME Forgets(Tracked(flow)) PROVE FALSE
    BY <1>2 DEF Commit
  <2>1. Tracked(flow) = t
    BY <1>1 DEF Forgets, Tracked, Remembers
  <2>2. CASE about # NoTrip
    BY <1>2, <2>1, <2>2 DEF Commit
  <2>3. CASE about = NoTrip
    BY <1>1, <2>1, <2>3, OneTripAtATime DEF Forgets, EndsAreTrue
  <2>4. QED
    BY <2>2, <2>3
<1>3. CASE HandleRequestAnother
  <2>1. rendered.flow.phase = "tracking" /\ rendered.terminal /\ flow = rendered.flow
    BY <1>1, <1>3 DEF HandleRequestAnother, Tracked, Phases
  <2>2. rendered.flow.trip = t
    BY <1>1, <2>1 DEF Remembers
  <2>3. QED
    BY <1>1, <2>1, <2>2 DEF EndsAreTrue, NoFalseEnd
<1>4. CASE ResumeAnswered
  BY <1>1, <1>4 DEF ResumeAnswered, EndsAreTrue, Remembers
<1>5. ASSUME NEW s \in Posts, PostAnswered(s) PROVE stored' = t
  BY <1>1, <1>5 DEF PostAnswered
<1>6. UNCHANGED stored \/ Commit \/ HandleRequestAnother \/ ResumeAnswered \/ \E s \in Posts : PostAnswered(s)
  BY FlowFrame DEF Reload, RiderFound, RiderCheckFails, RetryCheck, CreateRider, ResumeReads, ResumeFails,
     HandleSubmit
<1>7. QED
  BY <1>2, <1>3, <1>4, <1>5, <1>6

LEMMA OnItsWayArrives ==
  ASSUME TypeOK, PostsKnown, Remembers, Next, NEW t \in Trips, t \notin unknown',
         NEW s \in Posts, post[s].mine, post[s].trip = t
  PROVE  stored' = t \/ (post'[s].mine /\ post'[s].trip = t)
<1>1. t # NoTrip /\ t \notin unknown
  BY RiderAssumption, HistoryGrows
<1>2. CASE UNCHANGED post
  BY <1>2
<1>3. CASE Reload
  BY <1>1, <1>3 DEF Reload
<1>4. ASSUME NEW u \in Posts, PostStep(u)
      PROVE  stored' = t \/ (post'[s].mine /\ post'[s].trip = t)
  <2>1. CASE u # s
    BY <1>4, <2>1, OneStepsAtATime
  <2>2. CASE PostAnswered(s)
    BY <1>1, <2>2 DEF PostAnswered, Remembers
  <2>3. CASE u = s /\ ~ PostAnswered(s)
    BY <1>1, <1>4, <2>3 DEF PostStep, HandleSubmit, PostRefused, PostInserts, PostBreaks, PostReplies,
       AnswerLost, Goes, Fails, NoPost, PostsKnown, TypeOK
  <2>4. QED
    BY <2>1, <2>2, <2>3
<1>5. QED
  BY <1>2, <1>3, <1>4, PostFrame

LEMMA ActiveIsRememberedKept ==
  ASSUME TypeOK, PostsKnown, TripsKnown, Phases, EndsAreTrue, Remembers, Next
  PROVE  ActiveIsRemembered'
<1> SUFFICES ASSUME NEW t \in Trips, Active(t)', t \notin unknown' \cup replaced' \cup misled'
             PROVE  stored' = t \/ \E s \in Posts : post'[s].mine /\ post'[s].trip = t
  BY DEF ActiveIsRemembered
<1>1. CASE Known(t)
  <2>1. Active(t) /\ t \notin unknown \cup replaced \cup misled
    BY <1>1, RowsOnlyAdvance, HistoryGrows
  <2>2. stored = t \/ \E s \in Posts : post[s].mine /\ post[s].trip = t
    BY <2>1 DEF Remembers, ActiveIsRemembered
  <2>3. CASE stored = t
    BY <2>1, <2>3, StoredStays
  <2>4. ASSUME NEW s \in Posts, post[s].mine, post[s].trip = t
        PROVE  stored' = t \/ (post'[s].mine /\ post'[s].trip = t)
    BY <2>4, OnItsWayArrives
  <2>5. QED
    BY <2>2, <2>3, <2>4
<1>2. CASE ~Known(t)
  <2>1. row'[t] # row[t] /\ row[t] = "none"
    BY <1>2 DEF Known, Active, Ended, Status
  <2>2. PICK s \in Posts : PostInserts(s, t)
    <3>1. (\E s \in Posts, u \in Trips : PostInserts(s, u)) \/ (\E u \in Trips : TripMoves(u)) \/ UNCHANGED row
      BY Zenon DEF Next, PostStep, HandleSubmit, PostRefused, PostBreaks, PostReplies, AnswerLost, PostAnswered,
         FinalState, FinalStateFails, Commit, HandleRequestAnother, ChoosePoints, SurgePoll, ToldMatched,
         ToldCancelled, ToldEnded, EtaAsks, EtaAnswered, Reload, RiderFound, RiderCheckFails, RetryCheck,
         CreateRider, ResumeReads, ResumeAnswered, ResumeFails, serverVars
    <3>2. QED
      BY <2>1, <3>1 DEF PostInserts, TripMoves, TypeOK
  <2>3. post'[s].trip = t /\ post'[s].mine
    BY <2>2 DEF PostInserts, Goes, TypeOK
  <2>4. QED
    BY <2>3
<1>3. QED
  BY <1>1, <1>2

-----------------------------------------------------------------------------
(***************************************************************************)
(* The inductive invariant and its theorems.                                 *)
(***************************************************************************)
LEMMA InitInvariant == Init => IInv
<1> SUFFICES ASSUME Init PROVE IInv
  OBVIOUS
<1> USE DEF Init, PriceInit, At, NoPost, Screen
<1>1. TypeOK
  <2>1. rendered \in [flow : Flow, pickup : Points \cup {NoPoint}, terminal : BOOLEAN]
    BY DEF Flow
  <2>2. QED
    BY <2>1 DEF TypeOK, PriceTypeOK, Flow, Status
<1>2. PostsKnown /\ TripsKnown /\ Phases /\ OnePost
  BY DEF PostsKnown, TripsKnown, Phases, OnePost
<1>3. EtaFollows /\ PriceFollows
  BY DEF EtaFollows, EtaIsOfThisTrip, PriceFollows, PriceIsOfThisPickup
<1>4. EndsAreTrue /\ Remembers
  BY DEF EndsAreTrue, NoFalseEnd, Ended, Remembers, ActiveIsRemembered, Active, Status
<1>5. QED
  BY <1>1, <1>2, <1>3, <1>4 DEF IInv

LEMMA StepInvariant == IInv /\ [Next]_vars => IInv'
<1>1. ASSUME IInv, Next PROVE IInv'
  <2> USE <1>1 DEF IInv
  <2>1. PriceTypeOK'
    BY PriceTyped
  <2>2. TypeOK'
    BY <2>1, PostsTyped, PageTyped
  <2>3. PostsKnown' /\ TripsKnown' /\ Phases' /\ OnePost'
    BY <2>2, PostsKnownKept, TripsKnownKept, PhasesKept, OnePostKept
  <2>4. EtaFollows' /\ PriceFollows'
    BY EtaFollowsKept, PriceFollowsKept
  <2>5. EndsAreTrue'
    BY <2>2, ToldEndKept, ResumedEndKept, NoFalseEndKept DEF EndsAreTrue
  <2>6. Remembers'
    BY StoredIsShown, FailedIsUnknown, ActiveIsRememberedKept DEF Remembers
  <2>7. QED
    BY <2>2, <2>3, <2>4, <2>5, <2>6
<1>2. ASSUME IInv, UNCHANGED vars PROVE IInv'
  <2> USE <1>2 DEF vars, priceVars
  <2>1. TypeOK' /\ PostsKnown' /\ TripsKnown' /\ Phases' /\ OnePost'
    BY DEF IInv, TypeOK, PriceTypeOK, PostsKnown, TripsKnown, Known, Phases, OnePost
  <2>2. EtaFollows' /\ PriceFollows'
    BY DEF IInv, EtaFollows, EtaIsOfThisTrip, Following, PriceFollows, PriceIsOfThisPickup, Picking
  <2>3. EndsAreTrue' /\ Remembers'
    BY DEF IInv, EndsAreTrue, NoFalseEnd, Following, Active, Remembers, ActiveIsRemembered
  <2>4. QED
    BY <2>1, <2>2, <2>3 DEF IInv
<1>3. QED
  BY <1>1, <1>2

LEMMA Invariant == Spec => []IInv
BY InitInvariant, StepInvariant, PTL DEF Spec

\* useRiderIdentity, useSurgeAtPoint, TripRequestFlow, useTripTracking and useTripEta keep their
\* types: no request is answered with a trip that has no row, none is made for no trip or no point.
THEOREM RiderPageTyped == Spec => []TypeOK
BY Invariant, PTL DEF IInv

\* TripRequestFlow.tsx:41-43: submittingRef lets one POST of the page be under way, at most.
THEOREM OneRequest == Spec => []OneRequestAtATime
<1>1. IInv => OneRequestAtATime
  <2> SUFFICES ASSUME OnePost PROVE OneRequestAtATime
    BY DEF IInv
  <2> DEFINE mine == {s \in Posts : post[s].mine}
  <2>1. CASE mine = {}
    BY <2>1, FS_EmptySet DEF OneRequestAtATime
  <2>2. ASSUME NEW s \in mine PROVE OneRequestAtATime
    <3>1. mine = {s}
      BY <2>2 DEF OnePost
    <3>2. Cardinality(mine) = 1
      BY <3>1, FS_Singleton
    <3>3. QED
      BY <3>2 DEF OneRequestAtATime
  <2>3. QED
    BY <2>1, <2>2
<1>2. QED
  BY <1>1, Invariant, PTL

\* useTripEta.ts:37-43: whatever the polls of an earlier trip still answer, the ETA on screen is the
\* tracked trip's.
THEOREM EtaOfThisTrip == Spec => []EtaIsOfThisTrip
<1>1. IInv => EtaIsOfThisTrip
  BY DEF IInv, EtaFollows
<1>2. QED
  BY <1>1, Invariant, PTL

\* useSurgeAtPoint.ts:41-45: nor does an answer for an earlier pickup replace the price shown.
THEOREM PriceOfThisPickup == Spec => []PriceIsOfThisPickup
<1>1. IInv => PriceIsOfThisPickup
  BY DEF IInv, PriceFollows
<1>2. QED
  BY <1>1, Invariant, PTL

\* A trip that goes on is shown as ended in the one case NoFalseEnd names.
THEOREM EndsAreShownTruly == Spec => []NoFalseEnd
<1>1. IInv => NoFalseEnd
  BY DEF IInv, EndsAreTrue
<1>2. QED
  BY <1>1, Invariant, PTL

\* docs/frontend-resilience.md:89: reloads, breaking answers and second requests orphan no active
\* trip but those ActiveIsRemembered excepts.
THEOREM ActiveTripRemembered == Spec => []ActiveIsRemembered
<1>1. IInv => ActiveIsRemembered
  BY DEF IInv, Remembers
<1>2. QED
  BY <1>1, Invariant, PTL
=============================================================================
