--------------------------- MODULE DriverPageProofs ---------------------------
(***************************************************************************)
(* For any number of trips and of PATCHes under way: what the driver's page  *)
(* says about an offer is what became of it, and no driver gets a second     *)
(* trip but by a PATCH.                                                      *)
(*                                                                           *)
(* While the outcome of a trip may still come, the page waits for it         *)
(* (Chain).  That rests on the order of the messages: an offer is the last    *)
(* one in the queue as long as its attempt is open, since the lock allows no  *)
(* other (LastOffer, NoneBehind), and later ones come after its confirmation  *)
(* (ConfirmedFirst).                                                         *)
(***************************************************************************)
EXTENDS DriverPage, FiniteSetTheorems, TLAPS

Open(t) == deal[t] \in Locked
IsOffer(i) == i \in DOMAIN down /\ down[i].type = "trip_offer"
IsConfirmation(i, t) == i \in DOMAIN down /\ down[i] = Matched(t)
Trusted == Trips \ (missed \cup strayed)

OneOpen == \A t, u \in Trips : Open(t) /\ Open(u) => t = u

\* The row names the driver from the commit on, and only then.
Committed ==
  \A t \in Trips :
    /\ t \in assigned => deal[t] \in {"confirming", "over"}
    /\ deal[t] = "confirming" => t \in assigned

\* Nothing is said of a trip before its offer.
OfferedFirst ==
  \A t \in Trips :
    deal[t] = "none" =>
      /\ phase.trip # t
      /\ \A i \in DOMAIN down : down[i].tripId # t
      /\ \A i \in DOMAIN up : up[i].tripId # t

ConfirmedOnce ==
  \A t \in Trips, i \in DOMAIN down :
    IsConfirmation(i, t) =>
      /\ t \in assigned /\ deal[t] = "over"
      /\ \A j \in DOMAIN down : IsConfirmation(j, t) => i = j

LastOffer ==
  \A t \in Trips, i, j \in DOMAIN down :
    Open(t) /\ down[i] = Offer(t) /\ i < j => ~IsOffer(j)

NoneBehind ==
  \A t \in Trips :
    Open(t) /\ phase.trip = t /\ phase.kind \in {"offered", "responding"} =>
      \A j \in DOMAIN down : ~IsOffer(j)

Chain == \A t \in Trusted : Undecided(t) => phase = [kind |-> "responding", trip |-> t]

ConfirmedFirst ==
  \A t \in Trusted, i, j \in DOMAIN down : IsConfirmation(i, t) /\ IsOffer(j) => i < j

OnlyByPatch == unbusied \/ assigned = {} \/ (pg = "busy" /\ \E t \in Trips : assigned = {t})

IInv ==
  /\ TypeOK /\ OneOpen /\ Committed /\ OfferedFirst /\ ConfirmedOnce /\ LastOffer /\ NoneBehind
  /\ Chain /\ ConfirmedFirst /\ MatchedIsAssigned /\ AssignedKnows /\ OnlyByPatch
-----------------------------------------------------------------------------
(***************************************************************************)
(* Queues.                                                                   *)
(***************************************************************************)
Msg == [type : {"trip_offer", "trip_matched"}, tripId : Trips]

LEMMA Messages ==
  /\ \A m \in Msg : m.type = "trip_offer" => m = Offer(m.tripId)
  /\ \A m \in Msg : m.type = "trip_matched" => m = Matched(m.tripId)
  /\ \A t \in Trips : Offer(t) \in Msg /\ Offer(t).type = "trip_offer" /\ Offer(t).tripId = t
  /\ \A t \in Trips : Matched(t) \in Msg /\ Matched(t).type = "trip_matched" /\ Matched(t).tripId = t
BY DEF Msg, Offer, Matched

\* What is in a queue after one more message,
LEMMA Appended ==
  ASSUME NEW S, NEW s \in Seq(S), NEW e \in S
  PROVE  /\ Append(s, e) \in Seq(S)
         /\ DOMAIN Append(s, e) = DOMAIN s \cup {Len(s) + 1}
         /\ Len(s) + 1 \in Nat
         /\ \A i \in DOMAIN s : i \in Nat /\ i < Len(s) + 1 /\ Append(s, e)[i] = s[i]
         /\ Append(s, e)[Len(s) + 1] = e
OBVIOUS

\* and without its first one.
LEMMA Tailed ==
  ASSUME NEW S, NEW s \in Seq(S), s # <<>>
  PROVE  /\ Tail(s) \in Seq(S)
         /\ 1 \in DOMAIN s /\ Head(s) = s[1] /\ s[1] \in S
         /\ \A i \in DOMAIN s : i \in Nat /\ (i = 1 \/ (i > 1 /\ i - 1 \in DOMAIN Tail(s)))
         /\ \A i \in DOMAIN Tail(s) : i \in Nat /\ i + 1 \in DOMAIN s /\ i + 1 > 1 /\ Tail(s)[i] = s[i + 1]
OBVIOUS

LEMMA EmptyQueue == DOMAIN <<>> = {}
OBVIOUS

LEMMA InQueue ==
  /\ \A t : t \in Unconfirmed <=> t \in Trips /\ \E i \in DOMAIN down : IsConfirmation(i, t)
  /\ \A t : Undecided(t) <=>
       \/ deal[t] \in {"finalizing", "confirming"}
       \/ deal[t] = "waiting" /\ \E i \in DOMAIN up : up[i] = Response(t, TRUE)
       \/ t \in Unconfirmed
<1>1. \A t : t \in Unconfirmed <=> t \in Trips /\ \E i \in DOMAIN down : IsConfirmation(i, t)
  BY DEF Unconfirmed, ToSet, IsConfirmation
<1>2. \A t : Response(t, TRUE) \in ToSet(up) <=> \E i \in DOMAIN up : up[i] = Response(t, TRUE)
  BY DEF ToSet
<1>3. QED
  BY <1>1, <1>2, Zenon DEF Undecided
-----------------------------------------------------------------------------
(***************************************************************************)
(* Types.                                                                    *)
(***************************************************************************)
LEMMA PhaseKinds ==
  ASSUME TypeOK, phase.kind # "idle"
  PROVE  /\ phase.trip \in Trips
         /\ \A k \in {"responding", "no_response", "too_late", "declined", "matched"} :
              /\ [phase EXCEPT !.kind = k] = [kind |-> k, trip |-> phase.trip]
              /\ [phase EXCEPT !.kind = k] \in Phase
BY DEF TypeOK, Phase, Idle

LEMMA PatchKinds ==
  ASSUME TypeOK, NEW s \in Patches
  PROVE  /\ NoPatch \in [at : {"none", "sent", "checked", "done", "failed"}, target : Status, mine : BOOLEAN]
         /\ \A k \in {"sent", "checked", "done", "failed"} :
              [patch[s] EXCEPT !.at = k] \in [at : {"none", "sent", "checked", "done", "failed"}, target : Status, mine : BOOLEAN]
BY DEF TypeOK, NoPatch, Status

LEMMA Cut ==
  ASSUME CutLink
  PROVE  /\ link' = FALSE /\ down' = <<>> /\ up' = <<>>
         /\ down' \in Seq([type : {"trip_offer", "trip_matched"}, tripId : Trips])
         /\ up' \in Seq([tripId : Trips, accept : BOOLEAN])
<1>1. \A S : <<>> \in Seq(S)
  OBVIOUS
<1>2. QED
  BY <1>1, Zenon DEF CutLink

LEMMA IdlePhase == Idle \in Phase
BY DEF Phase

LEMMA ServerTyped ==
  ASSUME TypeOK, NEW t \in Trips,
         SendOffer(t) \/ OfferTimesOut(t) \/ StrayAccept(t) \/ Finalize(t) \/ Confirm(t)
  PROVE  TypeOK'
<1> USE Messages DEF Msg
<1>1. ASSUME NEW at \in {"over"} \cup Locked, Deals(t, at)
      PROVE  deal' \in [Trips -> {"none", "over"} \cup Locked]
  BY <1>1 DEF Deals, TypeOK, Locked
<1>2. CASE SendOffer(t)
  <2>1. deal' \in [Trips -> {"none", "over"} \cup Locked]
    BY <1>1, <1>2 DEF SendOffer, Locked
  <2>2. down' \in Seq(Msg)
    BY <1>2, Appended DEF SendOffer, TypeOK
  <2>3. QED
    BY <1>2, <2>1, <2>2 DEF SendOffer, TypeOK, linkVars, pageVars, history
<1>3. CASE OfferTimesOut(t)
  <2>1. deal' \in [Trips -> {"none", "over"} \cup Locked]
    BY <1>1, <1>3 DEF OfferTimesOut
  <2>2. QED
    BY <1>3, <2>1 DEF OfferTimesOut, TypeOK, linkVars, pageVars, history
<1>4. CASE StrayAccept(t)
  <2>1. deal' \in [Trips -> {"none", "over"} \cup Locked]
    BY <1>1, <1>4 DEF StrayAccept, Locked
  <2>2. QED
    BY <1>4, <2>1 DEF StrayAccept, TypeOK, linkVars, pageVars
<1>5. CASE Finalize(t)
  <2>1. deal' \in [Trips -> {"none", "over"} \cup Locked]
    BY <1>1, <1>5 DEF Finalize, Locked
  <2>2. pg' \in Status /\ assigned' \subseteq Trips /\ missed' \subseteq Trips
    BY <1>5 DEF Finalize, TypeOK, Status
  <2>3. QED
    BY <1>5, <2>1, <2>2 DEF Finalize, TypeOK, linkVars, pageVars
<1>6. CASE Confirm(t)
  <2>1. deal' \in [Trips -> {"none", "over"} \cup Locked]
    BY <1>1, <1>6 DEF Confirm
  <2>2. down' \in Seq(Msg) /\ (~link => down' = <<>>)
    BY <1>6, Appended DEF Confirm, SendToDriver, TypeOK
  <2>3. missed' \subseteq Trips
    BY <1>6 DEF Confirm, TypeOK
  <2>4. QED
    BY <1>6, <2>1, <2>2, <2>3 DEF Confirm, TypeOK, pageVars
<1>7. QED
  BY <1>2, <1>3, <1>4, <1>5, <1>6

LEMMA LinkTyped ==
  ASSUME TypeOK, Respond \/ Break \/ Crash \/ Connect \/ Receive
  PROVE  TypeOK'
<1> USE Messages DEF Msg
<1> Unconfirmed \subseteq Trips
  BY DEF Unconfirmed
<1>1. CASE Respond
  <2>1. up' \in Seq([tripId : Trips, accept : BOOLEAN])
    BY <1>1, Tailed DEF Respond, TypeOK
  <2>2. deal' \in [Trips -> {"none", "over"} \cup Locked]
    BY <1>1 DEF Respond, TypeOK, Deals, Locked
  <2>3. link
    BY <1>1 DEF Respond, TypeOK
  <2>4. QED
    BY <1>1, <2>1, <2>2, <2>3 DEF Respond, TypeOK, pageVars, history
<1>2. CASE Break
  BY <1>2, Cut DEF Break, TypeOK, serverVars, pageVars
<1>3. CASE Crash
  <2>1. deal' \in [Trips -> {"none", "over"} \cup Locked]
    BY <1>3 DEF Crash, TypeOK
  <2>2. patch' \in [Patches -> [at : {"none", "sent", "checked", "done", "failed"},
                                target : Status, mine : BOOLEAN]]
    <3>1. \A s \in Patches : patch'[s] \in {[patch[s] EXCEPT !.at = "failed"], NoPatch, patch[s]}
      BY <1>3 DEF Crash
    <3>2. patch' = [s \in Patches |-> patch'[s]]
      BY <1>3 DEF Crash
    <3>3. ASSUME NEW s \in Patches
          PROVE  patch'[s] \in [at : {"none", "sent", "checked", "done", "failed"}, target : Status, mine : BOOLEAN]
      <4>1. patch[s] \in [at : {"none", "sent", "checked", "done", "failed"}, target : Status, mine : BOOLEAN]
        BY DEF TypeOK
      <4>2. QED
        BY <3>1, <4>1, PatchKinds, Zenon
    <3>4. QED
      BY <3>2, <3>3
  <2>3. QED
    BY <1>3, <2>1, <2>2, Cut DEF Crash, TypeOK, pageVars
<1>4. CASE Connect
  BY <1>4 DEF Connect, TypeOK, serverVars, pageVars, history
<1>5. CASE Receive
  <2>1. /\ down' \in Seq(Msg)
        /\ Head(down) \in Msg
    <3>1. down \in Seq(Msg) /\ down # <<>> /\ down' = Tail(down)
      BY <1>5 DEF Receive, TypeOK
    <3>2. QED
      BY ONLY <3>1, Tailed
  <2>2. phase' \in Phase
    BY <1>5, <2>1 DEF Receive, TypeOK, Phase
  <2>3. link
    BY <1>5 DEF Receive, TypeOK
  <2>4. QED
    BY <1>5, <2>1, <2>2, <2>3 DEF Receive, TypeOK, serverVars, history
<1>6. QED
  BY <1>1, <1>2, <1>3, <1>4, <1>5

LEMMA PageTyped ==
  ASSUME TypeOK,
         (\E accept \in BOOLEAN : Answer(accept)) \/ DeadlineElapses \/ GraceElapses \/ Reload
         \/ CheckReads \/ CheckAnswered \/ CheckFails \/ Refresh
  PROVE  TypeOK'
<1>1. ASSUME NEW accept \in BOOLEAN, Answer(accept) PROVE TypeOK'
  <2>1. phase.trip \in Trips /\ phase' \in Phase
    <3>1. phase' = [phase EXCEPT !.kind = IF accept THEN "responding" ELSE "declined"] /\ phase.kind # "idle"
      BY <1>1 DEF Answer, CanAnswer, ToPhase
    <3>2. QED
      BY <3>1, PhaseKinds
  <2>2. Response(phase.trip, accept) \in [tripId : Trips, accept : BOOLEAN]
    BY <2>1 DEF Response
  <2>3. up' \in Seq([tripId : Trips, accept : BOOLEAN]) /\ (~link => up' = <<>>)
    BY <1>1, <2>2, Appended DEF Answer, TypeOK
  <2>4. QED
    BY <1>1, <2>1, <2>3 DEF Answer, TypeOK, serverVars, history
<1>2. CASE DeadlineElapses
  <2>1. phase.trip \in Trips /\ phase' \in Phase
    BY <1>2, PhaseKinds DEF DeadlineElapses, ToPhase
  <2>2. QED
    BY <1>2, <2>1 DEF DeadlineElapses, TypeOK, serverVars, linkVars
<1>3. CASE GraceElapses
  <2>1. phase.trip \in Trips /\ phase' \in Phase
    BY <1>3, PhaseKinds DEF GraceElapses, ToPhase
  <2>2. missed' \subseteq Trips
    BY <1>3, <2>1 DEF GraceElapses, TypeOK
  <2>3. QED
    BY <1>3, <2>1, <2>2 DEF GraceElapses, TypeOK, serverVars, linkVars
<1>4. CASE Reload
  <2>1. patch' \in [Patches -> [at : {"none", "sent", "checked", "done", "failed"},
                                target : Status, mine : BOOLEAN]]
    BY <1>4 DEF Reload, TypeOK, NoPatch, Status
  <2>2. AtStake \subseteq Trips
    BY DEF AtStake, TypeOK
  <2>3. QED
    BY <1>4, <2>1, <2>2, Cut, IdlePhase DEF Reload, TypeOK, serverVars, Status
<1>5. CASE CheckReads
  BY <1>5 DEF CheckReads, TypeOK, serverVars, linkVars, history
<1>6. CASE CheckAnswered
  BY <1>6 DEF CheckAnswered, TypeOK, serverVars, linkVars, history
<1>7. CASE CheckFails
  BY <1>7 DEF CheckFails, TypeOK, serverVars, linkVars, history
<1>8. CASE Refresh
  BY <1>8 DEF Refresh, TypeOK, serverVars, linkVars, history
<1>9. QED
  BY <1>1, <1>2, <1>3, <1>4, <1>5, <1>6, <1>7, <1>8

LEMMA PatchTyped ==
  ASSUME TypeOK, NEW s \in Patches, PatchStep(s)
  PROVE  TypeOK'
<1> DEFINE P == [at : {"none", "sent", "checked", "done", "failed"}, target : Status, mine : BOOLEAN]
<1>1. ASSUME NEW p \in P, Goes(s, p) PROVE patch' \in [Patches -> P]
  BY <1>1 DEF Goes, TypeOK
<1>2. CASE HandleToggle(s)
  <2>1. patch' \in [Patches -> P]
    BY <1>1, <1>2 DEF HandleToggle, Status
  <2>2. QED
    BY <1>2, <2>1 DEF HandleToggle, TypeOK, serverVars, linkVars, pageVars, history
<1>3. CASE PatchRead(s)
  <2>1. patch' \in [Patches -> P]
    BY <1>1, <1>3, PatchKinds DEF PatchRead
  <2>2. QED
    BY <1>3, <2>1 DEF PatchRead, TypeOK, serverVars, linkVars, pageVars, history
<1>4. CASE PatchWrite(s)
  <2>1. patch' \in [Patches -> P]
    BY <1>1, <1>4, PatchKinds DEF PatchWrite
  <2>2. pg' \in Status /\ unbusied' \in BOOLEAN
    BY <1>4 DEF PatchWrite, TypeOK
  <2>3. QED
    BY <1>4, <2>1, <2>2 DEF PatchWrite, TypeOK, linkVars, pageVars
<1>5. CASE PatchFails(s)
  <2>1. patch' \in [Patches -> P]
    BY <1>1, <1>5, PatchKinds DEF PatchFails
  <2>2. QED
    BY <1>5, <2>1 DEF PatchFails, TypeOK, serverVars, linkVars, pageVars, history
<1>6. CASE PatchAnswered(s)
  <2>1. patch' \in [Patches -> P]
    BY <1>1, <1>6, PatchKinds DEF PatchAnswered
  <2>2. CASE patch[s].at = "failed"
    BY <1>6, <2>1, <2>2 DEF PatchAnswered, TypeOK, serverVars, linkVars
  <2>3. CASE patch[s].at # "failed" /\ patch[s].target = "online"
    BY <1>6, <2>1, <2>3 DEF PatchAnswered, TypeOK, serverVars, linkVars
  <2>4. CASE patch[s].at # "failed" /\ patch[s].target # "online"
    <3>1. AtStake \subseteq Trips
      BY DEF AtStake, TypeOK
    <3>2. status' \in Status
      BY <1>6, <2>4 DEF PatchAnswered, TypeOK
    <3>3. QED
      BY <1>6, <2>1, <2>4, <3>1, <3>2, Cut, IdlePhase DEF PatchAnswered, GoesOffline, TypeOK, serverVars
  <2>5. QED
    BY <2>2, <2>3, <2>4
<1>7. QED
  BY <1>2, <1>3, <1>4, <1>5, <1>6 DEF PatchStep

LEMMA Typed == TypeOK /\ [Next]_vars => TypeOK'
<1>1. ASSUME TypeOK, Next PROVE TypeOK'
  BY <1>1, ServerTyped, LinkTyped, PageTyped, PatchTyped, Zenon DEF Next
<1>2. ASSUME TypeOK, UNCHANGED vars PROVE TypeOK'
  BY <1>2 DEF TypeOK, vars, serverVars, linkVars, pageVars, history
<1>3. QED
  BY <1>1, <1>2
-----------------------------------------------------------------------------
(***************************************************************************)
(* Steps that take nothing to or from the page, and the start.               *)
(***************************************************************************)
LEMMA Starts == Init => IInv
<1> SUFFICES ASSUME Init PROVE IInv
  OBVIOUS
<1>1. TypeOK
  <2>1. \A S : <<>> \in Seq(S)
    OBVIOUS
  <2>2. patch \in [Patches -> [at : {"none", "sent", "checked", "done", "failed"},
                              target : Status, mine : BOOLEAN]]
    BY DEF Init, NoPatch, Status
  <2>3. QED
    BY <2>1, <2>2, IdlePhase DEF Init, TypeOK, Status
<1>2. DOMAIN down = {} /\ DOMAIN up = {}
  BY EmptyQueue DEF Init
<1>3. \A t \in Trips : deal[t] = "none" /\ phase.trip # t
  BY DriverPageAssumption DEF Init, Idle
<1>4. \A t \in Trips : ~Undecided(t)
  BY <1>2, <1>3, InQueue
<1>5. OneOpen /\ OfferedFirst /\ ConfirmedOnce /\ LastOffer /\ NoneBehind /\ ConfirmedFirst
  BY <1>2, <1>3 DEF OneOpen, Open, Locked, OfferedFirst, ConfirmedOnce, LastOffer, NoneBehind, ConfirmedFirst
<1>6. Chain
  BY <1>4 DEF Chain, Trusted
<1>7. Committed /\ MatchedIsAssigned /\ AssignedKnows /\ OnlyByPatch
  BY <1>3 DEF Init, Committed, MatchedIsAssigned, AssignedKnows, OnlyByPatch, Idle
<1>8. QED
  BY <1>1, <1>5, <1>6, <1>7 DEF IInv

\* The queues and the outcomes are the same: so is what the invariant says of them.
LEMMA Untouched ==
  ASSUME IInv, TypeOK', UNCHANGED <<pg, deal, assigned, down, up, phase, strayed, missed, unbusied>>
  PROVE  IInv'
<1>1. (OneOpen /\ Committed /\ OfferedFirst /\ ConfirmedOnce /\ LastOffer /\ NoneBehind)'
  BY DEF IInv, OneOpen, Open, Committed, OfferedFirst, ConfirmedOnce, IsConfirmation, LastOffer, IsOffer, NoneBehind
<1>2. Chain'
  BY DEF IInv, Chain, Trusted, Undecided, Unconfirmed
<1>3. ConfirmedFirst'
  BY DEF IInv, ConfirmedFirst, Trusted, IsConfirmation, IsOffer
<1>4. (MatchedIsAssigned /\ AssignedKnows /\ OnlyByPatch)'
  BY DEF IInv, MatchedIsAssigned, AssignedKnows, OnlyByPatch, Unconfirmed
<1>5. QED
  BY <1>1, <1>2, <1>3, <1>4 DEF IInv

\* A connection that ends: what was on its way is lost, and counted so.
LEMMA Lost ==
  ASSUME IInv, TypeOK', CutLink,
         deal' = deal \/ deal' = [t \in Trips |-> IF deal[t] \in Locked THEN "over" ELSE deal[t]],
         phase' = phase \/ (phase' = Idle /\ missed' = missed \cup AtStake),
         missed \cup Unconfirmed \cup {t \in Trips : deal[t] = "confirming" /\ deal'[t] # deal[t]} \subseteq missed',
         UNCHANGED <<pg, assigned, strayed, unbusied>>
  PROVE  IInv'
<1>1. DOMAIN down' = {} /\ DOMAIN up' = {}
  BY EmptyQueue, Cut
<1>2. /\ \A t \in Trips : deal'[t] = deal[t] \/ (deal[t] \in Locked /\ deal'[t] = "over")
      /\ \A t \in Trips : Open(t)' => Open(t)
  BY DEF Open, Locked
<1>3. \A t \in Trips : phase'.trip = t => phase.trip = t
  BY DriverPageAssumption DEF Idle
<1>4. OneOpen'
  BY <1>2 DEF IInv, OneOpen
<1>5. Committed'
  BY <1>2 DEF IInv, Committed, Locked
<1>6. OfferedFirst'
  BY <1>1, <1>2, <1>3 DEF IInv, OfferedFirst, Locked
<1>7. (ConfirmedOnce /\ LastOffer /\ NoneBehind /\ ConfirmedFirst)'
  BY <1>1 DEF ConfirmedOnce, LastOffer, NoneBehind, ConfirmedFirst
<1>8. \A t \in Trips : t \notin Unconfirmed'
  BY Cut DEF Unconfirmed, ToSet
<1>9. Chain'
  <2>1. ASSUME NEW t \in Trips, t \notin missed' \cup strayed', Undecided(t)'
        PROVE  phase' = [kind |-> "responding", trip |-> t]
    <3>1. deal'[t] \in {"finalizing", "confirming"}
      BY <1>8, <2>1, Cut DEF Undecided, ToSet
    <3>2. deal[t] = deal'[t] /\ t \notin missed \cup strayed
      BY <1>2, <2>1, <3>1
    <3>3. phase = [kind |-> "responding", trip |-> t]
      BY <3>1, <3>2 DEF IInv, Chain, Trusted, Undecided
    <3>4. t \in AtStake
      BY <3>1, <3>2 DEF AtStake, Locked
    <3>5. QED
      BY <2>1, <3>3, <3>4
  <2>2. QED
    BY <2>1 DEF Chain, Trusted
<1>10. MatchedIsAssigned'
  BY DEF IInv, MatchedIsAssigned, Idle
<1>11. AssignedKnows'
  <2>1. ASSUME NEW t \in assigned, t \notin missed' \cup strayed', deal'[t] = "over"
        PROVE  phase' = [kind |-> "matched", trip |-> t]
    <3>1. t \in Trips /\ t \notin missed \cup strayed /\ t \notin Unconfirmed
      BY <2>1 DEF IInv, TypeOK
    <3>2. deal[t] = "over"
      BY <1>2, <2>1, <3>1 DEF IInv, Committed
    <3>3. phase = [kind |-> "matched", trip |-> t]
      BY <3>1, <3>2 DEF IInv, AssignedKnows
    <3>4. t \in AtStake
      BY DEF AtStake
    <3>5. QED
      BY <2>1, <3>3, <3>4
  <2>2. QED
    BY <2>1 DEF AssignedKnows
<1>12. OnlyByPatch'
  BY DEF IInv, OnlyByPatch
<1>13. QED
  BY <1>4, <1>5, <1>6, <1>7, <1>9, <1>10, <1>11, <1>12 DEF IInv
-----------------------------------------------------------------------------
(***************************************************************************)
(* The server's steps.                                                       *)
(***************************************************************************)
LEMMA Offered ==
  ASSUME IInv, TypeOK', NEW t \in Trips, SendOffer(t)
  PROVE  IInv'
<1>1. /\ deal[t] = "none"
      /\ \A u \in Trips : ~Open(u)
      /\ \A u \in Trips : deal'[u] = IF u = t THEN "waiting" ELSE deal[u]
      /\ UNCHANGED <<pg, assigned, up, phase, strayed, missed, unbusied>>
  BY DEF SendOffer, Deals, Open, IInv, TypeOK, pageVars, history
<1>2. \A u \in Trips : Open(u)' => u = t
  BY <1>1 DEF Open
<1>3. PICK n \in Nat :
        /\ DOMAIN down' = DOMAIN down \cup {n}
        /\ down'[n] = Offer(t)
        /\ \A i \in DOMAIN down : i \in Nat /\ i < n /\ down'[i] = down[i]
  <2>1. down \in Seq(Msg) /\ Offer(t) \in Msg /\ down' = Append(down, Offer(t))
    BY Messages DEF SendOffer, IInv, TypeOK, Msg
  <2>2. QED
    BY ONLY <2>1, Appended
<1>4. Offer(t).type = "trip_offer" /\ Offer(t).tripId = t /\ \A u \in Trips : Offer(t) # Matched(u)
  BY Messages
<1>5. \A i \in DOMAIN down : down[i].tripId # t
  BY <1>1 DEF IInv, OfferedFirst
<1>6. \A u \in Trips : \A i : IsConfirmation(i, u)' <=> IsConfirmation(i, u)
  BY <1>3, <1>4 DEF IsConfirmation
<1>7. OneOpen' /\ Committed'
  BY <1>1, <1>2 DEF OneOpen, Committed, IInv
<1>8. OfferedFirst'
  BY <1>1, <1>3, <1>4 DEF OfferedFirst, IInv
<1>9. ConfirmedOnce'
  <2>1. \A u \in Trips, i \in DOMAIN down : IsConfirmation(i, u) => u # t
    BY <1>1 DEF IInv, ConfirmedOnce
  <2>2. \A u \in Trips : \A i : IsConfirmation(i, u) => i \in DOMAIN down
    BY DEF IsConfirmation
  <2>3. QED
    BY <1>1, <1>6, <2>1, <2>2 DEF ConfirmedOnce, IInv
<1>10. LastOffer'
  <2>1. ASSUME NEW i \in DOMAIN down', NEW j \in DOMAIN down', down'[i] = Offer(t), i < j
        PROVE  FALSE
    <3>1. i = n
      BY <1>3, <1>4, <1>5, <2>1
    <3>2. QED
      BY <1>3, <2>1, <3>1
  <2>2. QED
    BY <1>2, <2>1 DEF LastOffer
<1>11. NoneBehind'
  BY <1>1, <1>2 DEF NoneBehind, IInv, OfferedFirst
<1>12. \A u \in Trips : u \in Unconfirmed' <=> u \in Unconfirmed
  BY <1>3, <1>4 DEF Unconfirmed, ToSet
<1>13. \A u \in Trips : Undecided(u)' => Undecided(u)
  <2>1. \A i \in DOMAIN up : up[i] # Response(t, TRUE)
    BY <1>1 DEF IInv, OfferedFirst, Response
  <2>2. QED
    BY <1>1, <1>12, <2>1 DEF Undecided, ToSet
<1>14. Chain'
  BY <1>1, <1>13 DEF Chain, Trusted, IInv
<1>15. ConfirmedFirst'
  <2>1. ASSUME NEW u \in Trusted', NEW i \in DOMAIN down', NEW j \in DOMAIN down',
               IsConfirmation(i, u)', IsOffer(j)'
        PROVE  i < j
    <3>1. u \in Trusted /\ IsConfirmation(i, u) /\ i \in DOMAIN down
      BY <1>1, <1>6, <2>1 DEF Trusted, IsConfirmation
    <3>2. CASE j = n
      BY <1>3, <3>1, <3>2
    <3>3. CASE j \in DOMAIN down
      BY <1>3, <2>1, <3>1, <3>3 DEF IsOffer, IInv, ConfirmedFirst
    <3>4. QED
      BY <1>3, <3>2, <3>3
  <2>2. QED
    BY <2>1 DEF ConfirmedFirst
<1>16. MatchedIsAssigned' /\ AssignedKnows' /\ OnlyByPatch'
  <2>1. t \notin assigned
    BY <1>1 DEF IInv, Committed
  <2>2. assigned \subseteq Trips
    BY DEF IInv, TypeOK
  <2>3. QED
    BY <1>1, <1>12, <2>1, <2>2 DEF IInv, MatchedIsAssigned, AssignedKnows, OnlyByPatch
<1>17. QED
  BY <1>7, <1>8, <1>9, <1>10, <1>11, <1>14, <1>15, <1>16 DEF IInv

\* An attempt goes on, with no message: what is undecided was so before, or is not trusted.
LEMMA Advanced ==
  ASSUME IInv, TypeOK', NEW t \in Trips, OfferTimesOut(t) \/ StrayAccept(t) \/ Finalize(t)
  PROVE  IInv'
<1>1. /\ Open(t) /\ deal[t] \in {"waiting", "finalizing"}
      /\ deal'[t] \in {"finalizing", "confirming", "over"}
      /\ \A u \in Trips : u # t => deal'[u] = deal[u]
      /\ UNCHANGED <<down, up, phase>>
      /\ missed \subseteq missed' /\ strayed \subseteq strayed'
  BY DEF OfferTimesOut, StrayAccept, Finalize, Deals, Open, Locked, IInv, TypeOK, linkVars, pageVars, history
<1>2. /\ deal'[t] = "finalizing" => t \in strayed'
      /\ deal'[t] = "confirming" => deal[t] = "finalizing" /\ t \in assigned'
      /\ t \in assigned' => deal'[t] = "confirming" \/ t \in missed'
      /\ t \in assigned' => deal'[t] \in {"confirming", "over"}
  <2>1. t \notin assigned
    BY <1>1 DEF IInv, Committed
  <2>2. QED
    BY <2>1 DEF OfferTimesOut, StrayAccept, Finalize, Deals, IInv, TypeOK, history
<1>3. assigned' = assigned \/ (assigned' = assigned \cup {t} /\ pg = "online" /\ pg' = "busy")
  BY DEF OfferTimesOut, StrayAccept, Finalize, CanFinalize
<1>4. \A u \in Trips : Open(u)' => Open(u)
  BY <1>1 DEF Open
<1>5. Trusted' \subseteq Trusted
  BY <1>1 DEF Trusted
<1>6. OneOpen'
  BY <1>4 DEF IInv, OneOpen
<1>7. Committed'
  BY <1>1, <1>2, <1>3 DEF IInv, Committed
<1>8. OfferedFirst'
  BY <1>1 DEF IInv, OfferedFirst
<1>9. ConfirmedOnce'
  <2>1. \A u \in Trips, i \in DOMAIN down : IsConfirmation(i, u) => u # t
    BY <1>1 DEF IInv, ConfirmedOnce, Committed
  <2>2. QED
    BY <1>1, <1>3, <2>1 DEF IInv, ConfirmedOnce, IsConfirmation
<1>10. LastOffer' /\ NoneBehind' /\ ConfirmedFirst'
  BY <1>1, <1>4, <1>5 DEF IInv, LastOffer, NoneBehind, ConfirmedFirst, IsOffer, IsConfirmation
<1>11. Unconfirmed' = Unconfirmed
  BY <1>1 DEF Unconfirmed
<1>12. \A u \in Trusted' : Undecided(u)' => Undecided(u)
  BY <1>1, <1>2, <1>11 DEF Undecided, Trusted
<1>13. Chain'
  BY <1>1, <1>5, <1>12 DEF Chain, IInv
<1>14. MatchedIsAssigned'
  BY <1>1, <1>3 DEF IInv, MatchedIsAssigned
<1>15. AssignedKnows'
  <2>1. ASSUME NEW u \in assigned', u \notin strayed' \cup missed', deal'[u] = "over", u \notin Unconfirmed'
        PROVE  phase' = [kind |-> "matched", trip |-> u]
    <3>1. u # t
      BY <1>2, <2>1
    <3>2. u \in assigned /\ u \in Trips
      BY <1>3, <3>1 DEF IInv, TypeOK
    <3>3. QED
      BY <1>1, <1>11, <2>1, <3>1, <3>2 DEF IInv, AssignedKnows
  <2>2. QED
    BY <2>1 DEF AssignedKnows
<1>16. OnlyByPatch'
  <2>1. CASE assigned' = assigned /\ pg' = pg /\ unbusied' = unbusied
    BY <2>1 DEF IInv, OnlyByPatch
  <2>2. CASE assigned' = assigned \cup {t} /\ pg = "online" /\ pg' = "busy" /\ unbusied' = unbusied
    BY <2>2 DEF IInv, OnlyByPatch
  <2>3. QED
    BY <2>1, <2>2 DEF OfferTimesOut, StrayAccept, Finalize, CanFinalize, history
<1>17. QED
  BY <1>6, <1>7, <1>8, <1>9, <1>10, <1>13, <1>14, <1>15, <1>16 DEF IInv
LEMMA ConfirmationSent ==
  ASSUME IInv, TypeOK', NEW t \in Trips, Confirm(t)
  PROVE  IInv'
<1>1. /\ deal[t] = "confirming" /\ Open(t) /\ t \in assigned
      /\ \A u \in Trips : deal'[u] = IF u = t THEN "over" ELSE deal[u]
      /\ UNCHANGED <<pg, assigned, up, phase, strayed, unbusied>>
      /\ missed \subseteq missed'
  BY DEF Confirm, Deals, Open, Locked, IInv, Committed, TypeOK, pageVars
<1>2. \A u \in Trips : Open(u)' => Open(u) /\ u # t
  BY <1>1 DEF Open, Locked
<1>3. Trusted' \subseteq Trusted
  BY <1>1 DEF Trusted
<1>4. /\ \A u, v \in Trips : Open(u) /\ Open(v) => u = v
      /\ \A u \in Trips : ~Open(u)'
  BY <1>1, <1>2 DEF IInv, OneOpen
<1>5. OneOpen' /\ LastOffer' /\ NoneBehind'
  BY <1>4 DEF OneOpen, LastOffer, NoneBehind
<1>6. Committed' /\ MatchedIsAssigned' /\ OnlyByPatch'
  BY <1>1 DEF IInv, Committed, MatchedIsAssigned, OnlyByPatch
<1>7. CASE link
  <2>1. missed' = missed
    BY <1>7 DEF Confirm
  <2>2. PICK n \in Nat :
          /\ DOMAIN down' = DOMAIN down \cup {n}
          /\ down'[n] = Matched(t)
          /\ \A i \in DOMAIN down : i \in Nat /\ i < n /\ down'[i] = down[i]
    <3>1. down \in Seq(Msg) /\ Matched(t) \in Msg /\ down' = Append(down, Matched(t))
      BY <1>7, Messages DEF Confirm, SendToDriver, IInv, TypeOK, Msg
    <3>2. QED
      BY ONLY <3>1, Appended
  <2>3. /\ Matched(t).type # "trip_offer" /\ Matched(t).tripId = t
        /\ \A u \in Trips : Matched(u) = Matched(t) => u = t
    BY Messages
  <2>4. /\ \A i : IsOffer(i)' <=> IsOffer(i)
        /\ \A u \in Trips : \A i : IsConfirmation(i, u)' <=> IsConfirmation(i, u) \/ (i = n /\ u = t)
    BY <2>2, <2>3 DEF IsOffer, IsConfirmation
  <2>5. \A i : ~IsConfirmation(i, t)
    BY <1>1 DEF IInv, ConfirmedOnce, IsConfirmation
  <2>6. OfferedFirst'
    BY <1>1, <2>2, <2>3 DEF IInv, OfferedFirst
  <2>7. ConfirmedOnce'
    <3>1. \A u \in Trips : \A i, j : IsConfirmation(i, u)' /\ IsConfirmation(j, u)' => i = j
      BY <2>4, <2>5 DEF IInv, ConfirmedOnce, IsConfirmation
    <3>2. \A u \in Trips : \A i : IsConfirmation(i, u)' => u \in assigned /\ (u = t \/ deal[u] = "over")
      BY <1>1, <2>4 DEF IInv, ConfirmedOnce, IsConfirmation
    <3>3. QED
      BY <1>1, <3>1, <3>2 DEF ConfirmedOnce
  <2>8. \A u \in Trips : u \in Unconfirmed' <=> u \in Unconfirmed \/ u = t
    BY <2>2, <2>3 DEF Unconfirmed, ToSet
  <2>9. \A u \in Trips : Undecided(u)' => Undecided(u)
    BY <1>1, <2>8 DEF Undecided
  <2>10. Chain'
    BY <1>1, <1>3, <2>9 DEF Chain, IInv, Trusted
  <2>11. ConfirmedFirst'
    <3>1. ASSUME NEW u \in Trusted', NEW i, NEW j, IsConfirmation(i, u)', IsOffer(j)'
          PROVE  i < j
      <4>1. u \in Trusted /\ u \in Trips /\ IsOffer(j)
        BY <1>3, <2>4, <3>1 DEF Trusted
      <4>2. CASE u = t
        <5>1. phase = [kind |-> "responding", trip |-> t]
          BY <1>1, <4>1, <4>2 DEF IInv, Chain, Undecided
        <5>2. QED
          BY <1>1, <4>1, <5>1 DEF IInv, NoneBehind, IsOffer
      <4>3. CASE u # t
        BY <2>4, <3>1, <4>1, <4>3 DEF IInv, ConfirmedFirst, IsConfirmation, IsOffer
      <4>4. QED
        BY <4>2, <4>3
    <3>2. QED
      BY <3>1 DEF ConfirmedFirst
  <2>12. AssignedKnows'
    <3>1. assigned \subseteq Trips
      BY DEF IInv, TypeOK
    <3>2. QED
      BY <1>1, <2>1, <2>8, <3>1 DEF IInv, AssignedKnows
  <2>13. QED
    BY <1>5, <1>6, <2>6, <2>7, <2>10, <2>11, <2>12 DEF IInv
<1>8. CASE ~link
  <2>1. down' = down /\ missed' = missed \cup {t}
    BY <1>8 DEF Confirm, SendToDriver
  <2>2. OfferedFirst' /\ ConfirmedOnce'
    BY <1>1, <2>1 DEF IInv, OfferedFirst, ConfirmedOnce, IsConfirmation
  <2>3. ConfirmedFirst'
    BY <1>3, <2>1 DEF IInv, ConfirmedFirst, IsConfirmation, IsOffer
  <2>4. Unconfirmed' = Unconfirmed
    BY <2>1 DEF Unconfirmed
  <2>5. Chain'
    BY <1>1, <1>3, <2>4 DEF IInv, Chain, Undecided, Trusted
  <2>6. AssignedKnows'
    <3>1. assigned \subseteq Trips
      BY DEF IInv, TypeOK
    <3>2. QED
      BY <1>1, <2>1, <2>4, <3>1 DEF IInv, AssignedKnows
  <2>7. QED
    BY <1>5, <1>6, <2>2, <2>3, <2>5, <2>6 DEF IInv
<1>9. QED
  BY <1>7, <1>8

LEMMA Answered ==
  ASSUME IInv, TypeOK', Respond
  PROVE  IInv'
<1>1. /\ Head(up) = up[1] /\ 1 \in DOMAIN up
      /\ up[1] \in [tripId : Trips, accept : BOOLEAN]
      /\ \A i \in DOMAIN up' : i + 1 \in DOMAIN up /\ up'[i] = up[i + 1]
  <2>1. up \in Seq([tripId : Trips, accept : BOOLEAN]) /\ up # <<>> /\ up' = Tail(up)
    BY DEF Respond, IInv, TypeOK
  <2>2. QED
    BY ONLY <2>1, Tailed
<1> DEFINE t == up[1].tripId
<1>2. /\ t \in Trips
      /\ up[1].accept => up[1] = Response(t, TRUE)
  BY <1>1 DEF Response
<1>3. /\ UNCHANGED <<pg, assigned, down, phase, strayed, missed, unbusied>>
      /\ \A u \in Trips : deal'[u] = deal[u] \/
           (u = t /\ deal[u] = "waiting" /\ (deal'[u] = "over" \/ (deal'[u] = "finalizing" /\ up[1].accept)))
  BY <1>1, <1>2 DEF Respond, Deals, IInv, TypeOK, pageVars, history
<1>4. \A u \in Trips : Open(u)' => Open(u)
  BY <1>3 DEF Open, Locked
<1>5. OneOpen' /\ LastOffer' /\ NoneBehind'
  BY <1>3, <1>4 DEF IInv, OneOpen, LastOffer, NoneBehind, IsOffer
<1>6. Committed'
  BY <1>3 DEF IInv, Committed
<1>7. OfferedFirst'
  BY <1>1, <1>3 DEF IInv, OfferedFirst
<1>8. ConfirmedOnce' /\ ConfirmedFirst'
  BY <1>3 DEF IInv, ConfirmedOnce, ConfirmedFirst, IsConfirmation, IsOffer, Trusted
<1>9. Unconfirmed' = Unconfirmed
  BY <1>3 DEF Unconfirmed
<1>10. \A u \in Trips : Undecided(u)' => Undecided(u)
  <2>1. \A r : r \in ToSet(up)' => r \in ToSet(up)
    <3>1. ToSet(up)' = {up'[i] : i \in DOMAIN up'} /\ ToSet(up) = {up[i] : i \in DOMAIN up}
      BY DEF ToSet
    <3>2. QED
      BY <1>1, <3>1
  <2>2. up[1].accept => Response(t, TRUE) \in ToSet(up)
    BY <1>1, <1>2 DEF ToSet
  <2>3. QED
    BY <1>3, <1>9, <2>1, <2>2 DEF Undecided
<1>11. Chain'
  BY <1>3, <1>10 DEF IInv, Chain, Trusted
<1>12. MatchedIsAssigned' /\ OnlyByPatch'
  BY <1>3 DEF IInv, MatchedIsAssigned, OnlyByPatch
<1>13. AssignedKnows'
  <2>1. \A u \in assigned : u \in Trips /\ deal[u] # "waiting"
    BY DEF IInv, TypeOK, Committed
  <2>2. QED
    BY <1>3, <1>9, <2>1 DEF IInv, AssignedKnows
<1>14. QED
  BY <1>5, <1>6, <1>7, <1>8, <1>11, <1>12, <1>13 DEF IInv

\* The page reads its next message.
LEMMA Received ==
  ASSUME IInv, TypeOK', Receive
  PROVE  IInv'
<1>1. /\ down \in Seq(Msg) /\ down # <<>> /\ down' = Tail(down)
      /\ UNCHANGED <<pg, deal, assigned, up, strayed, missed, unbusied>>
  BY DEF Receive, IInv, TypeOK, Msg, serverVars, history
<1>2. /\ 1 \in DOMAIN down /\ Head(down) = down[1] /\ down[1] \in Msg
      /\ \A i \in DOMAIN down : i \in Nat /\ (i = 1 \/ (i > 1 /\ i - 1 \in DOMAIN down'))
      /\ \A i \in DOMAIN down' : i \in Nat /\ i + 1 \in DOMAIN down /\ i + 1 > 1 /\ down'[i] = down[i + 1]
  BY ONLY <1>1, Tailed
<1> DEFINE m == down[1]
<1> HIDE DEF m
<1>3. /\ m.tripId \in Trips
      /\ m.type = "trip_offer" => m = Offer(m.tripId) /\ IsOffer(1)
      /\ m.type = "trip_matched" => m = Matched(m.tripId) /\ IsConfirmation(1, m.tripId)
      /\ m.type \in {"trip_offer", "trip_matched"}
  BY <1>2, Messages DEF Msg, m, IsOffer, IsConfirmation
<1>4. deal[m.tripId] # "none"
  BY <1>2, <1>3 DEF m, IInv, OfferedFirst
<1>5. phase' = IF m.type = "trip_offer" /\ phase.kind # "matched"
                 THEN [kind |-> "offered", trip |-> m.tripId]
               ELSE IF m.type = "trip_matched" /\ Confirms(m)
                 THEN [kind |-> "matched", trip |-> m.tripId]
               ELSE phase
  BY <1>2 DEF Receive, m
<1>6. /\ \A i : IsOffer(i)' => i \in Nat /\ i + 1 > 1 /\ IsOffer(i + 1)
      /\ \A u \in Trips : \A i : IsConfirmation(i, u)' => i \in Nat /\ i + 1 > 1 /\ IsConfirmation(i + 1, u)
  BY <1>2 DEF IsOffer, IsConfirmation
<1>7. \A u \in Trips : Open(u)' <=> Open(u)
  BY <1>1 DEF Open
<1>8. OneOpen' /\ Committed'
  BY <1>1, <1>7 DEF IInv, OneOpen, Committed
<1>9. OfferedFirst'
  BY <1>1, <1>2, <1>4, <1>5 DEF IInv, OfferedFirst
<1>10. ConfirmedOnce'
  <2>1. \A u \in Trips : \A i, j : IsConfirmation(i, u) /\ IsConfirmation(j, u) => i = j /\ u \in assigned /\ deal[u] = "over"
    BY DEF IInv, ConfirmedOnce, IsConfirmation
  <2>2. \A u \in Trips : \A i, j : IsConfirmation(i, u)' /\ IsConfirmation(j, u)' => i = j /\ u \in assigned /\ deal[u] = "over"
    BY <1>6, <2>1
  <2>3. QED
    BY <1>1, <2>2 DEF ConfirmedOnce
<1>11. LastOffer'
  BY <1>2, <1>6, <1>7 DEF IInv, LastOffer
<1>12. NoneBehind'
  <2>1. ASSUME NEW t \in Trips, Open(t), phase'.trip = t, phase'.kind \in {"offered", "responding"},
               NEW j \in DOMAIN down', IsOffer(j)'
        PROVE  FALSE
    <3>1. IsOffer(j + 1) /\ j + 1 > 1 /\ j + 1 \in DOMAIN down
      BY <1>2, <1>6, <2>1
    <3>2. phase' # phase
      BY <2>1, <3>1 DEF IInv, NoneBehind
    <3>3. m = Offer(t)
      BY <1>3, <1>5, <2>1, <3>2
    <3>4. QED
      BY <1>2, <2>1, <3>1, <3>3 DEF IInv, LastOffer, m
  <2>2. QED
    BY <1>7, <2>1 DEF NoneBehind
<1>13. ConfirmedFirst'
  <2>1. \A u \in Trusted : \A i, j : IsConfirmation(i, u) /\ IsOffer(j) => i < j
    BY DEF IInv, ConfirmedFirst, IsConfirmation, IsOffer
  <2>2. Trusted' = Trusted /\ Trusted \subseteq Trips
    BY <1>1 DEF Trusted
  <2>3. \A u \in Trusted : \A i, j : IsConfirmation(i, u)' /\ IsOffer(j)' => i < j
    BY <1>6, <2>1, <2>2
  <2>4. QED
    BY <2>2, <2>3 DEF ConfirmedFirst
<1>14. \A u \in Trips :
         /\ u \in Unconfirmed' => u \in Unconfirmed
         /\ u \in Unconfirmed => u \in Unconfirmed' \/ m = Matched(u)
         /\ u \in Unconfirmed' => ~IsConfirmation(1, u)
  <2>1. \A u : u \in Unconfirmed' <=> u \in Trips /\ \E i \in DOMAIN down' : IsConfirmation(i, u)'
    BY DEF Unconfirmed, ToSet, IsConfirmation
  <2>2. \A u \in Trips : \A i, j : IsConfirmation(i, u) /\ IsConfirmation(j, u) => i = j
    BY DEF IInv, ConfirmedOnce, IsConfirmation
  <2>3. \A u \in Trips : \A i : IsConfirmation(i, u) => i = 1 \/ \E j \in DOMAIN down' : IsConfirmation(j, u)'
    <3>1. \A i \in DOMAIN down : i = 1 \/ (i - 1 \in DOMAIN down' /\ down'[i - 1] = down[i])
      BY <1>2
    <3>2. QED
      BY <3>1 DEF IsConfirmation
  <2>4. \A u \in Trips : IsConfirmation(1, u) => m = Matched(u)
    BY DEF IsConfirmation, m
  <2>5. \A u \in Trips : \A i : /\ IsConfirmation(i, u) => i \in DOMAIN down
                               /\ IsConfirmation(i, u)' => i \in DOMAIN down'
    BY DEF IsConfirmation
  <2>6. ASSUME NEW u \in Trips, u \in Unconfirmed'
        PROVE  u \in Unconfirmed /\ ~IsConfirmation(1, u)
    <3>1. PICK i \in DOMAIN down' : IsConfirmation(i, u)'
      BY <2>1, <2>6
    <3>2. i + 1 > 1 /\ IsConfirmation(i + 1, u)
      BY <1>6, <3>1
    <3>3. QED
      BY <1>2, <2>2, <2>5, <3>1, <3>2, InQueue
  <2>7. ASSUME NEW u \in Trips, u \in Unconfirmed
        PROVE  u \in Unconfirmed' \/ m = Matched(u)
    <3>1. PICK i \in DOMAIN down : IsConfirmation(i, u)
      BY <2>7, InQueue
    <3>2. CASE i = 1
      BY <2>4, <3>1, <3>2
    <3>3. CASE i # 1
      BY <2>1, <2>3, <3>1, <3>3
    <3>4. QED
      BY <3>2, <3>3
  <2>8. QED
    BY <2>6, <2>7
<1>15. \A u \in Trips : Undecided(u)' => Undecided(u)
  BY <1>1, <1>14 DEF Undecided
<1>16. ASSUME NEW u \in Trusted, Undecided(u)' PROVE phase' = [kind |-> "responding", trip |-> u]
  <2>1. u \in Trips /\ Undecided(u) /\ phase = [kind |-> "responding", trip |-> u]
    BY <1>15, <1>16 DEF IInv, Chain, Trusted
  <2>2. CASE m.type = "trip_offer"
    <3>1. IsOffer(1)
      BY <1>3, <2>2
    <3>2. ~Open(u)
      BY <1>2, <2>1, <3>1 DEF IInv, NoneBehind
    <3>3. u \in Unconfirmed
      BY <2>1, <3>2 DEF Undecided, Open, Locked
    <3>4. PICK i \in DOMAIN down : IsConfirmation(i, u)
      BY <3>3, InQueue
    <3>5. i < 1
      BY <1>2, <3>1, <3>4 DEF IInv, ConfirmedFirst
    <3>6. QED
      BY <1>2, <3>5
  <2>3. CASE m.type = "trip_matched" /\ Confirms(m)
    <3>1. m.tripId = u /\ IsConfirmation(1, u)
      BY <1>3, <2>1, <2>3 DEF Confirms
    <3>2. deal[u] = "over" /\ u \notin Unconfirmed'
      BY <1>2, <1>14, <2>1, <3>1 DEF IInv, ConfirmedOnce
    <3>3. QED
      BY <1>1, <1>16, <3>2 DEF Undecided
  <2>4. QED
    BY <1>3, <1>5, <2>1, <2>2, <2>3
<1>17. Chain'
  BY <1>1, <1>16 DEF Chain, Trusted
<1>18. MatchedIsAssigned'
  <2>1. m.type = "trip_matched" => m.tripId \in assigned
    BY <1>2, <1>3 DEF IInv, ConfirmedOnce
  <2>2. QED
    BY <1>1, <1>5, <2>1 DEF IInv, MatchedIsAssigned
<1>19. ASSUME NEW u \in assigned \ (strayed \cup missed), deal[u] = "over", u \notin Unconfirmed'
       PROVE  phase' = [kind |-> "matched", trip |-> u]
  <2>1. u \in Trips /\ u \in Trusted
    BY <1>19 DEF IInv, TypeOK, Trusted
  <2>2. CASE u \in Unconfirmed
    <3>1. m = Matched(u) /\ m.type = "trip_matched" /\ m.tripId = u
      BY <1>14, <1>19, <2>1, <2>2, Messages
    <3>2. phase = [kind |-> "responding", trip |-> u]
      BY <2>1, <2>2 DEF IInv, Chain, Undecided
    <3>3. Confirms(m)
      BY <3>1, <3>2 DEF Confirms
    <3>4. QED
      BY <1>5, <3>1, <3>3
  <2>3. CASE u \notin Unconfirmed
    <3>1. phase = [kind |-> "matched", trip |-> u]
      BY <1>19, <2>3 DEF IInv, AssignedKnows
    <3>2. QED
      BY <1>5, <3>1 DEF Confirms
  <2>4. QED
    BY <2>2, <2>3
<1>20. AssignedKnows' /\ OnlyByPatch'
  BY <1>1, <1>19 DEF AssignedKnows, OnlyByPatch, IInv
<1>21. QED
  BY <1>8, <1>9, <1>10, <1>11, <1>12, <1>13, <1>17, <1>18, <1>20 DEF IInv
-----------------------------------------------------------------------------
(***************************************************************************)
(* The page's own steps.                                                     *)
(***************************************************************************)
LEMMA Tapped ==
  ASSUME IInv, TypeOK', NEW accept \in BOOLEAN, Answer(accept)
  PROVE  IInv'
<1> DEFINE t == phase.trip
<1>1. /\ phase.kind = "offered" /\ t \in Trips
      /\ phase' = [kind |-> IF accept THEN "responding" ELSE "declined", trip |-> t]
      /\ UNCHANGED <<pg, deal, assigned, down, strayed, missed, unbusied>>
  <2>1. phase.kind = "offered" /\ t \in Trips
    BY PhaseKinds DEF Answer, CanAnswer, IInv
  <2>2. phase' = [phase EXCEPT !.kind = IF accept THEN "responding" ELSE "declined"]
    BY DEF Answer, ToPhase
  <2>3. phase' = [kind |-> IF accept THEN "responding" ELSE "declined", trip |-> t]
    BY <2>1, <2>2, PhaseKinds DEF IInv
  <2>4. QED
    BY <2>1, <2>3 DEF Answer, serverVars, history
<1>2. \A r : r \in ToSet(up') => r \in ToSet(up) \/ r = Response(t, accept)
  <2>1. CASE up' = up
    BY <2>1
  <2>2. CASE up' = Append(up, Response(t, accept))
    <3>1. up \in Seq([tripId : Trips, accept : BOOLEAN]) /\ Response(t, accept) \in [tripId : Trips, accept : BOOLEAN]
      BY <1>1 DEF IInv, TypeOK, Response
    <3>2. PICK n \in Nat : DOMAIN up' = DOMAIN up \cup {n} /\ up'[n] = Response(t, accept)
                           /\ \A i \in DOMAIN up : up'[i] = up[i]
      BY ONLY <2>2, <3>1, Appended
    <3>3. QED
      BY <3>2 DEF ToSet
  <2>3. QED
    BY <2>1, <2>2 DEF Answer
<1>3. deal[t] # "none"
  BY <1>1 DEF IInv, OfferedFirst
<1>4. OneOpen' /\ Committed'
  BY <1>1 DEF IInv, OneOpen, Committed, Open
<1>5. OfferedFirst'
  <2>1. \A i \in DOMAIN up' : up'[i] = Response(t, accept) \/ \E j \in DOMAIN up : up'[i] = up[j]
    BY <1>2 DEF ToSet
  <2>2. Response(t, accept).tripId = t
    BY DEF Response
  <2>3. QED
    BY <1>1, <1>3, <2>1, <2>2 DEF IInv, OfferedFirst
<1>6. ConfirmedOnce' /\ LastOffer' /\ ConfirmedFirst'
  BY <1>1 DEF IInv, ConfirmedOnce, LastOffer, ConfirmedFirst, IsConfirmation, IsOffer, Trusted, Open
<1>7. NoneBehind'
  BY <1>1 DEF IInv, NoneBehind, IsOffer, Open
<1>8. Unconfirmed' = Unconfirmed
  BY <1>1 DEF Unconfirmed
<1>9. ASSUME NEW u \in Trusted, Undecided(u)' PROVE phase' = [kind |-> "responding", trip |-> u]
  <2>1. ~Undecided(u)
    BY <1>1 DEF IInv, Chain
  <2>2. Response(u, TRUE) \in ToSet(up') /\ Response(u, TRUE) \notin ToSet(up)
    BY <1>1, <1>8, <1>9, <2>1 DEF Undecided
  <2>3. Response(u, TRUE) = Response(t, accept)
    BY <1>2, <2>2
  <2>4. u = t /\ accept
    BY <2>3 DEF Response
  <2>5. QED
    BY <1>1, <2>4
<1>10. Chain'
  BY <1>1, <1>9 DEF Chain, Trusted
<1>11. MatchedIsAssigned' /\ AssignedKnows' /\ OnlyByPatch'
  BY <1>1, <1>8 DEF IInv, MatchedIsAssigned, AssignedKnows, OnlyByPatch
<1>12. QED
  BY <1>4, <1>5, <1>6, <1>7, <1>10, <1>11 DEF IInv

\* A timer ends the wait; whoever may yet be confirmed has been missed.
LEMMA Elapsed ==
  ASSUME IInv, TypeOK', DeadlineElapses \/ GraceElapses
  PROVE  IInv'
<1> DEFINE t == phase.trip
<1>1. /\ phase.kind \in {"offered", "responding"} /\ t \in Trips
      /\ phase'.kind \in {"no_response", "too_late"} /\ phase'.trip = t
      /\ UNCHANGED <<pg, deal, assigned, down, up, strayed, unbusied>>
  <2>1. phase.kind \in {"offered", "responding"} /\ t \in Trips
    BY PhaseKinds DEF DeadlineElapses, GraceElapses, IInv
  <2>2. PICK k \in {"no_response", "too_late"} : phase' = [phase EXCEPT !.kind = k]
    BY DEF DeadlineElapses, GraceElapses, ToPhase
  <2>3. phase' = [kind |-> k, trip |-> t]
    BY <2>1, <2>2, PhaseKinds DEF IInv
  <2>4. QED
    BY <2>1, <2>3 DEF DeadlineElapses, GraceElapses, serverVars, linkVars
<1>2. /\ missed \subseteq missed'
      /\ phase.kind = "responding" /\ Undecided(t) => t \in missed'
  BY DEF DeadlineElapses, GraceElapses
<1>3. Trusted' \subseteq Trusted /\ Trusted \subseteq Trips
  BY <1>1, <1>2 DEF Trusted
<1>4. OneOpen' /\ Committed' /\ OfferedFirst' /\ ConfirmedOnce' /\ LastOffer'
  BY <1>1 DEF IInv, OneOpen, Committed, OfferedFirst, ConfirmedOnce, LastOffer, IsConfirmation, IsOffer, Open
<1>5. NoneBehind'
  BY <1>1 DEF NoneBehind
<1>6. ConfirmedFirst'
  BY <1>1, <1>3 DEF IInv, ConfirmedFirst, IsConfirmation, IsOffer
<1>7. Unconfirmed' = Unconfirmed
  BY <1>1 DEF Unconfirmed
<1>8. Chain'
  <2>1. ASSUME NEW u \in Trusted', Undecided(u)' PROVE FALSE
    <3>1. Undecided(u) /\ u \in Trusted
      BY <1>1, <1>3, <1>7, <2>1 DEF Undecided
    <3>2. phase.kind = "responding" /\ u = t
      BY <3>1 DEF IInv, Chain
    <3>3. QED
      BY <1>2, <2>1, <3>1, <3>2 DEF Trusted
  <2>2. QED
    BY <2>1 DEF Chain
<1>9. MatchedIsAssigned' /\ OnlyByPatch'
  BY <1>1 DEF IInv, MatchedIsAssigned, OnlyByPatch
<1>10. AssignedKnows'
  BY <1>1, <1>2, <1>7 DEF IInv, AssignedKnows
<1>11. QED
  BY <1>4, <1>5, <1>6, <1>8, <1>9, <1>10 DEF IInv

\* A PATCH is what unbusied counts.
LEMMA Patched ==
  ASSUME IInv, TypeOK', NEW s \in Patches, PatchWrite(s)
  PROVE  IInv'
<1>1. UNCHANGED <<deal, assigned, down, up, phase, strayed, missed>> /\ unbusied' = (unbusied \/ assigned # {})
  BY DEF PatchWrite, linkVars, pageVars
<1>2. (OneOpen /\ Committed /\ OfferedFirst /\ ConfirmedOnce /\ LastOffer /\ NoneBehind)'
  BY <1>1 DEF IInv, OneOpen, Open, Committed, OfferedFirst, ConfirmedOnce, IsConfirmation, LastOffer, IsOffer, NoneBehind
<1>3. Chain'
  BY <1>1 DEF IInv, Chain, Trusted, Undecided, Unconfirmed
<1>4. ConfirmedFirst'
  BY <1>1 DEF IInv, ConfirmedFirst, Trusted, IsConfirmation, IsOffer
<1>5. (MatchedIsAssigned /\ AssignedKnows)'
  BY <1>1 DEF IInv, MatchedIsAssigned, AssignedKnows, Unconfirmed
<1>6. OnlyByPatch'
  BY <1>1 DEF OnlyByPatch
<1>7. QED
  BY <1>2, <1>3, <1>4, <1>5, <1>6 DEF IInv

-----------------------------------------------------------------------------
(***************************************************************************)
(* Together.                                                                 *)
(***************************************************************************)
LEMMA Steps ==
  ASSUME IInv, TypeOK', Next
  PROVE  IInv'
<1>1. ASSUME NEW t \in Trips, SendOffer(t) \/ OfferTimesOut(t) \/ StrayAccept(t) \/ Finalize(t) \/ Confirm(t)
      PROVE  IInv'
  BY <1>1, Offered, Advanced, ConfirmationSent
<1>2. CASE Respond
  BY <1>2, Answered
<1>3. CASE Break
  BY <1>3, Lost DEF Break, serverVars, pageVars
<1>4. CASE Crash
  BY <1>4, Lost DEF Crash, pageVars
<1>5. CASE Connect \/ CheckReads \/ CheckAnswered \/ CheckFails \/ Refresh
  BY <1>5, Untouched DEF Connect, CheckReads, CheckAnswered, CheckFails, Refresh, serverVars, linkVars, pageVars, history
<1>6. CASE Receive
  BY <1>6, Received
<1>7. ASSUME NEW accept \in BOOLEAN, Answer(accept) PROVE IInv'
  BY <1>7, Tapped
<1>8. CASE DeadlineElapses \/ GraceElapses
  BY <1>8, Elapsed
<1>9. CASE Reload
  <2>1. Unconfirmed \subseteq missed \cup AtStake
    BY DEF IInv, ConfirmedOnce, IsConfirmation, Unconfirmed, ToSet, AtStake
  <2>2. missed \cup Unconfirmed \subseteq missed' /\ deal' = deal
    BY <1>9, <2>1 DEF Reload, serverVars
  <2>3. QED
    BY <1>9, <2>2, Lost DEF Reload, serverVars
<1>10. ASSUME NEW s \in Patches, PatchStep(s) PROVE IInv'
  <2>1. CASE HandleToggle(s) \/ PatchRead(s) \/ PatchFails(s)
    BY <2>1, Untouched DEF HandleToggle, PatchRead, PatchFails, serverVars, linkVars, pageVars, history
  <2>2. CASE PatchWrite(s)
    BY <2>2, Patched
  <2>3. CASE PatchAnswered(s) /\ GoesOffline
    <3>1. Unconfirmed \subseteq missed \cup AtStake
      BY DEF IInv, ConfirmedOnce, IsConfirmation, Unconfirmed, ToSet, AtStake
    <3>2. missed \cup Unconfirmed \subseteq missed' /\ deal' = deal
      BY <2>3, <3>1 DEF PatchAnswered, GoesOffline, serverVars
    <3>3. QED
      BY <2>3, <3>2, Lost DEF PatchAnswered, GoesOffline, serverVars
  <2>4. CASE PatchAnswered(s) /\ UNCHANGED <<linkVars, phase, missed>>
    BY <2>4, Untouched DEF PatchAnswered, serverVars, linkVars
  <2>5. QED
    BY <1>10, <2>1, <2>2, <2>3, <2>4 DEF PatchStep, PatchAnswered
<1>11. QED
  BY <1>1, <1>2, <1>3, <1>4, <1>5, <1>6, <1>7, <1>8, <1>9, <1>10 DEF Next

\* The invariant behind what the page says.
THEOREM Inductive == Spec => []IInv
<1>1. Init => IInv
  BY Starts
<1>2. IInv /\ [Next]_vars => IInv'
  <2>1. ASSUME IInv, Next PROVE IInv'
    BY <2>1, Typed, Steps DEF IInv
  <2>2. ASSUME IInv, UNCHANGED vars PROVE IInv'
    BY <2>2, Typed, Untouched DEF IInv, vars, serverVars, linkVars, pageVars, history
  <2>3. QED
    BY <2>1, <2>2
<1>3. QED
  BY <1>1, <1>2, PTL DEF Spec

\* "Matched!" is on screen only for the trip this driver has been assigned (driverOfferReducer.ts).
THEOREM MatchesAreTrue == Spec => []MatchedIsAssigned
<1>1. IInv => MatchedIsAssigned
  BY DEF IInv
<1>2. QED
  BY <1>1, Inductive, PTL

\* An assigned driver's page shows the match, unless it was missed or another's answer assigned it.
THEOREM MatchesAreShown == Spec => []AssignedKnows
<1>1. IInv => AssignedKnows
  BY DEF IInv
<1>2. QED
  BY <1>1, Inductive, PTL

\* "Given to another driver" is true, with the same exceptions.
THEOREM RefusalsAreTrue == Spec => []TooLateIsTrue
<1>1. ASSUME IInv, phase.kind = "too_late", phase.trip \in assigned \ (missed \cup strayed)
      PROVE  FALSE
  <2>1. phase.trip \in Trusted /\ phase.trip \in Trips
    BY <1>1 DEF IInv, TypeOK, Trusted
  <2>2. ~Undecided(phase.trip)
    BY <1>1, <2>1 DEF IInv, Chain
  <2>3. deal[phase.trip] = "over" /\ phase.trip \notin Unconfirmed
    BY <1>1, <2>1, <2>2 DEF IInv, Committed, Undecided
  <2>4. QED
    BY <1>1, <2>3 DEF IInv, AssignedKnows
<1>2. IInv => TooLateIsTrue
  BY <1>1 DEF TooLateIsTrue
<1>3. QED
  BY <1>2, Inductive, PTL

\* No second trip but by a PATCH that changes an assigned driver's status.
THEOREM OneTripPerDriver == Spec => []SecondTripNeedsPatch
<1>1. IInv => SecondTripNeedsPatch
  <2>1. CASE assigned = {}
    BY <2>1, FS_EmptySet DEF SecondTripNeedsPatch
  <2>2. ASSUME NEW t \in Trips, assigned = {t} PROVE SecondTripNeedsPatch
    <3>1. Cardinality({t}) = 1
      BY FS_Singleton
    <3>2. QED
      BY <2>2, <3>1 DEF SecondTripNeedsPatch
  <2>3. QED
    BY <2>1, <2>2 DEF IInv, OnlyByPatch, SecondTripNeedsPatch
<1>2. QED
  BY <1>1, Inductive, PTL
=============================================================================
