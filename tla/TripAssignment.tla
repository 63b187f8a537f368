--------------------------- MODULE TripAssignment ---------------------------
(***************************************************************************)
(* What matching a trip promises, without searches, offers, locks or         *)
(* caches: a requested trip is resolved once, either by being given to a     *)
(* driver who is available and stops being so in the same step, or by being  *)
(* cancelled for one of two reasons.  Drivers come and go as they like.      *)
(***************************************************************************)
CONSTANTS Drivers, NoDriver, Trips

VARIABLES tripStatus, tripDriver, tripReason, available

assignVars == <<tripStatus, tripDriver, tripReason, available>>

Init ==
  /\ tripStatus = [t \in Trips |-> "absent"]
  /\ tripDriver = [t \in Trips |-> NoDriver]
  /\ tripReason = [t \in Trips |-> "none"]
  /\ available \in SUBSET Drivers

Request(t) ==
  /\ tripStatus[t] = "absent"
  /\ tripStatus' = [tripStatus EXCEPT ![t] = "requested"]
  /\ UNCHANGED <<tripDriver, tripReason, available>>

Assign(t, d) ==
  /\ tripStatus[t] = "requested"
  /\ d \in available
  /\ tripStatus' = [tripStatus EXCEPT ![t] = "matched"]
  /\ tripDriver' = [tripDriver EXCEPT ![t] = d]
  /\ available' = available \ {d}
  /\ UNCHANGED tripReason

Cancel(t, reason) ==
  /\ tripStatus[t] = "requested"
  /\ tripStatus' = [tripStatus EXCEPT ![t] = "cancelled"]
  /\ tripReason' = [tripReason EXCEPT ![t] = reason]
  /\ UNCHANGED <<tripDriver, available>>

\* Shifts start and end, trips finish, silent drivers are taken off.
ComeAndGo ==
  /\ available' \in SUBSET Drivers
  /\ UNCHANGED <<tripStatus, tripDriver, tripReason>>

Resolve(t) ==
  \/ \E d \in Drivers : Assign(t, d)
  \/ \E reason \in {"no_drivers_available", "all_candidates_declined"} : Cancel(t, reason)

Next ==
  \/ \E t \in Trips : Request(t) \/ Resolve(t)
  \/ ComeAndGo

Spec == Init /\ [][Next]_assignVars

\* No requested trip is left hanging.
FairSpec == Spec /\ \A t \in Trips : WF_assignVars(Resolve(t))
=============================================================================
