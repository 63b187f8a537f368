----------------------------- MODULE MCMatching -----------------------------
(***************************************************************************)
(* Small instances of Matching: two trips compete for two drivers.           *)
(***************************************************************************)
EXTENDS Matching

CONSTANTS d1, d2, t1, t2

TwoDrivers == {d1, d2}
OneDriver == {d1}
TwoTrips == {t1, t2}
OneTrip == {t1}

\* PATCHes are handled before the first trip is requested, not while one is matched.
PatchesFirst == (\E r \in Requests : reqPc[r] # "idle") => \A t \in Trips : tripStatus[t] = "absent"
\* The batch and the reconciliation job also run on time.
PatchedSystem == Init /\ [][Next /\ PatchesFirst']_vars /\ Fairness /\ DriverFairness
=============================================================================
