----------------------------- MODULE MCDriverPage -----------------------------
(* Instances of DriverPage for TLC. *)
EXTENDS DriverPage

CONSTANTS t1, t2, s1, s2

TwoTrips == {t1, t2}
TwoPatches == {s1, s2}
=============================================================================
