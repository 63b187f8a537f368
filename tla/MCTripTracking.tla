--------------------------- MODULE MCTripTracking ---------------------------
(***************************************************************************)
(* Small instances of TripTracking.                                          *)
(***************************************************************************)
EXTENDS TripTracking

CONSTANTS d1, t1, t2, p1, p2

OneDriver == {d1}
OneTrip == {t1}
TwoTrips == {t1, t2}
=============================================================================
