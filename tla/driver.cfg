SPECIFICATION Spec
CONSTANTS
  t1 = t1
  t2 = t2
  s1 = s1
  s2 = s2
  Trips <- TwoTrips
  Patches <- TwoPatches
  NoTrip = NoTrip
INVARIANTS MatchedIsAssigned TooLateIsTrue  SecondTripNeedsPatch
