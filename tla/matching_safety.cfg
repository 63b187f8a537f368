SPECIFICATION Spec
CONSTANTS
  d1 = d1
  d2 = d2
  t1 = t1
  t2 = t2
  NoDriver = NoDriver
  NoTrip = NoTrip
  Drivers <- TwoDrivers
  Trips <- TwoTrips
  Requests = {}
  Sweeps = {}
  Pinging = {}
  Faults = TRUE
  LateReplies = TRUE
  SlowStores = TRUE
INVARIANTS OfferExclusive MatchHasAcceptance OneActiveTripPerDriver 
PROPERTY ImplementsAssignment
