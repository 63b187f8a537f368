SPECIFICATION FairSpec
CONSTANTS
  d1 = d1
  t1 = t1
  t2 = t2
  p1 = p1
  p2 = p2
  NoDriver = NoDriver
  NoTrip = NoTrip
  NoConn = NoConn
  Conns = {1, 2}
  Drivers <- OneDriver
  Trips <- TwoTrips
  Riders = {"rider"}
  Watchers = {"watcher"}
  Places = {p1, p2}
  Faults = TRUE
  SlowAnswers = FALSE
  MaxQueue = 2
INVARIANTS TypeOK IndicesAgree 
 
CHECK_DEADLOCK FALSE
