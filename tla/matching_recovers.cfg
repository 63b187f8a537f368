SPECIFICATION PatchedSystem
CONSTANTS
  d1 = d1
  d2 = d2
  t1 = t1
  t2 = t2
  NoDriver = NoDriver
  NoTrip = NoTrip
  Drivers <- OneDriver
  Trips <- OneTrip
  Requests = {"r1"}
  Sweeps = {"s1"}
  Pinging = {d1}
  Faults = TRUE
  LateReplies = TRUE
  SlowStores = TRUE
PROPERTIES LocksFreed MatchedLeavesSearch PingsHeal SilentLeavesLiveView
