SPECIFICATION FairSpec
CONSTANTS
  d1 = d1
  phone = phone
  tab = tab
  NoConn = NoConn
  Drivers <- OneDriver
  Pages <- TwoPages
  DriverOf <- OfDriver
  Conns = {1, 2}
  Window = 2
  MaxUpdates = 3
  MaxQueue = 2
  Faults = TRUE
INVARIANTS OpenIsRegistered PendingIsTimed
PROPERTIES LastValueWins CoalescedIsReleased SilentIsDropped
