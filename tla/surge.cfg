SPECIFICATION MCSpec
CONSTANTS
  r1 = r1
  r2 = r2
  a = a
  b = b
  Height = 8
  Width = 16
  MAX_BITS = 6
  Ids = {a, b}
  bucketBits = 5
  NoPoint = NoPoint
  Spots <- MCSpots
  Pickups <- MCPickups
  MaxOpen <- MCMaxOpen
  Positions <- MCPositions
  MaxOnline <- MCMaxOnline
  Runs = {r1, r2}
  zoneBits = 4
  UNIT = 3
  minMultiplier = 3
  maxMultiplier = 5
  minSampleRequests = 2
  maxChangePerInterval = 1
  Absent = Absent
INVARIANTS OnlyDemandRaises  
PROPERTIES SmoothSteps CalmDown
