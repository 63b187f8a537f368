SPECIFICATION Spec
CONSTANTS
  Drivers = {d1, d2}
  Ops = {o1, o2}
  REGIONS <- MCRegions
  Points <- MCPoints
  Queries <- MCQueries
  Limit = 1
  NoPoint = NoPoint
  NoDriver = NoDriver
  NoQuery = NoQuery
  NoResult = NoResult
SYMMETRY MCSymmetry
INVARIANTS OneShard SearchMissesNobody
