SPECIFICATION Spec
CONSTANTS
  Trips = {t1}
  Gets = {g1}
  Recomputations = {r1}
  Places <- MCPlaces
  Skews <- MCSkews
  Engines <- MCEngines
  RecomputeInterval = 1
  MlCacheTtl = 1
  RecomputeDistance = 1
  StaleAfter = 1
  MaxCall = 1
  NoPlace = NoPlace
  NoEta = NoEta
  NoTrip = NoTrip
  NoAnswer = NoAnswer
INVARIANTS OkIsRecent OldLegFades 
CHECK_DEADLOCK FALSE
