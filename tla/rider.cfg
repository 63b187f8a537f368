SPECIFICATION Spec
CONSTANTS
  t1 = t1
  t2 = t2
  p1 = p1
  p2 = p2
  Trips = {t1, t2}
  Posts = {p1, p2}
  NoTrip = NoTrip
  x1 = x1
  x2 = x2
  Points = {x1, x2}
  NoPoint = NoPoint
SYMMETRY MCSymmetry
INVARIANTS TypeOK  ActiveIsRemembered OneRequestAtATime EtaIsOfThisTrip PriceIsOfThisPickup
