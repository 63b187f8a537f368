---------------------------- MODULE PickupPrice ----------------------------
(***************************************************************************)
(* TripRequestMap.tsx and useSurgeAtPoint.ts: the two points a rider chooses, *)
(* and the surge multiplier shown for the pickup, polled while the rider can   *)
(* still change it.  RiderPage is the page they are on: it says when a change  *)
(* is on screen and when the page is picking.                                 *)
(***************************************************************************)
CONSTANTS
  Points,      \* the pickups the rider sets, each set by one click
  NoPoint

ASSUME PointAssumption == NoPoint \notin Points

VARIABLES
  pickup,      \* the rider's last choice
  dropoff,     \* whether the dropoff is set
  pricePoll,   \* the interval of useSurgeAtPoint
  priceAsked,  \* its GETs /surge under way, each with whether its effect is still in force
  priceShown,  \* the pickup whose multiplier is in its state
  carried      \* history: priceShown was there before the pickup changed, nothing came since

priceVars == <<pickup, dropoff, pricePoll, priceAsked, priceShown, carried>>

PriceTypeOK ==
  /\ pickup \in Points \cup {NoPoint}
  /\ dropoff \in BOOLEAN
  /\ pricePoll \in {"off", "on", "stopped"}
  /\ priceAsked \subseteq [point : Points, live : BOOLEAN]
  /\ priceShown \in Points \cup {NoPoint}
  /\ carried \in BOOLEAN

PriceInit ==
  /\ pickup = NoPoint
  /\ dropoff = FALSE
  /\ pricePoll = "off"
  /\ priceAsked = {}
  /\ priceShown = NoPoint
  /\ carried = FALSE

\* The page is unloaded, and its requests with it.
PriceReset ==
  /\ pickup' = NoPoint
  /\ dropoff' = FALSE
  /\ pricePoll' = "off"
  /\ priceAsked' = {}
  /\ priceShown' = NoPoint
  /\ carried' = FALSE

-----------------------------------------------------------------------------
\* handleMapClick with the pickup's pin active, a drag of that pin, or typed coordinates.
SetPickup(p) ==
  /\ p # pickup
  /\ pickup' = p
  /\ UNCHANGED <<dropoff, pricePoll, priceAsked, priceShown, carried>>

\* The first point set is the pickup, the dropoff's pin is active only then.
SetDropoff ==
  /\ pickup # NoPoint
  /\ dropoff' = TRUE
  /\ UNCHANGED <<pickup, pricePoll, priceAsked, priceShown, carried>>

\* The effect of [point, enabled] runs: the last one's polls are cancelled, and the last state is
\* kept until an answer comes, unless there is nothing to poll now.
PriceEffect(point, enabled) ==
  LET polls == point # NoPoint /\ enabled IN
  /\ pricePoll' = IF polls THEN "on" ELSE "off"
  /\ priceAsked' = {[point |-> a.point, live |-> FALSE] : a \in priceAsked}
  /\ priceShown' = IF polls THEN priceShown ELSE NoPoint
  /\ carried' = (polls /\ priceShown # NoPoint)

\* poll(): at once, then at every interval, whether or not the last one was answered.
PriceAsks(point) ==
  /\ pricePoll = "on"
  /\ priceAsked' = priceAsked \cup {[point |-> point, live |-> TRUE]}
  /\ UNCHANGED <<pickup, dropoff, pricePoll, priceShown, carried>>

MutPriceAnswered(a) ==
  /\ a \in priceAsked
  /\ priceAsked' = priceAsked \ {a}
  /\ \/ priceShown' = a.point /\ carried' = FALSE /\ UNCHANGED pricePoll
     \/ priceShown' = NoPoint /\ carried' = FALSE /\ pricePoll' = "stopped"
     \/ UNCHANGED <<pricePoll, priceShown, carried>>
  /\ UNCHANGED <<pickup, dropoff>>

\* 200; any api_error, which stops the interval; or nothing: a network error, or a cancelled poll.
PriceAnswered(a) ==
  /\ a \in priceAsked
  /\ priceAsked' = priceAsked \ {a}
  /\ \/ a.live /\ priceShown' = a.point /\ carried' = FALSE /\ UNCHANGED pricePoll
     \/ a.live /\ priceShown' = NoPoint /\ carried' = FALSE /\ pricePoll' = "stopped"
     \/ UNCHANGED <<pricePoll, priceShown, carried>>
  /\ UNCHANGED <<pickup, dropoff>>
=============================================================================
