------------------------------ MODULE DeltaCodec ------------------------------
(***************************************************************************)
(* ws/delta-compression.ts and its counterpart on the page, ws/deltaCodec.ts: *)
(* what one subscriber is sent of a driver, and what its page makes of it.   *)
(* Latitude and longitude are coded alike, so a position is one number, with *)
(* Step units to a quantization step.  Frames arrive in order or the          *)
(* connection ends (TripTracking has their delays), so each is decoded as it  *)
(* is sent.                                                                  *)
(***************************************************************************)
EXTENDS Integers

CONSTANTS
  Positions,
  Statuses,
  Step,        \* QUANTIZATION_STEP_DEGREES
  MaxDeltas,   \* bounds the deltas since the last full message
  Null

\* What the constants must be: a status that is sent is not taken for one that was left out.
CodecAssumption ==
  /\ Positions \subseteq Int
  /\ Step \in Nat \ {0}
  /\ MaxDeltas \in Nat
  /\ Null \notin Statuses /\ Null \notin [at : Int, status : Statuses]

VARIABLES
  lastSent,  \* SubscriberInfo.lastSent: what the driver reported, as it reported it
  lastKnown, \* the page's position and status
  deltas     \* history: how many deltas the page has added since the last full message

vars == <<lastSent, lastKnown, deltas>>

State == [at : Int, status : Statuses]

TypeOK ==
  /\ lastSent \in [at : Positions, status : Statuses] \cup {Null}
  /\ lastKnown \in State \cup {Null}
  /\ lastSent # Null => lastKnown # Null
  /\ deltas \in Nat

Init == lastSent = Null /\ lastKnown = Null /\ deltas = 0

-----------------------------------------------------------------------------
\* Math.round: halves go up.
Round(n) == (2 * n + Step) \div (2 * Step)

\* A status is left out when it is the one sent before.
EncodeLocationMessage(last, current) ==
  IF last = Null THEN [type |-> "location", at |-> current.at, status |-> current.status]
  ELSE [type |-> "delta", at |-> Round(current.at - last.at),
        status |-> IF current.status = last.status THEN Null ELSE current.status]

\* The page adds a delta to the position it has decoded, never to the one that was sent.
DecodeLocationMessage(last, m) ==
  IF m.type = "location" THEN [at |-> m.at, status |-> m.status]
  ELSE [at |-> last.at + m.at * Step, status |-> IF m.status = Null THEN last.status ELSE m.status]

-----------------------------------------------------------------------------
Broadcast(current) ==
  /\ lastSent = Null \/ deltas < MaxDeltas
  /\ lastKnown' = DecodeLocationMessage(lastKnown, EncodeLocationMessage(lastSent, current))
  /\ deltas' = IF lastSent = Null THEN 0 ELSE deltas + 1
  /\ lastSent' = current

\* The page subscribes again, on this connection or a new one: it keeps its last position.
Resubscribe == lastSent' = Null /\ UNCHANGED <<lastKnown, deltas>>

Next ==
  \/ \E p \in Positions, s \in Statuses : Broadcast([at |-> p, status |-> s])
  \/ Resubscribe

Spec == Init /\ [][Next]_vars

-----------------------------------------------------------------------------
(***************************************************************************)
(* Properties.                                                              *)
(***************************************************************************)
Off(n) == IF n < 0 THEN -n ELSE n

\* "No error accumulation ... a 50-message delta chain has the same worst-case error as a single
\* delta" (docs/ws-batching-and-compression.md:82-86): half a step.
NoAccumulation == lastSent # Null => 2 * Off(lastKnown.at - lastSent.at) <= Step

\* What the code keeps to: every delta may add half a step.
ErrorBound == lastSent # Null => 2 * Off(lastKnown.at - lastSent.at) <= Step * deltas

\* Leaving an unchanged status out never leaves the page with another one.
StatusKept == lastSent # Null => lastKnown.status = lastSent.status
=============================================================================
