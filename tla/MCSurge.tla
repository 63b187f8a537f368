------------------------------- MODULE MCSurge -------------------------------
(***************************************************************************)
(* An instance of Surge with two zones and one of GeohashIndex, on the same   *)
(* grid.  They share nothing else: the index moves only while the surge is    *)
(* in its initial state, since their interleavings add no state of either.   *)
(***************************************************************************)
EXTENDS Surge, GeohashIndex

CONSTANTS r1, r2, a, b

At(lat, lng) == [lat |-> lat, lng |-> lng]

\* Riders gather at the first point; one alone asks at the second, in the zone next to it.
MCPickups == {At(3, 3), At(3, 4)}
MCMaxOpen == [p \in MCPickups |-> IF p = At(3, 3) THEN 2 ELSE 1]
MCPositions == {At(3, 3)}
MCMaxOnline == [p \in MCPositions |-> 1]

\* By the poles, on either side of the antimeridian and of a cell's edge.
MCSpots == {At(0, 0), At(3, 7), At(4, 8), At(4, 15), At(7, 1), At(8, 0)}

MCInit == Init /\ IndexInit
SurgeMoves == Next /\ positions = [id \in Ids |-> NoPoint] /\ UNCHANGED indexVars
IndexMoves == IndexNext /\ Init /\ UNCHANGED vars
MCNext == SurgeMoves \/ IndexMoves
MCSpec ==
  /\ MCInit /\ [][MCNext]_<<vars, indexVars>>
  /\ \A r \in Runs : WF_vars(RunStarts(r) \/ RunStep(r))

-----------------------------------------------------------------------------
\* Every point of the grid, the poles and the antimeridian among them.
World == [lat : 0..Height, lng : 0..Width - 1]

\* A point is in the cell its own hash is decoded to, within the error that is given with the
\* centre: what GET /surge draws a zone at is where its trips are (geohash.ts:142-153).
HashesKeepThePlace ==
  \A bits \in 1..MAX_BITS, p \in World :
    LET d == Decode(Encode(p, bits), bits)
        Off(n, m) == IF n > m THEN n - m ELSE m - n
    IN Off(2 * p.lat, d.lat) <= d.latError /\ Off(2 * p.lng, d.lng) <= d.lngError

\* Whatever is within a radius of a point is in the point's cell or in one of the eight around
\* it, at the precision that is chosen for the radius (geohash.ts:193-199).
BlockCoversRadius ==
  \A radius \in 1..(Height \div 2), p \in {At(lat, lng) : lat \in 0..Height, lng \in {0, 1, 5}}, q \in World :
    SqDistance(p, q) <= Sq(radius) =>
      LET bits == PrecisionForRadius(radius) IN
      CellOf(q, bits) \in {CellOf(p, bits)} \cup NeighborCells(CellOf(p, bits), bits)

ASSUME GridFacts == HashesKeepThePlace /\ BlockCoversRadius
=============================================================================
