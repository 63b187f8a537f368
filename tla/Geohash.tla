------------------------------- MODULE Geohash -------------------------------
(***************************************************************************)
(* geo/geohash.ts: a grid of cells over the world, and the numbers the cells *)
(* are known by.                                                             *)
(*                                                                           *)
(* The world is a cylinder of integer points: 180 degrees of latitude are    *)
(* Height units from pole to pole, 360 of longitude Width units around, and  *)
(* a unit is as long in either direction.  Away from the poles this is what  *)
(* the code's haversine sees at the scale of a city; at the poles, where a   *)
(* degree of longitude shrinks within a single cell, it is not.              *)
(***************************************************************************)
EXTENDS Integers, FiniteSets, FiniteSetsExt

CONSTANTS
  Height, Width,  \* powers of two
  MAX_BITS

ASSUME WorldAssumption ==
  /\ Height \in Nat \ {0} /\ Width = 2 * Height /\ MAX_BITS \in Nat \ {0, 1}
  /\ Height % 2^(MAX_BITS \div 2) = 0 /\ Width % 2^((MAX_BITS + 1) \div 2) = 0

-----------------------------------------------------------------------------
\* A point may come with any longitude.
clampLat(lat) == Min({Height, Max({0, lat})})
normalizeLng(lng) == lng % Width

\* bitSplit: longitude has the first bit, and one more when bits is odd.
LatBits(bits) == bits \div 2
LngBits(bits) == (bits + 1) \div 2
Rows(bits) == 2^LatBits(bits)
Cols(bits) == 2^LngBits(bits)
LatSpan(bits) == Height \div Rows(bits)
LngSpan(bits) == Width \div Cols(bits)
Cells(bits) == [row : 0..Rows(bits) - 1, col : 0..Cols(bits) - 1]

\* The north pole is in the last row.
CellOf(p, bits) ==
  [row |-> Min({Rows(bits) - 1, clampLat(p.lat) \div LatSpan(bits)}),
   col |-> Min({Cols(bits) - 1, normalizeLng(p.lng) \div LngSpan(bits)})]

\* The half of a cell may be half a unit: centres and errors are given in half units.
CellBounds(cell, bits) ==
  [lat |-> 2 * cell.row * LatSpan(bits) + LatSpan(bits), latError |-> LatSpan(bits),
   lng |-> 2 * cell.col * LngSpan(bits) + LngSpan(bits), lngError |-> LngSpan(bits)]

-----------------------------------------------------------------------------
Bit(n, k) == (n \div 2^k) % 2

\* The bits of col and row in turn, the most significant first.
Interleave(col, row, bits) ==
  MapThenSumSet(LAMBDA i : 2^(bits - 1 - i) *
                  IF i % 2 = 0 THEN Bit(col, LngBits(bits) - 1 - (i \div 2))
                               ELSE Bit(row, LatBits(bits) - 1 - (i \div 2)),
                0..bits - 1)

Deinterleave(hash, bits) ==
  LET Part(I, n) == MapThenSumSet(LAMBDA i : 2^(n - 1 - (i \div 2)) * Bit(hash, bits - 1 - i), I)
  IN [row |-> Part({i \in 0..bits - 1 : i % 2 = 1}, LatBits(bits)),
      col |-> Part({i \in 0..bits - 1 : i % 2 = 0}, LngBits(bits))]

CellHash(cell, bits) == Interleave(cell.col, cell.row, bits)
Encode(p, bits) == CellHash(CellOf(p, bits), bits)
Decode(hash, bits) == CellBounds(Deinterleave(hash, bits), bits)

\* Columns wrap, rows do not.
NeighborCells(cell, bits) ==
  {[row |-> Min({Rows(bits) - 1, Max({0, cell.row + n})}), col |-> (cell.col + e) % Cols(bits)] :
     n \in -1..1, e \in -1..1} \ {cell}

\* The finest precision with cells at least as long as the radius both ways, else the coarsest.
PrecisionForRadius(radius) ==
  Max({2} \cup {b \in 2..MAX_BITS :
                  (MAX_BITS - b) % 2 = 0 /\ LatSpan(b) >= radius /\ LngSpan(b) >= radius})
=============================================================================
