----------------------------- MODULE GeohashIndex -----------------------------
(***************************************************************************)
(* geo/geohash-index.ts, class GeohashIndex: where every driver is, the       *)
(* bucket it is in, and the buckets, one per cell of the grid.  A Map without  *)
(* an entry is a function with NoPoint, NoHash or an empty bucket there.      *)
(***************************************************************************)
EXTENDS Geohash

CONSTANTS
  Ids,         \* the drivers
  Spots,       \* where they may be
  bucketBits,
  NoPoint

ASSUME IndexAssumption ==
  /\ bucketBits \in 1..MAX_BITS /\ IsFiniteSet(Ids)
  /\ Spots \subseteq [lat : 0..Height, lng : Int] /\ NoPoint \notin Spots

VARIABLES positions, idToHash, buckets

indexVars == <<positions, idToHash, buckets>>

Hashes == 0..2^bucketBits - 1
NoHash == -1
BucketHash == [p \in Spots |-> Encode(p, bucketBits)]
HashOf == [c \in Cells(bucketBits) |-> CellHash(c, bucketBits)]

IndexTypeOK ==
  /\ positions \in [Ids -> Spots \cup {NoPoint}]
  /\ idToHash \in [Ids -> Hashes \cup {NoHash}]
  /\ buckets \in [Hashes -> SUBSET Ids]

IndexInit ==
  /\ positions = [id \in Ids |-> NoPoint]
  /\ idToHash = [id \in Ids |-> NoHash]
  /\ buckets = [h \in Hashes |-> {}]

MutUpsert(id, p) ==
  /\ positions' = [positions EXCEPT ![id] = p]
  /\ idToHash' = [idToHash EXCEPT ![id] = IF @ = NoHash THEN BucketHash[p] ELSE @]
  /\ buckets' = [buckets EXCEPT ![BucketHash[p]] = IF idToHash[id] = NoHash THEN @ \cup {id} ELSE @]

\* A driver that changes cells leaves its old bucket for the new one.
Upsert(id, p) ==
  /\ positions' = [positions EXCEPT ![id] = p]
  /\ idToHash' = [idToHash EXCEPT ![id] = BucketHash[p]]
  /\ buckets' = [h \in Hashes |-> IF h = BucketHash[p] THEN buckets[h] \cup {id}
                                  ELSE IF h = idToHash[id] THEN buckets[h] \ {id}
                                  ELSE buckets[h]]

Remove(id) ==
  /\ positions' = [positions EXCEPT ![id] = NoPoint]
  /\ idToHash' = [idToHash EXCEPT ![id] = NoHash]
  /\ buckets' = [h \in Hashes |-> IF h = idToHash[id] THEN buckets[h] \ {id} ELSE buckets[h]]

IndexNext == \E id \in Ids : Remove(id) \/ \E p \in Spots : Upsert(id, p)

IndexSpec == IndexInit /\ [][IndexNext]_indexVars

-----------------------------------------------------------------------------
Sq(n) == n * n
\* The shorter way around.
LngDistance(a, b) == LET e == (a - b) % Width IN Min({e, Width - e})
SqDistance(p, q) == Sq(p.lat - q.lat) + Sq(LngDistance(p.lng, q.lng))

\* The cells within rings of the centre's own, without those beyond a pole.
ScanCells(center, rings) ==
  LET c == CellOf(center, bucketBits) IN
  {[row |-> c.row + n, col |-> (c.col + e) % Cols(bucketBits)] :
     n \in {k \in -rings..rings : c.row + k \in 0..Rows(bucketBits) - 1}, e \in -rings..rings}

CeilDiv(n, m) == (n + m - 1) \div m
MinCellDim == Min({LatSpan(bucketBits), LngSpan(bucketBits)})

RingCount(radius) == Max({1, CeilDiv(radius, MinCellDim) + 1})

RadiusSearch(center, radius) ==
  {id \in UNION {buckets[HashOf[c]] : c \in ScanCells(center, RingCount(radius))} :
     positions[id] # NoPoint /\ SqDistance(center, positions[id]) <= Sq(radius)}

\* The first k of S in the order of the sort, whichever way it breaks ties.
FirstOf(center, S, k) ==
  {T \in SUBSET S :
     /\ Cardinality(T) = Min({k, Cardinality(S)})
     /\ \A x \in T, y \in S \ T :
          SqDistance(center, positions[x]) <= SqDistance(center, positions[y])}

MutNearestNeighbors(center, k, maxRadius) ==
  FirstOf(center, RadiusSearch(center, MinCellDim), Min({k, maxRadius}))

\* The radius doubles until k are within it or it reaches maxRadius.
NearestNeighbors(center, k, maxRadius) ==
  LET Tried(i) == MinCellDim * 2^i
      last == Min({i \in 0..maxRadius :
                     \/ Tried(i) >= maxRadius
                     \/ Cardinality(RadiusSearch(center, Tried(i))) >= k})
  IN FirstOf(center, RadiusSearch(center, Tried(last)), k)

-----------------------------------------------------------------------------
Located == {id \in Ids : positions[id] # NoPoint}

\* Centres near the poles, on either side of the antimeridian, and with a longitude beyond it.
Centers == {[lat |-> lat, lng |-> lng] : lat \in {0, Height \div 2, Height - 1},
                                         lng \in {-1, 1, Width \div 2, Width - 1}}

\* The index finds every driver within the radius and nobody else, for any radius and however
\* the drivers have moved (an empty one has nothing to find): "exhaustive and correct" (geohash-index.ts:122-124).
SearchIsExhaustive ==
  IndexInit \/ \A c \in Centers, radius \in {1, Height \div 2, Height - 2} :
    RadiusSearch(c, radius) = {id \in Located : SqDistance(c, positions[id]) <= Sq(radius)}

\* The nearest k, by doubling the radius from the size of a cell (geohash-index.ts:147-154).
NearestAreNearest ==
  IndexInit \/ \A c \in Centers, k \in 1..Cardinality(Ids) :
    NearestNeighbors(c, k, Width) \subseteq FirstOf(c, Located, k)
=============================================================================
