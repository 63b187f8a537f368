----------------------------- MODULE MCShardedGeo -----------------------------
(* Instances of ShardedGeo for TLC. *)
EXTENDS ShardedGeo, TLC

At(lat, lng) == [lat |-> lat, lng |-> lng]

\* Two regions that share the meridian 4.
MCRegions == <<[minLat |-> 0, maxLat |-> 2, minLng |-> 2, maxLng |-> 4],
               [minLat |-> 0, maxLat |-> 2, minLng |-> 4, maxLng |-> 6]>>

\* A point on either side of the boundary, the second on it, and one outside both regions.
MCPoints == {At(1, 3), At(1, 4), At(1, 7)}

\* From east of the boundary, over it: the point west of it is within the radius and farther away.
MCQueries == {[center |-> At(0, 5), radius |-> 4]}
MCSymmetry == Permutations(Drivers) \cup Permutations(Ops)
=============================================================================
