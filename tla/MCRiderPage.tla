----------------------------- MODULE MCRiderPage -----------------------------
(* Instances of RiderPage for TLC. *)
EXTENDS RiderPage, TLC

CONSTANTS t1, t2, p1, p2, x1, x2

\* The trips are alike, and so are the slots of the POSTs and the pickups.
MCSymmetry == Permutations({t1, t2}) \cup Permutations({p1, p2}) \cup Permutations({x1, x2})
=============================================================================
