-------------------------------- MODULE MCEta --------------------------------
(* Instances of Eta for TLC. *)
EXTENDS Eta

\* Two places further apart than the distance that triggers a recomputation.
MCPlaces == {0, 1}

\* Every phone is right, or one tick ahead.
MCSkews == {0, 1}

\* Mode heuristic, mode ml, and ml_with_fallback with OSRM behind it.
MCEngines == {[mode |-> "heuristic", osrm |-> FALSE], [mode |-> "ml", osrm |-> FALSE],
              [mode |-> "ml_with_fallback", osrm |-> TRUE]}
=============================================================================
