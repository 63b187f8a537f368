----------------------------- MODULE MCDeltaCodec -----------------------------
(* An instance of DeltaCodec: a few steps around one place, in tenths of a step. *)
EXTENDS DeltaCodec

MCPositions == 0..30
=============================================================================
