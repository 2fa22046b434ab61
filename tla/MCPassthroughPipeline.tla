------------------------ MODULE MCPassthroughPipeline ------------------------
(* Constants for TLC: see Passthrough.cfg. *)
EXTENDS PlayerObject
=============================================================================
