---------------------------- MODULE MCRingPipeline ----------------------------
(***************************************************************************)
(* Small instances of RingPipeline.  One clock unit is a frame's worth of  *)
(* time unless a run says otherwise, as in native/test, where the rate is  *)
(* 1000 Hz.                                                                *)
(***************************************************************************)
EXTENDS RingPipeline

CONSTANTS songA, songB
=============================================================================
