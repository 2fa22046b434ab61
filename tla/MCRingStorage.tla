---------------------------- MODULE MCRingStorage ----------------------------
(* RingPipeline on its storage, in small: see RingFlush.cfg. *)
EXTENDS RingStorage

CONSTANTS songA, songB
=============================================================================
