---------------------------- MODULE MCTrackChanges ----------------------------
(* Small instances of TrackChanges: four tracks, all of them music. *)
EXTENDS TrackChanges
=============================================================================
