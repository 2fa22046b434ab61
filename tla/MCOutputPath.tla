----------------------------- MODULE MCOutputPath -----------------------------
(* Constants for TLC: see OutputPath.cfg. *)
EXTENDS OutputPath
=============================================================================
