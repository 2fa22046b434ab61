----------------------------- MODULE MCLifecycle -----------------------------
(* Small instances of Lifecycle; players and callers are interchangeable. *)
EXTENDS Lifecycle, TLC

CONSTANTS p1, p2, j1, j2

Symmetry == Permutations(Players) \cup Permutations(Callers)
=============================================================================
