--------------------------- MODULE MCTimerManager ---------------------------
(* Instances of TimerManager for TLC. *)
EXTENDS TimerManager

\* Callers only differ by name.
Symmetry == Permutations(Callers)
=============================================================================
