----------------------------- MODULE MCHalLock ------------------------------
(* Model values for the explicit-lock model.  No symmetry set: the runs    *)
(* check liveness, for which TLC's symmetry reduction is unsound.          *)
EXTENDS HalLock, TLC

CONSTANTS c1, c2, a1, a2, o1

MCCbThreads == {c1, c2}
MCAppThreads == {a1, a2}
MCObservers == {o1}

=============================================================================
