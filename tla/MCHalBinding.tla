--------------------------- MODULE MCHalBinding ----------------------------
(* Model-checking instance of HalBinding: two native-module threads, two   *)
(* application threads, two observers.                                     *)
EXTENDS HalBinding, TLC

CONSTANTS c1, c2, a1, a2, o1, o2

MCCbThreads == {c1, c2}
MCAppThreads == {a1, a2}
MCObservers == {o1, o2}

\* Threads of one kind are interchangeable (observers are not: the initial
\* value of appObs names one of them).
MCSymmetry ==
    Permutations(MCCbThreads) \cup Permutations(MCAppThreads)

=============================================================================
