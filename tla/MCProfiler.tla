----------------------------- MODULE MCProfiler -----------------------------
(***************************************************************************)
(* Small instances of Profiler. Worker identities and string addresses are *)
(* interchangeable: no definition tells them apart.                        *)
(***************************************************************************)
EXTENDS Profiler, TLC

OneInterval == {<<1, 1>>}
\* 0 is replaced by the default, the larger bound given first is swapped.
TwoIntervals == {<<0, 1>>, <<2, 1>>}

Symmetry == Permutations(Workers) \cup Permutations(Ptrs)
=============================================================================
