-------------------------- MODULE MCResolverConfig --------------------------
(* Small instances of ResolverConfig for TLC.                              *)
EXTENDS ResolverConfig, TLC

CONSTANTS c1, c2, c3, defaults, plain, noreload, m1, m2, m3

TwoCallers   == {c1, c2}
ThreeCallers == {c1, c2, c3}
AllBodies    == {defaults, plain, noreload}
Locked       == {noreload}
TwoStamps    == {m1, m2}
ThreeStamps  == {m1, m2, m3}

\* Callers and modification times are only ever compared for equality.
Interchangeable == Permutations(ThreeCallers) \cup Permutations(TwoStamps)
=============================================================================
