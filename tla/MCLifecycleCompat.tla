-------------------------- MODULE MCLifecycleCompat --------------------------
(* LifecycleCompat on its own, with Start and Stop by two callers. *)
EXTENDS LifecycleCompat, TLC

Symmetry == Permutations(LifecycleCallers)
=============================================================================
