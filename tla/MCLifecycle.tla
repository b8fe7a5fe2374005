---------------------------- MODULE MCLifecycle ----------------------------
(* Instances of Lifecycle for TLC. *)
EXTENDS Lifecycle, TLC

\* Three ways to shut down, registered in this order.
MixedKinds == <<"legacy", "context", "plain">>

Symmetry == Permutations(Proc)
=============================================================================
