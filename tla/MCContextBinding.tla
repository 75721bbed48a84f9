-------------------------- MODULE MCContextBinding --------------------------
(* Instances of ContextBinding for TLC. *)
EXTENDS ContextBinding, TLC

\* v1 is Supported and so no longer interchangeable with another version.
Symmetry ==
  Permutations(Builds) \cup Permutations(Roots) \cup Permutations(Values)
=============================================================================
