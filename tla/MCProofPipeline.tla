-------------------------- MODULE MCProofPipeline --------------------------
(* Instances of ProofPipeline for TLC. *)
EXTENDS ProofPipeline, TLC

\* Provers are interchangeable, and so are bytecodes and generators.
Symmetry ==
  Permutations(Provers) \cup Permutations(Bytecodes) \cup Permutations(Generators)
=============================================================================
