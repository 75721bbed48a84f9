-------------------------- MODULE MCWitnessNaming --------------------------
(* Instances of WitnessNaming and VectorCatalog for TLC. *)
EXTENDS VectorCatalog
=============================================================================
