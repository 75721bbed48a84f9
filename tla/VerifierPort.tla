---------------------------- MODULE VerifierPort ----------------------------
(***************************************************************************)
(* The port behind which both services keep the verifiers that their       *)
(* application gives them.  A verifier is known by the backend whose       *)
(* proofs it understands and by its key, a proof by those it was made      *)
(* under.                                                                  *)
(***************************************************************************)
CONSTANTS
  Backends,  \* backend identities
  Keys,      \* a verifier accepts the proofs made under its own key
  Failing    \* backends that depend on tools, which may fail to run

Verifiers == [backend : Backends, key : Keys]
Proofs == Verifiers

=============================================================================
