------------------------ MODULE MCConfidentialLedger ------------------------
(* Instances of ConfidentialLedger for TLC. *)
EXTENDS ConfidentialLedger, TLC

\* An account and its secret are one value, so exchanging accounts is sound.
Symmetry == Permutations(Accounts)
=============================================================================
