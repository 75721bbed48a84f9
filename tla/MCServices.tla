----------------------------- MODULE MCServices -----------------------------
(* Instances of ProverService and VerificationService for TLC: the mock     *)
(* proves every version, the UltraHonk provider those of its compatibility   *)
(* matrix, with tools that may fail.  The two services share no state, so an *)
(* application that uses the one leaves the other as it was made, and a      *)
(* behaviour is one of either; their interleavings would show nothing more.  *)
EXTENDS ProverService, VerificationService

Matrix == {<<"mock", "v1">>, <<"mock", "v2">>, <<"ultrahonk", "v1">>}

ServicesInit == Init /\ VerificationInit

ServicesNext ==
  \/ VerificationInit /\ Next /\ UNCHANGED verificationVars
  \/ Init /\ VerificationNext /\ UNCHANGED vars

ServicesSpec == ServicesInit /\ [][ServicesNext]_<<vars, verificationVars>>
=============================================================================
