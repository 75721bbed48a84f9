--------------------------- MODULE ProofService ---------------------------
(***************************************************************************)
(* What the proving pipeline promises to the callers that receive its      *)
(* proofs, whatever files, keys and processes it is built from: an         *)
(* envelope is handed out only for a sound proof of the very artifact it   *)
(* names, and checking it later never turns it into a rejection.           *)
(***************************************************************************)
CONSTANTS
  Artifacts,   \* checksums an envelope can name
  Envelopes    \* everything that could be handed out

VARIABLES
  released,    \* envelopes handed out
  verdicts     \* the verdicts that later checks of them returned

\* A sound proof of the artifact the envelope names.
Honest(e) ==
  /\ e.artifact \in Artifacts
  /\ e.proof.circuit = e.artifact
  /\ e.proof.sound

Init ==
  /\ released = {}
  /\ verdicts = {}

Release(e) ==
  /\ Honest(e)
  /\ released' = released \cup {e}
  /\ UNCHANGED verdicts

\* A check may fail to reach a verdict; it never reaches a negative one.
Check(e, verdict) ==
  /\ e \in released
  /\ verdicts' = verdicts \cup {verdict}
  /\ UNCHANGED released

Next ==
  \/ \E e \in Envelopes : Release(e)
  \/ \E e \in released, v \in {"verified", "internal"} : Check(e, v)

Spec == Init /\ [][Next]_<<released, verdicts>>

=============================================================================
