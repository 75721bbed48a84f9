------------------------ MODULE VerificationService ------------------------
(***************************************************************************)
(* Several verifiers for one proof.  Verifiers are registered, several for *)
(* one backend if need be; a submission claims a backend and is run        *)
(* through every verifier registered for it, in the order of registration, *)
(* until one of them fails to run.                                         *)
(*                                                                         *)
(* A registration is the verifier it holds; its label is left out.         *)
(***************************************************************************)
EXTENDS VerifierPort, Sequences, Naturals, SequencesExt, Subsequences

CONSTANT MaxRegistrations  \* bound: verifiers registered

\* There is something to submit, which the answer before the first needs.
ASSUME VerificationServiceAssumption ==
  /\ Backends # {} /\ Keys # {}
  /\ Failing \subseteq Backends
  /\ MaxRegistrations \in Nat

VARIABLES
  byBackend,  \* the verifiers, in order of registration
  reported    \* of the last submission: what it was, what each verifier that
              \* ran said, the report it got and whether verify_all accepts

verificationVars == <<byBackend, reported>>

-----------------------------------------------------------------------------
(* Values *)

\* A submission claims a backend, which may not be that of its proof.
Submissions == [proof : Proofs, backend : Backends]

Verdicts == {"verified", "rejected", "error"}
ReportErrors == {"UnknownBackend", "VerifierFailed"}

\* External: what a verifier may say.  One that runs a tool may fail to answer on
\* a proof that reaches the tool.
MaySay(v, submission) ==
  {IF v = submission.proof /\ v.backend = submission.backend THEN "verified" ELSE "rejected"}
    \cup {"error" : b \in {v.backend} \cap {submission.proof.backend} \cap Failing}

-----------------------------------------------------------------------------
(* Operations *)

NothingReported ==
  [submission |-> [proof |-> CHOOSE p \in Proofs : TRUE, backend |-> CHOOSE b \in Backends : TRUE],
   said |-> <<>>, error |-> "none", results |-> <<>>, all |-> FALSE]

VerificationInit ==
  /\ byBackend = <<>>
  /\ reported = NothingReported

Register(v) ==
  /\ Len(byBackend) < MaxRegistrations
  /\ byBackend' = Append(byBackend, v)
  /\ UNCHANGED reported

\* The verifiers that a submission is run through.
VerifiersFor(backend) == Only(byBackend, {v \in Verifiers : v.backend = backend})

\* What the loop over the verifiers can collect: each in turn, and none after the
\* first that fails to run.
Runs(verifiers, submission) ==
  {said \in UNION {[1..n -> Verdicts] : n \in 0..Len(verifiers)} :
     /\ \A i \in DOMAIN said : said[i] \in MaySay(verifiers[i], submission)
     /\ \A i \in DOMAIN said : said[i] = "error" => i = Len(said)
     /\ Len(said) < Len(verifiers) => said # <<>> /\ Last(said) = "error"}

AllVerified(results) ==
  results # <<>> /\ \A i \in DOMAIN results : results[i] = "verified"

AnyVerified(results) == \E i \in DOMAIN results : results[i] = "verified"

\* Mutant: one rejection among the results is enough to disagree.
DisagreesWhenRejected(results) == Len(results) > 1 /\ ~AllVerified(results)

Disagrees(results) ==
  Len(results) > 1 /\ AnyVerified(results) /\ ~AllVerified(results)

\* Mutant: a failure to run is recorded among the results.
ReportKeepingErrors(said) ==
  CASE said = <<>> -> [error |-> "UnknownBackend", results |-> <<>>]
    [] OTHER       -> [error |-> "none", results |-> said]

\* A failing verifier takes the report with it.  (Mutant: the results so far are
\* judged.)
ReportSoFar(said) ==
  CASE said = <<>> -> [error |-> "UnknownBackend", results |-> <<>>]
    [] OTHER       -> [error |-> "none", results |-> SelectSeq(said, LAMBDA o : o # "error")]

Report(said) ==
  CASE said = <<>>          -> [error |-> "UnknownBackend", results |-> <<>>]
    [] Last(said) = "error" -> [error |-> "VerifierFailed", results |-> <<>>]
    [] OTHER                -> [error |-> "none", results |-> said]

Verify(submission) ==
  \E said \in Runs(VerifiersFor(submission.backend), submission) :
    LET report == Report(said)
    IN  /\ reported' = [submission |-> submission, said |-> said, error |-> report.error,
                        results |-> report.results, all |-> AllVerified(report.results)]
        /\ UNCHANGED byBackend

VerificationNext ==
  \/ \E v \in Verifiers : Register(v)
  \/ \E submission \in Submissions : Verify(submission)

VerificationSpec == VerificationInit /\ [][VerificationNext]_verificationVars

-----------------------------------------------------------------------------
(* Properties *)

Serving(backend) == {v \in Range(byBackend) : v.backend = backend}

VerificationTypeOK ==
  /\ byBackend \in Seq(Verifiers)
  /\ Len(byBackend) <= MaxRegistrations
  /\ reported.submission \in Submissions
  /\ reported.said \in Seq(Verdicts)
  /\ reported.error \in ReportErrors \cup {"none"}
  /\ reported.results \in Seq(Verdicts \ {"error"})
  /\ reported.all \in BOOLEAN

\* verify_all is unanimous: it accepts a submission only if some verifier serves
\* the claimed backend and every one of them accepts it, none of those having
\* failed to run, however many were registered since the last answer.
UnanimousOrNot ==
  [][reported' # reported /\ reported'.all =>
       LET submission == reported'.submission
       IN  /\ Serving(submission.backend) = {submission.proof}
           /\ Len(reported'.said) = Len(VerifiersFor(submission.backend))
           /\ "error" \notin Range(reported'.said)]_verificationVars

\* A report that says the verifiers disagree, and one that does not, are both
\* right: two verifiers that serve the claimed backend tell the proof apart
\* exactly when the report of all of them disagrees.
ReportedDisagreementIsReal ==
  [][reported' # reported /\ reported'.error = "none" =>
       LET submission == reported'.submission
       IN  Disagrees(reported'.results) <=>
             /\ submission.proof \in Serving(submission.backend)
             /\ Serving(submission.backend) # {submission.proof}]_verificationVars

=============================================================================
