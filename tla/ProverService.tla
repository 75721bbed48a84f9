--------------------------- MODULE ProverService ---------------------------
(***************************************************************************)
(* The proving facade: a registry of providers, one per backend, and the   *)
(* local verifier of the round trip.  An application may replace a         *)
(* provider or the verifier at any time between two calls, and calls the   *)
(* facade itself or through a Box; the Box forwards `prove` and            *)
(* `local_verifier` but not `prove_and_verify`, which the trait's default  *)
(* then supplies.                                                          *)
(*                                                                         *)
(* A provider's key is what separates its proofs from those of another     *)
(* provider of its backend: the sealing key of the mock, the pinned        *)
(* artifacts of UltraHonk.  A verifier accepts the proofs of its own key.  *)
(***************************************************************************)
EXTENDS VerifierPort, Sequences, Naturals, FiniteSets, Subsequences

CONSTANTS
  Versions,   \* circuit versions a request can ask for
  Supported,  \* <<backend, version>> of the providers' compatibility
  None        \* no provider, verifier, proof or opinion

ASSUME ProverServiceAssumption ==
  /\ Supported \subseteq Backends \X Versions
  /\ Failing \subseteq Backends
  /\ None \notin [backend : Backends, key : Keys]

VARIABLES
  providers,      \* the registry, in order of registration
  localVerifier,
  latest,         \* history: the provider registered last for each backend
  answer          \* what the last call returned

vars == <<providers, localVerifier, latest, answer>>

-----------------------------------------------------------------------------
(* Values *)

\* A provider makes the proofs that the verifier with its key accepts.
Providers == [backend : Backends, key : Keys]

\* `valid` stands for validation, and the names the circuit requires.
Requests == [backend : Backends, version : Versions, valid : BOOLEAN]

Calls == {"prove", "prove_and_verify", "boxed prove_and_verify"}

\* What the facade makes of the errors of its parts.  An Envelope error is mapped
\* too, but only the enveloped calls raise one, and those return it as it is.
MapCoreError ==
  [UnknownBackend |-> "NoProviderAvailable", UnsupportedCircuit |-> "NoProviderAvailable",
   InvalidRequest |-> "Provider",            Generation |-> "Provider",
   NotVerified |-> "NotVerified",            NoVerifier |-> "VerificationFailed",
   Envelope |-> "Provider",                  Internal |-> "Provider"]

Errors == {MapCoreError[e] : e \in DOMAIN MapCoreError}

NoAnswer == [call |-> "prove", outcome |-> "none", proof |-> None]

-----------------------------------------------------------------------------
(* Registration *)

Init ==
  /\ providers = <<>>
  /\ localVerifier = None
  /\ latest = [b \in Backends |-> None]
  /\ answer = NoAnswer

\* Mutant: the earlier provider stays, and is found first.
RegisterProviderAppending(p) ==
  /\ Len(providers) <= Cardinality(Backends)
  /\ providers' = Append(providers, p)
  /\ latest' = [latest EXCEPT ![p.backend] = p]
  /\ UNCHANGED <<localVerifier, answer>>

RegisterProvider(p) ==
  LET others == {q \in Providers : q.backend # p.backend}
  IN  /\ providers' = Append(Only(providers, others), p)
      /\ latest' = [latest EXCEPT ![p.backend] = p]
      /\ UNCHANGED <<localVerifier, answer>>

WithLocalVerifier(v) ==
  /\ localVerifier' = v
  /\ UNCHANGED <<providers, latest, answer>>

\* The first provider registered for the backend.
Provider(backend) ==
  LET at == {i \in DOMAIN providers : providers[i].backend = backend}
  IN  IF at = {} THEN None
      ELSE providers[CHOOSE i \in at : \A j \in at : i <= j]

-----------------------------------------------------------------------------
(* Calls *)

Made(proof) == [error |-> "none", proof |-> proof]
Error(name) == [error |-> name, proof |-> None]

\* Dispatch is explicit: no request falls through to another provider.
Provide(request) ==
  LET p == Provider(request.backend)
  IN  IF p = None THEN {Error("UnknownBackend")}
      ELSE IF <<request.backend, request.version>> \notin Supported
      THEN {Error("UnsupportedCircuit")}
      ELSE {Made(p)} \cup {Error("Generation") : b \in {request.backend} \cap Failing}

ProveCore(request) ==
  IF request.valid THEN Provide(request) ELSE {Error("InvalidRequest")}

Proven(request) == {made.proof : made \in {m \in ProveCore(request) : m.error = "none"}}
Refusals(request) == {made.error : made \in ProveCore(request)} \ {"none"}

\* External: what a verifier may say of a proof.  Only one that runs a tool for
\* proofs of its own backend can fail to answer.
Opinions(v, proof) ==
  {IF v = proof THEN "verified" ELSE "rejected"}
    \cup {"error" : b \in {v.backend} \cap {proof.backend} \cap Failing}

LocalOpinions(proof) ==
  IF localVerifier = None THEN {None} ELSE Opinions(localVerifier, proof)

\* verify_round_trip.
RoundTrip(opinion) ==
  CASE opinion = None       -> "NoVerifier"
    [] opinion = "error"    -> "Internal"
    [] opinion = "rejected" -> "NotVerified"
    [] OTHER                -> "none"

Answer(call, outcome, proof) ==
  /\ answer' = [call |-> call, outcome |-> outcome,
                proof |-> IF outcome = "ok" THEN proof ELSE None]
  /\ UNCHANGED <<providers, localVerifier, latest>>

\* The error of a request that yields no proof, whatever the call.
Refuse(call, request) ==
  \E error \in Refusals(request) : Answer(call, MapCoreError[error], None)

Prove(request) ==
  \/ Refuse("prove", request)
  \/ \E proof \in Proven(request) : Answer("prove", "ok", proof)

ProveAndVerify(request) ==
  \/ Refuse("prove_and_verify", request)
  \/ \E proof \in Proven(request) : \E opinion \in LocalOpinions(proof) :
       LET error == RoundTrip(opinion)
       IN  Answer("prove_and_verify",
                  IF error = "none" THEN "ok" ELSE MapCoreError[error], proof)

\* Mutant: the default, without its test of the outcome.
BoxedOutcomeUnjudged(opinion) ==
  CASE opinion = None    -> "panic"
    [] opinion = "error" -> "VerificationFailed"
    [] OTHER             -> "ok"

\* The trait's default asks for the local verifier, which must be there.
BoxedOutcome(opinion) ==
  CASE opinion = None       -> "panic"
    [] opinion = "error"    -> "VerificationFailed"
    [] opinion = "rejected" -> "NotVerified"
    [] OTHER                -> "ok"

BoxedProveAndVerify(request) ==
  \/ Refuse("boxed prove_and_verify", request)
  \/ \E proof \in Proven(request) : \E opinion \in LocalOpinions(proof) :
       Answer("boxed prove_and_verify", BoxedOutcome(opinion), proof)

Next ==
  \/ \E p \in Providers : RegisterProvider(p)
  \/ \E v \in Verifiers : WithLocalVerifier(v)
  \/ \E request \in Requests :
       \/ Prove(request)
       \/ ProveAndVerify(request)
       \/ BoxedProveAndVerify(request)

Spec == Init /\ [][Next]_vars

-----------------------------------------------------------------------------
(* Properties *)

TypeOK ==
  /\ providers \in Seq(Providers)
  /\ Len(providers) = Cardinality({b \in Backends : latest[b] # None})
  /\ localVerifier \in Verifiers \cup {None}
  /\ latest \in [Backends -> Providers \cup {None}]
  /\ answer \in [call : Calls, outcome : Errors \cup {"none", "ok", "panic"},
                 proof : Proofs \cup {None}]

\* "Later registrations for the same backend replace earlier ones": whatever the
\* order in which backends were registered and replaced, a request is served by
\* the provider its backend was given last, and no other one is left behind.
LatestProviderServes ==
  \A b \in Backends :
    /\ Provider(b) = latest[b]
    /\ \A i, j \in DOMAIN providers :
         providers[i].backend = b /\ providers[j].backend = b => i = j

\* "Callers cannot silently continue with an unverified proof", on the facade
\* and through a Box alike: a proof that either returns was made by the provider
\* that now serves a backend, and the verifier that is now set accepts it.
VerifiedBeforeReturned ==
  [][\A proof \in Proofs :
       answer' # answer /\ answer'.call # "prove" /\ answer'.proof = proof
         => /\ proof = latest[proof.backend]
            /\ "verified" \in LocalOpinions(proof)]_vars

=============================================================================
