---------------------------- MODULE ServiceProofs ----------------------------
(***************************************************************************)
(* Proofs about the two services that callers register their parts with:   *)
(* ProverService, for any backends, versions, keys and compatibility, and  *)
(* any sequence of registrations and calls; and VerificationService, for   *)
(* any backends, keys and number of verifiers.                             *)
(***************************************************************************)
EXTENDS ProverService, VerificationService, DataTheorems

-----------------------------------------------------------------------------
(* The registry *)

Outcomes == Errors \cup {"none", "ok", "panic"}

Answers == [call : Calls, outcome : Outcomes, proof : Proofs \cup {None}]

\* The registry holds the latest provider of every backend that has one, and
\* holds it once.
RegistryInv ==
  /\ providers \in Seq(Providers)
  /\ localVerifier \in Verifiers \cup {None}
  /\ latest \in [Backends -> Providers \cup {None}]
  /\ answer \in Answers
  /\ \A i \in DOMAIN providers : latest[providers[i].backend] = providers[i]
  /\ \A i, j \in DOMAIN providers : providers[i].backend = providers[j].backend => i = j
  /\ \A b \in Backends : latest[b] # None => \E i \in DOMAIN providers : providers[i].backend = b

\* No provider is None.
LEMMA NoneIsNoProvider == None \notin Providers
BY ProverServiceAssumption DEF Providers

\* The first provider of a backend is the latest.
LEMMA ProviderIsLatest ==
  ASSUME RegistryInv, NEW b \in Backends
  PROVE  Provider(b) = latest[b] /\ (latest[b] # None => latest[b] \in Providers /\ latest[b].backend = b)
<1> DEFINE at == {i \in DOMAIN providers : providers[i].backend = b}
<1>1. \A i \in at : providers[i] = latest[b] /\ providers[i] \in Providers /\ providers[i].backend = b
  BY DEF RegistryInv
<1>2. CASE at = {}
  BY <1>2 DEF RegistryInv, Provider
<1>3. CASE at # {}
  <2>1. at \in SUBSET Nat
    BY DEF RegistryInv
  <2>2. PICK first \in at : \A j \in at : first <= j
    BY <1>3, <2>1, LeastNatural
  <2>3. (CHOOSE i \in at : \A j \in at : i <= j) \in at
    BY <2>2
  <2>4. Provider(b) = providers[CHOOSE i \in at : \A j \in at : i <= j]
    BY <1>3 DEF Provider
  <2> HIDE DEF at
  <2>5. Provider(b) = latest[b]
    BY <1>1, <2>3, <2>4
  <2>. QED
    BY <1>1, <2>2, <2>5
<1>. QED
  BY <1>2, <1>3

\* The errors of the parts are those that MapCoreError maps.
CoreErrors == {"UnknownBackend", "UnsupportedCircuit", "InvalidRequest", "Generation",
               "NotVerified", "NoVerifier", "Envelope", "Internal"}

\* What it makes of one is an error, and never Ok.
LEMMA ErrorsAreMapped ==
  ASSUME NEW error \in CoreErrors
  PROVE  MapCoreError[error] \in Errors /\ MapCoreError[error] # "ok"
<1>1. DOMAIN MapCoreError = CoreErrors
  BY DEF MapCoreError, CoreErrors
<1>2. \A e \in CoreErrors : MapCoreError[e] # "ok"
  BY DEF MapCoreError, CoreErrors
<1>. QED
  BY <1>1, <1>2 DEF Errors

\* What a request yields: an error that is mapped, or a proof of the backend it
\* names, made by the provider registered last for it.
LEMMA WhatProvingYields ==
  ASSUME RegistryInv, NEW request \in Requests
  PROVE  /\ Refusals(request) \subseteq CoreErrors
         /\ \A proof \in Proven(request) :
              /\ proof \in Proofs /\ proof.backend = request.backend
              /\ proof = latest[request.backend]
<1> DEFINE b == request.backend
<1>1. b \in Backends
  BY DEF Requests
<1>2. Provider(b) = latest[b] /\ (latest[b] # None => latest[b] \in Providers /\ latest[b].backend = b)
  BY <1>1, ProviderIsLatest
<1>3. ASSUME NEW made \in ProveCore(request)
      PROVE  \/ made.error \in CoreErrors
             \/ made.error = "none" /\ made.proof = Provider(b) /\ Provider(b) # None
  BY <1>3 DEF ProveCore, Provide, Error, Made, CoreErrors
<1>4. ASSUME NEW proof \in Proven(request)
      PROVE  proof = Provider(b) /\ Provider(b) # None
  <2>1. PICK made \in ProveCore(request) : made.error = "none" /\ proof = made.proof
    BY <1>4 DEF Proven
  <2>. QED
    BY <2>1, <1>3 DEF CoreErrors
<1>5. Refusals(request) \subseteq CoreErrors
  BY <1>3 DEF Refusals
<1>. QED
  BY <1>2, <1>4, <1>5 DEF Proofs, Verifiers, Providers

\* A call answers with an outcome it may have, and with a proof only when that is Ok.
LEMMA AnswersAreTyped ==
  ASSUME RegistryInv, NEW request \in Requests,
         Prove(request) \/ ProveAndVerify(request) \/ BoxedProveAndVerify(request)
  PROVE  answer' \in Answers
<1>1. ASSUME NEW call \in Calls, NEW outcome \in Outcomes, NEW proof,
             outcome = "ok" => proof \in Proofs, Answer(call, outcome, proof)
      PROVE  answer' \in Answers
  BY <1>1 DEF Answer, Answers
<1>2. ASSUME NEW call \in Calls, Refuse(call, request) PROVE answer' \in Answers
  <2>1. PICK error \in CoreErrors : Answer(call, MapCoreError[error], None)
    BY <1>2, WhatProvingYields DEF Refuse
  <2>2. MapCoreError[error] \in Outcomes /\ MapCoreError[error] # "ok"
    BY ErrorsAreMapped DEF Outcomes
  <2>. QED
    BY <2>1, <2>2, <1>1
<1>3. CASE Prove(request)
  <2>1. CASE Refuse("prove", request)
    BY <2>1, <1>2 DEF Calls
  <2>2. CASE \E proof \in Proven(request) : Answer("prove", "ok", proof)
    BY <2>2, <1>1, WhatProvingYields DEF Calls, Outcomes
  <2>. QED
    BY <1>3, <2>1, <2>2 DEF Prove
<1>4. CASE ProveAndVerify(request)
  <2>1. CASE Refuse("prove_and_verify", request)
    BY <2>1, <1>2 DEF Calls
  <2>2. ASSUME NEW proof \in Proven(request), NEW opinion,
               Answer("prove_and_verify",
                      IF RoundTrip(opinion) = "none" THEN "ok" ELSE MapCoreError[RoundTrip(opinion)], proof)
        PROVE  answer' \in Answers
    <3>1. RoundTrip(opinion) \in CoreErrors \cup {"none"}
      BY DEF RoundTrip, CoreErrors
    <3>2. (IF RoundTrip(opinion) = "none" THEN "ok" ELSE MapCoreError[RoundTrip(opinion)]) \in Outcomes
      BY <3>1, ErrorsAreMapped DEF Outcomes
    <3>. QED
      BY <2>2, <3>2, <1>1, WhatProvingYields DEF Calls
  <2>. QED
    BY <1>4, <2>1, <2>2 DEF ProveAndVerify
<1>5. CASE BoxedProveAndVerify(request)
  <2>1. CASE Refuse("boxed prove_and_verify", request)
    BY <2>1, <1>2 DEF Calls
  <2>2. ASSUME NEW proof \in Proven(request), NEW opinion,
               Answer("boxed prove_and_verify", BoxedOutcome(opinion), proof)
        PROVE  answer' \in Answers
    <3>1. BoxedOutcome(opinion) \in Outcomes
      BY DEF BoxedOutcome, Outcomes, Errors, MapCoreError
    <3>. QED
      BY <2>2, <3>1, <1>1, WhatProvingYields DEF Calls
  <2>. QED
    BY <1>5, <2>1, <2>2 DEF BoxedProveAndVerify
<1>. QED
  BY <1>3, <1>4, <1>5

\* Registering a provider keeps those of the other backends, and drops its own.
LEMMA RegisterKeeps ==
  ASSUME RegistryInv, NEW p \in Providers, RegisterProvider(p)
  PROVE  RegistryInv'
<1> DEFINE others == {q \in Providers : q.backend # p.backend}
           kept == Only(providers, others)
<1>1. /\ providers \in Seq(Providers) /\ latest \in [Backends -> Providers \cup {None}]
      /\ providers' = Append(kept, p)
      /\ latest' = [latest EXCEPT ![p.backend] = p]
      /\ localVerifier' = localVerifier /\ answer' = answer
      /\ p.backend \in Backends
  BY DEF RegistryInv, RegisterProvider, Providers
<1>2. kept \in Seq(Providers)
  BY <1>1, OnlyType
<1>3. PICK at : Numbering(providers, others, at)
  BY <1>1, OnlyNumbers
<1> DEFINE new == Len(kept) + 1
<1>4. /\ DOMAIN providers = 1..Len(providers) /\ Len(kept) \in Nat
      /\ DOMAIN providers' = 1..new /\ providers'[new] = p
      /\ \A n \in 1..Len(kept) : providers'[n] = kept[n]
      /\ \A n \in 1..new : n \in 1..Len(kept) \/ n = new
  <2> HIDE DEF kept
  <2>. QED
    BY <1>1, <1>2
<1>5. /\ at \in [1..Len(kept) -> {i \in 1..Len(providers) : providers[i] \in others}]
      /\ \A n \in 1..Len(kept) : kept[n] = providers[at[n]]
      /\ \A n, k \in 1..Len(kept) : n < k => at[n] < at[k]
      /\ \A i \in 1..Len(providers) : providers[i] \in others => \E n \in 1..Len(kept) : at[n] = i
  BY <1>3 DEF Numbering
<1>6. \A n \in 1..Len(kept) : /\ at[n] \in DOMAIN providers
                              /\ kept[n] = providers[at[n]] /\ kept[n] \in Providers
                              /\ kept[n].backend # p.backend /\ kept[n].backend \in Backends
  BY <1>5, <1>4 DEF Providers
<1> HIDE DEF kept
<1>7. providers' \in Seq(Providers)
  BY <1>1, <1>2
<1>8. latest' \in [Backends -> Providers \cup {None}]
  BY <1>1
<1>9. /\ latest'[p.backend] = p
      /\ \A b \in Backends : b # p.backend => latest'[b] = latest[b]
  BY <1>1
<1>10. ASSUME NEW i \in DOMAIN providers' PROVE latest'[providers'[i].backend] = providers'[i]
  <2>1. CASE i = new
    BY <2>1, <1>4, <1>9
  <2>2. CASE i \in 1..Len(kept)
    BY <2>2, <1>4, <1>6, <1>9 DEF RegistryInv
  <2>. QED
    BY <2>1, <2>2, <1>4
<1>11. ASSUME NEW i \in DOMAIN providers', NEW j \in DOMAIN providers',
              providers'[i].backend = providers'[j].backend
       PROVE  i = j
  <2>1. CASE i = new \/ j = new
    BY <2>1, <1>4, <1>6, <1>11
  <2>2. CASE i \in 1..Len(kept) /\ j \in 1..Len(kept)
    <3>1. at[i] = at[j]
      BY <2>2, <1>4, <1>6, <1>11 DEF RegistryInv
    <3>2. /\ i \in Nat /\ j \in Nat /\ at[i] \in Nat
          /\ i < j => at[i] < at[j]
          /\ j < i => at[j] < at[i]
      BY <2>2, <1>5, <1>4, <1>6
    <3>. QED
      BY <3>1, <3>2
  <2>. QED
    BY <2>1, <2>2, <1>4
<1>12. ASSUME NEW b \in Backends, latest'[b] # None
       PROVE  \E i \in DOMAIN providers' : providers'[i].backend = b
  <2>1. CASE b = p.backend
    BY <2>1, <1>4
  <2>2. CASE b # p.backend
    <3>1. PICK i \in DOMAIN providers : providers[i].backend = b
      BY <2>2, <1>9, <1>12 DEF RegistryInv
    <3>2. providers[i] \in others /\ i \in 1..Len(providers)
      BY <3>1, <2>2, <1>1, <1>4
    <3>3. PICK n \in 1..Len(kept) : at[n] = i
      BY <3>2, <1>5
    <3>4. providers'[n].backend = b /\ n \in 1..new
      BY <3>1, <3>3, <1>4, <1>6
    <3>. QED
      BY <3>4, <1>4
  <2>. QED
    BY <2>1, <2>2
<1>. QED
  BY <1>1, <1>7, <1>8, <1>10, <1>11, <1>12 DEF RegistryInv

\* Every step keeps the registry.
LEMMA RegistryStep ==
  ASSUME RegistryInv, [Next]_vars
  PROVE  RegistryInv'
<1>1. CASE \E p \in Providers : RegisterProvider(p)
  BY <1>1, RegisterKeeps
<1>2. CASE UNCHANGED <<providers, latest>> /\ localVerifier' \in Verifiers \cup {None} /\ answer' \in Answers
  BY <1>2 DEF RegistryInv
<1>3. CASE \E v \in Verifiers : WithLocalVerifier(v)
  <2>1. UNCHANGED <<providers, latest>> /\ localVerifier' \in Verifiers \cup {None} /\ answer' \in Answers
    BY <1>3 DEF WithLocalVerifier, RegistryInv
  <2>. QED
    BY <2>1, <1>2
<1>4. CASE \E request \in Requests :
             Prove(request) \/ ProveAndVerify(request) \/ BoxedProveAndVerify(request)
  <2>1. PICK request \in Requests :
          Prove(request) \/ ProveAndVerify(request) \/ BoxedProveAndVerify(request)
    BY <1>4
  <2>2. UNCHANGED <<providers, localVerifier, latest>>
    BY <2>1 DEF Prove, ProveAndVerify, BoxedProveAndVerify, Refuse, Answer
  <2>3. answer' \in Answers
    BY <2>1, AnswersAreTyped
  <2>. QED
    BY <2>2, <2>3, <1>2 DEF RegistryInv
<1>5. CASE UNCHANGED vars
  BY <1>5, <1>2 DEF vars, RegistryInv
<1>. QED
  BY <1>1, <1>3, <1>4, <1>5 DEF Next

\* It holds at the start.
LEMMA RegistryInit == Init => RegistryInv
<1> SUFFICES ASSUME Init PROVE RegistryInv
  OBVIOUS
<1>1. /\ providers \in Seq(Providers) /\ DOMAIN providers = {}
      /\ latest \in [Backends -> Providers \cup {None}] /\ \A b \in Backends : latest[b] = None
  BY DEF Init
<1>2. answer \in Answers
  BY DEF Init, NoAnswer, Answers, Calls, Outcomes
<1>. QED
  BY <1>1, <1>2 DEF Init, RegistryInv

\* There are as many providers as backends that have one.
LEMMA RegistryCounts ==
  ASSUME RegistryInv
  PROVE  Len(providers) = Cardinality({b \in Backends : latest[b] # None})
<1> DEFINE S == {b \in Backends : latest[b] # None}
           D == 1..Len(providers)
           f == [i \in D |-> providers[i].backend]
<1>1. /\ D = DOMAIN providers /\ Len(providers) \in Nat
      /\ \A i \in D : providers[i] \in Providers
  BY DEF RegistryInv
<1>2. \A i \in D : f[i] \in Backends /\ latest[f[i]] = providers[i]
  BY <1>1 DEF RegistryInv, Providers
<1>3. \A i \in D : f[i] \in S
  BY <1>1, <1>2, NoneIsNoProvider
<1>4. \A i, j \in D : f[i] = f[j] => i = j
  BY <1>1 DEF RegistryInv
<1>5. \A b \in S : \E i \in D : f[i] = b
  BY <1>1 DEF RegistryInv
<1>6. f \in [D -> S]
  <2>1. DOMAIN f = D /\ f = [i \in D |-> f[i]]
    OBVIOUS
  <2> HIDE DEF f, S, D
  <2>. QED
    BY <2>1, <1>3
<1> HIDE DEF f, S, D
<1>7. f \in Bijection(D, S)
  BY <1>4, <1>5, <1>6 DEF Bijection, Injection, Surjection, IsInjective
<1>8. Cardinality(S) = Len(providers)
  BY <1>1, <1>7, FS_CountingElements DEF ExistsBijection, D
<1>. QED
  BY <1>8 DEF S

\* The registry keeps its type, one provider for each backend that was given one.
THEOREM RegistryTypes == Spec => []TypeOK
<1>1. RegistryInv => TypeOK
  BY RegistryCounts DEF RegistryInv, TypeOK, Answers, Outcomes
<1>. QED
  BY <1>1, RegistryInit, RegistryStep, PTL DEF Spec

\* "Later registrations for the same backend replace earlier ones", in any order
\* of registrations and calls.
THEOREM TheLatestServes == Spec => []LatestProviderServes
<1>1. RegistryInv => LatestProviderServes
  BY ProviderIsLatest DEF RegistryInv, LatestProviderServes
<1>. QED
  BY <1>1, RegistryInit, RegistryStep, PTL DEF Spec

\* Only an accepting opinion makes either call answer Ok.
LEMMA OkIsVerified ==
  ASSUME NEW opinion \in {"verified", "rejected", "error", None}
  PROVE  /\ RoundTrip(opinion) = "none" => opinion = "verified"
         /\ BoxedOutcome(opinion) = "ok" => opinion = "verified"
         /\ RoundTrip(opinion) # "none" => RoundTrip(opinion) \in CoreErrors
BY DEF RoundTrip, BoxedOutcome, CoreErrors

\* The opinions there are.
LEMMA OpinionsAre ==
  ASSUME NEW proof
  PROVE  LocalOpinions(proof) \subseteq {"verified", "rejected", "error", None}
BY DEF LocalOpinions, Opinions

\* "Callers cannot silently continue with an unverified proof": neither the facade
\* nor a Box of it returns one that the verifier of the moment does not accept, or
\* that was made by a provider since replaced.
THEOREM ReturnedProofsAreVerified == Spec => VerifiedBeforeReturned
<1> DEFINE Kept(proof) ==
             answer' # answer /\ answer'.call # "prove" /\ answer'.proof = proof
               => /\ proof = latest[proof.backend]
                  /\ "verified" \in LocalOpinions(proof)
<1>1. ASSUME RegistryInv, [Next]_vars, NEW proof \in Proofs,
             answer' # answer, answer'.call # "prove", answer'.proof = proof
      PROVE  proof = latest[proof.backend] /\ "verified" \in LocalOpinions(proof)
  <2>1. proof # None
    BY NoneIsNoProvider DEF Proofs, Verifiers, Providers
  <2>2. PICK request \in Requests :
          Prove(request) \/ ProveAndVerify(request) \/ BoxedProveAndVerify(request)
    BY <1>1 DEF Next, vars, RegisterProvider, WithLocalVerifier
  <2>3. \A call, outcome, made :
          Answer(call, outcome, made) => made = proof /\ outcome = "ok" /\ call # "prove"
    BY <1>1, <2>1 DEF Answer
  <2>4. \A call : ~Refuse(call, request)
    BY <2>1, <2>3 DEF Refuse
  <2>5. ~Prove(request)
    BY <2>3, <2>4 DEF Prove
  <2>6. proof \in Proven(request) /\ \E opinion \in LocalOpinions(proof) : opinion = "verified"
    <3>1. CASE ProveAndVerify(request)
      <4>1. PICK made \in Proven(request) : \E opinion \in LocalOpinions(made) :
              Answer("prove_and_verify",
                     IF RoundTrip(opinion) = "none" THEN "ok" ELSE MapCoreError[RoundTrip(opinion)], made)
        BY <3>1, <2>4 DEF ProveAndVerify
      <4>2. PICK opinion \in LocalOpinions(made) :
              Answer("prove_and_verify",
                     IF RoundTrip(opinion) = "none" THEN "ok" ELSE MapCoreError[RoundTrip(opinion)], made)
        BY <4>1
      <4>3. /\ made = proof
            /\ (IF RoundTrip(opinion) = "none" THEN "ok" ELSE MapCoreError[RoundTrip(opinion)]) = "ok"
        BY <4>2, <2>3
      <4>4. opinion \in {"verified", "rejected", "error", None}
        BY OpinionsAre
      <4>5. RoundTrip(opinion) = "none"
        BY <4>3, <4>4, OkIsVerified, ErrorsAreMapped
      <4>. QED
        BY <4>1, <4>3, <4>4, <4>5, OkIsVerified
    <3>2. CASE BoxedProveAndVerify(request)
      <4>1. PICK made \in Proven(request) : \E opinion \in LocalOpinions(made) :
              Answer("boxed prove_and_verify", BoxedOutcome(opinion), made)
        BY <3>2, <2>4 DEF BoxedProveAndVerify
      <4>2. PICK opinion \in LocalOpinions(made) :
              Answer("boxed prove_and_verify", BoxedOutcome(opinion), made)
        BY <4>1
      <4>3. made = proof /\ BoxedOutcome(opinion) = "ok"
        BY <4>2, <1>1, <2>1 DEF Answer
      <4>. QED
        BY <4>1, <4>3, OpinionsAre, OkIsVerified
    <3>. QED
      BY <2>2, <2>5, <3>1, <3>2
  <2>. QED
    BY <1>1, <2>6, WhatProvingYields
<1>2. RegistryInv /\ [Next]_vars => [\A proof \in Proofs : Kept(proof)]_vars
  BY <1>1
<1>. QED
  BY <1>2, RegistryInit, RegistryStep, PTL DEF Spec, VerifiedBeforeReturned

-----------------------------------------------------------------------------
(* The verification service *)

\* VerificationTypeOK keeps itself.
LEMMA TypeInit ==
  ASSUME VerificationInit
  PROVE  VerificationTypeOK
<1>1. (CHOOSE p \in Proofs : TRUE) \in Proofs /\ (CHOOSE b \in Backends : TRUE) \in Backends
  <2>1. Proofs # {} /\ Backends # {}
    <3>1. PICK b \in Backends, k \in Keys : TRUE
      BY VerificationServiceAssumption
    <3>2. [backend |-> b, key |-> k] \in Proofs
      BY DEF Proofs, Verifiers
    <3>. QED
      BY <3>2
  <2>. QED
    BY <2>1
<1>2. /\ reported.submission \in Submissions /\ reported.said = <<>> /\ reported.error = "none"
      /\ reported.results = <<>> /\ reported.all = FALSE /\ byBackend = <<>>
  BY <1>1 DEF VerificationInit, NothingReported, Submissions
<1>3. /\ byBackend \in Seq(Verifiers) /\ Len(byBackend) = 0
      /\ reported.said \in Seq(Verdicts) /\ reported.results \in Seq(Verdicts \ {"error"})
  BY <1>2
<1>4. Len(byBackend) <= MaxRegistrations
  BY <1>3, VerificationServiceAssumption
<1>5. reported.error \in ReportErrors \cup {"none"} /\ reported.all \in BOOLEAN
  BY <1>2
<1>. QED
  BY <1>2, <1>3, <1>4, <1>5, Zenon DEF VerificationTypeOK

\* The verifiers of a submission are those registered for the backend it claims.
LEMMA VerifiersServe ==
  ASSUME VerificationTypeOK, NEW backend
  PROVE  /\ VerifiersFor(backend) \in Seq(Verifiers)
         /\ Serving(backend) = {VerifiersFor(backend)[n] : n \in 1..Len(VerifiersFor(backend))}
         /\ \A n \in 1..Len(VerifiersFor(backend)) : VerifiersFor(backend)[n].backend = backend
<1> DEFINE serving == {v \in Verifiers : v.backend = backend}
           served == Only(byBackend, serving)
<1>1. byBackend \in Seq(Verifiers) /\ DOMAIN byBackend = 1..Len(byBackend)
  BY DEF VerificationTypeOK
<1>2. served \in Seq(Verifiers) /\ VerifiersFor(backend) = served
  BY <1>1, OnlyType DEF VerifiersFor
<1>3. PICK at : Numbering(byBackend, serving, at)
  BY <1>1, OnlyNumbers
<1>4. /\ at \in [1..Len(served) -> {i \in 1..Len(byBackend) : byBackend[i] \in serving}]
      /\ \A n \in 1..Len(served) : served[n] = byBackend[at[n]]
      /\ \A i \in 1..Len(byBackend) : byBackend[i] \in serving => \E n \in 1..Len(served) : at[n] = i
  BY <1>3 DEF Numbering
<1> HIDE DEF served
<1>5. \A n \in 1..Len(served) : /\ at[n] \in 1..Len(byBackend) /\ served[n] = byBackend[at[n]]
                                /\ served[n].backend = backend
  BY <1>4
<1>6. ASSUME NEW i \in 1..Len(byBackend), byBackend[i].backend = backend
      PROVE  \E n \in 1..Len(served) : served[n] = byBackend[i]
  <2>1. byBackend[i] \in serving
    BY <1>1, <1>6
  <2>. QED
    BY <2>1, <1>4
<1>7. Serving(backend) = {served[n] : n \in 1..Len(served)}
  BY <1>1, <1>5, <1>6 DEF Serving, Range
<1>. QED
  BY <1>2, <1>5, <1>7

\* What a submission does: a verdict of every verifier in turn, and none after one
\* that fails to run.
LEMMA VerifyRuns ==
  ASSUME VerificationTypeOK, NEW submission \in Submissions, Verify(submission)
  PROVE  LET served == VerifiersFor(submission.backend)
             said   == reported'.said
         IN  /\ said \in Seq(Verdicts) /\ Len(said) <= Len(served)
             /\ \A i \in 1..Len(said) :
                  /\ said[i] \in MaySay(served[i], submission)
                  /\ said[i] = "error" => i = Len(said)
             /\ Len(said) < Len(served) => said # <<>> /\ said[Len(said)] = "error"
             /\ reported' = [submission |-> submission, said |-> said, error |-> Report(said).error,
                           results |-> Report(said).results, all |-> AllVerified(Report(said).results)]
<1> DEFINE served == VerifiersFor(submission.backend)
<1>1. PICK said \in Runs(served, submission) :
        reported' = [submission |-> submission, said |-> said, error |-> Report(said).error,
                   results |-> Report(said).results, all |-> AllVerified(Report(said).results)]
  BY DEF Verify
<1>2. reported'.said = said
  BY <1>1
<1>3. served \in Seq(Verifiers) /\ Len(served) \in Nat
  BY VerifiersServe
<1> HIDE DEF served
<1>4. PICK n \in 0..Len(served) : said \in [1..n -> Verdicts]
  BY <1>1 DEF Runs
<1>5. said \in Seq(Verdicts) /\ Len(said) = n /\ DOMAIN said = 1..n
  BY <1>3, <1>4
<1>6. /\ \A i \in DOMAIN said : said[i] \in MaySay(served[i], submission)
      /\ \A i \in DOMAIN said : said[i] = "error" => i = Len(said)
      /\ Len(said) < Len(served) => said # <<>> /\ Last(said) = "error"
  BY <1>1 DEF Runs
<1>7. \A i \in 1..Len(said) : /\ said[i] \in MaySay(served[i], submission)
                              /\ said[i] = "error" => i = Len(said)
  BY <1>5, <1>6
<1>8. Len(said) < Len(served) => said # <<>> /\ said[Len(said)] = "error"
  BY <1>6 DEF Last
<1>. QED
  BY <1>1, <1>2, <1>3, <1>4, <1>5, <1>7, <1>8 DEF served

\* A report is made of all that was said, unless the last of it failed.
LEMMA ReportIs ==
  ASSUME NEW said \in Seq(Verdicts), \A i \in 1..Len(said) : said[i] = "error" => i = Len(said)
  PROVE  /\ Report(said).error \in ReportErrors \cup {"none"}
         /\ Report(said).results \in Seq(Verdicts \ {"error"})
         /\ Report(said).error = "none" =>
              said # <<>> /\ said[Len(said)] # "error" /\ Report(said).results = said
         /\ Report(said).error # "none" => Report(said).results = <<>>
<1>1. CASE said = <<>>
  BY <1>1 DEF Report, ReportErrors
<1>2. CASE said # <<>> /\ said[Len(said)] = "error"
  <2>1. Report(said) = [error |-> "VerifierFailed", results |-> <<>>]
    BY <1>2 DEF Report, Last
  <2>. QED
    BY <2>1 DEF ReportErrors
<1>3. CASE said # <<>> /\ said[Len(said)] # "error"
  <2>1. Report(said) = [error |-> "none", results |-> said]
    BY <1>3 DEF Report, Last
  <2>2. \A i \in 1..Len(said) : said[i] \in Verdicts \ {"error"}
    BY <1>3
  <2>3. said \in Seq(Verdicts \ {"error"})
    <3>1. Len(said) \in Nat /\ said = [i \in 1..Len(said) |-> said[i]]
      OBVIOUS
    <3>. QED
      BY <2>2, <3>1
  <2>. QED
    BY <1>3, <2>1, <2>3
<1>. QED
  BY <1>1, <1>2, <1>3

\* Every step keeps VerificationTypeOK.
LEMMA TypeStep ==
  ASSUME VerificationTypeOK, [VerificationNext]_verificationVars
  PROVE  VerificationTypeOK'
<1>1. CASE \E v \in Verifiers : Register(v)
  <2>1. PICK v \in Verifiers : Register(v)
    BY <1>1
  <2>2. /\ byBackend' = Append(byBackend, v) /\ reported' = reported
        /\ Len(byBackend) < MaxRegistrations /\ byBackend \in Seq(Verifiers)
    BY <2>1 DEF Register, VerificationTypeOK
  <2>3. byBackend' \in Seq(Verifiers) /\ Len(byBackend') <= MaxRegistrations
    BY <2>2, VerificationServiceAssumption
  <2>. QED
    BY <2>2, <2>3 DEF VerificationTypeOK
<1>2. CASE \E submission \in Submissions : Verify(submission)
  <2>1. PICK submission \in Submissions : Verify(submission)
    BY <1>2
  <2> DEFINE said == reported'.said
  <2>2. /\ said \in Seq(Verdicts)
        /\ \A i \in 1..Len(said) : said[i] = "error" => i = Len(said)
        /\ reported' = [submission |-> submission, said |-> said, error |-> Report(said).error,
                      results |-> Report(said).results, all |-> AllVerified(Report(said).results)]
    BY <2>1, VerifyRuns
  <2>3. /\ reported'.submission = submission /\ reported'.error = Report(said).error
        /\ reported'.results = Report(said).results /\ reported'.all = AllVerified(Report(said).results)
    BY <2>2
  <2>4. reported'.all \in BOOLEAN
    BY <2>3 DEF AllVerified
  <2>5. byBackend' = byBackend
    BY <2>1 DEF Verify
  <2> HIDE DEF said
  <2>6. reported'.error \in ReportErrors \cup {"none"} /\ reported'.results \in Seq(Verdicts \ {"error"})
    BY <2>2, <2>3, ReportIs
  <2>. QED
    BY <2>2, <2>3, <2>4, <2>5, <2>6 DEF VerificationTypeOK, said
<1>3. CASE UNCHANGED verificationVars
  BY <1>3 DEF verificationVars, VerificationTypeOK
<1>. QED
  BY <1>1, <1>2, <1>3 DEF VerificationNext

\* Registrations and answers keep their types, and the results of a report never
\* hold a failure to run.
THEOREM ServiceTypes == VerificationSpec => []VerificationTypeOK
<1>1. VerificationInit => VerificationTypeOK
  BY TypeInit
<1>2. VerificationTypeOK /\ [VerificationNext]_verificationVars => VerificationTypeOK'
  BY TypeStep
<1>. QED
  BY <1>1, <1>2, PTL DEF VerificationSpec

\* Verifiers that all ran told the proof apart by its key alone.
LEMMA AllRan ==
  ASSUME VerificationTypeOK, NEW submission \in Submissions, Verify(submission),
         Report(reported'.said).error = "none"
  PROVE  LET served == VerifiersFor(submission.backend)
             said   == reported'.said
         IN  /\ said \in Seq(Verdicts) /\ said # <<>> /\ Len(said) = Len(served)
             /\ reported'.submission = submission
             /\ reported'.results = said /\ reported'.all = AllVerified(said)
             /\ \A i \in 1..Len(said) :
                  /\ said[i] \in {"verified", "rejected"}
                  /\ said[i] = "verified" <=> served[i] = submission.proof
<1> DEFINE served == VerifiersFor(submission.backend)
           said   == reported'.said
<1>1. /\ said \in Seq(Verdicts) /\ Len(said) <= Len(served)
      /\ \A i \in 1..Len(said) :
           /\ said[i] \in MaySay(served[i], submission)
           /\ said[i] = "error" => i = Len(said)
      /\ Len(said) < Len(served) => said # <<>> /\ said[Len(said)] = "error"
      /\ reported' = [submission |-> submission, said |-> said, error |-> Report(said).error,
                    results |-> Report(said).results, all |-> AllVerified(Report(said).results)]
  BY VerifyRuns
<1>2. /\ served \in Seq(Verifiers) /\ Len(served) \in Nat
      /\ \A n \in 1..Len(served) : served[n].backend = submission.backend
  BY VerifiersServe
<1>3. /\ reported'.submission = submission
      /\ reported'.results = Report(said).results /\ reported'.all = AllVerified(Report(said).results)
  BY <1>1
<1> HIDE DEF served, said
<1>4. said # <<>> /\ said[Len(said)] # "error" /\ Report(said).results = said
  BY <1>1, ReportIs DEF said
<1>5. Len(said) = Len(served)
  BY <1>1, <1>2, <1>4
<1>6. ASSUME NEW i \in 1..Len(said)
      PROVE  /\ said[i] \in {"verified", "rejected"}
             /\ said[i] = "verified" <=> served[i] = submission.proof
  <2>1. said[i] # "error" /\ said[i] \in MaySay(served[i], submission)
    BY <1>1, <1>4
  <2>2. served[i].backend = submission.backend
    BY <1>2, <1>5
  <2>3. said[i] = IF served[i] = submission.proof THEN "verified" ELSE "rejected"
    BY <2>1, <2>2 DEF MaySay
  <2>. QED
    BY <2>3
<1>. QED
  BY <1>1, <1>3, <1>4, <1>5, <1>6 DEF served, said

\* verify_all never accepts what one of the verifiers would reject, or what none
\* was there to accept, or before all have run.
THEOREM AcceptanceIsUnanimous == VerificationSpec => UnanimousOrNot
<1>1. ASSUME VerificationTypeOK, [VerificationNext]_verificationVars,
             reported' # reported, reported'.all
      PROVE  /\ Serving(reported'.submission.backend) = {reported'.submission.proof}
             /\ Len(reported'.said) = Len(VerifiersFor(reported'.submission.backend))
             /\ "error" \notin Range(reported'.said)
  <2>1. PICK submission \in Submissions : Verify(submission)
    BY <1>1 DEF VerificationNext, verificationVars, Register
  <2> DEFINE served == VerifiersFor(submission.backend)
             said   == reported'.said
  <2>2. Report(said).error = "none"
    <3>0. reported' = [submission |-> submission, said |-> said, error |-> Report(said).error,
                     results |-> Report(said).results, all |-> AllVerified(Report(said).results)]
      BY <1>1, <2>1, VerifyRuns
    <3>1. /\ said \in Seq(Verdicts)
          /\ \A i \in 1..Len(said) : said[i] = "error" => i = Len(said)
      BY <1>1, <2>1, VerifyRuns
    <3>4. reported'.all = AllVerified(Report(said).results)
      BY <3>0
    <3>2. Report(said).results # <<>>
      BY <1>1, <3>4 DEF AllVerified
    <3> HIDE DEF said
    <3>. QED
      BY <3>1, <3>2, ReportIs
  <2>3. /\ said \in Seq(Verdicts) /\ said # <<>> /\ Len(said) = Len(served)
        /\ reported'.submission = submission /\ reported'.all = AllVerified(said)
        /\ \A i \in 1..Len(said) : said[i] = "verified" <=> served[i] = submission.proof
    BY <1>1, <2>1, <2>2, AllRan
  <2>4. Serving(submission.backend) = {served[n] : n \in 1..Len(served)}
    BY <1>1, VerifiersServe
  <2> HIDE DEF served, said
  <2>5. DOMAIN said = 1..Len(said) /\ 1 \in 1..Len(said)
    BY <2>3
  <2>6. \A i \in 1..Len(said) : said[i] = "verified" /\ served[i] = submission.proof
    BY <1>1, <2>3, <2>5 DEF AllVerified
  <2>7. "error" \notin Range(said)
    BY <2>5, <2>6 DEF Range
  <2>8. Serving(submission.backend) = {submission.proof}
    BY <2>3, <2>4, <2>5, <2>6
  <2>. QED
    BY <2>3, <2>7, <2>8 DEF served, said
<1>2. VerificationTypeOK /\ [VerificationNext]_verificationVars =>
        [reported' # reported /\ reported'.all =>
           /\ Serving(reported'.submission.backend) = {reported'.submission.proof}
           /\ Len(reported'.said) = Len(VerifiersFor(reported'.submission.backend))
           /\ "error" \notin Range(reported'.said)]_verificationVars
  BY <1>1
<1>. QED
  BY <1>2, ServiceTypes, PTL DEF VerificationSpec, UnanimousOrNot

\* A report disagrees exactly when two registered verifiers do.
THEOREM DisagreementIsReal == VerificationSpec => ReportedDisagreementIsReal
<1>1. ASSUME VerificationTypeOK, [VerificationNext]_verificationVars,
             reported' # reported, reported'.error = "none"
      PROVE  Disagrees(reported'.results) <=>
               /\ reported'.submission.proof \in Serving(reported'.submission.backend)
               /\ Serving(reported'.submission.backend) # {reported'.submission.proof}
  <2>1. PICK submission \in Submissions : Verify(submission)
    BY <1>1 DEF VerificationNext, verificationVars, Register
  <2> DEFINE served == VerifiersFor(submission.backend)
             said   == reported'.said
  <2>2. Report(said).error = "none"
    <3>1. reported'.error = Report(said).error
      BY <1>1, <2>1, VerifyRuns
    <3>. QED
      BY <1>1, <3>1
  <2>3. /\ said \in Seq(Verdicts) /\ said # <<>> /\ Len(said) = Len(served)
        /\ reported'.submission = submission /\ reported'.results = said
        /\ \A i \in 1..Len(said) : said[i] = "verified" <=> served[i] = submission.proof
    BY <1>1, <2>1, <2>2, AllRan
  <2>4. Serving(submission.backend) = {served[n] : n \in 1..Len(served)}
    BY <1>1, VerifiersServe
  <2> HIDE DEF served, said
  <2>5. DOMAIN said = 1..Len(said) /\ 1 \in 1..Len(said) /\ Len(said) \in Nat
    BY <2>3
  <2>6. AnyVerified(said) <=> submission.proof \in Serving(submission.backend)
    BY <2>3, <2>4, <2>5 DEF AnyVerified
  <2>7. AllVerified(said) <=> Serving(submission.backend) = {submission.proof}
    BY <2>3, <2>4, <2>5 DEF AllVerified
  <2>8. AnyVerified(said) /\ ~AllVerified(said) => Len(said) > 1
    <3>1. ASSUME AnyVerified(said), Len(said) = 1 PROVE AllVerified(said)
      BY <2>3, <2>5, <3>1 DEF AnyVerified, AllVerified
    <3>. QED
      BY <2>5, <3>1
  <2>. QED
    BY <2>3, <2>6, <2>7, <2>8 DEF Disagrees
<1>2. VerificationTypeOK /\ [VerificationNext]_verificationVars =>
        [reported' # reported /\ reported'.error = "none" =>
           (Disagrees(reported'.results) <=>
              /\ reported'.submission.proof \in Serving(reported'.submission.backend)
              /\ Serving(reported'.submission.backend) # {reported'.submission.proof})]_verificationVars
  BY <1>1
<1>. QED
  BY <1>2, ServiceTypes, PTL DEF VerificationSpec, ReportedDisagreementIsReal

=============================================================================
