----------------------- MODULE ContextBindingProofs -----------------------
(***************************************************************************)
(* Proofs about ContextBinding, for any circuits, versions, builds, roots  *)
(* and values, and any number of proofs and states.                        *)
(***************************************************************************)
EXTENDS ContextBinding, SequenceTheorems, WellFoundedInduction, TLAPS

Rejections ==
  {"BackendMismatch", "CircuitMismatch", "VersionMismatch", "WrongVerificationKey",
   "ArtifactChecksumMismatch", "PublicOutputMismatch", "MissingStateBinding",
   "StateReferenceMismatch", "VerificationUnavailable", "InvalidProof"}

Checks == [holds : BOOLEAN, otherwise : Rejections]

AllHold(checks) == \A i \in DOMAIN checks : checks[i].holds

\* A response says of itself what its provider knows.
WellFormed(p) ==
  /\ p \in Contexts
  /\ p.keyId = KeyId(p.circuit, p.version, p.artifact)
  /\ p.artifact.circuit = p.circuit
  /\ p.backend = "ultrahonk" => p.version \in Supported /\ p.artifact.build \in Builds
  /\ p.backend = "ultrahonk" /\ p.circuit \in Bound => Get(p.outputs, "root") # None
  /\ p.backend = "ultrahonk" /\ Get(p.outputs, "root") # None => p.state # None
  /\ Get(p.outputs, "root") # None /\ p.state # None => Get(p.outputs, "root") = p.state.root

\* The store knows the keys of supported versions, each for its own circuit.
Stored(id) ==
  /\ id \in KeyIds /\ id.version \in Supported
  /\ id.artifact.circuit = id.circuit /\ id.artifact.build \in Builds

Bindings ==
  /\ ledger \in StateReferences
  /\ \A p \in responses : WellFormed(p)
  /\ \A id \in keyStore : Stored(id)

-----------------------------------------------------------------------------
(* Lists of checks *)

\* A set of numbers has a least one.
LEMMA Least == ASSUME NEW S \in SUBSET Nat, S # {} PROVE \E i \in S : \A j \in S : i <= j
<1>1. PICK R : IsWellFoundedOn(R, Nat) /\ \A a, b \in Nat : a < b => <<a, b>> \in R
  <2>1. \A a, b \in Nat : a < b => <<a, b>> \in OpToRel(<, Nat)
    BY DEF OpToRel
  <2>. QED
    BY <2>1, NatLessThanWellFounded
<1>2. IsWellFoundedOn(R, Nat) /\ S \subseteq Nat
  BY <1>1
<1>3. \E i \in S : \A j \in S : ~ <<j, i>> \in R
  BY ONLY <1>2, S # {}, WFMin, Zenon
<1>4. PICK i \in S : \A j \in S : ~ <<j, i>> \in R
  BY <1>3
<1>5. \A j \in S : ~ j < i
  BY <1>1, <1>4
<1>. QED
  BY <1>5

\* What the first failure of a list of checks is.
LEMMA FirstFails ==
  ASSUME NEW s \in Seq(Checks), NEW k \in DOMAIN s, ~s[k].holds,
         \A j \in DOMAIN s : j < k => s[j].holds
  PROVE  FirstFailure(s) = s[k].otherwise
<1> DEFINE failing == {i \in DOMAIN s : ~ s[i].holds}
<1>1. DOMAIN s \subseteq Nat /\ k \in failing
  BY LenProperties
<1>2. \A i \in failing : (\A j \in failing : i <= j) <=> i = k
  BY <1>1
<1>3. (CHOOSE i \in failing : \A j \in failing : i <= j) = k
  BY <1>1, <1>2
<1>. QED
  BY <1>1, <1>3 DEF FirstFailure

\* A list of checks that does not hold has a first that fails.
LEMMA SomeFails ==
  ASSUME NEW s \in Seq(Checks), ~AllHold(s)
  PROVE  \E k \in DOMAIN s : /\ ~s[k].holds /\ FirstFailure(s) = s[k].otherwise
                             /\ \A j \in DOMAIN s : j < k => s[j].holds
<1> DEFINE failing == {i \in DOMAIN s : ~ s[i].holds}
<1>1. DOMAIN s \subseteq Nat
  BY LenProperties
<1>2. PICK k \in failing : \A j \in failing : k <= j
  BY <1>1, Least DEF AllHold
<1>3. k \in DOMAIN s /\ ~s[k].holds /\ \A j \in DOMAIN s : j < k => s[j].holds
  BY <1>1, <1>2
<1>. QED
  BY <1>3, FirstFails

\* A list of checks verifies if and only if all of them hold.
LEMMA VerifiedIfAllHold ==
  ASSUME NEW s \in Seq(Checks)
  PROVE  FirstFailure(s) = "verified" <=> AllHold(s)
<1>1. DOMAIN s \subseteq Nat /\ \A i \in DOMAIN s : s[i] \in Checks
  BY LenProperties
<1>2. ASSUME AllHold(s) PROVE FirstFailure(s) = "verified"
  BY <1>2 DEF AllHold, FirstFailure
<1>3. ASSUME ~AllHold(s) PROVE FirstFailure(s) # "verified"
  BY <1>1, <1>3, SomeFails DEF Checks, Rejections
<1>. QED
  BY <1>2, <1>3

\* Two lists hold, one after the other, if each does.
LEMMA ConcatHold ==
  ASSUME NEW s \in Seq(Checks), NEW t \in Seq(Checks)
  PROVE  s \o t \in Seq(Checks) /\ (AllHold(s \o t) <=> AllHold(s) /\ AllHold(t))
<1>1. /\ Len(s) \in Nat /\ DOMAIN s = 1..Len(s)
      /\ Len(t) \in Nat /\ DOMAIN t = 1..Len(t)
      /\ s \o t \in Seq(Checks) /\ Len(s \o t) = Len(s) + Len(t)
      /\ DOMAIN (s \o t) = 1..(Len(s) + Len(t))
  BY LenProperties, ConcatProperties
<1>2. \A i \in 1..Len(s) : (s \o t)[i] = s[i]
  OBVIOUS
<1>3. \A i \in 1..Len(t) : Len(s) + i \in 1..(Len(s) + Len(t)) /\ (s \o t)[Len(s) + i] = t[i]
  BY <1>1
<1>4. \A i \in 1..(Len(s) + Len(t)) :
        i \notin 1..Len(s) => i - Len(s) \in 1..Len(t) /\ (s \o t)[i] = t[i - Len(s)]
  BY <1>1
<1>5. ASSUME AllHold(s \o t) PROVE AllHold(s)
  <2>1. \A i \in 1..Len(s) : i \in 1..(Len(s) + Len(t))
    BY <1>1
  <2>2. \A i \in 1..Len(s) : (s \o t)[i].holds
    BY <1>1, <1>5, <2>1 DEF AllHold
  <2>. QED
    BY <1>1, <1>2, <2>2 DEF AllHold
<1>6. ASSUME AllHold(s \o t) PROVE AllHold(t)
  <2>1. \A i \in 1..Len(t) : (s \o t)[Len(s) + i].holds
    BY <1>1, <1>3, <1>6 DEF AllHold
  <2>. QED
    BY <1>1, <1>3, <2>1 DEF AllHold
<1>7. ASSUME AllHold(s), AllHold(t) PROVE AllHold(s \o t)
  <2>1. ASSUME NEW i \in 1..(Len(s) + Len(t)) PROVE (s \o t)[i].holds
    <3>1. CASE i \in 1..Len(s)
      BY <1>1, <1>2, <1>7, <3>1 DEF AllHold
    <3>2. CASE i \notin 1..Len(s)
      BY <1>1, <1>4, <1>7, <3>2 DEF AllHold
    <3>. QED
      BY <3>1, <3>2
  <2>. QED
    BY <1>1, <2>1 DEF AllHold
<1>. QED
  BY <1>1, <1>5, <1>6, <1>7

\* Of two lists, one after the other, the second speaks only if the first holds.
LEMMA ConcatFailure ==
  ASSUME NEW s \in Seq(Checks), NEW t \in Seq(Checks)
  PROVE  FirstFailure(s \o t) = IF AllHold(s) THEN FirstFailure(t) ELSE FirstFailure(s)
<1>1. /\ Len(s) \in Nat /\ DOMAIN s = 1..Len(s)
      /\ Len(t) \in Nat /\ DOMAIN t = 1..Len(t)
      /\ s \o t \in Seq(Checks) /\ DOMAIN (s \o t) = 1..(Len(s) + Len(t))
  BY LenProperties, ConcatProperties
<1>2. \A i \in 1..Len(s) : i \in 1..(Len(s) + Len(t)) /\ (s \o t)[i] = s[i]
  <2>1. \A i \in 1..Len(s) : (s \o t)[i] = s[i]
    OBVIOUS
  <2>. QED
    BY <1>1, <2>1
<1>3. \A i \in 1..Len(t) : Len(s) + i \in 1..(Len(s) + Len(t)) /\ (s \o t)[Len(s) + i] = t[i]
  BY <1>1
<1>4. \A i \in 1..(Len(s) + Len(t)) :
        i \notin 1..Len(s) => i - Len(s) \in 1..Len(t) /\ (s \o t)[i] = t[i - Len(s)]
  BY <1>1
<1>5. CASE ~AllHold(s)
  <2>1. PICK k \in DOMAIN s : /\ ~s[k].holds /\ FirstFailure(s) = s[k].otherwise
                             /\ \A j \in DOMAIN s : j < k => s[j].holds
    BY <1>5, SomeFails
  <2>4. k \in DOMAIN (s \o t) /\ ~(s \o t)[k].holds
    BY <1>1, <1>2, <2>1
  <2>5. ASSUME NEW j \in DOMAIN (s \o t), j < k PROVE (s \o t)[j].holds
    <3>1. j \in 1..Len(s)
      BY <1>1, <2>1, <2>5
    <3>. QED
      BY <1>1, <1>2, <2>1, <2>5, <3>1
  <2>6. FirstFailure(s \o t) = (s \o t)[k].otherwise
    BY <1>1, <2>4, <2>5, FirstFails
  <2>. QED
    BY <1>1, <1>2, <1>5, <2>1, <2>6
<1>6. CASE AllHold(s) /\ AllHold(t)
  BY <1>1, <1>6, ConcatHold, VerifiedIfAllHold
<1>7. CASE AllHold(s) /\ ~AllHold(t)
  <2>1. PICK k \in DOMAIN t : /\ ~t[k].holds /\ FirstFailure(t) = t[k].otherwise
                             /\ \A j \in DOMAIN t : j < k => t[j].holds
    BY <1>7, SomeFails
  <2>4. Len(s) + k \in DOMAIN (s \o t) /\ ~(s \o t)[Len(s) + k].holds
    BY <1>1, <1>3, <2>1
  <2>5. ASSUME NEW j \in DOMAIN (s \o t), j < Len(s) + k PROVE (s \o t)[j].holds
    <3>1. CASE j \in 1..Len(s)
      BY <1>1, <1>2, <1>7, <3>1 DEF AllHold
    <3>2. CASE j \notin 1..Len(s)
      <4>1. j - Len(s) \in DOMAIN t /\ (s \o t)[j] = t[j - Len(s)]
        BY <1>1, <1>4, <2>5, <3>2
      <4>2. j - Len(s) < k
        BY <1>1, <2>1, <2>5
      <4>. QED
        BY <2>1, <4>1, <4>2
    <3>. QED
      BY <3>1, <3>2
  <2>6. FirstFailure(s \o t) = (s \o t)[Len(s) + k].otherwise
    BY <1>1, <2>4, <2>5, FirstFails
  <2>. QED
    BY <1>1, <1>3, <1>7, <2>1, <2>6
<1>. QED
  BY <1>5, <1>6, <1>7

-----------------------------------------------------------------------------
(* The verifiers *)

\* A check is one.
LEMMA CheckTyped ==
  ASSUME NEW holds \in BOOLEAN, NEW otherwise \in Rejections
  PROVE  /\ Check(holds, otherwise) \in Checks /\ (Check(holds, otherwise).holds <=> holds)
         /\ Check(holds, otherwise).otherwise = otherwise
BY DEF Check, Checks

\* A list of one checks holds if they do.
LEMMA OneCheck ==
  ASSUME NEW c1 \in Checks
  PROVE  /\ <<c1>> \in Seq(Checks)
         /\ AllHold(<<c1>>) <=> c1.holds
<1> DEFINE s == <<c1>>
<1>1. s \in Seq(Checks)
  OBVIOUS
<1>2. DOMAIN s = 1..1
  OBVIOUS
<1>3. s[1] = c1
  OBVIOUS
<1>4. \A i \in 1..1 : i = 1
  OBVIOUS
<1> HIDE DEF s
<1>5. AllHold(s) <=> c1.holds
  BY <1>2, <1>3, <1>4 DEF AllHold
<1>. QED
  BY <1>1, <1>5 DEF s

\* A list of two checks holds if they do.
LEMMA TwoChecks ==
  ASSUME NEW c1 \in Checks, NEW c2 \in Checks
  PROVE  /\ <<c1, c2>> \in Seq(Checks)
         /\ AllHold(<<c1, c2>>) <=> c1.holds /\ c2.holds
<1> DEFINE s == <<c1, c2>>
<1>1. s \in Seq(Checks)
  OBVIOUS
<1>2. DOMAIN s = 1..2
  OBVIOUS
<1>3. s[1] = c1 /\ s[2] = c2
  OBVIOUS
<1>4. \A i \in 1..2 : i = 1 \/ i = 2
  OBVIOUS
<1> HIDE DEF s
<1>5. AllHold(s) <=> c1.holds /\ c2.holds
  BY <1>2, <1>3, <1>4 DEF AllHold
<1>. QED
  BY <1>1, <1>5 DEF s

\* A list of five checks holds if they do.
LEMMA FiveChecks ==
  ASSUME NEW c1 \in Checks, NEW c2 \in Checks, NEW c3 \in Checks, NEW c4 \in Checks, NEW c5 \in Checks
  PROVE  /\ <<c1, c2, c3, c4, c5>> \in Seq(Checks)
         /\ AllHold(<<c1, c2, c3, c4, c5>>) <=> c1.holds /\ c2.holds /\ c3.holds /\ c4.holds /\ c5.holds
<1> DEFINE s == <<c1, c2, c3, c4, c5>>
<1>1. s \in Seq(Checks)
  OBVIOUS
<1>2. DOMAIN s = 1..5
  OBVIOUS
<1>3. s[1] = c1 /\ s[2] = c2 /\ s[3] = c3 /\ s[4] = c4 /\ s[5] = c5
  OBVIOUS
<1>4. \A i \in 1..5 : i = 1 \/ i = 2 \/ i = 3 \/ i = 4 \/ i = 5
  OBVIOUS
<1> HIDE DEF s
<1>5. AllHold(s) <=> c1.holds /\ c2.holds /\ c3.holds /\ c4.holds /\ c5.holds
  BY <1>2, <1>3, <1>4 DEF AllHold
<1>. QED
  BY <1>1, <1>5 DEF s

\* A list of eight checks holds if they do.
LEMMA EightChecks ==
  ASSUME NEW c1 \in Checks, NEW c2 \in Checks, NEW c3 \in Checks, NEW c4 \in Checks, NEW c5 \in Checks, NEW c6 \in Checks, NEW c7 \in Checks, NEW c8 \in Checks
  PROVE  /\ <<c1, c2, c3, c4, c5, c6, c7, c8>> \in Seq(Checks)
         /\ AllHold(<<c1, c2, c3, c4, c5, c6, c7, c8>>) <=> c1.holds /\ c2.holds /\ c3.holds /\ c4.holds /\ c5.holds /\ c6.holds /\ c7.holds /\ c8.holds
<1> DEFINE s == <<c1, c2, c3, c4, c5, c6, c7, c8>>
<1>1. s \in Seq(Checks)
  OBVIOUS
<1>2. DOMAIN s = 1..8
  OBVIOUS
<1>3. s[1] = c1 /\ s[2] = c2 /\ s[3] = c3 /\ s[4] = c4 /\ s[5] = c5 /\ s[6] = c6 /\ s[7] = c7 /\ s[8] = c8
  OBVIOUS
<1>4. \A i \in 1..8 : i = 1 \/ i = 2 \/ i = 3 \/ i = 4 \/ i = 5 \/ i = 6 \/ i = 7 \/ i = 8
  OBVIOUS
<1> HIDE DEF s
<1>5. AllHold(s) <=> c1.holds /\ c2.holds /\ c3.holds /\ c4.holds /\ c5.holds /\ c6.holds /\ c7.holds /\ c8.holds
  BY <1>2, <1>3, <1>4 DEF AllHold
<1>. QED
  BY <1>1, <1>5 DEF s

\* What the mock compares.
SameContext(proof, ctx) ==
  /\ proof.backend = "mock" /\ ctx.backend = "mock"
  /\ proof.circuit = ctx.circuit /\ proof.version = ctx.version
  /\ proof.keyId = ctx.keyId /\ proof.artifact = ctx.artifact
  /\ proof.outputs = ctx.outputs /\ proof.state = ctx.state

\* The mock accepts what agrees with the proof in every field.
LEMMA MockAccepts ==
  ASSUME NEW proof, NEW ctx
  PROVE  MockVerify(proof, ctx) = "verified" <=> SameContext(proof, ctx)
<1> DEFINE c1 == Check(proof.backend = "mock" /\ ctx.backend = "mock", "BackendMismatch")
           c2 == Check(proof.circuit = ctx.circuit, "CircuitMismatch")
           c3 == Check(proof.version = ctx.version, "VersionMismatch")
           c4 == Check(proof.keyId = ctx.keyId, "WrongVerificationKey")
           c5 == Check(proof.artifact = ctx.artifact, "ArtifactChecksumMismatch")
           c6 == Check(proof.outputs = ctx.outputs, "PublicOutputMismatch")
           c7 == Check((proof.state = None) = (ctx.state = None), "MissingStateBinding")
           c8 == Check(proof.state = ctx.state, "StateReferenceMismatch")
<1>1. /\ c1 \in Checks /\ (c1.holds <=> proof.backend = "mock" /\ ctx.backend = "mock")
      /\ c2 \in Checks /\ (c2.holds <=> proof.circuit = ctx.circuit)
      /\ c3 \in Checks /\ (c3.holds <=> proof.version = ctx.version)
      /\ c4 \in Checks /\ (c4.holds <=> proof.keyId = ctx.keyId)
      /\ c5 \in Checks /\ (c5.holds <=> proof.artifact = ctx.artifact)
      /\ c6 \in Checks /\ (c6.holds <=> proof.outputs = ctx.outputs)
      /\ c7 \in Checks /\ (c7.holds <=> ((proof.state = None) = (ctx.state = None)))
      /\ c8 \in Checks /\ (c8.holds <=> proof.state = ctx.state)
  BY CheckTyped DEF Rejections
<1>2. MockVerify(proof, ctx) = FirstFailure(<<c1, c2, c3, c4, c5, c6, c7, c8>>)
  BY DEF MockVerify
<1> HIDE DEF c1, c2, c3, c4, c5, c6, c7, c8
<1>3. /\ <<c1, c2, c3, c4, c5, c6, c7, c8>> \in Seq(Checks)
      /\ AllHold(<<c1, c2, c3, c4, c5, c6, c7, c8>>) <=>
           /\ c1.holds /\ c2.holds /\ c3.holds /\ c4.holds
           /\ c5.holds /\ c6.holds /\ c7.holds /\ c8.holds
  BY <1>1, EightChecks
<1>4. FirstFailure(<<c1, c2, c3, c4, c5, c6, c7, c8>>) = "verified" <=>
        AllHold(<<c1, c2, c3, c4, c5, c6, c7, c8>>)
  BY <1>3, VerifiedIfAllHold
<1>5. SameContext(proof, ctx) <=> /\ c1.holds /\ c2.holds /\ c3.holds /\ c4.holds
                                  /\ c5.holds /\ c6.holds /\ c7.holds /\ c8.holds
  BY <1>1 DEF SameContext
<1>. QED
  BY <1>2, <1>3, <1>4, <1>5

\* What the UltraHonk verifier asks of the key id.
KeyFits(ctx) ==
  /\ ParsesAsUltraHonk(ctx.keyId)
  /\ ctx.keyId.circuit = ctx.circuit /\ ctx.keyId.version = ctx.version
  /\ ctx.keyId.artifact = ctx.artifact /\ ctx.keyId \in keyStore

\* What it asks of the state.
StateFits(ctx) ==
  /\ Get(ctx.outputs, "root") # None => ctx.state # None
  /\ Get(ctx.outputs, "root") # None /\ ctx.state # None
       => ctx.state.root = Get(ctx.outputs, "root")

\* The checks of the key hold if the key fits the context.
LEMMA KeyChecksHold ==
  ASSUME NEW ctx
  PROVE  KeyChecks(ctx) \in Seq(Checks) /\ (AllHold(KeyChecks(ctx)) <=> KeyFits(ctx))
<1> DEFINE c1 == Check(ParsesAsUltraHonk(ctx.keyId), "WrongVerificationKey")
           c2 == Check(ctx.keyId.circuit = ctx.circuit, "CircuitMismatch")
           c3 == Check(ctx.keyId.version = ctx.version, "VersionMismatch")
           c4 == Check(ctx.keyId.artifact = ctx.artifact, "ArtifactChecksumMismatch")
           c5 == Check(ctx.keyId \in keyStore, "WrongVerificationKey")
<1>1. ParsesAsUltraHonk(ctx.keyId) \in BOOLEAN
  BY DEF ParsesAsUltraHonk
<1>2. /\ c1 \in Checks /\ (c1.holds <=> ParsesAsUltraHonk(ctx.keyId))
      /\ c2 \in Checks /\ (c2.holds <=> ctx.keyId.circuit = ctx.circuit)
      /\ c3 \in Checks /\ (c3.holds <=> ctx.keyId.version = ctx.version)
      /\ c4 \in Checks /\ (c4.holds <=> ctx.keyId.artifact = ctx.artifact)
      /\ c5 \in Checks /\ (c5.holds <=> ctx.keyId \in keyStore)
  <2>1. c1 \in Checks /\ (c1.holds <=> ParsesAsUltraHonk(ctx.keyId))
    BY <1>1, CheckTyped, Zenon DEF Rejections
  <2>2. /\ c2 \in Checks /\ (c2.holds <=> ctx.keyId.circuit = ctx.circuit)
        /\ c3 \in Checks /\ (c3.holds <=> ctx.keyId.version = ctx.version)
    BY CheckTyped DEF Rejections
  <2>3. c4 \in Checks /\ (c4.holds <=> ctx.keyId.artifact = ctx.artifact)
    BY CheckTyped DEF Rejections
  <2>4. (ctx.keyId \in keyStore) \in BOOLEAN
    OBVIOUS
  <2>5. c5 \in Checks /\ (c5.holds <=> ctx.keyId \in keyStore)
    BY <2>4, CheckTyped, Zenon DEF Rejections
  <2>. QED
    BY <2>1, <2>2, <2>3, <2>5
<1>3. KeyChecks(ctx) = <<c1, c2, c3, c4, c5>>
  BY DEF KeyChecks
<1> HIDE DEF c1, c2, c3, c4, c5
<1>4. /\ <<c1, c2, c3, c4, c5>> \in Seq(Checks)
      /\ AllHold(<<c1, c2, c3, c4, c5>>) <=>
           c1.holds /\ c2.holds /\ c3.holds /\ c4.holds /\ c5.holds
  BY <1>2, FiveChecks
<1>. QED
  BY <1>2, <1>3, <1>4 DEF KeyFits

\* The checks of the state hold if the state fits the words.
LEMMA StateChecksHold ==
  ASSUME NEW ctx
  PROVE  StateChecks(ctx) \in Seq(Checks) /\ (AllHold(StateChecks(ctx)) <=> StateFits(ctx))
<1> DEFINE root == Get(ctx.outputs, "root")
           c1 == Check(root # None => ctx.state # None, "MissingStateBinding")
           c2 == Check(root # None /\ ctx.state # None => ctx.state.root = root,
                       "StateReferenceMismatch")
<1>1. /\ c1 \in Checks /\ (c1.holds <=> (root # None => ctx.state # None))
      /\ c2 \in Checks /\ (c2.holds <=> (root # None /\ ctx.state # None
                                           => ctx.state.root = root))
  BY CheckTyped DEF Rejections
<1>2. StateChecks(ctx) = <<c1, c2>>
  BY DEF StateChecks
<1> HIDE DEF c1, c2
<1>3. <<c1, c2>> \in Seq(Checks) /\ (AllHold(<<c1, c2>>) <=> c1.holds /\ c2.holds)
  BY <1>1, TwoChecks
<1>. QED
  BY <1>1, <1>2, <1>3 DEF StateFits

\* The checks of bb hold if bb is there and accepts.
LEMMA BbChecksHold ==
  ASSUME NEW proof, NEW ctx, NEW bb \in BOOLEAN
  PROVE  /\ BbChecks(proof, ctx, bb) \in Seq(Checks)
         /\ AllHold(BbChecks(proof, ctx, bb)) <=> bb /\ BbVerifies(proof, ctx)
<1> DEFINE c1 == Check(bb, "VerificationUnavailable")
           c2 == Check(BbVerifies(proof, ctx), "InvalidProof")
<1>1. BbVerifies(proof, ctx) \in BOOLEAN
  BY DEF BbVerifies
<1>2. /\ c1 \in Checks /\ (c1.holds <=> bb)
      /\ c2 \in Checks /\ (c2.holds <=> BbVerifies(proof, ctx))
  BY <1>1, CheckTyped DEF Rejections
<1>3. BbChecks(proof, ctx, bb) = <<c1, c2>>
  BY DEF BbChecks
<1> HIDE DEF c1, c2
<1>4. <<c1, c2>> \in Seq(Checks) /\ (AllHold(<<c1, c2>>) <=> c1.holds /\ c2.holds)
  BY <1>2, TwoChecks
<1>. QED
  BY <1>2, <1>3, <1>4

\* The check of the backend holds if proof and context are both UltraHonk's.
LEMMA BackendCheckHolds ==
  ASSUME NEW proof, NEW ctx
  PROVE  /\ BackendCheck(proof, ctx) \in Seq(Checks)
         /\ AllHold(BackendCheck(proof, ctx)) <=>
              proof.backend = "ultrahonk" /\ ctx.backend = "ultrahonk"
<1> DEFINE c1 == Check(proof.backend = "ultrahonk" /\ ctx.backend = "ultrahonk", "BackendMismatch")
<1>1. c1 \in Checks /\ (c1.holds <=> proof.backend = "ultrahonk" /\ ctx.backend = "ultrahonk")
  BY CheckTyped DEF Rejections
<1>2. BackendCheck(proof, ctx) = <<c1>>
  BY DEF BackendCheck
<1> HIDE DEF c1
<1>3. <<c1>> \in Seq(Checks) /\ (AllHold(<<c1>>) <=> c1.holds)
  BY <1>1, OneCheck
<1>. QED
  BY <1>1, <1>2, <1>3

\* The UltraHonk verifier accepts what its four groups of checks let through.
LEMMA UltraHonkAccepts ==
  ASSUME NEW proof, NEW ctx, NEW bb \in BOOLEAN
  PROVE  UltraHonkVerify(proof, ctx, bb) = "verified" <=>
           /\ proof.backend = "ultrahonk" /\ ctx.backend = "ultrahonk"
           /\ KeyFits(ctx) /\ StateFits(ctx) /\ bb /\ BbVerifies(proof, ctx)
<1> DEFINE a == BackendCheck(proof, ctx)
           b == KeyChecks(ctx)
           c == StateChecks(ctx)
           d == BbChecks(proof, ctx, bb)
<1>1. UltraHonkVerify(proof, ctx, bb) = FirstFailure(a \o b \o c \o d)
  BY DEF UltraHonkVerify
<1>2. /\ a \in Seq(Checks) /\ (AllHold(a) <=> proof.backend = "ultrahonk" /\ ctx.backend = "ultrahonk")
      /\ b \in Seq(Checks) /\ (AllHold(b) <=> KeyFits(ctx))
      /\ c \in Seq(Checks) /\ (AllHold(c) <=> StateFits(ctx))
      /\ d \in Seq(Checks) /\ (AllHold(d) <=> bb /\ BbVerifies(proof, ctx))
  BY BackendCheckHolds, KeyChecksHold, StateChecksHold, BbChecksHold
<1> HIDE DEF a, b, c, d
<1>3. a \o b \in Seq(Checks) /\ (AllHold(a \o b) <=> AllHold(a) /\ AllHold(b))
  BY <1>2, ConcatHold
<1>4. a \o b \o c \in Seq(Checks) /\ (AllHold(a \o b \o c) <=> AllHold(a \o b) /\ AllHold(c))
  BY <1>2, <1>3, ConcatHold
<1>5. /\ a \o b \o c \o d \in Seq(Checks)
      /\ AllHold(a \o b \o c \o d) <=> AllHold(a \o b \o c) /\ AllHold(d)
  BY <1>2, <1>4, ConcatHold
<1>6. FirstFailure(a \o b \o c \o d) = "verified" <=> AllHold(a \o b \o c \o d)
  BY <1>5, VerifiedIfAllHold
<1>. QED
  BY <1>1, <1>2, <1>3, <1>4, <1>5, <1>6

-----------------------------------------------------------------------------
(* What circulates *)

\* In the initial states nothing does.
LEMMA InitBindings == Init => Bindings
BY ContextAssumption DEF Init, Bindings, StateReferences

\* The ledger keeps a reference of its own when it advances.
LEMMA AdvanceBindings ==
  ASSUME Bindings, NEW root \in Roots, Advance(root)
  PROVE  Bindings'
<1>1. ledger.sequence \in Nat /\ ledger.sequence + 1 \in 0..MaxSequence
  BY ContextAssumption DEF Bindings, StateReferences, Advance
<1>2. ledger' \in StateReferences
  BY <1>1 DEF Advance, StateReferences
<1>. QED
  BY <1>2 DEF Advance, Bindings

\* Two lists of one are a list of two.
LEMMA TwoLists == ASSUME NEW a, NEW b PROVE <<a>> \o <<b>> = <<a, b>>
<1> DEFINE s == <<a>>
           t == <<b>>
           u == <<a, b>>
<1>1. s \in Seq({a, b}) /\ t \in Seq({a, b}) /\ u \in Seq({a, b})
  OBVIOUS
<1>2. Len(s) = 1 /\ Len(t) = 1 /\ Len(u) = 2 /\ s[1] = a /\ t[1] = b /\ u[1] = a /\ u[2] = b
  OBVIOUS
<1> HIDE DEF s, t, u
<1>3. s \o t \in Seq({a, b}) /\ Len(s \o t) = 2
  <2>1. s \o t \in Seq({a, b}) /\ Len(s \o t) = Len(s) + Len(t)
    BY <1>1, ConcatProperties, Zenon
  <2>2. 1 + 1 = 2
    OBVIOUS
  <2>. QED
    BY <1>2, <2>1, <2>2
<1>4. (s \o t)[1] = a /\ (s \o t)[2] = b
  <2>1. \A i \in 1..(Len(s) + Len(t)) :
          (s \o t)[i] = IF i <= Len(s) THEN s[i] ELSE t[i - Len(s)]
    BY <1>1, ConcatProperties
  <2>2. 1 \in 1..(1 + 1) /\ 2 \in 1..(1 + 1) /\ 1 <= 1 /\ ~(2 <= 1) /\ 2 - 1 = 1
    OBVIOUS
  <2>. QED
    BY <1>2, <2>1, <2>2
<1>5. \A i \in 1..Len(u) : u[i] = (s \o t)[i]
  <2>1. \A i \in 1..2 : i = 1 \/ i = 2
    OBVIOUS
  <2>. QED
    BY <1>2, <1>4, <2>1
<1>6. u = s \o t
  BY <1>1, <1>2, <1>3, <1>5, SeqEqual
<1>. QED
  BY <1>6 DEF s, t, u

\* The words of a bag made of a root and a value are found under their names.
LEMMA BagHas ==
  ASSUME NEW root \in Roots \cup {None}, NEW value \in Values \cup {None}
  PROVE  /\ Bag(root, value) \in Seq(Entries)
         /\ Get(Bag(root, value), "root") = root
         /\ Get(Bag(root, value), "other") = value
<1> DEFINE bag == Bag(root, value)
           r == [name |-> "root", word |-> root]
           v == [name |-> "other", word |-> value]
<1>1. CASE root = None /\ value = None
  <2>1. bag = <<>>
    BY <1>1 DEF Bag
  <2>2. Named(bag, "root") = {} /\ Named(bag, "other") = {}
    BY <2>1 DEF Named
  <2>. QED
    BY <1>1, <2>1, <2>2 DEF Get
<1>2. CASE root # None /\ value = None
  <2>1. bag = <<r>>
    BY <1>2 DEF Bag
  <2>2. Named(bag, "root") = {1} /\ Named(bag, "other") = {} /\ bag[1] = r
    BY <2>1 DEF Named
  <2>3. (CHOOSE i \in {1} : \A j \in {1} : i <= j) = 1
    OBVIOUS
  <2>4. bag \in Seq(Entries)
    BY <1>2, <2>1 DEF Entries, Names
  <2>. QED
    BY <1>2, <2>2, <2>3, <2>4 DEF Get
<1>3. CASE root = None /\ value # None
  <2>1. bag = <<v>>
    BY <1>3 DEF Bag
  <2>2. Named(bag, "root") = {} /\ Named(bag, "other") = {1} /\ bag[1] = v
    BY <2>1 DEF Named
  <2>3. (CHOOSE i \in {1} : \A j \in {1} : i <= j) = 1
    OBVIOUS
  <2>4. bag \in Seq(Entries)
    BY <1>3, <2>1 DEF Entries, Names
  <2>. QED
    BY <1>3, <2>2, <2>3, <2>4 DEF Get
<1>4. CASE root # None /\ value # None
  <2>1. bag = <<r, v>>
    <3>1. bag = <<r>> \o <<v>>
      BY <1>4 DEF Bag
    <3>. QED
      BY <3>1, TwoLists, Zenon
  <2>2. Named(bag, "root") = {1} /\ Named(bag, "other") = {2} /\ bag[1] = r /\ bag[2] = v
    BY <2>1 DEF Named
  <2>3. /\ (CHOOSE i \in {1} : \A j \in {1} : i <= j) = 1
        /\ (CHOOSE i \in {2} : \A j \in {2} : i <= j) = 2
    OBVIOUS
  <2>4. r \in Entries /\ v \in Entries
    BY <1>4 DEF Entries, Names
  <2>5. r.word = root /\ v.word = value
    OBVIOUS
  <2> HIDE DEF r, v
  <2>6. bag \in Seq(Entries)
    BY <2>1, <2>4
  <2> HIDE DEF bag
  <2>7. Get(bag, "root") = root
    <3>1. Named(bag, "root") # {}
      BY <2>2
    <3>2. Get(bag, "root") = bag[CHOOSE i \in {1} : \A j \in {1} : i <= j].word
      BY <2>2, <3>1, Zenon DEF Get
    <3>. QED
      BY <2>2, <2>3, <2>5, <3>2, Zenon
  <2>8. Get(bag, "other") = value
    <3>1. Named(bag, "other") # {}
      BY <2>2
    <3>2. Get(bag, "other") = bag[CHOOSE i \in {2} : \A j \in {2} : i <= j].word
      BY <2>2, <3>1, Zenon DEF Get
    <3>. QED
      BY <2>2, <2>3, <2>5, <3>2, Zenon
  <2>. QED
    BY <2>6, <2>7, <2>8 DEF bag
<1>. QED
  BY <1>1, <1>2, <1>3, <1>4

\* Two bags of the same names and words are the same.
LEMMA SameBag ==
  ASSUME NEW a \in Seq(Entries), NEW b \in Seq(Entries),
         NamesOf(a) = NamesOf(b), WordsOf(a) = WordsOf(b)
  PROVE  a = b
<1>1. DOMAIN a = DOMAIN b
  <2>1. DOMAIN NamesOf(a) = DOMAIN a /\ DOMAIN NamesOf(b) = DOMAIN b
    BY DEF NamesOf
  <2>. QED
    BY <2>1
<1>2. DOMAIN a = 1..Len(a) /\ Len(a) \in Nat /\ DOMAIN b = 1..Len(b) /\ Len(b) \in Nat
  BY LenProperties
<1>3. ASSUME NEW i \in DOMAIN a PROVE a[i] = b[i]
  <2>1. NamesOf(a)[i] = NamesOf(b)[i] /\ WordsOf(a)[i] = WordsOf(b)[i]
    OBVIOUS
  <2>2. a[i].name = b[i].name /\ a[i].word = b[i].word
    BY <1>1, <1>3, <2>1 DEF NamesOf, WordsOf
  <2>3. a[i] \in Entries /\ b[i] \in Entries
    <3>1. i \in 1..Len(a) /\ i \in 1..Len(b)
      BY <1>1, <1>2
    <3>. QED
      BY <3>1, ElementOfSeq
  <2>. QED
    BY <2>2, <2>3 DEF Entries
<1>4. a \in [1..Len(a) -> Entries] /\ b \in [1..Len(b) -> Entries]
  OBVIOUS
<1>5. a = [i \in DOMAIN a |-> a[i]] /\ b = [i \in DOMAIN b |-> b[i]]
  BY <1>4
<1>. QED
  BY <1>1, <1>3, <1>5

\* What the mock answers says what the mock knows.
LEMMA MockBindings ==
  ASSUME Bindings, NEW op \in Circuits, NEW c \in Circuits, NEW v \in Versions,
         NEW inputs \in Seq(Entries), NEW state \in {None, ledger},
         MockGenerate(op, c, v, inputs, state)
  PROVE  Bindings'
<1> DEFINE artifact == [circuit |-> c, build |-> v]
           id == KeyId(c, v, artifact)
           p == [backend |-> "mock", circuit |-> c, version |-> v, keyId |-> id,
                 artifact |-> artifact, outputs |-> inputs, state |-> state]
<1>1. /\ ValidRequest(op, inputs, state)
      /\ responses' = responses \cup {p} /\ ledger' = ledger /\ keyStore' = keyStore
  BY DEF MockGenerate, Respond
<1>2. artifact \in Artifacts /\ id \in KeyIds
  BY DEF Artifacts, KeyIds, KeyId
<1>3. state \in StateReferences \cup {None}
  BY DEF Bindings
<1>4. p \in Contexts
  BY <1>2, <1>3 DEF Contexts, Backends
<1>5. WellFormed(p)
  BY <1>1, <1>4 DEF WellFormed, ValidRequest
<1>. QED
  BY <1>1, <1>5 DEF Bindings

\* What UltraHonk answers says what UltraHonk knows, and so does the store.
LEMMA UltraHonkBindings ==
  ASSUME Bindings, NEW op \in Circuits, NEW c \in Circuits, NEW v \in Versions,
         NEW b \in Builds, NEW root \in Roots \cup {None}, NEW value \in Values \cup {None},
         NEW state \in {None, ledger},
         UltraHonkGenerate(op, c, v, b, Bag(root, value), state)
  PROVE  Bindings'
<1> DEFINE artifact == [circuit |-> c, build |-> b]
           id == KeyId(c, v, artifact)
           inputs == Bag(root, value)
           word == IF c \in Bound THEN root ELSE None
           p == [backend |-> "ultrahonk", circuit |-> c, version |-> v, keyId |-> id,
                 artifact |-> artifact, outputs |-> Surface(c, inputs), state |-> state]
<1>1. /\ v \in Supported /\ ValidRequest(op, inputs, state) /\ SameWordCount(op, c)
      /\ responses' = responses \cup {p} /\ ledger' = ledger
      /\ keyStore' \in {keyStore, keyStore \cup {id}}
  BY DEF UltraHonkGenerate, Respond
<1>2. artifact \in Artifacts /\ id \in KeyIds
  BY DEF Artifacts, KeyIds, KeyId
<1>3. state \in StateReferences \cup {None} /\ word \in Roots \cup {None}
  BY DEF Bindings
<1>4. Get(inputs, "root") = root /\ Get(inputs, "other") = value
  BY BagHas
<1>5. Surface(c, inputs) = Bag(word, value)
  BY <1>4 DEF Surface
<1> HIDE DEF inputs
<1>6. Surface(c, inputs) \in Seq(Entries) /\ Get(Surface(c, inputs), "root") = word
  <2> HIDE DEF word
  <2>1. Bag(word, value) \in Seq(Entries) /\ Get(Bag(word, value), "root") = word
    BY <1>3, BagHas
  <2>. QED
    BY <1>5, <2>1
<1>7. p \in Contexts
  BY <1>2, <1>3, <1>6 DEF Contexts, Backends
<1>8. WellFormed(p)
  <2>1. c \in Bound => root # None /\ state # None /\ root = state.root
    BY <1>1, <1>4 DEF ValidRequest, SameWordCount
  <2>2. p.outputs = Surface(c, inputs) /\ p.state = state /\ p.circuit = c
    OBVIOUS
  <2>3. /\ p.keyId = KeyId(p.circuit, p.version, p.artifact) /\ p.artifact.circuit = p.circuit
        /\ p.version \in Supported /\ p.artifact.build \in Builds
    BY <1>1
  <2> HIDE DEF p
  <2>. QED
    BY <1>6, <1>7, <2>1, <2>2, <2>3 DEF WellFormed
<1>9. Stored(id)
  BY <1>1, <1>2 DEF Stored, KeyId
<1>. QED
  BY <1>1, <1>8, <1>9 DEF Bindings

\* Every step keeps what circulates well formed.
LEMMA NextBindings == Bindings /\ [Next]_vars => Bindings'
<1>1. SUFFICES ASSUME Bindings, [Next]_vars PROVE Bindings'
  OBVIOUS
<1>2. CASE UNCHANGED vars
  BY <1>1, <1>2 DEF vars, Bindings
<1>3. CASE \E root \in Roots : Advance(root)
  BY <1>1, <1>3, AdvanceBindings
<1>4. ASSUME NEW op \in Circuits, NEW c \in Circuits, NEW v \in Versions,
             NEW root \in Roots \cup {None}, NEW value \in Values \cup {None},
             NEW state \in {None, ledger},
             \/ MockGenerate(op, c, v, Bag(root, value), state)
             \/ \E b \in Builds : UltraHonkGenerate(op, c, v, b, Bag(root, value), state)
      PROVE  Bindings'
  <2>1. Bag(root, value) \in Seq(Entries)
    BY BagHas
  <2>. QED
    BY <1>1, <1>4, <2>1, MockBindings, UltraHonkBindings
<1>. QED
  BY <1>1, <1>2, <1>3, <1>4 DEF Next

\* The invariant holds in every state.
THEOREM BindingsInvariant == Spec => []Bindings
<1>. QED
  BY InitBindings, NextBindings, PTL DEF Spec

\* Type correctness.
THEOREM ContextTypeCorrect == Spec => []TypeOK
<1>1. Bindings => TypeOK
  BY DEF Bindings, WellFormed, Stored, TypeOK
<1>. QED
  BY <1>1, BindingsInvariant, PTL

-----------------------------------------------------------------------------
(* Acceptance *)

\* What an accepted submission shares with its proof.
SharesContext(proof, ctx) ==
  /\ proof.backend = ctx.backend /\ proof.circuit = ctx.circuit
  /\ proof.version = ctx.version /\ proof.keyId = ctx.keyId
  /\ proof.artifact = ctx.artifact /\ WordsOf(proof.outputs) = WordsOf(ctx.outputs)

\* A submission is a context.
LEMMA SubmissionsTyped ==
  ASSUME Bindings, NEW proof \in responses, NEW ctx \in Submissions(proof)
  PROVE  ctx \in Contexts
<1> DEFINE Mixed(o) ==
             [backend : {proof.backend, o.backend}, circuit : {proof.circuit, o.circuit},
              version : {proof.version, o.version}, keyId : {proof.keyId, o.keyId},
              artifact : {proof.artifact, o.artifact}, outputs : {proof.outputs, o.outputs},
              state : {proof.state, o.state, ledger, None}]
           Reworded(o) ==
             [backend : {proof.backend}, circuit : {proof.circuit}, version : {proof.version},
              keyId : {proof.keyId}, artifact : {proof.artifact}, outputs : Bags(proof, o),
              state : {proof.state, o.state, ledger, None}]
<1>1. PICK o \in responses : ctx \in Mixed(o) \/ ctx \in Reworded(o)
  <2>1. ctx \in UNION {Mixed(o) \cup Reworded(o) : o \in responses}
    BY Zenon DEF Submissions
  <2> HIDE DEF Mixed, Reworded
  <2>. QED
    BY <2>1, Zenon
<1>2. proof \in Contexts /\ o \in Contexts /\ ledger \in StateReferences
  BY DEF Bindings, WellFormed
<1>3. CASE ctx \in Mixed(o)
  BY <1>2, <1>3 DEF Contexts
<1>4. CASE ctx \in Reworded(o)
  <2>1. PICK bag \in Bags(proof, o) : ctx.outputs = bag
    BY <1>4
  <2>2. proof.outputs \in Seq(Entries) /\ o.outputs \in Seq(Entries)
    BY <1>2 DEF Contexts
  <2> DEFINE words == {proof.outputs[i].word : i \in DOMAIN proof.outputs}
                        \cup {o.outputs[i].word : i \in DOMAIN o.outputs}
  <2>3. words \subseteq Roots \cup Values
    <3>1. \A i \in DOMAIN proof.outputs : proof.outputs[i] \in Entries
      BY <2>2
    <3>2. \A i \in DOMAIN o.outputs : o.outputs[i] \in Entries
      BY <2>2
    <3>. QED
      BY <3>1, <3>2 DEF Entries
  <2>4. PICK n \in 0..2 : bag \in [1..n -> [name : Names, word : words]]
    BY DEF Bags
  <2>5. bag \in [1..n -> Entries]
    BY <2>3, <2>4 DEF Entries
  <2>6. bag \in Seq(Entries)
    BY <2>5, SeqDef
  <2>7. ctx \in [backend : {proof.backend}, circuit : {proof.circuit},
                 version : {proof.version}, keyId : {proof.keyId},
                 artifact : {proof.artifact}, outputs : Seq(Entries),
                 state : {proof.state, o.state, ledger, None}]
    BY <1>4, <2>1, <2>6
  <2>. QED
    BY <1>2, <2>7 DEF Contexts
<1>. QED
  BY <1>1, <1>3, <1>4

\* The mock compares each field, and so accepts only the proof's own context.
LEMMA MockShares ==
  ASSUME NEW proof, NEW ctx, WellFormed(proof), ctx \in Contexts,
         MockVerify(proof, ctx) = "verified"
  PROVE  proof.backend = "mock" /\ ctx = proof
BY MockAccepts DEF SameContext, WellFormed, Contexts

\* bb compares bytecode and words; the store and the one supported version give
\* the rest, and the state checks the root where the words bear the proof's names.
LEMMA UltraHonkShares ==
  ASSUME NEW proof, NEW ctx, Bindings, WellFormed(proof), ctx \in Contexts,
         UltraHonkVerify(proof, ctx, TRUE) = "verified"
  PROVE  /\ SharesContext(proof, ctx) /\ proof.backend = "ultrahonk"
         /\ proof.circuit \in Bound /\ NamesOf(proof.outputs) = NamesOf(ctx.outputs)
              => ctx.state # None /\ ctx.state.root = proof.state.root
<1>1. /\ proof.backend = "ultrahonk" /\ ctx.backend = "ultrahonk"
      /\ KeyFits(ctx) /\ StateFits(ctx) /\ BbVerifies(proof, ctx)
  BY UltraHonkAccepts
<1>2. Stored(ctx.keyId)
  BY <1>1 DEF KeyFits, Bindings
<1>3. proof.artifact = ctx.artifact /\ WordsOf(proof.outputs) = WordsOf(ctx.outputs)
  BY <1>1 DEF KeyFits, BbVerifies
<1>4. proof.circuit = ctx.circuit
  BY <1>1, <1>2, <1>3 DEF KeyFits, Stored, WellFormed
<1>5. proof.version = ctx.version
  BY <1>1, <1>2, ContextAssumption DEF KeyFits, Stored, WellFormed
<1>6. proof.keyId = ctx.keyId
  <2>1. ctx.keyId = KeyId(ctx.keyId.circuit, ctx.keyId.version, ctx.keyId.artifact)
    BY <1>2 DEF Stored, KeyIds, KeyId
  <2>2. ctx.keyId = KeyId(proof.circuit, proof.version, proof.artifact)
    BY <1>1, <1>3, <1>4, <1>5, <2>1 DEF KeyFits
  <2>. QED
    BY <2>2 DEF WellFormed
<1>7. ASSUME proof.circuit \in Bound, NamesOf(proof.outputs) = NamesOf(ctx.outputs)
      PROVE  ctx.state # None /\ ctx.state.root = proof.state.root
  <2>1. proof.outputs \in Seq(Entries) /\ ctx.outputs \in Seq(Entries)
    BY DEF WellFormed, Contexts
  <2>2. proof.outputs = ctx.outputs
    BY <1>3, <1>7, <2>1, SameBag
  <2>. QED
    BY <1>1, <1>7, <2>2 DEF StateFits, WellFormed
<1>. QED
  BY <1>1, <1>3, <1>4, <1>5, <1>6, <1>7 DEF SharesContext

\* Whatever is submitted, whichever fields come from other proofs and whatever the
\* words are called, a proof is accepted only in the context it was made in: by the
\* mock in every field, by UltraHonk in all but the names of the words and, where
\* these are the proof's, in the root of the state.
THEOREM AcceptedOnlyInContext == Spec => []AcceptedInContext
<1>1. Bindings => AcceptedInContext
  <2>1. SUFFICES ASSUME Bindings, NEW proof \in responses, NEW ctx \in Submissions(proof),
                        Verify(proof, ctx, TRUE) = "verified"
                 PROVE  /\ \A field \in {"backend", "circuit", "version", "keyId", "artifact"} :
                             proof[field] = ctx[field]
                        /\ WordsOf(proof.outputs) = WordsOf(ctx.outputs)
                        /\ proof.backend = "mock" => ctx = proof
                        /\ /\ proof.backend = "ultrahonk" /\ proof.circuit \in Bound
                           /\ NamesOf(proof.outputs) = NamesOf(ctx.outputs)
                           => ctx.state # None /\ ctx.state.root = proof.state.root
    BY DEF AcceptedInContext
  <2>2. WellFormed(proof) /\ ctx \in Contexts
    BY <2>1, SubmissionsTyped DEF Bindings
  <2>3. CASE ctx.backend = "mock"
    <3>1. proof.backend = "mock" /\ ctx = proof
      BY <2>1, <2>2, <2>3, MockShares DEF Verify
    <3>. QED
      BY <3>1
  <2>4. CASE ctx.backend # "mock"
    <3>1. UltraHonkVerify(proof, ctx, TRUE) = "verified"
      BY <2>1, <2>4 DEF Verify
    <3>2. /\ SharesContext(proof, ctx) /\ proof.backend = "ultrahonk"
          /\ proof.circuit \in Bound /\ NamesOf(proof.outputs) = NamesOf(ctx.outputs)
               => ctx.state # None /\ ctx.state.root = proof.state.root
      BY <2>1, <2>2, <3>1, UltraHonkShares
    <3>. QED
      BY <3>2 DEF SharesContext
  <2>. QED
    BY <2>3, <2>4
<1>. QED
  BY <1>1, BindingsInvariant, PTL

-----------------------------------------------------------------------------
(* Rejections *)

\* The groups of checks of the UltraHonk verifier speak in their order.
LEMMA UltraHonkSays ==
  ASSUME NEW proof, NEW ctx, NEW bb \in BOOLEAN,
         proof.backend = "ultrahonk", ctx.backend = "ultrahonk"
  PROVE  UltraHonkVerify(proof, ctx, bb) =
           IF ~KeyFits(ctx) THEN FirstFailure(KeyChecks(ctx))
           ELSE IF ~StateFits(ctx) THEN FirstFailure(StateChecks(ctx))
           ELSE FirstFailure(BbChecks(proof, ctx, bb))
<1> DEFINE a == BackendCheck(proof, ctx)
           b == KeyChecks(ctx)
           c == StateChecks(ctx)
           d == BbChecks(proof, ctx, bb)
<1>1. UltraHonkVerify(proof, ctx, bb) = FirstFailure(a \o b \o c \o d)
  BY DEF UltraHonkVerify
<1>2. /\ a \in Seq(Checks) /\ AllHold(a)
      /\ b \in Seq(Checks) /\ (AllHold(b) <=> KeyFits(ctx))
      /\ c \in Seq(Checks) /\ (AllHold(c) <=> StateFits(ctx))
      /\ d \in Seq(Checks)
  BY BackendCheckHolds, KeyChecksHold, StateChecksHold, BbChecksHold
<1> HIDE DEF a, b, c, d
<1>3. /\ a \o b \in Seq(Checks) /\ (AllHold(a \o b) <=> AllHold(b))
      /\ FirstFailure(a \o b) = FirstFailure(b)
  BY <1>2, ConcatHold, ConcatFailure
<1>4. /\ a \o b \o c \in Seq(Checks) /\ (AllHold(a \o b \o c) <=> AllHold(b) /\ AllHold(c))
      /\ FirstFailure(a \o b \o c) = IF AllHold(b) THEN FirstFailure(c) ELSE FirstFailure(b)
  BY <1>2, <1>3, ConcatHold, ConcatFailure
<1>5. FirstFailure(a \o b \o c \o d) =
        IF AllHold(b) /\ AllHold(c) THEN FirstFailure(d) ELSE FirstFailure(a \o b \o c)
  BY <1>2, <1>4, ConcatFailure
<1>. QED
  BY <1>1, <1>2, <1>4, <1>5 DEF b, c, d

\* A missing bb is reported as that, and what bb says otherwise.
LEMMA BbSays ==
  ASSUME NEW proof, NEW ctx, NEW bb \in BOOLEAN, BbVerifies(proof, ctx)
  PROVE  FirstFailure(BbChecks(proof, ctx, bb)) =
           IF bb THEN "verified" ELSE "VerificationUnavailable"
<1> DEFINE c1 == Check(bb, "VerificationUnavailable")
           c2 == Check(BbVerifies(proof, ctx), "InvalidProof")
           s == <<c1, c2>>
<1>1. BbChecks(proof, ctx, bb) = s
  BY DEF BbChecks
<1>2. s \in Seq(Checks) /\ (AllHold(s) <=> bb)
  BY <1>1, BbChecksHold
<1>3. DOMAIN s = 1..2 /\ s[1] = c1
  OBVIOUS
<1>4. (c1.holds <=> bb) /\ c1.otherwise = "VerificationUnavailable"
  BY DEF Check
<1> HIDE DEF s, c1
<1>5. CASE bb
  BY <1>1, <1>2, <1>5, VerifiedIfAllHold
<1>6. CASE ~bb
  <2>1. 1 \in DOMAIN s /\ ~s[1].holds /\ \A j \in DOMAIN s : j < 1 => s[j].holds
    BY <1>3, <1>4, <1>6
  <2>2. FirstFailure(s) = s[1].otherwise
    BY <1>2, <2>1, FirstFails
  <2>. QED
    BY <1>1, <1>3, <1>4, <1>6, <2>2
<1>. QED
  BY <1>5, <1>6

\* A key that is all right and not in the store is called the wrong key.
LEMMA UnknownKeySays ==
  ASSUME NEW ctx, ParsesAsUltraHonk(ctx.keyId), ctx.keyId.circuit = ctx.circuit,
         ctx.keyId.version = ctx.version, ctx.keyId.artifact = ctx.artifact,
         ctx.keyId \notin keyStore
  PROVE  FirstFailure(KeyChecks(ctx)) = "WrongVerificationKey"
<1> DEFINE s == KeyChecks(ctx)
           c1 == Check(ParsesAsUltraHonk(ctx.keyId), "WrongVerificationKey")
           c2 == Check(ctx.keyId.circuit = ctx.circuit, "CircuitMismatch")
           c3 == Check(ctx.keyId.version = ctx.version, "VersionMismatch")
           c4 == Check(ctx.keyId.artifact = ctx.artifact, "ArtifactChecksumMismatch")
           c5 == Check(ctx.keyId \in keyStore, "WrongVerificationKey")
<1>1. s \in Seq(Checks)
  BY KeyChecksHold
<1>2. /\ DOMAIN s = 1..5 /\ s[1] = c1 /\ s[2] = c2 /\ s[3] = c3 /\ s[4] = c4 /\ s[5] = c5
  BY DEF KeyChecks
<1>3. /\ s[1].holds /\ s[2].holds /\ s[3].holds /\ s[4].holds
  <2>1. c1.holds
    BY CheckTyped, Zenon DEF Rejections, ParsesAsUltraHonk
  <2>2. c2.holds /\ c3.holds
    BY CheckTyped DEF Rejections
  <2>3. c4.holds
    BY CheckTyped DEF Rejections
  <2>. QED
    BY <1>2, <2>1, <2>2, <2>3
<1>4. ~s[5].holds /\ s[5].otherwise = "WrongVerificationKey"
  <2>1. (ctx.keyId \in keyStore) \in BOOLEAN /\ "WrongVerificationKey" \in Rejections
    BY DEF Rejections
  <2>2. (c5.holds <=> ctx.keyId \in keyStore) /\ c5.otherwise = "WrongVerificationKey"
    BY <2>1, CheckTyped, Zenon
  <2>. QED
    BY <1>2, <2>2
<1> HIDE DEF s, c1, c2, c3, c4, c5
<1>5. 5 \in DOMAIN s /\ \A j \in DOMAIN s : j < 5 => j = 1 \/ j = 2 \/ j = 3 \/ j = 4
  BY <1>2
<1>6. FirstFailure(s) = s[5].otherwise
  <2>1. \A j \in DOMAIN s : j < 5 => s[j].holds
    BY <1>3, <1>5
  <2>. QED
    BY <1>1, <1>4, <1>5, <2>1, FirstFails
<1>. QED
  BY <1>4, <1>6 DEF s

\* The state of another root is called that.
LEMMA OtherRootSays ==
  ASSUME NEW ctx, Get(ctx.outputs, "root") # None, ctx.state # None,
         ctx.state.root # Get(ctx.outputs, "root")
  PROVE  FirstFailure(StateChecks(ctx)) = "StateReferenceMismatch"
<1> DEFINE s == StateChecks(ctx)
           root == Get(ctx.outputs, "root")
           c1 == Check(root # None => ctx.state # None, "MissingStateBinding")
           c2 == Check(root # None /\ ctx.state # None => ctx.state.root = root,
                       "StateReferenceMismatch")
<1>1. s \in Seq(Checks)
  BY StateChecksHold
<1>2. DOMAIN s = 1..2 /\ s[1] = c1 /\ s[2] = c2
  BY DEF StateChecks
<1>3. s[1].holds /\ ~s[2].holds /\ s[2].otherwise = "StateReferenceMismatch"
  <2>1. c1.holds
    BY CheckTyped DEF Rejections
  <2>2. ~c2.holds /\ c2.otherwise = "StateReferenceMismatch"
    BY CheckTyped DEF Rejections
  <2>. QED
    BY <1>2, <2>1, <2>2
<1> HIDE DEF s, c1, c2
<1>4. 2 \in DOMAIN s /\ \A j \in DOMAIN s : j < 2 => j = 1
  BY <1>2
<1>5. FirstFailure(s) = s[2].otherwise
  BY <1>1, <1>3, <1>4, FirstFails
<1>. QED
  BY <1>3, <1>5 DEF s

\* What an UltraHonk proof says of its own key and words.
LEMMA OwnContext ==
  ASSUME NEW proof, WellFormed(proof), proof.backend = "ultrahonk"
  PROVE  /\ ParsesAsUltraHonk(proof.keyId) /\ proof.keyId.circuit = proof.circuit
         /\ proof.keyId.version = proof.version /\ proof.keyId.artifact = proof.artifact
         /\ StateFits(proof) /\ BbVerifies(proof, proof)
BY DEF WellFormed, ParsesAsUltraHonk, KeyId, StateFits, BbVerifies

\* What a provider returns verifies under its own context; only an unknown key
\* or a missing bb prevents it, and each is reported as what it is.
THEOREM HonestProofsVerify == Spec => []HonestProofVerifies
<1>1. Bindings => HonestProofVerifies
  <2>1. SUFFICES ASSUME Bindings, NEW proof \in responses, NEW bb \in BOOLEAN
                 PROVE  Verify(proof, proof, bb) =
                          IF proof \notin Resolvable THEN "WrongVerificationKey"
                          ELSE IF proof.backend = "ultrahonk" /\ ~bb
                                 THEN "VerificationUnavailable"
                          ELSE "verified"
    BY DEF HonestProofVerifies
  <2>2. WellFormed(proof)
    BY <2>1 DEF Bindings
  <2>3. CASE proof.backend = "mock"
    <3>1. proof \in Resolvable
      BY <2>3 DEF Resolvable
    <3>2. MockVerify(proof, proof) = "verified"
      BY <2>3, MockAccepts DEF SameContext
    <3>. QED
      BY <2>3, <3>1, <3>2 DEF Verify
  <2>4. CASE proof.backend # "mock"
    <3>1. proof.backend = "ultrahonk"
      BY <2>2, <2>4 DEF WellFormed, Contexts, Backends
    <3>2. KeyFits(proof) <=> proof.keyId \in keyStore
      BY <2>2, <3>1, OwnContext DEF KeyFits
    <3>3. proof \in Resolvable <=> proof.keyId \in keyStore
      BY <2>4 DEF Resolvable
    <3>4. StateFits(proof) /\ BbVerifies(proof, proof)
      BY <2>2, <3>1, OwnContext
    <3>5. CASE proof.keyId \notin keyStore
      <4>1. FirstFailure(KeyChecks(proof)) = "WrongVerificationKey"
        BY <2>2, <3>1, <3>5, OwnContext, UnknownKeySays
      <4>. QED
        BY <2>4, <3>1, <3>2, <3>3, <3>5, <4>1, UltraHonkSays DEF Verify
    <3>6. CASE proof.keyId \in keyStore
      BY <2>4, <3>1, <3>2, <3>3, <3>4, <3>6, UltraHonkSays, BbSays DEF Verify
    <3>. QED
      BY <3>5, <3>6
  <2>. QED
    BY <2>3, <2>4
<1>. QED
  BY <1>1, BindingsInvariant, PTL

\* Where only the state differs, the mock names the state.
LEMMA MockNamesState ==
  ASSUME NEW proof, NEW ctx, proof.backend = "mock", ctx.backend = "mock",
         proof.circuit = ctx.circuit, proof.version = ctx.version, proof.keyId = ctx.keyId,
         proof.artifact = ctx.artifact, proof.outputs = ctx.outputs,
         proof.state # None, ctx.state # None, proof.state # ctx.state
  PROVE  MockVerify(proof, ctx) = "StateReferenceMismatch"
<1> DEFINE c1 == Check(proof.backend = "mock" /\ ctx.backend = "mock", "BackendMismatch")
           c2 == Check(proof.circuit = ctx.circuit, "CircuitMismatch")
           c3 == Check(proof.version = ctx.version, "VersionMismatch")
           c4 == Check(proof.keyId = ctx.keyId, "WrongVerificationKey")
           c5 == Check(proof.artifact = ctx.artifact, "ArtifactChecksumMismatch")
           c6 == Check(proof.outputs = ctx.outputs, "PublicOutputMismatch")
           c7 == Check((proof.state = None) = (ctx.state = None), "MissingStateBinding")
           c8 == Check(proof.state = ctx.state, "StateReferenceMismatch")
           s  == <<c1, c2, c3, c4, c5, c6, c7, c8>>
<1>1. MockVerify(proof, ctx) = FirstFailure(s)
  BY DEF MockVerify
<1>2. /\ c1 \in Checks /\ c1.holds /\ c2 \in Checks /\ c2.holds
      /\ c3 \in Checks /\ c3.holds /\ c4 \in Checks /\ c4.holds
      /\ c5 \in Checks /\ c5.holds /\ c6 \in Checks /\ c6.holds
      /\ c7 \in Checks /\ c7.holds /\ c8 \in Checks /\ ~c8.holds
      /\ c8.otherwise = "StateReferenceMismatch"
  BY CheckTyped DEF Rejections
<1> HIDE DEF c1, c2, c3, c4, c5, c6, c7, c8
<1>3. /\ DOMAIN s = 1..8
      /\ s[1] = c1 /\ s[2] = c2 /\ s[3] = c3 /\ s[4] = c4
      /\ s[5] = c5 /\ s[6] = c6 /\ s[7] = c7 /\ s[8] = c8
  OBVIOUS
<1>4. s \in Seq(Checks)
  BY <1>2, EightChecks
<1> HIDE DEF s
<1>5. 8 \in DOMAIN s /\ \A j \in DOMAIN s : j < 8 =>
        j = 1 \/ j = 2 \/ j = 3 \/ j = 4 \/ j = 5 \/ j = 6 \/ j = 7
  BY <1>3
<1>6. FirstFailure(s) = s[8].otherwise
  <2>1. \A j \in DOMAIN s : j < 8 => s[j].holds
    BY <1>2, <1>3, <1>5
  <2>. QED
    BY <1>2, <1>3, <1>4, <1>5, <2>1, FirstFails
<1>. QED
  BY <1>1, <1>2, <1>3, <1>6

\* A proof with a root and a state, against a ledger whose root has moved, is rejected as
\* stale and for no other reason, whether or not bb is there.
THEOREM StaleProofsAreCalledStale == Spec => []StaleIsReportedAsStale
<1>1. Bindings => StaleIsReportedAsStale
  <2>1. SUFFICES ASSUME Bindings, NEW proof \in Resolvable, NEW bb \in BOOLEAN,
                        Get(proof.outputs, "root") # None, proof.state # None,
                        proof.state.root # ledger.root
                 PROVE  Verify(proof, [proof EXCEPT !.state = ledger], bb)
                          = "StateReferenceMismatch"
    BY DEF StaleIsReportedAsStale
  <2> DEFINE ctx == [proof EXCEPT !.state = ledger]
  <2>2. WellFormed(proof) /\ proof \in Contexts
    BY <2>1 DEF Bindings, Resolvable, WellFormed
  <2>3. /\ ctx.backend = proof.backend /\ ctx.circuit = proof.circuit
        /\ ctx.version = proof.version /\ ctx.keyId = proof.keyId
        /\ ctx.artifact = proof.artifact /\ ctx.outputs = proof.outputs
        /\ ctx.state = ledger
    BY <2>2 DEF Contexts
  <2>4. ledger # None
    BY <2>1, ContextAssumption DEF Bindings, StateReferences
  <2>5. Get(proof.outputs, "root") = proof.state.root
    BY <2>1, <2>2 DEF WellFormed
  <2> HIDE DEF ctx
  <2>6. CASE proof.backend = "mock"
    <3>1. proof.state # ctx.state
      BY <2>1, <2>3
    <3>2. MockVerify(proof, ctx) = "StateReferenceMismatch"
      BY <2>1, <2>3, <2>4, <2>5, <2>6, <3>1, MockNamesState
    <3>. QED
      BY <2>3, <2>6, <3>2 DEF Verify, ctx
  <2>7. CASE proof.backend # "mock"
    <3>1. proof.backend = "ultrahonk" /\ ctx.backend = "ultrahonk"
      BY <2>2, <2>3, <2>7 DEF Contexts, Backends
    <3>2. proof.keyId \in keyStore
      BY <2>1, <2>7 DEF Resolvable
    <3>3. KeyFits(ctx)
      BY <2>2, <2>3, <3>1, <3>2, OwnContext DEF KeyFits
    <3>4. /\ Get(ctx.outputs, "root") # None /\ ctx.state # None
          /\ ctx.state.root # Get(ctx.outputs, "root")
      BY <2>1, <2>3, <2>4, <2>5
    <3>5. ~StateFits(ctx)
      BY <3>4 DEF StateFits
    <3>6. UltraHonkVerify(proof, ctx, bb) = "StateReferenceMismatch"
      BY <3>1, <3>3, <3>4, <3>5, UltraHonkSays, OtherRootSays
    <3>. QED
      BY <3>1, <3>6 DEF Verify, ctx
  <2>. QED
    BY <2>6, <2>7
<1>. QED
  BY <1>1, BindingsInvariant, PTL

\* The two verifiers accept the same submissions, as long as the words bear the
\* proof's names and the state references agree in what the words do not carry.
THEOREM MockDecidesAlike == Spec => []MockMirrorsUltraHonk
<1>1. Bindings => MockMirrorsUltraHonk
  <2> DEFINE AsMock(c) == [c EXCEPT !.backend = "mock"]
  <2>1. SUFFICES ASSUME Bindings, NEW proof \in responses, NEW ctx \in Submissions(proof),
                        proof.backend = "ultrahonk", ctx.backend = "ultrahonk",
                        ctx.keyId \in keyStore,
                        NamesOf(proof.outputs) = NamesOf(ctx.outputs),
                        proof.circuit \in Unbound => ctx.state = proof.state,
                        ctx.state # None /\ proof.state # None
                          /\ ctx.state.root = proof.state.root
                          => ctx.state.sequence = proof.state.sequence
                 PROVE  UltraHonkVerify(proof, ctx, TRUE) = "verified" <=>
                          MockVerify(AsMock(proof), AsMock(ctx)) = "verified"
    BY DEF MockMirrorsUltraHonk
  <2>2. WellFormed(proof) /\ proof \in Contexts
    BY <2>1 DEF Bindings, WellFormed
  <2>3. ctx \in Contexts
    BY <2>1, SubmissionsTyped
  <2>5. ctx.state \in StateReferences \cup {None} /\ proof.state \in StateReferences \cup {None}
    BY <2>2, <2>3 DEF Contexts
  <2>6. MockVerify(AsMock(proof), AsMock(ctx)) = "verified" <=>
          /\ proof.circuit = ctx.circuit /\ proof.version = ctx.version
          /\ proof.keyId = ctx.keyId /\ proof.artifact = ctx.artifact
          /\ proof.outputs = ctx.outputs /\ proof.state = ctx.state
    <3> DEFINE p == AsMock(proof)
               c == AsMock(ctx)
    <3>1. /\ p.backend = "mock" /\ p.circuit = proof.circuit /\ p.version = proof.version
          /\ p.keyId = proof.keyId /\ p.artifact = proof.artifact
          /\ p.outputs = proof.outputs /\ p.state = proof.state
      BY <2>2 DEF Contexts
    <3>2. /\ c.backend = "mock" /\ c.circuit = ctx.circuit /\ c.version = ctx.version
          /\ c.keyId = ctx.keyId /\ c.artifact = ctx.artifact
          /\ c.outputs = ctx.outputs /\ c.state = ctx.state
      BY <2>3 DEF Contexts
    <3> HIDE DEF p, c
    <3>3. MockVerify(p, c) = "verified" <=> SameContext(p, c)
      BY MockAccepts
    <3>. QED
      BY <3>1, <3>2, <3>3 DEF SameContext, p, c
  <2> HIDE DEF AsMock
  <2>7. ASSUME UltraHonkVerify(proof, ctx, TRUE) = "verified"
        PROVE  MockVerify(AsMock(proof), AsMock(ctx)) = "verified"
    <3>1. /\ SharesContext(proof, ctx)
          /\ proof.circuit \in Bound => ctx.state # None /\ ctx.state.root = proof.state.root
      BY <2>1, <2>2, <2>3, <2>7, UltraHonkShares
    <3>2. proof.state = ctx.state
      <4>1. CASE proof.circuit \in Bound
        <5>1. ctx.state # None /\ proof.state # None /\ ctx.state.root = proof.state.root
          BY <2>1, <2>2, <3>1, <4>1 DEF WellFormed
        <5>2. ctx.state \in StateReferences /\ proof.state \in StateReferences
          BY <2>5, <5>1
        <5>. QED
          BY <2>1, <5>1, <5>2 DEF StateReferences
      <4>2. CASE proof.circuit \notin Bound
        BY <2>1, <2>2, <4>2 DEF Contexts, Circuits
      <4>. QED
        BY <4>1, <4>2
    <3>3. proof.outputs = ctx.outputs
      <4>1. proof.outputs \in Seq(Entries) /\ ctx.outputs \in Seq(Entries)
        BY <2>2, <2>3 DEF Contexts
      <4>. QED
        BY <2>1, <3>1, <4>1, SameBag DEF SharesContext
    <3>. QED
      BY <2>6, <3>1, <3>2, <3>3 DEF SharesContext
  <2>8. ASSUME MockVerify(AsMock(proof), AsMock(ctx)) = "verified"
        PROVE  UltraHonkVerify(proof, ctx, TRUE) = "verified"
    <3>1. /\ proof.circuit = ctx.circuit /\ proof.version = ctx.version
          /\ proof.keyId = ctx.keyId /\ proof.artifact = ctx.artifact
          /\ proof.outputs = ctx.outputs /\ proof.state = ctx.state
      BY <2>6, <2>8
    <3>2. KeyFits(ctx)
      BY <2>1, <2>2, <3>1, OwnContext DEF KeyFits
    <3>3. StateFits(ctx) /\ BbVerifies(proof, ctx)
      BY <2>1, <2>2, <3>1, OwnContext DEF StateFits, BbVerifies
    <3>. QED
      BY <2>1, <3>2, <3>3, UltraHonkAccepts
  <2>. QED
    BY <2>7, <2>8
<1>. QED
  BY <1>1, BindingsInvariant, PTL

=============================================================================
