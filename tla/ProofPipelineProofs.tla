------------------------ MODULE ProofPipelineProofs ------------------------
(***************************************************************************)
(* Proofs about ProofPipeline, for any bytecodes, any number of provers    *)
(* and generators and any number of faults.                                *)
(***************************************************************************)
EXTENDS ProofPipeline, TLAPS

\* A prover past the manifest works under a real checksum, and one that is past
\* bb holds a real proof.  TypeOK is not inductive without it: an envelope is
\* built from these locals.
LocalsDefined ==
  \A p \in Provers :
    /\ pc[p] \notin {"idle", "manifest"} => artifact[p] \in Bytecodes
    /\ pc[p] \in {"truncate", "store", "roundTrip"} => proof[p] \in Proofs

\* The types together with the locals they depend on.
Typed == TypeOK /\ LocalsDefined

\* When prover p's invocation ends, its locals are cleared and no other
\* prover's are.
LEMMA EndTyped ==
  ASSUME Typed, NEW p \in Provers, NEW how \in Outcomes, End(p, how)
  PROVE  /\ artifact' \in [Provers -> Bytecodes \cup {Absent}]
         /\ witness' \in [Provers -> Bytecodes \cup {Absent}]
         /\ proof' \in [Provers -> Proofs \cup {NoProof}]
         /\ outcome' \in [Provers -> Outcomes]
         /\ \A q \in Provers \ {p} : artifact'[q] = artifact[q] /\ proof'[q] = proof[q]
<1>1. artifact' \in [Provers -> Bytecodes \cup {Absent}]
  BY DEF Typed, TypeOK, End
<1>2. witness' \in [Provers -> Bytecodes \cup {Absent}]
  BY DEF Typed, TypeOK, End
<1>3. proof' \in [Provers -> Proofs \cup {NoProof}]
  BY DEF Typed, TypeOK, End
<1>4. outcome' \in [Provers -> Outcomes]
  BY DEF Typed, TypeOK, End
<1>5. \A q \in Provers \ {p} : artifact'[q] = artifact[q] /\ proof'[q] = proof[q]
  BY DEF Typed, TypeOK, End
<1>. QED
  BY <1>1, <1>2, <1>3, <1>4, <1>5

\* An invocation that ends in an error keeps the types.
LEMMA FailTyped ==
  ASSUME Typed, NEW p \in Provers, NEW from, NEW how \in Outcomes, Fail(p, from, how)
  PROVE  Typed'
<1>1. pc' \in [Provers -> ProverSteps] /\ pc'[p] = "idle"
  BY DEF Typed, TypeOK, Fail, Step, ProverSteps
<1>2. \A q \in Provers \ {p} : pc'[q] = pc[q]
  BY DEF Typed, TypeOK, Fail, Step
<1>3. TypeOK'
  BY <1>1, EndTyped DEF Typed, TypeOK, Fail, Step, genVars
<1>4. LocalsDefined'
  BY <1>1, <1>2, EndTyped DEF Typed, LocalsDefined, Fail
<1>. QED
  BY <1>3, <1>4 DEF Typed

\* An invocation that its environment stops keeps them, too.
LEMMA HaltTyped ==
  ASSUME Typed, NEW p \in Provers, NEW froms, NEW how \in Outcomes, Halt(p, froms, how)
  PROVE  Typed'
<1>1. pc' \in [Provers -> ProverSteps] /\ pc'[p] = "idle"
  BY DEF Typed, TypeOK, Halt, ProverSteps
<1>2. \A q \in Provers \ {p} : pc'[q] = pc[q]
  BY DEF Typed, TypeOK, Halt
<1>3. faults' \in 0..MaxFaults
  BY PipelineAssumption DEF Typed, TypeOK, Halt
<1>4. TypeOK'
  BY <1>1, <1>3, EndTyped DEF Typed, TypeOK, Halt, disk, genVars, outside
<1>5. LocalsDefined'
  BY <1>1, <1>2, EndTyped DEF Typed, LocalsDefined, Halt
<1>. QED
  BY <1>4, <1>5 DEF Typed

\* Every value has its type and every local that a prover has reached is real,
\* also when generators overlap provers: the base of all other proofs about the
\* pipeline.
THEOREM TypedInvariant == Spec => []Typed
<1>. USE PipelineAssumption DEF ProverSteps, GeneratorSteps, Outcomes, Verdicts,
     FileContents, Proofs, NoProof, Envelopes
<1>1. Init => Typed
  BY DEF Init, Typed, TypeOK, LocalsDefined
<1>2. Typed /\ [Next]_vars => Typed'
  <2>. SUFFICES ASSUME Typed, [Next]_vars PROVE Typed'
    OBVIOUS
  <2>. USE DEF Typed, TypeOK, LocalsDefined
  <2>1. ASSUME NEW b \in Bytecodes, Compile(b) PROVE Typed'
    BY <2>1 DEF Compile, proverVars, genVars, outside
  <2>2. ASSUME NEW g \in Generators,
               ReadTarget(g) \/ Generate(g) \/ CrashGenerator(g)
        PROVE Typed'
    <3>1. CASE ReadTarget(g)
      BY <3>1 DEF ReadTarget, GeneratorStep, proverVars, outside
    <3>2. CASE TruncateBytecode(g)
      BY <3>2 DEF TruncateBytecode, GeneratorStep, proverVars, outside
    <3>3. CASE WriteBytecode(g)
      BY <3>3 DEF WriteBytecode, GeneratorStep, proverVars, outside
    <3>4. CASE TruncateManifest(g)
      BY <3>4 DEF TruncateManifest, GeneratorStep, proverVars, outside
    <3>5. CASE WriteManifest(g)
      BY <3>5 DEF WriteManifest, GeneratorStep, proverVars, outside
    <3>6. CASE CrashGenerator(g)
      BY <3>6 DEF CrashGenerator, disk, proverVars, outside
    <3>. QED
      BY <2>2, <3>1, <3>2, <3>3, <3>4, <3>5, <3>6 DEF Generate
  <2>3. ASSUME NEW p \in Provers, StartProve(p) \/ Prove(p) \/ CrashProver(p)
        PROVE Typed'
    <3>1. CASE StartProve(p)
      BY <3>1 DEF StartProve, Step, genVars
    <3>2. CASE ReadManifest(p)
      <4>1. CASE Step(p, "manifest", "bytecode")
        BY <3>2, <4>1 DEF ReadManifest, Fail, Step, genVars
      <4>2. ASSUME NEW how \in Outcomes, Fail(p, "manifest", how) PROVE Typed'
        BY <4>2, FailTyped
      <4>. QED
        BY <3>2, <4>1, <4>2 DEF ReadManifest
    <3>3. CASE LoadBytecode(p)
      <4>1. CASE Step(p, "bytecode", "witness")
        BY <3>3, <4>1 DEF LoadBytecode, Fail, Step, genVars
      <4>2. ASSUME NEW how \in Outcomes, Fail(p, "bytecode", how) PROVE Typed'
        BY <4>2, FailTyped
      <4>. QED
        BY <3>3, <4>1, <4>2 DEF LoadBytecode
    <3>4. CASE SolveWitness(p)
      <4>1. CASE Step(p, "witness", "prove")
        BY <3>4, <4>1 DEF SolveWitness, Fail, Step, genVars
      <4>2. ASSUME NEW how \in Outcomes, Fail(p, "witness", how) PROVE Typed'
        BY <4>2, FailTyped
      <4>. QED
        BY <3>4, <4>1, <4>2 DEF SolveWitness
    <3>5. CASE BbProve(p)
      <4>1. CASE Step(p, "prove", "truncate")
        BY <3>5, <4>1 DEF BbProve, Fail, Step, genVars
      <4>2. ASSUME NEW how \in Outcomes, Fail(p, "prove", how) PROVE Typed'
        BY <4>2, FailTyped
      <4>. QED
        BY <3>5, <4>1, <4>2 DEF BbProve
    <3>6. CASE TruncateKey(p)
      BY <3>6 DEF TruncateKey, Step, genVars
    <3>7. CASE StoreKey(p)
      BY <3>7 DEF StoreKey, Step, genVars
    <3>8. CASE StoreFails(p)
      BY <3>8, HaltTyped DEF StoreFails
    <3>9. CASE RoundTrip(p)
      <4>1. ASSUME End(p, "released"), Step(p, "roundTrip", "idle"),
                   released' = released \cup {[artifact |-> artifact[p], proof |-> proof[p]]},
                   UNCHANGED vkStore
            PROVE  Typed'
        <5>1. released' \subseteq Envelopes
          BY <4>1 DEF Step
        <5>2. pc' \in [Provers -> ProverSteps] /\ pc'[p] = "idle"
          BY <4>1 DEF Step
        <5>3. \A q \in Provers \ {p} : pc'[q] = pc[q]
          BY <4>1 DEF Step
        <5>4. LocalsDefined'
          BY <4>1, <5>2, <5>3, EndTyped
        <5>. QED
          BY <4>1, <5>1, <5>2, <5>4, EndTyped DEF Step, genVars
      <4>2. ASSUME NEW how \in Outcomes, Fail(p, "roundTrip", how) PROVE Typed'
        BY <4>2, FailTyped
      <4>. QED
        BY <3>9, <4>1, <4>2 DEF RoundTrip
    <3>10. CASE CrashProver(p)
      BY <3>10, HaltTyped DEF CrashProver
    <3>11. CASE RoundTripCannotRun(p)
      BY <3>11, HaltTyped DEF RoundTripCannotRun
    <3>. QED
      BY <2>3, <3>1, <3>2, <3>3, <3>4, <3>5, <3>6, <3>7, <3>8, <3>9, <3>10, <3>11 DEF Prove
  <2>4. ASSUME NEW e \in released, VerifyEnvelope(e) PROVE Typed'
    BY <2>4 DEF VerifyEnvelope, Verdict, disk, proverVars, genVars
  <2>5. CASE VerifyCannotRun
    BY <2>5 DEF VerifyCannotRun, disk, proverVars, genVars
  <2>6. CASE UNCHANGED vars
    BY <2>6 DEF vars
  <2>. QED
    BY <2>1, <2>2, <2>3, <2>4, <2>5, <2>6 DEF Next
<1>. QED
  BY <1>1, <1>2, PTL DEF Spec

\* The type invariant of the pipeline, whatever the processes interleave.
THEOREM TypeCorrect == Spec => []TypeOK
<1>1. Typed => TypeOK
  BY DEF Typed
<1>. QED
  BY <1>1, TypedInvariant, PTL

-----------------------------------------------------------------------------
(* What holds as long as nothing re-pins under a running prover *)

\* The two kinds of processes exclude each other.
Excluded == ProversIdle \/ GeneratorsIdle

\* What the loader has proven stays true until bb is done with the file ...
PinHeld ==
  \A p \in Provers :
    pc[p] \in {"witness", "prove", "truncate", "store", "roundTrip"} => pinned = artifact[p]

\* ... so bb proves the bytecode that the prover's checksum names ...
ProofHeld ==
  \A p \in Provers :
    pc[p] \in {"truncate", "store", "roundTrip"} => proof[p].circuit = artifact[p]

\* ... and what was released stays checkable: no step removes a stored key.
ReleasedHonest ==
  \A e \in released :
    e.proof.circuit = e.artifact /\ e.proof.sound /\ vkStore[e.artifact] # Absent

\* Together: ProvenIsPinned and NeverRejectedLater speak of what was released,
\* and that is decided steps earlier, by the two reads of the pin.
Pinned ==
  /\ Excluded /\ PinHeld /\ ProofHeld
  /\ KeysMatchIds /\ ReleasedHonest /\ NeverRejectedLater

PinnedInv == Typed /\ Pinned

\* Ending an invocation can only enlarge the set of idle provers.
LEMMA EndPinned ==
  ASSUME Typed, Excluded, PinHeld, ProofHeld, NEW p \in Provers, NEW how \in Outcomes,
         End(p, how), pc' = [pc EXCEPT ![p] = "idle"], UNCHANGED <<pinned, gpc>>
  PROVE  (Excluded /\ PinHeld /\ ProofHeld)'
<1>1. pc' \in [Provers -> ProverSteps] /\ pc'[p] = "idle"
  BY DEF Typed, TypeOK, ProverSteps
<1>2. \A q \in Provers \ {p} :
        pc'[q] = pc[q] /\ artifact'[q] = artifact[q] /\ proof'[q] = proof[q]
  BY EndTyped DEF Typed, TypeOK
<1>3. Excluded'
  BY <1>1, <1>2 DEF Excluded, ProversIdle, GeneratorsIdle
<1>4. (PinHeld /\ ProofHeld)'
  BY <1>1, <1>2 DEF PinHeld, ProofHeld
<1>. QED
  BY <1>3, <1>4

\* An invocation that ends in an error, or is stopped, keeps Pinned.
LEMMA FailPinned ==
  ASSUME Typed, Pinned, NEW p \in Provers, NEW how \in Outcomes,
         \/ \E from \in ProverSteps : Fail(p, from, how)
         \/ \E froms \in SUBSET ProverSteps : Halt(p, froms, how)
  PROVE  Pinned'
<1>1. /\ End(p, how)
      /\ pc' = [pc EXCEPT ![p] = "idle"]
      /\ UNCHANGED <<pinned, gpc, vkStore, released, verdicts>>
  BY DEF Fail, Halt, Step, disk, genVars, outside
<1>2. (Excluded /\ PinHeld /\ ProofHeld)'
  BY <1>1, EndPinned DEF Pinned
<1>3. (KeysMatchIds /\ ReleasedHonest /\ NeverRejectedLater)'
  BY <1>1 DEF Pinned, KeysMatchIds, ReleasedHonest, NeverRejectedLater
<1>. QED
  BY <1>2, <1>3 DEF Pinned

\* With pins and proofs kept apart, PinnedInv is invariant.
THEOREM PinnedInvariant == (~ConcurrentRepin /\ Spec) => []PinnedInv
<1>. SUFFICES ASSUME ~ConcurrentRepin PROVE Spec => []PinnedInv
  OBVIOUS
<1>. USE PipelineAssumption
<1>1. Init => Pinned
  BY DEF Init, Pinned, Excluded, ProversIdle, PinHeld, ProofHeld, KeysMatchIds,
     ReleasedHonest, NeverRejectedLater
<1>2. Typed /\ Pinned /\ [Next]_vars => Pinned'
  <2>. SUFFICES ASSUME Typed, Pinned, [Next]_vars PROVE Pinned'
    OBVIOUS
  <2>. USE DEF Typed, TypeOK, LocalsDefined, FileContents, Proofs, NoProof, Envelopes,
       Excluded, ProversIdle, GeneratorsIdle, Pinned, PinHeld, ProofHeld,
       KeysMatchIds, ReleasedHonest, NeverRejectedLater
  <2>1. ASSUME NEW b \in Bytecodes, Compile(b) PROVE Pinned'
    BY <2>1 DEF Compile, proverVars, genVars, outside
  <2>2. ASSUME NEW g \in Generators,
               ReadTarget(g) \/ Generate(g) \/ CrashGenerator(g)
        PROVE Pinned'
    <3>1. ProversIdle /\ ProversIdle'
      BY <2>2 DEF ReadTarget, Generate, CrashGenerator, GeneratorStep, TruncateBytecode,
         WriteBytecode, TruncateManifest, WriteManifest, proverVars
    <3>2. UNCHANGED <<vkStore, outside>>
      BY <2>2 DEF ReadTarget, Generate, CrashGenerator, GeneratorStep, TruncateBytecode,
         WriteBytecode, TruncateManifest, WriteManifest, disk, outside
    <3>. QED
      BY <3>1, <3>2 DEF outside
  <2>3. ASSUME NEW p \in Provers, StartProve(p) \/ Prove(p) \/ CrashProver(p)
        PROVE Pinned'
    <3>1. CASE StartProve(p)
      BY <3>1 DEF StartProve, Step, genVars
    <3>2. CASE ReadManifest(p)
      <4>1. CASE Step(p, "manifest", "bytecode")
        BY <3>2, <4>1 DEF ReadManifest, Fail, Step, genVars
      <4>2. ASSUME NEW how \in Outcomes, Fail(p, "manifest", how) PROVE Pinned'
        BY <4>2, FailPinned DEF ProverSteps
      <4>. QED
        BY <3>2, <4>1, <4>2 DEF ReadManifest, Outcomes
    <3>3. CASE LoadBytecode(p)
      <4>1. CASE Step(p, "bytecode", "witness")
        BY <3>3, <4>1 DEF LoadBytecode, Fail, Step, genVars
      <4>2. ASSUME NEW how \in Outcomes, Fail(p, "bytecode", how) PROVE Pinned'
        BY <4>2, FailPinned DEF ProverSteps
      <4>. QED
        BY <3>3, <4>1, <4>2 DEF LoadBytecode, Outcomes
    <3>4. CASE SolveWitness(p)
      <4>1. CASE Step(p, "witness", "prove")
        BY <3>4, <4>1 DEF SolveWitness, Fail, Step, genVars
      <4>2. ASSUME NEW how \in Outcomes, Fail(p, "witness", how) PROVE Pinned'
        BY <4>2, FailPinned DEF ProverSteps
      <4>. QED
        BY <3>4, <4>1, <4>2 DEF SolveWitness, Outcomes
    <3>5. CASE BbProve(p)
      <4>1. CASE Step(p, "prove", "truncate")
        BY <3>5, <4>1 DEF BbProve, Fail, Step, genVars
      <4>2. ASSUME NEW how \in Outcomes, Fail(p, "prove", how) PROVE Pinned'
        BY <4>2, FailPinned DEF ProverSteps
      <4>. QED
        BY <3>5, <4>1, <4>2 DEF BbProve, Outcomes
    <3>6. CASE TruncateKey(p)
      BY <3>6 DEF TruncateKey, Step, genVars
    <3>7. CASE StoreKey(p)
      BY <3>7 DEF StoreKey, Step, genVars
    <3>8. CASE StoreFails(p)
      BY <3>8, FailPinned DEF StoreFails, ProverSteps, Outcomes
    <3>9. CASE RoundTrip(p)
      <4>1. ASSUME End(p, "released"), Step(p, "roundTrip", "idle"),
                   Verdict(artifact[p], proof[p]) = "verified",
                   released' = released \cup {[artifact |-> artifact[p], proof |-> proof[p]]},
                   UNCHANGED vkStore
            PROVE  Pinned'
        <5>1. (Excluded /\ PinHeld /\ ProofHeld)'
          BY <4>1, EndPinned DEF Step, genVars, Outcomes
        <5>2. ReleasedHonest'
          BY <4>1 DEF Step, Verdict
        <5>3. (KeysMatchIds /\ NeverRejectedLater)'
          BY <4>1 DEF Step
        <5>. QED
          BY <5>1, <5>2, <5>3
      <4>2. ASSUME NEW how \in Outcomes, Fail(p, "roundTrip", how) PROVE Pinned'
        BY <4>2, FailPinned DEF ProverSteps
      <4>. QED
        BY <3>9, <4>1, <4>2 DEF RoundTrip, Outcomes
    <3>10. CASE CrashProver(p)
      BY <3>10, FailPinned DEF CrashProver, Outcomes
    <3>11. CASE RoundTripCannotRun(p)
      BY <3>11, FailPinned DEF RoundTripCannotRun, ProverSteps, Outcomes
    <3>. QED
      BY <2>3, <3>1, <3>2, <3>3, <3>4, <3>5, <3>6, <3>7, <3>8, <3>9, <3>10, <3>11 DEF Prove
  <2>4. ASSUME NEW e \in released, VerifyEnvelope(e) PROVE Pinned'
    BY <2>4 DEF VerifyEnvelope, Verdict, disk, proverVars, genVars
  <2>5. CASE VerifyCannotRun
    BY <2>5 DEF VerifyCannotRun, disk, proverVars, genVars
  <2>6. CASE UNCHANGED vars
    BY <2>6 DEF vars
  <2>. QED
    BY <2>1, <2>2, <2>3, <2>4, <2>5, <2>6 DEF Next
<1>3. Spec => []Pinned
  BY <1>1, <1>2, TypedInvariant, PTL DEF Spec
<1>. QED
  BY <1>3, TypedInvariant, PTL DEF PinnedInv

\* A released proof was made for the pinned bytecode its envelope names.
THEOREM ReleasedProofsMatchPin == (~ConcurrentRepin /\ Spec) => []ProvenIsPinned
<1>1. PinnedInv => ProvenIsPinned
  BY DEF PinnedInv, Pinned, ReleasedHonest, ProvenIsPinned
<1>. QED
  BY <1>1, PinnedInvariant, PTL

\* The key store never maps an id to the key of another artifact.
THEOREM StoreMatchesIds == (~ConcurrentRepin /\ Spec) => []KeysMatchIds
<1>1. PinnedInv => KeysMatchIds
  BY DEF PinnedInv, Pinned
<1>. QED
  BY <1>1, PinnedInvariant, PTL

\* No later `verify` rejects a released envelope.
THEOREM NoLateRejection == (~ConcurrentRepin /\ Spec) => []NeverRejectedLater
<1>1. PinnedInv => NeverRejectedLater
  BY DEF PinnedInv, Pinned
<1>. QED
  BY <1>1, PinnedInvariant, PTL

\* With pins and proofs kept apart, the pipeline implements ProofService: each of
\* its steps releases one honest envelope, checks one without rejecting it, or
\* is invisible to the callers.
THEOREM PipelineImplementsService == (~ConcurrentRepin /\ Spec) => ImplementsService
<1>. USE DEF outside
<1>1. Init => Service!Init
  BY DEF Init, Service!Init
<1>2. PinnedInv /\ PinnedInv' /\ [Next]_vars => [Service!Next]_<<released, verdicts>>
  <2>. SUFFICES ASSUME PinnedInv, PinnedInv', [Next]_vars,
                       ~ UNCHANGED <<released, verdicts>>
                PROVE  Service!Next
    OBVIOUS
  <2>1. ASSUME NEW p \in Provers, RoundTrip(p) PROVE Service!Next
    <3>. DEFINE e == [artifact |-> artifact[p], proof |-> proof[p]]
    <3>1. released' = released \cup {e} /\ UNCHANGED verdicts
      BY <2>1 DEF RoundTrip, Fail, Step
    <3>2. e \in Envelopes /\ e \in released'
      BY <3>1 DEF PinnedInv, Typed, TypeOK
    <3>3. Service!Honest(e)
      BY <3>2 DEF PinnedInv, Pinned, ReleasedHonest, Service!Honest, Envelopes
    <3>. QED
      BY <3>1, <3>2, <3>3 DEF Service!Next, Service!Release
  <2>2. ASSUME NEW e \in released, VerifyEnvelope(e) PROVE Service!Next
    <3>. DEFINE v == Verdict(e.artifact, e.proof)
    <3>1. verdicts' = verdicts \cup {v} /\ UNCHANGED released
      BY <2>2 DEF VerifyEnvelope
    <3>2. v \in {"verified", "internal"}
      BY <3>1 DEF PinnedInv, Pinned, NeverRejectedLater
    <3>. QED
      BY <3>1, <3>2 DEF Service!Next, Service!Check
  <2>3. CASE VerifyCannotRun
    <3>1. verdicts' = verdicts \cup {"internal"} /\ UNCHANGED released /\ released # {}
      BY <2>3 DEF VerifyCannotRun
    <3>. QED
      BY <3>1 DEF Service!Next, Service!Check
  <2>. QED
    BY <2>1, <2>2, <2>3 DEF Next, vars, Compile, ReadTarget, Generate, CrashGenerator,
       GeneratorStep, TruncateBytecode, WriteBytecode, TruncateManifest, WriteManifest,
       StartProve, Prove, ReadManifest, LoadBytecode, SolveWitness, BbProve, TruncateKey,
       StoreKey, StoreFails, RoundTripCannotRun, CrashProver, Halt, Fail, Step
<1>. QED
  BY <1>1, <1>2, PinnedInvariant, PTL DEF Spec, Service!Spec, ImplementsService

-----------------------------------------------------------------------------
(* What holds whatever runs at the same time *)

\* A torn key has a cause: a prover that is between truncating and filling it,
\* or a fault in the past.
TornHasACause ==
  \A b \in Bytecodes :
    vkStore[b] = Torn =>
      \/ faults > 0
      \/ \E q \in Provers : pc[q] = "store" /\ artifact[q] = b

\* Also with generators under the provers, that invariant holds ...
THEOREM TornKeys == Spec => []TornHasACause
<1>. USE PipelineAssumption DEF TornHasACause
<1>1. Init => TornHasACause
  BY DEF Init
<1>2. Typed /\ TornHasACause /\ [Next]_vars => TornHasACause'
  <2>. SUFFICES ASSUME Typed, TornHasACause, [Next]_vars PROVE TornHasACause'
    OBVIOUS
  <2>. USE DEF Typed, TypeOK, LocalsDefined
  <2>1. ASSUME NEW b \in Bytecodes, Compile(b) PROVE TornHasACause'
    BY <2>1 DEF Compile, proverVars
  <2>2. ASSUME NEW g \in Generators,
               ReadTarget(g) \/ Generate(g) \/ CrashGenerator(g)
        PROVE TornHasACause'
    BY <2>2 DEF ReadTarget, Generate, CrashGenerator, GeneratorStep, TruncateBytecode,
       WriteBytecode, TruncateManifest, WriteManifest, disk, proverVars
  <2>3. ASSUME NEW p \in Provers, StartProve(p) \/ Prove(p) \/ CrashProver(p)
        PROVE TornHasACause'
    <3>1. CASE pc[p] # "store" /\ UNCHANGED <<vkStore, faults>>
      <4>1. \A q \in Provers : pc[q] = "store" =>
              pc'[q] = "store" /\ artifact'[q] = artifact[q]
        BY <2>3, <3>1 DEF StartProve, Prove, ReadManifest, LoadBytecode, SolveWitness,
           BbProve, TruncateKey, StoreKey, StoreFails, RoundTrip, RoundTripCannotRun,
           CrashProver, Fail, Halt, End, Step
      <4>. QED
        BY <3>1, <4>1
    <3>2. CASE TruncateKey(p)
      BY <3>2 DEF TruncateKey, Step
    <3>3. CASE StoreKey(p)
      <4>1. proof[p].circuit # Torn
        BY <3>3 DEF StoreKey, Step, Proofs
      <4>2. \A q \in Provers \ {p} : pc'[q] = pc[q] /\ artifact'[q] = artifact[q]
        BY <3>3 DEF StoreKey, Step
      <4>3. ASSUME NEW b \in Bytecodes, vkStore'[b] = Torn
            PROVE  /\ b # artifact[p]
                   /\ vkStore[b] = Torn
        BY <3>3, <4>1, <4>3 DEF StoreKey, FileContents
      <4>. QED
        BY <3>3, <4>2, <4>3 DEF StoreKey, Step
    <3>4. CASE faults' = faults + 1
      BY <3>4
    <3>. QED
      BY <2>3, <3>1, <3>2, <3>3, <3>4 DEF StartProve, Prove, ReadManifest, LoadBytecode,
         SolveWitness, BbProve, StoreFails, RoundTrip, RoundTripCannotRun, CrashProver, Fail,
         Halt, Step
  <2>4. ASSUME NEW e \in released, VerifyEnvelope(e) PROVE TornHasACause'
    BY <2>4 DEF VerifyEnvelope, disk, proverVars
  <2>5. CASE VerifyCannotRun
    BY <2>5 DEF VerifyCannotRun, disk, proverVars
  <2>6. CASE UNCHANGED vars
    BY <2>6 DEF vars
  <2>. QED
    BY <2>1, <2>2, <2>3, <2>4, <2>5, <2>6 DEF Next
<1>. QED
  BY <1>1, <1>2, TypedInvariant, PTL DEF Spec

\* ... so a round trip that errs met another prover's write, or a fault.
THEOREM SpuriousErrors == Spec => SpuriousErrorHasACause
<1>. DEFINE Caused ==
       \A p \in Provers :
         outcome[p] # "internal" /\ outcome'[p] = "internal"
         => \/ \E q \in Provers \ {p} : pc[q] = "store" /\ artifact[q] = artifact[p]
            \/ faults' > 0
<1>1. Typed /\ TornHasACause /\ [Next]_vars => Caused \/ UNCHANGED vars
  <2>. SUFFICES ASSUME Typed, TornHasACause, Next,
                       NEW p \in Provers, outcome[p] # "internal", outcome'[p] = "internal"
                PROVE  \/ \E q \in Provers \ {p} : pc[q] = "store" /\ artifact[q] = artifact[p]
                       \/ faults' > 0
    OBVIOUS
  <2>1. PICK r \in Provers : StartProve(r) \/ Prove(r) \/ CrashProver(r)
    BY DEF Next, Compile, ReadTarget, Generate, CrashGenerator, GeneratorStep,
       TruncateBytecode, WriteBytecode, TruncateManifest, WriteManifest, VerifyEnvelope,
       VerifyCannotRun, proverVars
  <2>2. (RoundTrip(r) /\ r = p) \/ RoundTripCannotRun(r)
    BY <2>1 DEF Typed, TypeOK, StartProve, Prove, ReadManifest, LoadBytecode, SolveWitness,
       BbProve, TruncateKey, StoreKey, StoreFails, RoundTrip, CrashProver, Fail, Halt, End
  <2>3. CASE RoundTripCannotRun(r)
    BY <2>3 DEF RoundTripCannotRun, Halt, Typed, TypeOK
  <2>4. CASE RoundTrip(p)
    <3>1. pc[p] = "roundTrip" /\ vkStore[artifact[p]] = Torn /\ faults' = faults
      BY <2>4 DEF Typed, TypeOK, RoundTrip, Verdict, Fail, Step, End
    <3>2. artifact[p] \in Bytecodes
      BY <3>1 DEF Typed, LocalsDefined
    <3>. QED
      BY <3>1, <3>2 DEF TornHasACause
  <2>. QED
    BY <2>2, <2>3, <2>4
<1>. QED
  BY <1>1, TypedInvariant, TornKeys, PTL DEF Spec, SpuriousErrorHasACause

=============================================================================
