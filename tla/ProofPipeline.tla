--------------------------- MODULE ProofPipeline ---------------------------
(***************************************************************************)
(* The proving pipeline of one circuit as the processes that share its     *)
(* files see it: `circuits compile` writes the compiled bytecode,          *)
(* `artifacts generate` pins it next to a manifest, `prove` loads the pin, *)
(* solves a witness, runs bb on the pinned file, stores the verification   *)
(* key and verifies its own proof, and `verify` checks released envelopes  *)
(* against the key store.  Nothing in the code locks any of these files,   *)
(* and std::fs::write truncates a file before it fills it.                 *)
(*                                                                         *)
(* The files of different circuits are disjoint (artifacts/circuits/<op>/, *)
(* <store>/<circuit>/<version>/), so one circuit is enough.  A SHA-256     *)
(* digest and a verification key are named by the bytecode they belong to: *)
(* a checksum comparison is equality of bytecodes, the key id of bytecode  *)
(* b is b, and the key bb writes for b is b.                               *)
(***************************************************************************)
EXTENDS Naturals

CONSTANTS
  Bytecodes,       \* the bytecodes the circuit's source has compiled to
  Provers,         \* `prove` invocations that may run at the same time
  Generators,      \* `artifacts generate` invocations, likewise
  Absent,          \* a file that does not exist
  Torn,            \* a file that was truncated and not completely written
  ConcurrentRepin, \* may `artifacts generate` run while a prover runs?
  MaxFaults        \* bound: processes killed or failed by their environment

ASSUME PipelineAssumption ==
  /\ Absent \notin Bytecodes
  /\ Torn \notin Bytecodes
  /\ Absent # Torn
  /\ ConcurrentRepin \in BOOLEAN
  /\ MaxFaults \in Nat

VARIABLES
  \* the disk
  target,          \* circuits/target/<op>.json
  pinned,          \* artifacts/circuits/<op>/<op>.json
  manifest,        \* artifacts/circuits/<op>/manifest.json: the digest it declares
  vkStore,         \* key id |-> content of its file in the verification-key store
  \* the provers
  pc,              \* where each prover is in `generate` and the round trip
  artifact,        \* the artifact checksum the prover works under
  witness,         \* the bytecode its witness was solved against
  proof,           \* the proof bb returned
  outcome,         \* how its last invocation ended
  \* the generators
  gpc,
  pinning,         \* the bytecode a generator read from target
  \* what the outside has seen
  released,        \* envelopes handed to callers
  verdicts,        \* the verdicts that later `verify` runs on them returned
  faults           \* kills, failed key writes and failed verifier runs so far

disk       == <<target, pinned, manifest, vkStore>>
proverVars == <<pc, artifact, witness, proof, outcome>>
genVars    == <<gpc, pinning>>
outside    == <<released, verdicts>>
vars       == <<target, pinned, manifest, vkStore, pc, artifact, witness, proof,
                outcome, gpc, pinning, released, verdicts, faults>>

-----------------------------------------------------------------------------
(* Values *)

FileContents == Bytecodes \cup {Absent, Torn}

\* What bb returns: the bytecode it proved (and so the key that verifies the
\* proof) and whether the witness satisfied that bytecode.
Proofs  == [circuit : Bytecodes, sound : BOOLEAN]
NoProof == [circuit |-> Absent, sound |-> FALSE]

Envelopes == [artifact : Bytecodes, proof : Proofs]

ProverSteps == {"idle", "manifest", "bytecode", "witness", "prove",
                "truncate", "store", "roundTrip"}
GeneratorSteps == {"idle", "bytes", "bytesOpen", "manifest", "manifestOpen"}
Outcomes == {"none", "released", "unavailable", "integrity", "generation",
             "notVerified", "internal", "crashed"}
Verdicts == {"verified", "wrongKey", "invalid", "internal"}

ProversIdle    == \A p \in Provers : pc[p] = "idle"
GeneratorsIdle == \A g \in Generators : gpc[g] = "idle"

\* The strict loader accepts the pin as it stands on disk.
PinLoads == manifest \in Bytecodes /\ pinned = manifest

\* UltraHonkVerifier on a proof submitted under key id `id`: a missing key is
\* a rejection, an unreadable one an error, and bb decides the rest.  The code
\* takes every exit of bb but 0 for a rejection; here bb is one that runs to its
\* verdict, or not at all (RoundTripCannotRun, VerifyCannotRun).
Verdict(id, prf) ==
  IF vkStore[id] = Absent THEN "wrongKey"
  ELSE IF vkStore[id] = Torn THEN "internal"
  ELSE IF vkStore[id] = prf.circuit /\ prf.sound THEN "verified" ELSE "invalid"

Init ==
  /\ target \in Bytecodes \cup {Absent}
  /\ pinned \in Bytecodes \cup {Absent}
  /\ manifest = pinned
  /\ vkStore = [b \in Bytecodes |-> Absent]
  /\ pc = [p \in Provers |-> "idle"]
  /\ artifact = [p \in Provers |-> Absent]
  /\ witness = [p \in Provers |-> Absent]
  /\ proof = [p \in Provers |-> NoProof]
  /\ outcome = [p \in Provers |-> "none"]
  /\ gpc = [g \in Generators |-> "idle"]
  /\ pinning = [g \in Generators |-> Absent]
  /\ released = {}
  /\ verdicts = {}
  /\ faults = 0

-----------------------------------------------------------------------------
(* circuits compile *)

\* nargo compiles whatever the source is now; the developer may have edited
\* it since the last compilation.
Compile(b) ==
  /\ target # b
  /\ target' = b
  /\ UNCHANGED <<pinned, manifest, vkStore, proverVars, genVars, outside, faults>>

-----------------------------------------------------------------------------
(* artifacts generate: bytecode first, manifest second, two plain writes *)

GeneratorStep(g, from, to) ==
  /\ gpc[g] = from
  /\ gpc' = [gpc EXCEPT ![g] = to]
  /\ UNCHANGED <<target, vkStore, proverVars, outside, faults>>

\* Mutant: a bytecode file that exists is not written again.
ReadTargetSkipping(g) ==
  /\ ConcurrentRepin \/ ProversIdle
  /\ target # Absent
  /\ pinning' = [pinning EXCEPT ![g] = target]
  /\ GeneratorStep(g, "idle", IF pinned = Absent THEN "bytes" ELSE "manifest")
  /\ UNCHANGED <<pinned, manifest>>

\* The compiled bytecode is read once; its bytes and its digest are used below.
ReadTarget(g) ==
  /\ ConcurrentRepin \/ ProversIdle
  /\ target # Absent
  /\ pinning' = [pinning EXCEPT ![g] = target]
  /\ GeneratorStep(g, "idle", "bytes")
  /\ UNCHANGED <<pinned, manifest>>

TruncateBytecode(g) ==
  /\ pinned' = Torn
  /\ GeneratorStep(g, "bytes", "bytesOpen")
  /\ UNCHANGED <<manifest, pinning>>

WriteBytecode(g) ==
  /\ pinned' = pinning[g]
  /\ GeneratorStep(g, "bytesOpen", "manifest")
  /\ UNCHANGED <<manifest, pinning>>

TruncateManifest(g) ==
  /\ manifest' = Torn
  /\ GeneratorStep(g, "manifest", "manifestOpen")
  /\ UNCHANGED <<pinned, pinning>>

WriteManifest(g) ==
  /\ manifest' = pinning[g]
  /\ pinning' = [pinning EXCEPT ![g] = Absent]
  /\ GeneratorStep(g, "manifestOpen", "idle")
  /\ UNCHANGED pinned

-----------------------------------------------------------------------------
(* prove: UltraHonkProvider::generate, then the mandatory round trip *)

\* Prover p moves from one program point to the next; of the disk it can only
\* change the key store.
Step(p, from, to) ==
  /\ pc[p] = from
  /\ pc' = [pc EXCEPT ![p] = to]
  /\ UNCHANGED <<target, pinned, manifest, genVars, verdicts, faults>>

\* Prover p's invocation is over, and its locals with it.
End(p, how) ==
  /\ outcome' = [outcome EXCEPT ![p] = how]
  /\ artifact' = [artifact EXCEPT ![p] = Absent]
  /\ witness' = [witness EXCEPT ![p] = Absent]
  /\ proof' = [proof EXCEPT ![p] = NoProof]

\* Prover p returns an error and hands nothing out.
Fail(p, from, how) ==
  /\ Step(p, from, "idle")
  /\ End(p, how)
  /\ UNCHANGED <<vkStore, released>>

\* Prover p is stopped by its environment, wherever it is in `froms`.
Halt(p, froms, how) ==
  /\ pc[p] \in froms
  /\ faults < MaxFaults
  /\ faults' = faults + 1
  /\ pc' = [pc EXCEPT ![p] = "idle"]
  /\ End(p, how)
  /\ UNCHANGED <<disk, genVars, outside>>

StartProve(p) ==
  /\ ConcurrentRepin \/ GeneratorsIdle
  /\ Step(p, "idle", "manifest")
  /\ outcome' = [outcome EXCEPT ![p] = "none"]
  /\ UNCHANGED <<vkStore, artifact, witness, proof, released>>

\* Mutant: whatever the file holds is taken for a manifest.
ReadManifestUnparsed(p) ==
  /\ Step(p, "manifest", "bytecode")
  /\ manifest # Absent
  /\ artifact' = [artifact EXCEPT ![p] = manifest]
  /\ UNCHANGED <<vkStore, witness, proof, outcome, released>>

ReadManifest(p) ==
  \/ /\ Step(p, "manifest", "bytecode")
     /\ manifest \in Bytecodes
     /\ artifact' = [artifact EXCEPT ![p] = manifest]
     /\ UNCHANGED <<vkStore, witness, proof, outcome, released>>
  \/ manifest = Absent /\ Fail(p, "manifest", "unavailable")
  \/ manifest = Torn /\ Fail(p, "manifest", "integrity")

\* Mutant: the digest is not compared.
LoadBytecodeUnchecked(p) ==
  /\ Step(p, "bytecode", "witness")
  /\ pinned \in Bytecodes
  /\ UNCHANGED <<vkStore, artifact, witness, proof, outcome, released>>

\* The loader reads the declared file and compares its digest.
LoadBytecode(p) ==
  \/ /\ Step(p, "bytecode", "witness")
     /\ pinned = artifact[p]
     /\ UNCHANGED <<vkStore, artifact, witness, proof, outcome, released>>
  \/ /\ pinned # artifact[p]
     /\ Fail(p, "bytecode", IF pinned = Absent THEN "unavailable" ELSE "integrity")

\* nargo executes the bytecode in circuits/target, not the pinned one; a
\* missing file or an unsatisfied witness ends the invocation.
SolveWitness(p) ==
  \/ /\ Step(p, "witness", "prove")
     /\ target # Absent
     /\ witness' = [witness EXCEPT ![p] = target]
     /\ UNCHANGED <<vkStore, artifact, proof, outcome, released>>
  \/ Fail(p, "witness", "generation")

\* Mutant: bb is given the compiled file instead of the pinned one.
BbProveTarget(p) ==
  /\ Step(p, "prove", "truncate")
  /\ target \in Bytecodes
  /\ \E s \in BOOLEAN :
       /\ witness[p] = target => s
       /\ proof' = [proof EXCEPT ![p] = [circuit |-> target, sound |-> s]]
  /\ UNCHANGED <<vkStore, artifact, witness, outcome, released>>

\* bb opens the pinned file by its path and writes proof and key for what it
\* finds there.  A witness solved for other bytecode may or may not satisfy it.
BbProve(p) ==
  \/ /\ Step(p, "prove", "truncate")
     /\ pinned \in Bytecodes
     /\ \E s \in BOOLEAN :
          /\ witness[p] = pinned => s
          /\ proof' = [proof EXCEPT ![p] = [circuit |-> pinned, sound |-> s]]
     /\ UNCHANGED <<vkStore, artifact, witness, outcome, released>>
  \/ Fail(p, "prove", "generation")

\* Mutant: the old key is removed before the new one is written.
TruncateKeyRemoving(p) ==
  /\ Step(p, "truncate", "store")
  /\ vkStore' = [vkStore EXCEPT ![artifact[p]] = Absent]
  /\ UNCHANGED <<artifact, witness, proof, outcome, released>>

\* VkStore::put is one std::fs::write: truncate, then fill.
TruncateKey(p) ==
  /\ Step(p, "truncate", "store")
  /\ vkStore' = [vkStore EXCEPT ![artifact[p]] = Torn]
  /\ UNCHANGED <<artifact, witness, proof, outcome, released>>

\* Mutant: the key is still buffered when the round trip starts.
StoreKeyUnflushed(p) ==
  /\ Step(p, "store", "roundTrip")
  /\ UNCHANGED <<vkStore, artifact, witness, proof, outcome, released>>

StoreKey(p) ==
  /\ Step(p, "store", "roundTrip")
  /\ vkStore' = [vkStore EXCEPT ![artifact[p]] = proof[p].circuit]
  /\ UNCHANGED <<artifact, witness, proof, outcome, released>>

\* An I/O error opening or filling the key file; the file stays as it is.
StoreFails(p) == Halt(p, {"truncate", "store"}, "generation")

\* Mutant: the proof is handed out without its round trip.
RoundTripSkipped(p) ==
  /\ Step(p, "roundTrip", "idle")
  /\ End(p, "released")
  /\ released' = released \cup {[artifact |-> artifact[p], proof |-> proof[p]]}
  /\ UNCHANGED vkStore

\* prove_and_verify: only a verified proof leaves the service.
RoundTrip(p) ==
  \/ /\ Step(p, "roundTrip", "idle")
     /\ Verdict(artifact[p], proof[p]) = "verified"
     /\ End(p, "released")
     /\ released' = released \cup {[artifact |-> artifact[p], proof |-> proof[p]]}
     /\ UNCHANGED vkStore
  \/ /\ Fail(p, "roundTrip", "notVerified")
     /\ Verdict(artifact[p], proof[p]) \in {"wrongKey", "invalid"}
  \/ /\ Fail(p, "roundTrip", "internal")
     /\ Verdict(artifact[p], proof[p]) = "internal"

\* bb has gone, is of another version, or there is no directory for its files:
\* an error of the verifier, whatever the proof is.
RoundTripCannotRun(p) == Halt(p, {"roundTrip"}, "internal")

Prove(p) ==
  \/ ReadManifest(p) \/ LoadBytecode(p) \/ SolveWitness(p) \/ BbProve(p)
  \/ TruncateKey(p) \/ StoreKey(p) \/ StoreFails(p)
  \/ RoundTrip(p) \/ RoundTripCannotRun(p)

Generate(g) ==
  \/ TruncateBytecode(g) \/ WriteBytecode(g)
  \/ TruncateManifest(g) \/ WriteManifest(g)

-----------------------------------------------------------------------------
(* verify, and crashes *)

VerifyEnvelope(e) ==
  /\ verdicts' = verdicts \cup {Verdict(e.artifact, e.proof)}
  /\ UNCHANGED <<disk, proverVars, genVars, released, faults>>

\* The same errors, met by a later `verify`.
VerifyCannotRun ==
  /\ released # {}
  /\ faults < MaxFaults
  /\ faults' = faults + 1
  /\ verdicts' = verdicts \cup {"internal"}
  /\ UNCHANGED <<disk, proverVars, genVars, released>>

\* A killed process leaves the disk as it is.
CrashProver(p) == Halt(p, ProverSteps \ {"idle"}, "crashed")

CrashGenerator(g) ==
  /\ gpc[g] # "idle"
  /\ faults < MaxFaults
  /\ faults' = faults + 1
  /\ gpc' = [gpc EXCEPT ![g] = "idle"]
  /\ pinning' = [pinning EXCEPT ![g] = Absent]
  /\ UNCHANGED <<disk, proverVars, outside>>

Next ==
  \/ \E b \in Bytecodes : Compile(b)
  \/ \E g \in Generators : ReadTarget(g) \/ Generate(g) \/ CrashGenerator(g)
  \/ \E p \in Provers : StartProve(p) \/ Prove(p) \/ CrashProver(p)
  \/ \E e \in released : VerifyEnvelope(e)
  \/ VerifyCannotRun

Spec == Init /\ [][Next]_vars

\* A process that was started and not killed keeps running; nobody has to
\* start one, compile or verify.
Fairness ==
  /\ \A p \in Provers : WF_vars(Prove(p))
  /\ \A g \in Generators : WF_vars(Generate(g))

FairSpec == Spec /\ Fairness

-----------------------------------------------------------------------------
(* Properties *)

TypeOK ==
  /\ target \in Bytecodes \cup {Absent}
  /\ pinned \in FileContents
  /\ manifest \in FileContents
  /\ vkStore \in [Bytecodes -> FileContents]
  /\ pc \in [Provers -> ProverSteps]
  /\ artifact \in [Provers -> Bytecodes \cup {Absent}]
  /\ witness \in [Provers -> Bytecodes \cup {Absent}]
  /\ proof \in [Provers -> Proofs \cup {NoProof}]
  /\ outcome \in [Provers -> Outcomes]
  /\ gpc \in [Generators -> GeneratorSteps]
  /\ pinning \in [Generators -> Bytecodes \cup {Absent}]
  /\ released \subseteq Envelopes
  /\ verdicts \subseteq Verdicts
  /\ faults \in 0..MaxFaults

\* "bb consumes the file at its verified path; the loader has already proven
\* those bytes match the manifest": the proof in a released envelope was made
\* for the very bytecode whose checksum the envelope carries, whatever was
\* compiled, re-pinned, torn or killed before.  It needs the file to stay put
\* between the loader's read and bb's.
ProvenIsPinned == \A e \in released : e.proof.circuit = e.artifact

\* The verification-key store never holds, under the id of one artifact, the
\* key of another: ids are stamped from the checksum the loader read, keys come
\* from what bb read later.
KeysMatchIds ==
  \A b \in Bytecodes : vkStore[b] \in {Absent, Torn, b}

\* An envelope that passed its round trip is never rejected afterwards, by
\* `verify` runs that see the store between the steps of other provers, after
\* re-pins and after crashes; the worst it meets is a key file being rewritten.
NeverRejectedLater == verdicts \subseteq {"verified", "internal"}

\* The pipeline implements ProofService: what callers see of it are releases of
\* honest envelopes and checks that never reject one.
Service == INSTANCE ProofService WITH Artifacts <- Bytecodes
ImplementsService == Service!Spec

\* A round trip ends in VerifierError, instead of a verdict, only because
\* another prover is rewriting the same key at that moment, or there is a fault:
\* one that left the key half-written earlier, or keeps the verifier from running
\* now.  A prover that runs alone never meets its own torn key.
SpuriousErrorHasACause ==
  [][\A p \in Provers :
       outcome[p] # "internal" /\ outcome'[p] = "internal"
       => \/ \E q \in Provers \ {p} : pc[q] = "store" /\ artifact[q] = artifact[p]
          \/ faults' > 0]_vars

\* After the last fault, a generate that is running brings the pin back to a
\* state the strict loader accepts, whatever torn mixture it started from.
RerunRepairs ==
  \A g \in Generators : (faults = MaxFaults /\ gpc[g] # "idle") ~> PinLoads

=============================================================================
