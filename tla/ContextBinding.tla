-------------------------- MODULE ContextBinding --------------------------
(***************************************************************************)
(* What a proof is bound to.  Providers answer requests made against a     *)
(* snapshot of the ledger's state; the ledger moves on; callers submit the *)
(* proofs with whatever context they then expect, and the two verifiers    *)
(* decide.  The mock prover embeds its context in the proof and the mock   *)
(* verifier compares it field by field; the UltraHonk verifier sees a key  *)
(* id, the words bb checks the proof against, and nothing else.            *)
(*                                                                         *)
(* Public inputs and outputs are bags: lists of named words, in which two   *)
(* entries stand for all: the root halves, taken together, and the other   *)
(* words under their other names.  Requests come through ProverService,    *)
(* whose preflight they pass; their private witness is WitnessNaming's.    *)
(* The key stored under an id is the one bb writes for the id's artifact   *)
(* (ProofPipeline, KeysMatchIds).  Verifying changes no state, so it is an *)
(* operator, evaluated in every state on every submission that can be put  *)
(* together from what is in circulation.                                   *)
(***************************************************************************)
EXTENDS Naturals, FiniteSets, Sequences

CONSTANTS
  Bound,        \* circuits bound to a state: merge, transfer, withdraw
  Unbound,      \* circuits that are not: register, deposit
  Versions,     \* circuit versions a request can ask for
  Supported,    \* those with a row in UltraHonk's compatibility matrix
  Builds,       \* builds of a circuit that have been pinned
  Roots,        \* state roots; the ledger may return to an earlier one
  Values,       \* what the public words other than the root say
  None,         \* an absent word or state reference
  MaxSequence,  \* bound: ledger advances in one behaviour
  MaxResponses  \* bound: proofs in circulation

ASSUME ContextAssumption ==
  /\ Bound \cap Unbound = {}
  /\ None \notin Roots \cup Values
  /\ None \notin [root : Roots, sequence : Nat]
  /\ Builds \cap Versions = {}
  \* The matrix has one row.  Artifacts do not carry a version of their own: a
  \* second row would give one key two ids, and AcceptedInContext would fail.
  /\ \A v, w \in Supported : v = w
  /\ MaxSequence \in Nat
  /\ MaxResponses \in Nat

VARIABLES
  ledger,       \* the state reference of the ledger now
  responses,    \* what the providers returned: proof and context
  keyStore      \* the key ids that the UltraHonk verifier's store resolves

vars == <<ledger, responses, keyStore>>

-----------------------------------------------------------------------------
(* Values *)

Circuits == Bound \cup Unbound
Backends == {"mock", "ultrahonk"}

StateReferences == [root : Roots, sequence : 0..MaxSequence]

\* Compiled artifacts of different circuits differ; the mock's checksum is a
\* function of circuit and version.
Artifacts == [circuit : Circuits, build : Builds \cup Versions]

\* An entry of a bag.  The names other than those of the root halves are one.
Names == {"root", "other"}

Entries == [name : Names, word : Roots \cup Values]

\* The bag with a root and a value, of which either may be absent.
Bag(root, value) ==
  (IF root = None THEN <<>> ELSE <<[name |-> "root", word |-> root]>>)
    \o (IF value = None THEN <<>> ELSE <<[name |-> "other", word |-> value]>>)

Named(bag, name) == {i \in DOMAIN bag : bag[i].name = name}

\* The first word under a name.  Inserting refuses a second; parsing does not.
Get(bag, name) ==
  IF Named(bag, name) = {} THEN None
  ELSE bag[CHOOSE i \in Named(bag, name) : \A j \in Named(bag, name) : i <= j].word

NamesOf(bag) == [i \in DOMAIN bag |-> bag[i].name]
WordsOf(bag) == [i \in DOMAIN bag |-> bag[i].word]

KeyIds == [circuit : Circuits, version : Versions, artifact : Artifacts]

\* The public context a proof is submitted under.
Contexts ==
  [backend : Backends, circuit : Circuits, version : Versions, keyId : KeyIds,
   artifact : Artifacts,
   outputs : Seq(Entries),
   state : StateReferences \cup {None}]

KeyId(circuit, version, artifact) ==
  [circuit |-> circuit, version |-> version, artifact |-> artifact]

\* Only ids of the `uhk/` scheme do; the mock's do not.
ParsesAsUltraHonk(id) == id.artifact.build \in Builds

\* Mutant: the root words are not compared with the state reference.
ValidRequestUncompared(operation, inputs, state) ==
  /\ inputs # <<>> /\ Get(inputs, "other") # None
  /\ operation \in Bound => state # None /\ Get(inputs, "root") # None

\* ProofRequest::validate and the preflight of ProverService.  They go by the
\* operation of a request, which need not be that of its circuit.
ValidRequest(operation, inputs, state) ==
  /\ inputs # <<>> /\ Get(inputs, "other") # None
  /\ operation \in Bound => state # None /\ Get(inputs, "root") # None
  /\ state # None /\ Get(inputs, "root") # None => Get(inputs, "root") = state.root

-----------------------------------------------------------------------------
(* Verification *)

\* A verifier is a list of checks; the first that fails names the rejection.
FirstFailure(checks) ==
  LET failing == {i \in DOMAIN checks : ~ checks[i].holds}
  IN  IF failing = {} THEN "verified"
      ELSE checks[CHOOSE i \in failing : \A j \in failing : i <= j].otherwise

Check(holds, otherwise) == [holds |-> holds, otherwise |-> otherwise]

\* A mock proof is its own context, covered by a keyed digest.
MockVerify(proof, ctx) ==
  FirstFailure(<<
    Check(proof.backend = "mock" /\ ctx.backend = "mock", "BackendMismatch"),
    Check(proof.circuit = ctx.circuit,                    "CircuitMismatch"),
    Check(proof.version = ctx.version,                    "VersionMismatch"),
    Check(proof.keyId = ctx.keyId,                        "WrongVerificationKey"),
    Check(proof.artifact = ctx.artifact,                  "ArtifactChecksumMismatch"),
    Check(proof.outputs = ctx.outputs,                    "PublicOutputMismatch"),
    Check((proof.state = None) = (ctx.state = None),      "MissingStateBinding"),
    Check(proof.state = ctx.state,                        "StateReferenceMismatch")>>)

\* External: bb accepts a proof under the key of the bytecode it was made with,
\* against the words it was made for.  It is handed the words of the bag in their
\* order; their names it never sees.
BbVerifies(proof, ctx) ==
  /\ proof.artifact = ctx.keyId.artifact
  /\ WordsOf(proof.outputs) = WordsOf(ctx.outputs)

\* The id of the key must be UltraHonk's, agree with the rest of the context, and
\* resolve in the store.  (Mutant: the checksum is not compared.)
KeyChecksNoChecksum(ctx) ==
  <<Check(ParsesAsUltraHonk(ctx.keyId),      "WrongVerificationKey"),
    Check(ctx.keyId.circuit = ctx.circuit,   "CircuitMismatch"),
    Check(ctx.keyId.version = ctx.version,   "VersionMismatch"),
    Check(ctx.keyId \in keyStore,            "WrongVerificationKey")>>

KeyChecks(ctx) ==
  <<Check(ParsesAsUltraHonk(ctx.keyId),      "WrongVerificationKey"),
    Check(ctx.keyId.circuit = ctx.circuit,   "CircuitMismatch"),
    Check(ctx.keyId.version = ctx.version,   "VersionMismatch"),
    Check(ctx.keyId.artifact = ctx.artifact, "ArtifactChecksumMismatch"),
    Check(ctx.keyId \in keyStore,            "WrongVerificationKey")>>

\* Words submitted under the names of the root halves need a state with that
\* root.  (Mutant: any state.)
StateChecksAnyRoot(ctx) ==
  <<Check(Get(ctx.outputs, "root") # None => ctx.state # None, "MissingStateBinding")>>

StateChecks(ctx) ==
  LET root == Get(ctx.outputs, "root")
  IN  <<Check(root # None => ctx.state # None, "MissingStateBinding"),
        Check(root # None /\ ctx.state # None => ctx.state.root = root,
                                               "StateReferenceMismatch")>>

\* `bb` says whether a bb binary of the tested version is on PATH.
BbChecks(proof, ctx, bb) ==
  <<Check(bb,                      "VerificationUnavailable"),
    Check(BbVerifies(proof, ctx),  "InvalidProof")>>

BackendCheck(proof, ctx) ==
  <<Check(proof.backend = "ultrahonk" /\ ctx.backend = "ultrahonk", "BackendMismatch")>>

\* Mutant: the state is looked at only after bb.
UltraHonkVerifyLateState(proof, ctx, bb) ==
  FirstFailure(BackendCheck(proof, ctx) \o KeyChecks(ctx) \o BbChecks(proof, ctx, bb)
                 \o StateChecks(ctx))

UltraHonkVerify(proof, ctx, bb) ==
  FirstFailure(BackendCheck(proof, ctx) \o KeyChecks(ctx) \o StateChecks(ctx)
                 \o BbChecks(proof, ctx, bb))

\* Dispatch on the backend the submission claims, as VerificationService and the
\* `verify` command do.
Verify(proof, ctx, bb) ==
  IF ctx.backend = "mock" THEN MockVerify(proof, ctx) ELSE UltraHonkVerify(proof, ctx, bb)

-----------------------------------------------------------------------------
(* Behaviour *)

Init ==
  /\ ledger \in [root : Roots, sequence : {0}]
  /\ responses = {}
  /\ keyStore = {}

\* External: the ledger moves to its next state, whose root may be an old one.
Advance(root) ==
  /\ ledger.sequence < MaxSequence
  /\ ledger' = [root |-> root, sequence |-> ledger.sequence + 1]
  /\ UNCHANGED <<responses, keyStore>>

\* The same request can be proven again at any time.
Respond(ctx) ==
  /\ Cardinality(responses \cup {ctx}) <= MaxResponses
  /\ responses' = responses \cup {ctx}
  /\ UNCHANGED ledger

\* MockProver: the outputs are the request's public inputs.
MockGenerate(operation, circuit, version, inputs, state) ==
  LET artifact == [circuit |-> circuit, build |-> version]
  IN  /\ ValidRequest(operation, inputs, state)
      /\ Respond([backend |-> "mock", circuit |-> circuit, version |-> version,
                  keyId |-> KeyId(circuit, version, artifact), artifact |-> artifact,
                  outputs |-> inputs, state |-> state])
      /\ UNCHANGED keyStore

\* UltraHonkProvider: the outputs are the words of the proof, which are the values
\* that nargo took from the request, under the names of the operation.  A circuit
\* with another number of words is refused; two of the same number are bound or
\* not alike, and have the root at the same place.
Surface(circuit, inputs) ==
  Bag(IF circuit \in Bound THEN Get(inputs, "root") ELSE None, Get(inputs, "other"))

SameWordCount(operation, circuit) == operation \in Bound <=> circuit \in Bound

\* Mutant: the key is filed under the bare checksum.
UltraHonkGenerateByChecksum(operation, circuit, version, build, inputs, state) ==
  LET artifact == [circuit |-> circuit, build |-> build]
  IN  /\ version \in Supported
      /\ ValidRequest(operation, inputs, state)
      /\ SameWordCount(operation, circuit)
      /\ Respond([backend |-> "ultrahonk", circuit |-> circuit, version |-> version,
                  keyId |-> KeyId(circuit, version, artifact), artifact |-> artifact,
                  outputs |-> Surface(circuit, inputs), state |-> state])
      /\ keyStore' \in {keyStore, keyStore \cup {artifact}}

\* The key goes to the prover's store, which the verifier may share or not.
UltraHonkGenerate(operation, circuit, version, build, inputs, state) ==
  LET artifact == [circuit |-> circuit, build |-> build]
      id       == KeyId(circuit, version, artifact)
  IN  /\ version \in Supported
      /\ ValidRequest(operation, inputs, state)
      /\ SameWordCount(operation, circuit)
      /\ Respond([backend |-> "ultrahonk", circuit |-> circuit, version |-> version,
                  keyId |-> id, artifact |-> artifact,
                  outputs |-> Surface(circuit, inputs), state |-> state])
      /\ keyStore' \in {keyStore, keyStore \cup {id}}

Next ==
  \/ \E root \in Roots : Advance(root)
  \/ \E operation, c \in Circuits, v \in Versions, root \in Roots \cup {None},
        value \in Values \cup {None}, state \in {None, ledger} :
       LET inputs == Bag(root, value)
       IN  \/ MockGenerate(operation, c, v, inputs, state)
           \/ \E b \in Builds : UltraHonkGenerate(operation, c, v, b, inputs, state)

Spec == Init /\ [][Next]_vars

-----------------------------------------------------------------------------
(* Properties *)

\* The bags that can be made of the words of two proofs: under whatever names,
\* dropped, repeated, in another order, or mixed.
Bags(own, other) ==
  LET words == {own.outputs[i].word : i \in DOMAIN own.outputs}
                 \cup {other.outputs[i].word : i \in DOMAIN other.outputs}
  IN  UNION {[1..n -> [name : Names, word : words]] : n \in 0..2}

\* The contexts under which a proof can be submitted: every field is its own or
\* that of another proof in circulation, or all are its own but the words, which
\* are any; the state may also be the ledger's, or stripped.
Submissions(own) ==
  UNION {   [backend : {own.backend, o.backend}, circuit : {own.circuit, o.circuit},
             version : {own.version, o.version}, keyId : {own.keyId, o.keyId},
             artifact : {own.artifact, o.artifact}, outputs : {own.outputs, o.outputs},
             state : {own.state, o.state, ledger, None}]
       \cup [backend : {own.backend}, circuit : {own.circuit}, version : {own.version},
             keyId : {own.keyId}, artifact : {own.artifact}, outputs : Bags(own, o),
             state : {own.state, o.state, ledger, None}]
         : o \in responses}

\* Proofs whose key the verifier can resolve; the mock needs none.
Resolvable == {proof \in responses : proof.backend = "mock" \/ proof.keyId \in keyStore}

TypeOK ==
  /\ ledger \in StateReferences
  /\ responses \subseteq Contexts
  /\ keyStore \subseteq KeyIds

\* "The verifier answers whether the proof is valid for exactly that context":
\* whatever is submitted, an accepted proof was made by that backend, for that
\* circuit, version, key and artifact, and for those words in that order.  The
\* mock's context is the proof's in every field.  UltraHonk's state has the root
\* that the proof is bound to as long as the words come under the proof's names:
\* the verifier finds the root by its name, and under another no state is asked for.
AcceptedInContext ==
  \A proof \in responses : \A ctx \in Submissions(proof) :
    Verify(proof, ctx, TRUE) = "verified" =>
      /\ \A field \in {"backend", "circuit", "version", "keyId", "artifact"} :
           proof[field] = ctx[field]
      /\ WordsOf(proof.outputs) = WordsOf(ctx.outputs)
      /\ proof.backend = "mock" => ctx = proof
      /\ /\ proof.backend = "ultrahonk" /\ proof.circuit \in Bound
         /\ NamesOf(proof.outputs) = NamesOf(ctx.outputs)
         => ctx.state # None /\ ctx.state.root = proof.state.root

\* An untouched submission of a proof with a root and a state, against the ledger
\* as it is now after its root has moved, is rejected as stale by both verifiers,
\* and for no other reason, also where bb is not installed.
StaleIsReportedAsStale ==
  \A proof \in Resolvable, bb \in BOOLEAN :
    Get(proof.outputs, "root") # None /\ proof.state # None /\ proof.state.root # ledger.root =>
      Verify(proof, [proof EXCEPT !.state = ledger], bb) = "StateReferenceMismatch"

\* What a provider returns verifies under its own context, however the ledger
\* and the other provider moved on; only an unknown key or a missing bb prevents
\* it, and each is reported as what it is.
HonestProofVerifies ==
  \A proof \in responses, bb \in BOOLEAN :
    Verify(proof, proof, bb) =
      IF proof \notin Resolvable THEN "WrongVerificationKey"
      ELSE IF proof.backend = "ultrahonk" /\ ~bb THEN "VerificationUnavailable"
      ELSE "verified"

\* "The mock exercises the same rejection paths": on one submission of an
\* UltraHonk proof, and of the mock proof with the same context, the two
\* verifiers accept the same, as long as the words come under the proof's names
\* and the state references agree in what the words do not carry.  The mock
\* compares both; the UltraHonk verifier sees neither.
MockMirrorsUltraHonk ==
  \A proof \in responses : \A ctx \in Submissions(proof) :
    LET AsMock(c) == [c EXCEPT !.backend = "mock"]
    IN  proof.backend = "ultrahonk" /\ ctx.backend = "ultrahonk" /\ ctx.keyId \in keyStore
          /\ NamesOf(proof.outputs) = NamesOf(ctx.outputs)
          /\ (proof.circuit \in Unbound => ctx.state = proof.state)
          /\ (ctx.state # None /\ proof.state # None /\ ctx.state.root = proof.state.root
                => ctx.state.sequence = proof.state.sequence)
        => (UltraHonkVerify(proof, ctx, TRUE) = "verified")
             = (MockVerify(AsMock(proof), AsMock(ctx)) = "verified")

\* "Binding proofs to a (root, sequence) pair is what makes stale-state and
\* replay attacks detectable"; "different sequences are different states".  The
\* UltraHonk verifier compares the root halves only.
SequenceIsBound ==
  \A proof \in responses :
    proof.circuit \in Bound /\ proof.state # ledger =>
      Verify(proof, [proof EXCEPT !.state = ledger], TRUE) # "verified"

=============================================================================
