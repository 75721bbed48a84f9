# A TLA+ development of crucible-prover

crucible-prover turns confidential-token operations (register, deposit, merge, transfer, withdraw) into
zero-knowledge proofs. Five Noir circuits say which proofs exist; a Rust workspace pins their compiled bytecode,
solves witnesses with `nargo`, makes and checks proofs with `bb` (UltraHonk), and wraps both in a proving service and
a verification service. A mock backend stands in for `bb` in tests.

The modules in this directory model the parts of it whose correctness depends on an order of steps, on files that
several processes share, or on contexts that can be mixed. TLC checks them on small instances; TLAPS proves
every safety property that the runs check, for every instance.

## 1. Inventory

| Component | State it keeps | Operations | Interacts through |
|---|---|---|---|
| UltraHonk provider (`crates/ultrahonk/src/provider.rs`, `exec.rs`) | none between calls; scratch directories | `generate`: strict load, solve, `bb prove`, store key, respond | the pinned artifact, `circuits/target`, the key store, `nargo` and `bb` processes |
| Verification-key store (`ultrahonk/src/store.rs`, `vk.rs`) | one file per key id | `put`, `get`, id stamping and parsing | written by every prover, read by every verifier |
| Artifact pinning and loading (`cli/src/commands/artifacts.rs`, `crates/artifacts`) | bytecode file and manifest of each circuit | `generate`, `check`, `inspect`, `load` | files, unlocked, read by provers |
| Proving service (`crates/prover-core`, `interfaces/src/prover`) | provider registry, local verifier | `register`, `with_local_verifier`, `prove`, `prove_and_verify` | calls providers and the verifier; `Box<dyn Prover>` |
| Requests, responses, envelopes (`interfaces`, `crates/proof-types`) | values | `validate`, assembly | everything |
| UltraHonk verifier (`ultrahonk/src/verifier.rs`) | the store | `verify` | key store, `bb` |
| Mock backend (`crates/mock`) | sealing key | `generate`, `verify` | as the real one |
| Verification service (`crates/verifier`) | registered verifiers | `register`, `verify`, `verify_all` | calls verifiers |
| Operation circuits (`circuits/*/src/main.nr`, `circuits/lib`) | none | five `main`s | a ledger outside the repository |
| Noir toolchain (`crates/noir`) | none | `compile`, `execute`, `info` | `circuits/target` |
| Command line (`cli/src`) | none | `prove`, `verify`, `circuits compile`, `artifacts` | starts the processes that share the files |
| Witness assembly (`crates/witness`, `prover-core/src/witness.rs`) | bags of named values | assemble, validate, encode, decode | the request, `Prover.toml` |
| Transcript (`prover-core/src/transcript.rs`) | a log file; a buffer per writer | append one entry, buffer entries, flush, drop, discard | several processes may append to one file |
| Encodings (`calldata.rs`, `public_inputs.rs`) | none | byte layouts | verifier contracts |
| Test vectors and the commands over them (`crates/vectors`, `cli/src/commands/vectors.rs`, `witness.rs`) | JSON files written by hand | load, validate, make a request; `vectors run`, `witness build`, `prove` | the request, the mock stack, `Prover.toml` |
| Benchmarks, gadgets | none | sequential runners | — |

What is hard here, and what makes each part right:

* **Unlocked files.** `prove`, `artifacts generate`, `circuits compile` and `verify` are separate processes over the
  same files; nothing is locked and nothing is renamed into place (`std::fs::write` truncates, then fills). Right
  means: an envelope carries the checksum of the bytecode that was proven; the key store never resolves an id to
  another artifact's key; a proof accepted once is not rejected later; a rerun repairs what a kill tore.
* **Mixed contexts.** A submission is a proof plus a context, and the context's fields may come from anywhere. Right
  means: accepted only in the context it was made in, stale reported as stale, and the mock — which most tests run
  on — decides as the real verifier does.
* **Delayed, repeated, reordered proofs.** A proof is made against a snapshot and arrives at the ledger later.
  Right means: value is conserved, a note is spent once and by its owner, honest owners are never locked out.
* **Replacement between calls, and one part failing among several.** Right means: the latest provider serves, no
  unverified proof is returned as verified, "all verifiers agree" means all of them.
* **Checks in several places.** A vector passes a loader, a request validation, the service's preflight, the encoder
  and a circuit, each of which checks names for itself. Right means: what an earlier one lets through the later ones
  do not stumble over, and no mistake of an author or a developer makes them name a value wrongly.
* **Buffers.** A transcript's lines reach the file late and in pieces. Right means: in order, never twice, and there
  once promised.

`PROJECT.json` lists each hazard at its line with the properties that would catch it, or why none does.

## 2. Plan

| Order | Module | Models | Status |
|---|---|---|---|
| 1 | `ProofPipeline` | provider, key store, pinning, loader, as processes over shared files | done |
| 2 | `ProofService` | what the pipeline promises to callers (abstract) | done; refined by 1 |
| 3 | `ProofPipelineProofs` | theorems about 1, and that it implements 2 | done |
| 4 | `ContextBinding` | both verifiers over mixed contexts, a moving ledger | done |
| 5 | `ConfidentialLedger`, `BalanceSheet` | five circuits composed with an external ledger; the balances it stands for (abstract) | done; the first implements the second |
| 6 | `ProverService` | registry, round trip, error mapping, boxing | done |
| 7 | `VerificationService` | several verifiers per backend | done |
| 8 | `WitnessNaming` | bags, expectations, validation, `Prover.toml`, naming of public words, drifting circuits | done |
| 9 | `ArtifactLoading` | all circuits: `generate`, `check` and the loader over files that move | done |
| 10 | `Transcript`, `EventLog` | appending, buffering and discarding writers; what a log promises (abstract) | done; the first implements the second |
| 11 | `VectorCatalog` | vectors with mistakes, and the commands over them; extends 8 | done |
| 12 | `ConfidentialLedgerProofs` | theorems about 5, and that it implements the sheet | done |
| 13 | `ArtifactLoadingProofs` | theorems about 9 | done |
| 14 | `ContextBindingProofs` | theorems about 4 | done |
| 15 | `VerifierPort`, `Subsequences`, `DataTheorems` | what the two services share; what `retain` and `filter` leave; lemmas about sums, powers of two, parts of sequences | done |
| 16 | `ServiceProofs` | theorems about 6 and 7 | done |
| 17 | `TranscriptProofs` | theorems about 10, and that it implements the log | done |
| 18 | `WitnessNamingProofs` | theorems about 8 and 11 | done |

Left: calldata and public-input encodings as operators with a round-trip property, the toolchain's version
gates, and the witness decoder.

## 3. Modules and code

**`ProofPipeline`** is one circuit (files of different circuits are disjoint). Its variables are the files `target`
(`circuits/target/<op>.json`), `pinned`, `manifest`, `vkStore`; a program counter and locals for each `prove` and each
`artifacts generate` process; and what callers saw: `released` envelopes and `verdicts`. Every file read and write of
the code is a step of its own; a write is two (truncate, fill). A digest and a key are named by their bytecode, so
that comparing checksums is comparing bytecodes.

| Code | Action |
|---|---|
| `circuits compile` | `Compile` |
| `artifacts generate`: read the bytecode, hash it, write both files | `ReadTarget`, `TruncateBytecode`, `WriteBytecode`, `TruncateManifest`, `WriteManifest` |
| `ArtifactLoader::load` (manifest, then bytecode and digest) | `ReadManifest`, `LoadBytecode` |
| `solve_witness` — on the compiled file, not on the pinned one | `SolveWitness` |
| `exec::prove` — bb opens the pinned file by its path | `BbProve` |
| `VkStore::put` | `TruncateKey`, `StoreKey`, `StoreFails` |
| `prove_and_verify_core` | `RoundTrip` |
| `verify` | `VerifyEnvelope` |
| a kill | `CrashProver`, `CrashGenerator` |
| a verifier without bb, or without a scratch directory | `RoundTripCannotRun`, `VerifyCannotRun` |

All failures of the tools end in one outcome, `generation`. `exec::verify` takes every exit of bb but 0 for a rejection;
here bb either runs to its verdict or not at all, and the second is a fault like a kill. The command line always asks
for the round trip; the `Prover::prove` call that skips it is in `ProverService`. `ConcurrentRepin` says whether the
operator may run `artifacts generate` while a prover runs; nothing in the code prevents it.

**`ArtifactLoading`** has all circuits, each with a directory: `manifest`, and `files` at numbered paths. A path is its
rank in the sorted list of a manifest, 1 the bytecode, the others what a hand may put there; 0 is any path that
`is_safe_relative_path` refuses. `ProofPipeline` looks at one circuit and at what is proven from it; this module looks
at the directories, and at commands that go through several of them.

| Code | Action |
|---|---|
| `artifacts generate` for one operation or all | `StartGenerate`, `ReadTarget`, `TargetMissing`, `TruncateBytecode`, `WriteBytecode`, `TruncateManifest`, `WriteManifest` |
| `ArtifactManifest::parse` | `ReadManifest` |
| `walk_files`, in strict mode | `List` |
| the loop over the declared files | `ReadFile`, one file a step |
| the return to `check`, `inspect`, or a prover | `Return`, and `Conclude` for each error |
| recompilation, edits by hand, kills and failed writes | `Compile`, `EditManifest`, `EditFile`, `GeneratorDies` |

The listing of a directory is one step. Two entries of one path in a manifest, and a manifest that the caller hands
over, are left out. `disturbed`, `alone`, `quiet` and `appeared` are history: a directory that was edited, left by a
dead generator or written by two; a generator that had its directory for itself; a load that nothing moved under; and
the files that came up during it.

**`ContextBinding`** has the ledger's state reference, the responses in circulation, and the ids the verifier's store
resolves (`responses`, `keyStore`). Public inputs and outputs are bags as in the code, lists of named words; two names
stand for all, `root` for the two halves of the root and `other` for the rest. The two verifiers are operators: ordered
lists of checks of which the first that fails names the rejection, as the early returns of `verify` do. The UltraHonk
verifier looks for the root under its name (`Get`) and hands bb the words without their names (`WordsOf`); a submission
may have any bag of the words in circulation (`Bags`). `MockGenerate` and `UltraHonkGenerate` are the providers with the
request validation, which goes by the operation of a request and not by its circuit; `Advance` is the ledger.
`StateReference.label` is left out; neither verifier treats it differently from the sequence number.

**`ConfidentialLedger`** has an action per circuit, `ProveDeposit`, `ProveMerge`, `ProveTransfer`, `ProveWithdraw`,
whose guards are the constraints of its `main`, and `Register`. `Submit` and `Snapshot` are the ledger, which is not in
the repository: it is what the circuits' comments say of it (it attaches commitments, records each nullifier once, wants
the current root). `DropsSpent` says whether it also forgets consumed commitments, which they leave open. An amount is a
field element, a cast to `u64` keeps its low word (`Word`) and constrains nothing: that is what Noir does,
although `range.nr` says otherwise. So the range checks and the differences are of low words, sums are of low
words and written back as fields, and a transfer commits its recipient's note to the amount itself. The amounts of
deposit and withdraw are witnesses, as in the code. Hashes are their preimages, so no two collide. **`BalanceSheet`** is
what all of it stands for: accounts, what each holds of a token, and the orders that were carried out. A balance is
mapped to the sum of the low words of the account's notes, an accepted proof to the order of the account whose secret is
in its nullifiers; making a proof changes nothing, and a merge is a deposit of nothing.

**`ProverService`** is `ProverService` with `ProviderRegistry`: registration replaces, a call dispatches on the
backend, the round trip asks the local verifier. `BoxedProveAndVerify` is the call through `Box<dyn Prover>`, which
runs the trait's default. `latest` is a history variable. `VerificationService` runs a submission through every
verifier of the backend it claims; `said` in its answer is a history of what each answered. Labels are left out.
Both services keep their verifiers behind the same trait (`VerifierPort`), and both use `Only` of `Subsequences`, what a
`retain` or a `filter` leaves of a vector.

**`WitnessNaming`** follows names. `request` is an operation, a circuit and the names in the two bags (`WithPublic`,
`WithPrivate` add one; a name that is there is refused), `target` the interface of the circuit as compiled, which nargo
solves, `pinned` its interface as pinned, which bb proves, `answer` what proving gave. `Refuse` is the service's
preflight, `SolveFails`, `Prove` and `ProveElsewhere` are the provider: encode `Prover.toml`, let nargo look up the
compiled circuit's parameters by name, take bb's words (public parameters, then returns), compare their number with the
table of expectations, and pair them with its names. In `ProveElsewhere` the two interfaces differ: bb reads the witness
by place, the words are those at the places of the pinned circuit, and the proof does not verify. The table
(`Expectations`) and the five interfaces (`Mains`) are translated from their own sources. `Edit` is a developer's change
of one circuit, compiled, that the table does not follow: a public parameter dropped, added, renamed or moved, a private
one revealed, a return more or less. `Pin` is `artifacts generate`, `TakeBack` undoes the edit and compiles again,
pinned or not. Values are known by the side and name they were put under. External: a key may stand in a TOML file once,
nargo minds no surplus names, bb keeps the declared order, and a witness fits another circuit than its own only if the
parameters are at the same places (`Fits`). `Assembles` and `Validates` are the witness crate's own checks, which the
provider does not call; `PreparedSolves` relates them to it.

**`VectorCatalog`** extends it with requests that come from a file. `Slip` is a mistake of the vector's author;
`ValidatesStructure` is the loader's validation, `ToRequest` and `Panics` are `to_request_for`, `RequestValidates` the
part of `ProofRequest::validate` that `WitnessNaming` leaves out, and `Accepted`, of `WitnessNaming`, the service's
preflight, which `vectors run` and `prove` go through and `witness build` does not. `Judge` is `vectors run` over a
catalog (a file that does not load ends the run before anything is judged), `BuildWitness` is `witness build`,
`ProveMock` and `ProveUltraHonk` are `prove`; a request that `ProveUltraHonk` makes goes the way of `WitnessNaming`.
Values are abstract: whether all of them can be converted, and whether the roots agree, is all that is known of them.

**`Transcript`** has one file and processes that write to it: `append_transcript` opens it for each entry, a
`TranscriptWriter` buffers, a null writer discards. `writeln!` hands over a line in two pieces, so `WriteLine` and
`WriteNewline` are two steps, and `Put` is what a `BufWriter` does with a piece: take it in, empty itself first, or let
it through. `Flush` and `Drop` empty it; `FlushFails`, `WriteLineFails`, `WriteNewlineFails`, `DropFails` and `Crash`
leave a part of it behind. **`EventLog`** is the promise: per writer, entries reach the log in order, each once, and
stay (`Proceed`); what waits may be lost, with all that waits behind it, also when a part of it still reaches the log in
the same step (`Lose`): that is a drop that fails half-way through a buffer with two entries.

`MC*.tla` hold the symmetry sets and constant values of the instances. A definition whose comment says "Mutant" is not
part of the model: it is a plausible wrong version of the one beside it, and the property named with it in
`PROJECT.json` must fail when it is put in its place.

## 4. Runs

| Run | Checks | Bounds |
|---|---|---|
| `pipeline` | `TypeOK`, `ProvenIsPinned`, `KeysMatchIds`, `NeverRejectedLater`, `ImplementsService`, `SpuriousErrorHasACause` | 2 builds, 2 provers, 2 generators, 1 fault; 438 000 states |
| `pipeline_fair` | `RerunRepairs` (liveness) | 2 builds, 1 prover, 1 generator, 2 faults; 48 000 states |
| `pipeline_toctou` | `ProvenIsPinned` fails when re-pinning overlaps with proving | 2 builds, 1 prover, 1 generator, no fault |
| `context` | `TypeOK`, `AcceptedInContext`, `StaleIsReportedAsStale`, `HonestProofVerifies`, `MockMirrorsUltraHonk` | a bound and an unbound circuit, 2 versions (1 supported), 2 builds, 2 roots, 3 ledger states, 2 responses; 8 400 states, and in each every mixture of two contexts, and every bag of up to two words of theirs |
| `context_sequence` | `SequenceIsBound` fails | the same |
| `ledger` | `TypeOK`, `Conserved`, `SpentOnce`, `NeverFrozen`, `OverfullIsStuck`, `ImplementsBalances` | 2 accounts, amounts of 1 bit, words of 2, a field of 6 elements, asked amounts 0, 1 and 5, 3 proofs, 2 roots; 284 000 states |
| `ledger_twice` | `SpentOnce` fails if only nullifiers are kept | the same |
| `ledger_words` | `CommittedConserved` fails | the same |
| `services` | `TypeOK`, `LatestProviderServes`, `VerifiedBeforeReturned`, `VerificationTypeOK`, `UnanimousOrNot`, `ReportedDisagreementIsReal` | both services side by side; 2 backends, 2 keys, 2 versions, 3 registered verifiers; unbounded in time; 3 100 states |
| `witness` | `TypeOK`, `NamedAsRequested`, `SecretsStayPrivate`, `PreparedSolves`, `LoadedVectorsRun`, `GreenVectorsSolve` | every operation with every circuit, one name forgotten and 2 added, or a vector with 3 mistakes; one edit of a circuit, reorders included, compiled, pinned and taken back; 2 815 000 states |
| `loading` | `TypeOK`, `LoadedAsPromised`, `QuietCheckIsExact`, `MismatchHasACause` | 2 circuits, 2 contents, 2 paths, 2 generators, 1 load, 1 upset; 1 600 000 states |
| `transcript` | `TypeOK`, `PromisedIsDurable`, `LostHasACause`, `OneEntryPerLine`, `ImplementsLog` | 2 writers of any kind, 4 sizes of buffer, 2 entries each, 1 fault; 84 000 states |

Why the bounds are enough to make the cases happen. A torn or mixed pin needs two builds and one fault; a torn key met
by another process needs two provers; a second generator adds the bytecode of one under the manifest of another. A
second fault lets a rerun be killed as well. Mixing contexts needs two responses; two words are enough to rename,
reorder, repeat and drop them; a return to an old root needs two roots and three ledger states. Spending twice needs two
proofs of one note, and a third to create it; an amount at the limit is 1 when `AmountBits` is 1, and the sum of two of
them needs the second bit. A word has two bits then, and 5 is an amount that is wider than a word and whose low word, 1,
is within the limit; all openings are tried, the amounts asked for are three. Disagreement with a third verifier that
fails needs three registrations. A load torn by a re-pin needs one generator and one load; a pin mixed of two, two
generators; a failure that hides another, two circuits. In `loading` two generators are at work at once only while
nothing but one circuit is in play (the constraint `Focus`; a generator keeps nothing from one circuit to the next), and
every circuit's first contents are called the same (`MCInit`; contents of different circuits are never compared).
Buffers of an entry (which is let through), of a line, of a line and one more entry, and of two lines make each case of
`BufWriter` happen; with the last a failing drop writes one entry and loses another. Two entries suffice for an order.
Two mistakes suffice to put one name on both sides, to change a category together with its expectation, and to give a
vector of register or deposit a root that nobody compares (both words, and a state of another root); a third combines
each of these with one more. Two added names suffice to put one on both sides, and to supply an unknown parameter and a
missing one; a second edit is left out because it can make the count of words right again (one parameter dropped,
another revealed), and the words are then named wrongly: the count protects against a single edit only. Provers do not
talk to each other except through the files, so that a third adds no new pair.

`CHECK_DEADLOCK FALSE` stands where the bounds on proofs, responses, ledger states and entries stop the model
(`context*`, `ledger*`, `transcript`), and where a request has been answered (`witness`).

**Fairness.** Only `RerunRepairs` needs it. A process that was started and not killed goes on: weak fairness of
`Prove(p)` and `Generate(g)`, which the operating system's scheduler gives them. No fairness is assumed of starting
a process, of compiling, of crashing or of `verify`.

## 5. What the runs show

*While re-pinning is kept apart from proving*, every released envelope is an honest proof of the artifact it names;
the store never files a key under another artifact's id; a later `verify` never rejects it, and only meets an error
while a key file is being rewritten or after a fault tore it. A torn mixture of bytecode and manifest is always
refused, and a rerun repairs it.

Accepted proofs were made by the backend, for the circuit, version, key, artifact and words they are accepted with.
Under the mock their whole context is the proof's; under UltraHonk the state has the proof's root as long as the words
come under the proof's names. A stale proof is reported as `StateReferenceMismatch` even where bb is missing. The mock
agrees with the real verifier where the words keep their names and the state references agree in what the words do not
carry.

With a ledger that forgets consumed notes, each note is spent once, by its owner, under any delay, repetition and
reordering, and the low words of what is held and withdrawn add up to those of what was deposited. Behind the
commitments is a plain sheet of balances, in low words, that only the paying account's own proofs take from. As each
circuit reads a note by its low word, nobody gets more out than came in, although the amounts that are committed are not
conserved. A low word beyond the limit comes from one deposit or merge only and is never spent: the owner cannot use it
(`OverfullIsStuck`); an amount beyond a word comes from a transfer only.

A load returns what one manifest declares, whatever is done to the directory meanwhile; `check` is exact when nothing
is. Two generators of one circuit at once can leave, without an error, the bytecode of one under the manifest of the
other; that, edits and kills are the only causes of a pin that does not match, and the strict loader refuses it.

After at most one edit of a circuit, a released response to a request with exactly its operation's names gives each
public name the request's value, whichever circuit was asked for, unless the edit swapped two public parameters: then
the two have each other's values and nothing else is wrong. No released response carries a private value the operation
asks for, and no unverified one does where the pin is of the compiled circuit. While an edit is compiled and not pinned,
or pinned and taken back, an unverified response can: bb reads the witness at the places of another circuit, and nothing
before the round trip compares the two. A request that the witness crate would pass never fails for its names. A vector
that is green in the mock tier has in its `Prover.toml` every parameter of its circuit, each once, and bb's words are as
many as the operation's names; whether its `expected_public_outputs` are as many as the circuit returns is not said, and
only the circuit tier looks at that.

The transcript never loses what a flush, a drop or `append_transcript` promised, never repeats or reorders what a
process wrote, and has one entry per line as long as one process at a time has it open and no write fails.

Disagreements between code and its comments (details and quotations in `PROJECT.json`, "findings"):

1. `provider.rs:207` says that the loader has already proven the bytes bb consumes. bb opens the file again; a
   re-pin in between yields an envelope whose checksum names other bytecode than was proven, and the round trip
   passes (`pipeline_toctou`).
2. `request.rs:148` says proofs are bound to a (root, sequence) pair. The UltraHonk verifier compares roots only
   (`context_sequence`); the mock compares both.
3. `transition.nr:6` says the recorded nullifier makes a commitment single-use. The nullifiers of one commitment
   differ between deposit and the state-bound operations, and between roots (`ledger_twice`).
4. `transition.nr:9` says that the amounts entering the new commitments sum to those that left the old ones, and
   `range.nr:16` that a cast of a wider value is unsatisfiable. The cast truncates; a transfer of more than a word
   commits its recipient's note to all of it and takes only the low word from the sender (`ledger_words`).

Further disagreements, without a failing run of their own:

* `verifier/request.rs` of the interfaces has a verifier answer "for exactly that context", and `verifier.rs:136-142`
  says that a submission whose state disagrees is rejected before bb runs. The state is compared only if words come
  under the names `root_hi` and `root_lo`, and bb gets the words without names: the same words under other names
  verify with any state, or with none. `AcceptedInContext` and `MockMirrorsUltraHonk` say what is left.
* `lib.rs:92` of the vectors calls a loaded vector "ready for execution tiers". One may have a private name that a bag
  refuses, on which `to_request` panics; one may lack a name that its operation is expected to have, which the
  service's preflight refuses; and one of register or deposit may have a state whose root is not the one under
  `root_hi` and `root_lo`, which every tier refuses. `LoadedVectorsRun` says that there is no fourth case; that
  `witness build`, which has no preflight, refuses a loaded vector for the last of these or for no public input, and
  never one of a state-bound operation.
* `prover-core/src/witness.rs:21` says that a request that misses a name "could never produce a satisfying witness".
  One that has the name on the other side can: nargo looks parameters up by name alone (`PreparedSolves`).
* `lib.nr:28` leaves "one bit of headroom so the sum of two bounded amounts still fits comfortably in u64". It does,
  and the circuits commit to it; no circuit takes such a word afterwards, which is what `OverfullIsStuck` says.
* `expectations.rs:6` says that a change that "renames or reorders a parameter cannot silently desynchronize the two",
  and `provider.rs:250` promises to fail "instead of naming words wrongly". Only a count is compared, and a reorder
  keeps it; `NamedAsRequested` says exactly how far that goes.
* `artifacts.rs:111` of the command line advises to re-pin whatever `check` finds. A re-pin removes no file, so an
  undeclared one stays, and with it the error.
* `errors.rs:15` of `interfaces/src/prover` says `VerificationFailed` is for a verification that could not run, and the
  trait's default returns it for that; the service returns `Provider` (`MapCoreError`, `RoundTrip` and `BoxedOutcome`
  of `ProverService`).
* Two processes that append to a transcript at the same time may glue two entries into one line (`OneEntryPerLine`
  excludes them).

## 6. What is proved

Every theorem below is proved for all values of the constants that satisfy the assumptions named with it.

### `ProofPipelineProofs`: any sets of bytecodes, provers and generators, any number of faults

| Theorem | From | States |
|---|---|---|
| `TypeCorrect` | `Spec` | `[]TypeOK` |
| `ReleasedProofsMatchPin` | `~ConcurrentRepin /\ Spec` | `[]ProvenIsPinned` |
| `StoreMatchesIds` | the same | `[]KeysMatchIds` |
| `NoLateRejection` | the same | `[]NeverRejectedLater` |
| `PipelineImplementsService` | the same | `ImplementsService` |
| `SpuriousErrors` | `Spec` | `SpuriousErrorHasACause` |

`Spec` alone covers re-pinning at the same time as proving; no run has to repeat that case.

Two invariants carry most of them. `Typed` is `TypeOK` with what the program counter says of the locals: after
`ReadManifest` the artifact is a bytecode, after `BbProve` the proof is one. `Pinned` is what keeping re-pinning apart
buys: while a prover runs no generator does; after the strict load the pin on disk is the prover's artifact; after bb
its proof is of that artifact; released envelopes are sound and of their own artifact; and the store holds for each id
its own key, a torn file or nothing, and not nothing for any released id. `ProvenIsPinned` and `NeverRejectedLater`
alone are not inductive: a state with a prover at `prove` and a foreign pin satisfies both and breaks them two steps
later. `TornHasACause`, proved with `TornKeys`, carries `SpuriousErrors`: a torn key is one that some prover is about
to fill, or the work of a fault. For the refinement, `RoundTrip` maps to `Release`, `VerifyEnvelope` to `Check`, and
every other action to a stutter.

`PipelineAssumption` is assumed: the two file states that are not bytecodes are not bytecodes, and differ.

### `ArtifactLoadingProofs`: any circuits, contents and manifests, generators, loads, edits and kills

| Theorem | From | States |
|---|---|---|
| `LoadingTypeCorrect` | `Spec` | `[]TypeOK` |
| `LoadsAreAsPromised` | `Spec` | `[]LoadedAsPromised` |
| `MismatchesHaveACause` | `Spec` | `[]MismatchHasACause` |
| `QuietChecksAreExact` | `Spec` | `[]QuietCheckIsExact` |

`LoadSound` is what a load knows at each step: after parsing, the manifest is supported and its paths are inside;
while it reads, what was read is what is declared; and after the listing, any undeclared file that is there came up
since, because every step that makes a file appear notes it for the loads under way. `PinSound` is what a generator
knows: one that has had its directory for itself since it read the compiled bytes is the only one there, and once it
is at the manifest the bytecode file holds those bytes, whatever has been compiled since; so the manifest it writes
matches. `MismatchHasACause` is inductive together with it. `QuietLoad` adds, for a load that nothing moved under,
that the manifest it parsed, its listing and what it read are still those of the directory; then each verdict is
exact.

`LoadingAssumption` (there is a circuit, and the file states that are not contents differ from them and each other) and
`HandAssumption` (hand-written manifests are manifests, and those file states are not) are assumed.

### `ContextBindingProofs`: any circuits, versions, builds, roots and values, any number of proofs and states

| Theorem | From | States |
|---|---|---|
| `ContextTypeCorrect` | `Spec` | `[]TypeOK` |
| `AcceptedOnlyInContext` | `Spec` | `[]AcceptedInContext` |
| `HonestProofsVerify` | `Spec` | `[]HonestProofVerifies` |
| `StaleProofsAreCalledStale` | `Spec` | `[]StaleIsReportedAsStale` |
| `MockDecidesAlike` | `Spec` | `[]MockMirrorsUltraHonk` |

The verifiers are lists of checks, so the proof is first about lists: `VerifiedIfAllHold` (a list verifies if and only
if every check holds), `FirstFails` (otherwise the first failure names the rejection) and `ConcatFailure` (of two lists,
the second speaks only if the first holds). From them `MockAccepts`, `UltraHonkAccepts` and `UltraHonkSays` say what
each verifier answers, without indices. The invariant is `Bindings`: a response is well formed (its key id is that of
its circuit, version and artifact; a bound circuit has a root and a state, and they agree; UltraHonk's versions are
supported), and every stored id is of a supported version and of its own circuit's artifact. An accepted UltraHonk
submission then shares bytecode and words with the proof through bb, the circuit through the artifact, and the version
because there is only one; two bags with the same names and the same words are the same bag, so that where the names are
kept the verifier finds the proof's own root and compares the state with it. `ContextAssumption` says that the
compatibility matrix has one row, and that no circuit is both bound and unbound, no build is named like a version, and
an absent root or state is not one.

### `ConfidentialLedgerProofs`: any accounts, tokens, widths, any number of proofs and snapshots

| Theorem | From | States |
|---|---|---|
| `EachNoteIsSpentOnce` | `DropsSpent /\ Spec` | `[]SpentOnce` |
| `OwnersAreNeverFrozen` | `DropsSpent /\ Spec` | `[]NeverFrozen` |
| `ValueIsConserved` | `DropsSpent /\ Spec` | `[]Conserved` |
| `LedgerIsASheet` | `DropsSpent /\ Spec` | `ImplementsBalances` |
| `OverfullAmountsAreStuck` | `Spec` | `[]OverfullIsStuck` |
| `LedgerTypes` | `Spec` | `[]TypeOK` |

`SpentOnce` is not inductive: that a note is not consumed again needs that it is gone (`SpentIsGone`) and does not come
back, which is about proofs that are still to arrive. `Drawn` says that blindings are drawn in order, so that a new
proof creates notes that no other has (`CreatedApart`); `PendingIsFresh` that what a pending proof creates is nowhere
yet, so accepting it brings no consumed note back. `NullifiersHaveASource` ties the record to accepted proofs, from
which `NeverFrozen` follows: a recorded nullifier names a consumed note, and that note is not attached. Without
`DropsSpent` the first two fail (`ledger_twice`). The circuits' actions are proved to be one kind of step, `Makes`.

`Conserved` is about sums over the notes of a token. `ConservingInv` joins `SpendingInv`, which says that what a
pending proof creates is not there yet, with `Balanced` for every proof, pending ones included: a proof that consumes no
note twice makes and destroys nothing. The circuits do not refuse a merge of a note with itself; its two nullifiers are
equal, and the ledger takes each once. So an accepted proof changes both sides of its token's account by the same
amount, whatever came between its making and its arrival. All sums are of low words: the sum of two
that the range checks hold to `AmountBits` fits a word, so that it is its own low word, a remainder is below the word it
was taken from, and the recipient's note of a transfer is worth the low word that the sender's lost.

`ImplementsBalances` asks who has what, not only that the total is right. `Moves` says of every proof, pending ones
included, what it will do to each account's share: its own loses what it pays and what leaves, one recipient gains what
is paid, all others keep theirs. The circuits establish it when the proof is made, against notes of that time;
`SpendingInv` carries it to the time of acceptance, when the consumed notes are still there and the created ones are
not, so that the balances, which may have changed in between, change by these amounts (`SubmitMoves`) and cover them. It
takes `DropsSpent` like the rest: a note that stays would be in the balance twice.

`LedgerAssumption` is assumed: the widths (a word has one bit more than an amount, as `u64` over 63 bits, and the field
has room for a word), that the counters' bounds are numbers, and that the absent root is not one.

### `ServiceProofs`, proving service: any backends, versions, keys and compatibility, any sequence of calls

| Theorem | From | States |
|---|---|---|
| `RegistryTypes` | `Spec` | `[]TypeOK` |
| `TheLatestServes` | `Spec` | `[]LatestProviderServes` |
| `ReturnedProofsAreVerified` | `Spec` | `VerifiedBeforeReturned` |

`LatestProviderServes` is about an answer, hence about the registry before the call. `RegistryInv` says of it that each
registered provider is the latest of its backend, that no backend is there twice, and that every backend for which one
was ever registered is there. Registration keeps it because `retain` drops exactly the providers of that backend
(`RegisterKeeps`, by `OnlyNumbers` of `DataTheorems`, which names the place each kept element came from); a lookup takes
the first of the backend, so the latest (`ProviderIsLatest`). `ReturnedProofsAreVerified` then follows the round trip
through the service and through the trait's default: an answer `ok` has a verifier that accepted that proof.

`ProverServiceAssumption` is assumed: compatibility relates backends and versions, and the absent provider is not one.

### `ServiceProofs`, verification service: any backends and keys, any number of registrations

| Theorem | From | States |
|---|---|---|
| `ServiceTypes` | `VerificationSpec` | `[]VerificationTypeOK` |
| `AcceptanceIsUnanimous` | `VerificationSpec` | `UnanimousOrNot` |
| `DisagreementIsReal` | `VerificationSpec` | `ReportedDisagreementIsReal` |

The last two are about what one submission does with the verifiers that are registered then. `VerifyRuns` says of the
loop that what it ran is a first part of the verifiers of the backend, in their order, and all of them unless the last
one failed to run. `VerifiersServe` says that those are exactly the registered verifiers that have the backend.
`AllRan` puts them together: without a failure every registered verifier has spoken, so what holds of all that was
said holds of them all. `VerificationServiceAssumption` is assumed: there is something to submit.

### `TranscriptProofs`: any writers, entries, faults and sizes of the buffer

| Theorem | From | States |
|---|---|---|
| `TranscriptTypes` | `Spec` | `[]TypeOK` |
| `PromisesAreKept` | `Spec` | `[]PromisedIsDurable` |
| `NothingIsLostQuietly` | `Spec` | `[]LostHasACause` |
| `LinesAreWhole` | `Spec` | `[]OneEntryPerLine` |
| `TranscriptIsALog` | `Spec` | `ImplementsLog` |

A `BufWriter` may take a piece in, empty itself before, empty itself partly, or let it through, depending on sizes. The
proof begins by forgetting which: every step is one of two kinds. `Moves(w, new)`: of what `w` holds, with `new` behind
it, a first part goes to the end of the file, and the rest is what `w` holds now. `Loses(w)`: a first part goes to the
file, and the rest is gone; these are the failing drop and a kill. `TypeInv` has
what that needs: only a `TranscriptWriter` that is open holds anything, only what is its own, and no more than fits.

* `KeepingInv`: a half-written line's entry is held, in the file or in the buffer; everything a process recorded is,
  while it has the file open or nothing has failed; and what was promised is in the file. `Moves` changes nothing of
  what is held, and only a flush, a drop or an append without a failure promises.
* `LinesInv`: while no two had the file open and nothing failed, the file together with the buffer of the one that has
  it (`Text`) alternates between entries and newlines, and ends in a newline unless a line is half written. `Text`
  depends on what was handed over only, not on how far it has come.
* `HeldAreMade`: no entry is held that was not made yet, so that a new one is above all others of its writer.

For the refinement, `Pending` and `Durable` are the entries among a writer's pieces in its buffer and in the file. A
move is mapped to `Log!Proceed`, a loss to `Log!Lose`, and a piece of another writer changes neither. This proof found
`EventLog` too strict: it used to let what waits be lost only whole, which no run contradicted as long as no buffer held
two entries. The run has such a buffer now.

`TranscriptAssumption` is assumed: a buffer holds two bytes at least, a line is two bytes at least and its newline is
one.

### `WitnessNamingProofs`: any added names, a fresh name, any kinds of edit, any number of mistakes

| Theorem | From | States |
|---|---|---|
| `NamingTypes` | `VectorSpec` | `[]TypeOK` |
| `OutputsNamedAsRequested` | `VectorSpec` | `[]NamedAsRequested` |
| `PrivateValuesStayPrivate` | `VectorSpec` | `[]SecretsStayPrivate` |
| `PreparedRequestsSolve` | `VectorSpec` | `[]PreparedSolves` |
| `LoadedVectorsBecomeRequests` | `VectorSpec` | `[]LoadedVectorsRun` |
| `GreenVectorsAreSolvable` | `VectorSpec` | `[]GreenVectorsSolve` |

The five circuits and the table are what they are in the code; what is general is who fills in the request. The
argument shows what the naming of words rests on:

* `SidesApart`: in the table no name is public in one operation and private or returned in another.
* `CountsAre`: the numbers of words of the five operations (1, 5, 9, 9, 7) are all odd. An edit that changes the number
  changes it by one, to an even one, so it cannot make one circuit pass for another (`MatchingCounts`): what is left is
  a fresh name in the place of a public one, or two exchanged (`Kept`). Merge and transfer count alike; they are told
  apart by the key that each asks for, `account_sk` and `sender_sk` (`NoOtherCircuit`). Nothing in the code states
  either fact, and an operation with an even count would make the theorem false.
* `LinesAre`, `WordsAre`, `NamesAre`, `NamedAre`: what a `Prover.toml` gives a name, what stands at each place of bb's
  words, and what the naming makes of both.

`NamingInv` says of every state that the compiled and the pinned interface are each at most one edit away from the
circuit's, and that outputs are there only in two cases: as the naming of as many words as the operation counts, for a
request that was accepted and a pinned circuit that was solvable for it (`Responded`), or in an answer that did not
verify, while the two interfaces differ (`Misread`). Where they differ and a witness fits both, each parameter is at its
place in both, so that what bb reads is what nargo looked up. `VectorInv` adds where each stage of a command has come
from: what was built was loaded and validated, what is green was accepted as well, and the request is the vector's. The
number of mistakes does not occur in it, so that the bound of the run is no part of the result.

The bound of one edit belongs to the statement: after two, `NamedAsRequested` is false.

`NamingAssumption` and `CatalogAssumption` are assumed: the kinds of edit are among the six that are modelled, a fresh
name is in no operation's table, the bounds are numbers, and the name that the bags refuse is none of the others.

### `DataTheorems`: lemmas about data

Sums over finite sets (`SumUnion`, `SumWithout`, `SumFew`, `SumSame`), powers of two (`PowersOfTwo`), what `Only`
keeps (`OnlyConcat`, `OnlyAppend`, `OnlyNumbers`), and parts of sequences (`PartsOf`, `PartsAre`, `ConcatInTurn`). The
library's induction theorems take an operator as a parameter, which the provers cannot instantiate. The inductions
here are by the least counterexample instead: the numbers for which a claim fails form a set, and a set of numbers
that is not empty has a least element (`LeastNatural`); a set of finite sets has a smallest one (`SmallestSet`). The
recursion is unfolded once, at that element. `2^n` is reached in the same way without unfolding the library's
definition, as the number of subsets of a set of `n` elements.

## 7. Only model-checked

`RerunRepairs` is liveness under fairness, which this prover does not do.

Every other property of a run that is expected to pass is a theorem above. The runs that are expected to fail show
what is false, and there is nothing to prove.

## 8. Not modelled, and why

* The witness decoder and the scrubbing of secrets: a parser and memory handling.
* Toolchain location and version gates: they look up binaries; a missing one is the input `bb` of `ContextBinding`
  and the outcome `generation` of `ProofPipeline`.
* Calldata and public-input encodings: pure byte layouts.
* More than one row in the compatibility matrix. `ContextAssumption` says that there is one, as in the code. With
  a second, one key has two ids and a proof of one version verifies as the other.
* Cryptography. Hashes do not collide, proofs are sound, and bb accepts what it proved.
* A bb that exits with an error of its own during `verify`, which the code takes for a rejection of the proof.
* Within the modelled parts: circuit information and version parsing of the Noir toolchain, what bb prints, labels of
  state references and verifiers, what a transcript entry says.
* Benchmarks and gadgets: sequential runners whose result is a time, and single-constraint packages that are compiled
  to count their gates.
