-------------------------- MODULE ArtifactLoading --------------------------
(***************************************************************************)
(* The pinned artifacts of all circuits, as `artifacts generate` writes    *)
(* them and as the strict loader reads them for `artifacts check`,         *)
(* `artifacts inspect` and a prover.  A directory holds a manifest and     *)
(* files; a load reads the manifest, lists the directory, and reads the    *)
(* declared files one by one, and nothing keeps the directory as it is     *)
(* between these steps.  `check` goes through all circuits and collects    *)
(* their errors; `generate` stops at the first circuit it cannot read.     *)
(*                                                                         *)
(* A path is its rank in a manifest's sorted list: Bytecode is <op>.json,  *)
(* the others are files that a hand may put there.  Outside is any path    *)
(* that is_safe_relative_path refuses.  A digest is the content it is of.  *)
(***************************************************************************)
EXTENDS Naturals, Sequences

CONSTANTS
  OPERATIONS,  \* the circuits, a sequence
  Builds,      \* file contents: what circuits compile to, among others
  NPaths,      \* how many paths a directory may have files at
  HandWritten, \* manifests that a hand may put in a directory
  Generators,  \* `artifacts generate` processes, each run once
  Readers,     \* processes that load pinned artifacts, likewise
  Absent,      \* a file that does not exist
  Torn,        \* a file that was truncated and not filled
  MaxUpsets    \* bound: edits by hand, kills and failed writes

ASSUME LoadingAssumption ==
  /\ OPERATIONS \in Seq(STRING) \ {<<>>}
  /\ NPaths \in Nat \ {0}
  /\ Absent \notin Builds
  /\ Torn \notin Builds
  /\ Absent # Torn
  /\ MaxUpsets \in Nat

VARIABLES
  target,     \* circuits/target/<op>.json
  manifest,   \* <root>/<op>/manifest.json
  files,      \* <root>/<op>/: path |-> content
  gen,        \* the generators
  reader,     \* the loading processes
  disturbed,  \* history: circuits whose directory a re-pin has yet to repair
  upsets      \* edits, kills and failed writes so far

vars == <<target, manifest, files, gen, reader, disturbed, upsets>>

-----------------------------------------------------------------------------
(* Values *)

Ops      == {OPERATIONS[i] : i \in DOMAIN OPERATIONS}
Outside  == 0
Bytecode == 1
Paths    == 1..NPaths

\* A parsed manifest: is its schema version supported, and what it declares.
Manifests ==
  [supported : BOOLEAN,
   digest : UNION {[D -> Builds] : D \in SUBSET (Paths \cup {Outside})}]

FileContents     == Builds \cup {Absent, Torn}
ManifestContents == Manifests \cup {Absent, Torn}

ASSUME HandAssumption ==
  /\ HandWritten \subseteq Manifests
  /\ Absent \notin Manifests
  /\ Torn \notin Manifests

\* What `generate` declares for bytecode b.
Pin(b) == [supported |-> TRUE, digest |-> [p \in {Bytecode} |-> b]]

NothingRead   == [p \in {} |-> Absent]
NothingParsed == [supported |-> FALSE, digest |-> NothingRead]
NoVerdict     == [o \in {} |-> "ok"]

LoadErrors == {"ReadFailure", "MalformedManifest", "UnsupportedManifestVersion",
               "UnsafePath", "UnexpectedFile", "ChecksumMismatch"}

\* Function f, with y at x.
With(f, x, y) == [z \in DOMAIN f \cup {x} |-> IF z = x THEN y ELSE f[z]]

Present(o) == {p \in Paths : files[o][p] # Absent}

\* Every declared file has the content it is declared to have.
Matches(o) ==
  /\ manifest[o] \in Manifests
  /\ manifest[o].supported
  /\ DOMAIN manifest[o].digest \subseteq Paths
  /\ \A p \in DOMAIN manifest[o].digest : files[o][p] = manifest[o].digest[p]

\* An artifact as LoadedArtifact promises it: those files, and nothing else.
Exact(o) == Matches(o) /\ Present(o) \subseteq DOMAIN manifest[o].digest

Empty(o) == manifest[o] = Absent /\ Present(o) = {}

\* The operations a command goes through: one that is named, or all.
Selections == {<<o>> : o \in Ops} \cup {OPERATIONS}

IdleGenerator == [step |-> "idle", todo |-> <<>>, bytes |-> Absent, alone |-> TRUE]

EndedGenerator == [IdleGenerator EXCEPT !.step = "ended"]

IdleReader ==
  [step |-> "idle", todo |-> <<>>, strict |-> TRUE, parsed |-> NothingParsed,
   read |-> NothingRead, verdict |-> NoVerdict, quiet |-> TRUE, appeared |-> {}]

Init ==
  /\ target \in [Ops -> Builds \cup {Absent}]
  /\ \E pins \in [Ops -> Builds \cup {Absent}] :
       /\ manifest = [o \in Ops |-> IF pins[o] = Absent THEN Absent ELSE Pin(pins[o])]
       /\ files = [o \in Ops |-> [p \in Paths |-> IF p = Bytecode THEN pins[o] ELSE Absent]]
  /\ gen = [g \in Generators |-> IdleGenerator]
  /\ reader = [r \in Readers |-> IdleReader]
  /\ disturbed = {}
  /\ upsets = 0

-----------------------------------------------------------------------------
(* artifacts generate *)

Working(g) == gen[g].step \in {"bytes", "bytesOpen", "manifest", "manifestOpen"}
At(g)      == Head(gen[g].todo)

\* No generator is between the files of circuit o.
AtRest(o) == \A g \in Generators : Working(g) => At(g) # o

\* The directory of o changes; `p` may be a path that gets a file only now.
\* Readers do not notice (history).
Touch(o, p) ==
  reader' = [r \in Readers |->
               [reader[r] EXCEPT !.quiet = FALSE,
                                 !.appeared = IF files[o][p] = Absent THEN @ \cup {<<o, p>>} ELSE @]]

Advance(g, from, to) ==
  /\ gen[g].step = from
  /\ gen' = [gen EXCEPT ![g].step = to]

StartGenerate(g, selected) ==
  /\ gen[g].step = "idle"
  /\ gen' = [gen EXCEPT ![g] = [IdleGenerator EXCEPT !.step = "next", !.todo = selected]]
  /\ UNCHANGED <<target, manifest, files, reader, disturbed, upsets>>

\* Mutant: missing bytecode is not noticed.
ReadTargetUnguarded(g) ==
  /\ gen[g].step = "next"
  /\ gen' = [gen EXCEPT ![g].step = "bytes", ![g].bytes = target[At(g)]]
  /\ UNCHANGED <<target, manifest, files, reader, disturbed, upsets>>

\* The compiled bytecode is read once, and its directory made.
ReadTarget(g) ==
  /\ gen[g].step = "next"
  /\ target[At(g)] # Absent
  /\ gen' = [h \in Generators |->
               IF h = g
               THEN [gen[g] EXCEPT !.step = "bytes", !.bytes = target[At(g)], !.alone = AtRest(At(g))]
               ELSE IF Working(h) /\ At(h) = At(g) THEN [gen[h] EXCEPT !.alone = FALSE] ELSE gen[h]]
  /\ UNCHANGED <<target, manifest, files, reader, disturbed, upsets>>

\* A circuit without bytecode ends the command; those before it are pinned anew,
\* those after it keep the pin they had.
TargetMissing(g) ==
  /\ gen[g].step = "next"
  /\ target[At(g)] = Absent
  /\ gen' = [gen EXCEPT ![g] = EndedGenerator]
  /\ UNCHANGED <<target, manifest, files, reader, disturbed, upsets>>

TruncateBytecode(g) ==
  /\ Advance(g, "bytes", "bytesOpen")
  /\ files' = [files EXCEPT ![At(g)][Bytecode] = Torn]
  /\ Touch(At(g), Bytecode)
  /\ UNCHANGED <<target, manifest, disturbed, upsets>>

WriteBytecode(g) ==
  /\ Advance(g, "bytesOpen", "manifest")
  /\ files' = [files EXCEPT ![At(g)][Bytecode] = gen[g].bytes]
  /\ Touch(At(g), Bytecode)
  /\ UNCHANGED <<target, manifest, disturbed, upsets>>

TruncateManifest(g) ==
  /\ Advance(g, "manifest", "manifestOpen")
  /\ manifest' = [manifest EXCEPT ![At(g)] = Torn]
  /\ reader' = [r \in Readers |-> [reader[r] EXCEPT !.quiet = FALSE]]
  /\ UNCHANGED <<target, files, disturbed, upsets>>

\* Mutant: the digest is computed from the compiled file, read again.
WriteManifestReread(g) ==
  /\ gen[g].step = "manifestOpen"
  /\ target[At(g)] # Absent
  /\ manifest' = [manifest EXCEPT ![At(g)] = Pin(target[At(g)])]
  /\ gen' = [gen EXCEPT ![g] = EndedGenerator]
  /\ UNCHANGED <<target, files, reader, disturbed, upsets>>

\* The manifest declares the bytes that were pinned; then the next circuit.
WriteManifest(g) ==
  LET o    == At(g)
      rest == Tail(gen[g].todo)
  IN  /\ gen[g].step = "manifestOpen"
      /\ manifest' = [manifest EXCEPT ![o] = Pin(gen[g].bytes)]
      /\ gen' = [gen EXCEPT ![g] = IF rest = <<>> THEN EndedGenerator
                                   ELSE [IdleGenerator EXCEPT !.step = "next", !.todo = rest]]
      /\ reader' = [r \in Readers |-> [reader[r] EXCEPT !.quiet = FALSE]]
      /\ disturbed' = IF gen[g].alone THEN disturbed \ {o} ELSE disturbed \cup {o}
      /\ UNCHANGED <<target, files, upsets>>

\* A kill, or a write that fails: the files stay as they are.
GeneratorDies(g) ==
  /\ Working(g)
  /\ upsets < MaxUpsets
  /\ upsets' = upsets + 1
  /\ gen' = [gen EXCEPT ![g] = EndedGenerator]
  /\ disturbed' = disturbed \cup {At(g)}
  /\ UNCHANGED <<target, manifest, files, reader>>

Generate(g) ==
  \/ \E selected \in Selections : StartGenerate(g, selected)
  \/ ReadTarget(g) \/ TargetMissing(g)
  \/ TruncateBytecode(g) \/ WriteBytecode(g)
  \/ TruncateManifest(g) \/ WriteManifest(g)
  \/ GeneratorDies(g)

-----------------------------------------------------------------------------
(* The loader *)

Loading(r) == Head(reader[r].todo)

\* A load of the current circuit has ended; `check` and `inspect` go on with the
\* next one whatever came out.
Conclude(r, result) ==
  /\ reader' = [reader EXCEPT ![r] =
       [IdleReader EXCEPT
          !.step = IF Tail(reader[r].todo) = <<>> THEN "ended" ELSE "manifest",
          !.todo = Tail(reader[r].todo),
          !.strict = reader[r].strict,
          !.verdict = With(reader[r].verdict, Loading(r), result),
          !.quiet = reader[r].quiet]]
  /\ UNCHANGED <<target, manifest, files, gen, disturbed, upsets>>

Proceed(r, new) ==
  /\ reader' = [reader EXCEPT ![r] = new]
  /\ UNCHANGED <<target, manifest, files, gen, disturbed, upsets>>

\* `check` and `inspect` are strict, and so is a prover; a library caller may not be.
StartLoading(r, selected, strict) ==
  /\ reader[r].step = "idle"
  /\ Proceed(r, [IdleReader EXCEPT !.step = "manifest", !.todo = selected, !.strict = strict])

\* Mutant: any schema version is read.
ReadManifestAnyVersion(r) ==
  LET m == manifest[Loading(r)]
  IN  /\ reader[r].step = "manifest"
      /\ \/ m = Absent /\ Conclude(r, "ReadFailure")
         \/ m = Torn /\ Conclude(r, "MalformedManifest")
         \/ /\ m \in Manifests
            /\ Proceed(r, [reader[r] EXCEPT !.step = "list", !.parsed = m])

\* ArtifactManifest::parse: the JSON, the version, the paths.
ReadManifest(r) ==
  LET m == manifest[Loading(r)]
  IN  /\ reader[r].step = "manifest"
      /\ \/ m = Absent /\ Conclude(r, "ReadFailure")
         \/ m = Torn /\ Conclude(r, "MalformedManifest")
         \/ /\ m \in Manifests /\ ~m.supported
            /\ Conclude(r, "UnsupportedManifestVersion")
         \/ /\ m \in Manifests /\ m.supported /\ Outside \in DOMAIN m.digest
            /\ Conclude(r, "UnsafePath")
         \/ /\ m \in Manifests /\ m.supported /\ Outside \notin DOMAIN m.digest
            /\ Proceed(r, [reader[r] EXCEPT !.step = IF reader[r].strict THEN "list" ELSE "read",
                                            !.parsed = m])

\* Mutant: what is declared must be there, instead of the other way round.
ListSwapped(r) ==
  /\ reader[r].step = "list"
  /\ IF DOMAIN reader[r].parsed.digest \subseteq Present(Loading(r))
     THEN Proceed(r, [reader[r] EXCEPT !.step = "read"])
     ELSE Conclude(r, "UnexpectedFile")

\* walk_files: whatever is there and not declared, the manifest apart.
List(r) ==
  /\ reader[r].step = "list"
  /\ IF Present(Loading(r)) \subseteq DOMAIN reader[r].parsed.digest
     THEN Proceed(r, [reader[r] EXCEPT !.step = "read"])
     ELSE Conclude(r, "UnexpectedFile")

\* The next declared file, in the order of the paths, against its digest.
ReadFile(r) ==
  LET declared == reader[r].parsed.digest
      unread   == DOMAIN declared \ DOMAIN reader[r].read
  IN  /\ reader[r].step = "read"
      /\ \E p \in unread :
           LET content == files[Loading(r)][p]
           IN  /\ \A q \in unread : p <= q
               /\ \/ content = Absent /\ Conclude(r, "ReadFailure")
                  \/ /\ content \notin {Absent, declared[p]}
                     /\ Conclude(r, "ChecksumMismatch")
                  \/ /\ content = declared[p]
                     /\ Proceed(r, [reader[r] EXCEPT !.read = With(@, p, content)])

\* All of them are read: the caller has its LoadedArtifact.
Loaded(r) ==
  reader[r].step = "read" /\ DOMAIN reader[r].read = DOMAIN reader[r].parsed.digest

Return(r) == Loaded(r) /\ Conclude(r, "ok")

Load(r) ==
  \/ \E selected \in Selections : StartLoading(r, selected, TRUE)
  \/ \E o \in Ops : StartLoading(r, <<o>>, FALSE)
  \/ ReadManifest(r) \/ List(r) \/ ReadFile(r) \/ Return(r)

-----------------------------------------------------------------------------
(* What happens around them *)

Compile(o, b) ==
  /\ target[o] # b
  /\ target' = [target EXCEPT ![o] = b]
  /\ UNCHANGED <<manifest, files, gen, reader, disturbed, upsets>>

\* A hand changes directory o.
Upset(o) ==
  /\ upsets < MaxUpsets
  /\ upsets' = upsets + 1
  /\ disturbed' = disturbed \cup {o}
  /\ gen' = [g \in Generators |->
               IF Working(g) /\ At(g) = o THEN [gen[g] EXCEPT !.alone = FALSE] ELSE gen[g]]
  /\ UNCHANGED target

EditManifest(o, m) ==
  /\ Upset(o)
  /\ manifest' = [manifest EXCEPT ![o] = m]
  /\ reader' = [r \in Readers |-> [reader[r] EXCEPT !.quiet = FALSE]]
  /\ UNCHANGED files

EditFile(o, p, c) ==
  /\ Upset(o)
  /\ files' = [files EXCEPT ![o][p] = c]
  /\ Touch(o, p)
  /\ UNCHANGED manifest

Next ==
  \/ \E g \in Generators : Generate(g)
  \/ \E r \in Readers : Load(r)
  \/ \E o \in Ops, b \in Builds : Compile(o, b)
  \/ \E o \in Ops, m \in HandWritten \cup {Absent} : EditManifest(o, m)
  \/ \E o \in Ops, p \in Paths, c \in Builds \cup {Absent} : EditFile(o, p, c)

Spec == Init /\ [][Next]_vars

-----------------------------------------------------------------------------
(* Properties *)

TypeOK ==
  /\ target \in [Ops -> Builds \cup {Absent}]
  /\ manifest \in [Ops -> ManifestContents]
  /\ files \in [Ops -> [Paths -> FileContents]]
  /\ \A g \in Generators :
       /\ gen[g].step \in {"idle", "next", "bytes", "bytesOpen", "manifest", "manifestOpen", "ended"}
       /\ gen[g].bytes \in Builds \cup {Absent}
       /\ gen[g].step \notin {"idle", "ended"} => At(g) \in Ops
  /\ \A r \in Readers :
       /\ reader[r].step \in {"idle", "manifest", "list", "read", "ended"}
       /\ reader[r].parsed \in Manifests
       /\ DOMAIN reader[r].read \subseteq DOMAIN reader[r].parsed.digest
       /\ DOMAIN reader[r].verdict \subseteq Ops
       /\ reader[r].step \notin {"idle", "ended"} => Loading(r) \in Ops
  /\ disturbed \subseteq Ops
  /\ upsets \in 0..MaxUpsets

\* "Reaching this type is a guarantee that every declared file existed, contained
\* exactly the bytes its checksum promised, and contained nothing else (in strict
\* mode)": however the directory is re-pinned or edited between the steps of a
\* load, what it returns is what the one manifest it parsed declares, under paths
\* inside the directory; and a file that is there and not declared got there
\* after the load began.
LoadedAsPromised ==
  \A r \in Readers : Loaded(r) =>
    LET l == reader[r]
    IN  /\ l.parsed.supported /\ DOMAIN l.parsed.digest \subseteq Paths
        /\ l.read = l.parsed.digest
        /\ l.strict => \A p \in Present(Loading(r)) \ DOMAIN l.parsed.digest :
                         <<Loading(r), p>> \in l.appeared

\* When nothing moves, `check` tells the truth about every circuit it went
\* through, also about those behind one that failed.
QuietCheckIsExact ==
  \A r \in Readers : reader[r].quiet =>
    \A o \in DOMAIN reader[r].verdict :
      reader[r].verdict[o] = "ok" <=> IF reader[r].strict THEN Exact(o) ELSE Matches(o)

\* "Nothing is ever loaded partially", and no pin is left that way either: a
\* directory that no generator is at, and whose declared files do not match, has
\* been edited, or left by a generator that died, or written by two generators at
\* once - and was not re-pinned by one alone since.  A `generate` that ends in an
\* error for one circuit, or meets bytecode that is compiled anew under it, does
\* no harm to any pin.
MismatchHasACause ==
  \A o \in Ops : AtRest(o) /\ o \notin disturbed => Matches(o) \/ Empty(o)

=============================================================================
