----------------------- MODULE ArtifactLoadingProofs -----------------------
(***************************************************************************)
(* Proofs about ArtifactLoading, for any circuits, contents and manifests, *)
(* any number of generators and loads, and any number of edits and kills.  *)
(***************************************************************************)
EXTENDS ArtifactLoading, SequenceTheorems, TLAPS

GeneratorSteps == {"idle", "next", "bytes", "bytesOpen", "manifest", "manifestOpen", "ended"}
ReaderSteps    == {"idle", "manifest", "list", "read", "ended"}

Digests == UNION {[D -> Builds] : D \in SUBSET (Paths \cup {Outside})}

Reports == UNION {[D -> LoadErrors \cup {"ok"}] : D \in SUBSET Ops}

GeneratorStates ==
  [step : GeneratorSteps, todo : Seq(Ops), bytes : Builds \cup {Absent}, alone : BOOLEAN]

ReaderStates ==
  [step : ReaderSteps, todo : Seq(Ops), strict : BOOLEAN, parsed : Manifests, read : Digests,
   verdict : Reports,
   quiet : BOOLEAN, appeared : SUBSET (Ops \X Paths)]

FilesTyped ==
  /\ target \in [Ops -> Builds \cup {Absent}]
  /\ manifest \in [Ops -> ManifestContents]
  /\ files \in [Ops -> [Paths -> FileContents]]
  /\ disturbed \subseteq Ops
  /\ upsets \in 0..MaxUpsets

GeneratorsTyped ==
  /\ gen \in [Generators -> GeneratorStates]
  /\ \A g \in Generators :
       /\ gen[g].step \notin {"idle", "ended"} => gen[g].todo # <<>>
       /\ Working(g) => gen[g].bytes \in Builds

ReadersTyped ==
  /\ reader \in [Readers -> ReaderStates]
  /\ \A r \in Readers :
       reader[r].step \notin {"idle", "ended"} => reader[r].todo # <<>>

Typed == FilesTyped /\ GeneratorsTyped /\ ReadersTyped

-----------------------------------------------------------------------------
(* Types *)

\* What commands go through are non-empty sequences of circuits.
LEMMA SelectionsTyped == \A selected \in Selections : selected \in Seq(Ops) /\ selected # <<>>
<1>1. OPERATIONS \in Seq(Ops) /\ OPERATIONS # <<>>
  <2>1. /\ Len(OPERATIONS) \in Nat
        /\ OPERATIONS \in [1..Len(OPERATIONS) -> STRING]
        /\ DOMAIN OPERATIONS = 1..Len(OPERATIONS)
    BY LoadingAssumption, LenProperties
  <2>2. OPERATIONS \in [1..Len(OPERATIONS) -> Ops]
    BY <2>1 DEF Ops
  <2>3. OPERATIONS \in UNION {[1..n -> Ops] : n \in Nat}
    BY <2>1, <2>2
  <2>. QED
    BY <2>3, SeqDef, LoadingAssumption
<1>2. \A o \in Ops : <<o>> \in Seq(Ops) /\ <<o>> # <<>>
  OBVIOUS
<1>. QED
  BY <1>1, <1>2 DEF Selections

\* A single circuit can be selected.
LEMMA SelectionsOfOne == \A o \in Ops : <<o>> \in Selections
BY DEF Selections

\* A manifest as `generate` writes it is one that can be parsed.
LEMMA PinTyped == \A b \in Builds : Pin(b) \in Manifests
<1> SUFFICES ASSUME NEW b \in Builds PROVE Pin(b) \in Manifests
  OBVIOUS
<1>1. {Bytecode} \in SUBSET (Paths \cup {Outside})
  BY LoadingAssumption DEF Bytecode, Paths
<1>2. [p \in {Bytecode} |-> b] \in [{Bytecode} -> Builds]
  OBVIOUS
<1>. QED
  BY <1>1, <1>2 DEF Pin, Manifests

\* So are the values a load starts with.
LEMMA NothingTyped ==
  /\ NothingParsed \in Manifests
  /\ NothingRead \in Digests
  /\ NoVerdict \in Reports
<1>1. NothingRead \in [{} -> Builds]
  BY DEF NothingRead
<1>2. {} \in SUBSET (Paths \cup {Outside})
  OBVIOUS
<1>3. NothingRead \in Digests
  BY <1>1, <1>2 DEF Digests
<1>4. NothingParsed \in Manifests
  BY <1>3 DEF NothingParsed, Manifests, Digests
<1>5. NoVerdict \in [{} -> LoadErrors \cup {"ok"}] /\ {} \in SUBSET Ops
  BY DEF NoVerdict
<1>6. NoVerdict \in Reports
  BY <1>5 DEF Reports
<1>. QED
  BY <1>3, <1>4, <1>6

\* A command that goes through circuits is at one of them.
LEMMA HeadTyped ==
  ASSUME NEW s \in Seq(Ops), s # <<>>
  PROVE  Head(s) \in Ops /\ Tail(s) \in Seq(Ops)
OBVIOUS

\* Processes that have not begun, or have ended, are typed.
LEMMA IdleTyped ==
  /\ IdleGenerator \in GeneratorStates
  /\ EndedGenerator \in GeneratorStates
  /\ IdleReader \in ReaderStates
<1>1. IdleGenerator \in GeneratorStates
  BY DEF IdleGenerator, GeneratorStates, GeneratorSteps
<1>2. EndedGenerator \in GeneratorStates
  BY <1>1 DEF EndedGenerator, GeneratorStates, GeneratorSteps
<1>3. IdleReader \in ReaderStates
  BY NothingTyped DEF IdleReader, ReaderStates, ReaderSteps
<1>. QED
  BY <1>1, <1>2, <1>3

\* The types hold at the start.
LEMMA TypedInit == Init => Typed
<1> SUFFICES ASSUME Init PROVE Typed
  OBVIOUS
<1>1. FilesTyped
  <2>1. PICK pins \in [Ops -> Builds \cup {Absent}] :
          /\ manifest = [o \in Ops |-> IF pins[o] = Absent THEN Absent ELSE Pin(pins[o])]
          /\ files = [o \in Ops |-> [p \in Paths |-> IF p = Bytecode THEN pins[o] ELSE Absent]]
    BY DEF Init
  <2>2. manifest \in [Ops -> ManifestContents]
    BY <2>1, PinTyped DEF ManifestContents
  <2>3. files \in [Ops -> [Paths -> FileContents]]
    BY <2>1 DEF FileContents
  <2>. QED
    BY <2>2, <2>3, LoadingAssumption DEF Init, FilesTyped
<1>2. GeneratorsTyped
  BY IdleTyped DEF Init, GeneratorsTyped, IdleGenerator, Working
<1>3. ReadersTyped
  BY IdleTyped DEF Init, ReadersTyped, IdleReader
<1>. QED
  BY <1>1, <1>2, <1>3 DEF Typed

\* The load r is where it was.
Unmoved(r) ==
  /\ reader'[r].step = reader[r].step /\ reader'[r].todo = reader[r].todo
  /\ reader'[r].strict = reader[r].strict /\ reader'[r].parsed = reader[r].parsed
  /\ reader'[r].read = reader[r].read

\* Load r of circuit o may not rely on path p any more, if there was no file yet.
Noticed(r, o, p) ==
  IF files[o][p] = Absent THEN reader[r].appeared \cup {<<o, p>>} ELSE reader[r].appeared

\* What happens to the files of a directory does not move a load.
LEMMA TouchReaders ==
  ASSUME ReadersTyped, NEW o \in Ops, NEW p \in Paths, Touch(o, p)
  PROVE  /\ ReadersTyped'
         /\ \A r \in Readers : Unmoved(r) /\ reader'[r].appeared = Noticed(r, o, p)
<1>1. ASSUME NEW r \in Readers
      PROVE  /\ reader'[r] \in ReaderStates
             /\ Unmoved(r)
             /\ reader'[r].appeared = Noticed(r, o, p)
  <2>1. reader[r] \in ReaderStates
    BY DEF ReadersTyped
  <2>2. PICK a \in SUBSET (Ops \X Paths) : a = Noticed(r, o, p)
    <3>1. reader[r].appeared \in SUBSET (Ops \X Paths)
      BY <2>1 DEF ReaderStates
    <3>2. <<o, p>> \in Ops \X Paths
      OBVIOUS
    <3>. QED
      BY <3>1, <3>2 DEF Noticed
  <2>3. reader'[r] = [reader[r] EXCEPT !.quiet = FALSE, !.appeared = a]
    BY <2>2 DEF Touch, Noticed
  <2>. QED
    BY <2>1, <2>2, <2>3 DEF ReaderStates, Unmoved
<1>. QED
  BY <1>1 DEF ReadersTyped, Touch, Unmoved

\* Nor does what happens to its manifest.
LEMMA DisturbReaders ==
  ASSUME ReadersTyped, reader' = [r \in Readers |-> [reader[r] EXCEPT !.quiet = FALSE]]
  PROVE  /\ ReadersTyped'
         /\ \A r \in Readers : Unmoved(r) /\ reader'[r].appeared = reader[r].appeared
<1>1. ASSUME NEW r \in Readers
      PROVE  /\ reader'[r] \in ReaderStates
             /\ Unmoved(r)
             /\ reader'[r].appeared = reader[r].appeared
  BY DEF ReadersTyped, ReaderStates, Unmoved
<1>. QED
  BY <1>1 DEF ReadersTyped, Unmoved

\* A load that moves moves alone.
LEMMA ProceedReaders ==
  ASSUME ReadersTyped, NEW r \in Readers, NEW new \in ReaderStates, Proceed(r, new),
         new.step \notin {"idle", "ended"} => new.todo # <<>>
  PROVE  ReadersTyped' /\ reader'[r] = new /\ \A q \in Readers \ {r} : reader'[q] = reader[q]
BY DEF ReadersTyped, Proceed

\* A load that ends leaves its verdict; the next one starts from nothing.
LEMMA ConcludeReaders ==
  ASSUME ReadersTyped, NEW r \in Readers, reader[r].step \notin {"idle", "ended"},
         NEW result \in LoadErrors \cup {"ok"}, Conclude(r, result)
  PROVE  /\ ReadersTyped'
         /\ reader'[r].step \in {"manifest", "ended"}
         /\ reader'[r].parsed = NothingParsed /\ reader'[r].read = NothingRead
         /\ \A q \in Readers \ {r} : reader'[q] = reader[q]
<1> DEFINE rest     == Tail(reader[r].todo)
           verdict  == With(reader[r].verdict, Loading(r), result)
<1>1. reader[r] \in ReaderStates
  BY DEF ReadersTyped
<1>2. Loading(r) \in Ops /\ rest \in Seq(Ops)
  BY <1>1, HeadTyped DEF ReadersTyped, ReaderStates, Loading
<1>3. verdict \in Reports
  <2>1. PICK D \in SUBSET Ops : reader[r].verdict \in [D -> LoadErrors \cup {"ok"}]
    BY <1>1 DEF ReaderStates, Reports
  <2>2. verdict \in [D \cup {Loading(r)} -> LoadErrors \cup {"ok"}]
    BY <2>1 DEF With
  <2>. QED
    BY <1>2, <2>2 DEF Reports
<1>4. reader[r].strict \in BOOLEAN /\ reader[r].quiet \in BOOLEAN
  BY <1>1 DEF ReaderStates
<1> HIDE DEF rest, verdict
<1>5. reader'[r] = [IdleReader EXCEPT
                      !.step = IF rest = <<>> THEN "ended" ELSE "manifest", !.todo = rest,
                      !.strict = reader[r].strict, !.verdict = verdict, !.quiet = reader[r].quiet]
  BY DEF Conclude, ReadersTyped, rest, verdict
<1>6. /\ reader'[r] \in ReaderStates
      /\ reader'[r].step \in {"manifest", "ended"}
      /\ reader'[r].step = "manifest" => reader'[r].todo # <<>>
      /\ reader'[r].parsed = NothingParsed /\ reader'[r].read = NothingRead
  BY <1>2, <1>3, <1>4, <1>5, NothingTyped DEF IdleReader, ReaderStates, ReaderSteps
<1>7. \A q \in Readers \ {r} : reader'[q] = reader[q]
  BY DEF Conclude, ReadersTyped
<1>. QED
  BY <1>6, <1>7 DEF ReadersTyped, Conclude

-----------------------------------------------------------------------------
(* What a load has seen so far *)

\* A load that has parsed a manifest goes by one of a supported schema, whose
\* paths stay in the directory; what it has read is what that manifest declares;
\* and a file that is not declared and that the listing did not see is new.
LoadSound(r) ==
  LET l == reader[r]
  IN  /\ l.step # "read" => l.read = NothingRead
      /\ l.step \in {"list", "read"} =>
           /\ l.parsed.supported /\ DOMAIN l.parsed.digest \subseteq Paths
           /\ DOMAIN l.read \subseteq DOMAIN l.parsed.digest
           /\ \A p \in DOMAIN l.read : l.read[p] = l.parsed.digest[p]
      /\ l.step = "read" /\ l.strict =>
           \A p \in Present(Loading(r)) \ DOMAIN l.parsed.digest :
             <<Loading(r), p>> \in l.appeared

LoadsSound == ReadersTyped /\ \A r \in Readers : LoadSound(r)

\* No other load is disturbed by a step of load r, and the files stay.
LEMMA OthersSound ==
  ASSUME LoadsSound, NEW r \in Readers, UNCHANGED files,
         \A q \in Readers \ {r} : reader'[q] = reader[q], LoadSound(r)'
  PROVE  \A q \in Readers : LoadSound(q)'
<1>1. ASSUME NEW q \in Readers \ {r} PROVE LoadSound(q)'
  BY <1>1 DEF LoadsSound, LoadSound, Loading, Present
<1>. QED
  BY <1>1

\* A load that ends claims nothing any more.
LEMMA ConcludeSound ==
  ASSUME LoadsSound, NEW r \in Readers, reader[r].step \notin {"idle", "ended"},
         NEW result \in LoadErrors \cup {"ok"}, Conclude(r, result)
  PROVE  LoadsSound'
<1>1. LoadSound(r)'
  BY ConcludeReaders DEF LoadsSound, LoadSound
<1>. QED
  BY <1>1, ConcludeReaders, OthersSound DEF LoadsSound, Conclude

\* A load that goes on must have made sure of what its next step claims.
LEMMA ProceedSound ==
  ASSUME LoadsSound, NEW r \in Readers, NEW new \in ReaderStates, Proceed(r, new),
         new.step \notin {"idle", "ended"} => new.todo # <<>>, LoadSound(r)'
  PROVE  LoadsSound'
BY ProceedReaders, OthersSound DEF LoadsSound, Proceed

\* Every step of a load keeps its claims.
LEMMA LoadStep ==
  ASSUME LoadsSound, NEW r \in Readers, Load(r)
  PROVE  LoadsSound'
<1>0. reader[r] \in ReaderStates
  BY DEF LoadsSound, ReadersTyped
<1>1. ASSUME NEW selected \in Selections, NEW strict \in BOOLEAN, StartLoading(r, selected, strict)
      PROVE  LoadsSound'
  <2> DEFINE new == [IdleReader EXCEPT !.step = "manifest", !.todo = selected, !.strict = strict]
  <2>1. new \in ReaderStates /\ new.step = "manifest" /\ new.todo # <<>> /\ new.read = NothingRead
    BY SelectionsTyped, NothingTyped DEF IdleReader, ReaderStates, ReaderSteps
  <2>2. Proceed(r, new)
    BY <1>1 DEF StartLoading
  <2> HIDE DEF new
  <2>3. LoadSound(r)'
    BY <2>1, <2>2, ProceedReaders DEF LoadSound, LoadsSound
  <2>. QED
    BY <2>1, <2>2, <2>3, ProceedSound
<1>2. CASE ReadManifest(r)
  <2> DEFINE m   == manifest[Loading(r)]
             new == [reader[r] EXCEPT !.step = IF reader[r].strict THEN "list" ELSE "read",
                                      !.parsed = m]
  <2>1. CASE \E result \in LoadErrors : Conclude(r, result)
    BY <1>2, <2>1, ConcludeSound DEF ReadManifest
  <2>2. CASE /\ m \in Manifests /\ m.supported /\ Outside \notin DOMAIN m.digest
             /\ Proceed(r, new)
    <3>1. /\ new \in ReaderStates /\ new.step = IF reader[r].strict THEN "list" ELSE "read"
          /\ new.parsed = m /\ new.read = reader[r].read /\ new.todo = reader[r].todo
          /\ new.strict = reader[r].strict
      BY <1>0, <2>2 DEF ReaderStates, ReaderSteps
    <3>2. new.todo # <<>>
      BY <3>1, <1>2 DEF ReadManifest, LoadsSound, ReadersTyped
    <3>3. new.read = NothingRead /\ DOMAIN new.read = {}
      BY <3>1, <1>2 DEF ReadManifest, LoadsSound, LoadSound, NothingRead
    <3>4. m.digest \in Digests /\ DOMAIN m.digest \subseteq Paths
      BY <2>2 DEF Manifests, Digests
    <3> HIDE DEF new, m
    <3>5. LoadSound(r)'
      BY <2>2, <3>1, <3>2, <3>3, <3>4, ProceedReaders DEF LoadSound, LoadsSound
    <3>. QED
      BY <2>2, <3>1, <3>2, <3>5, ProceedSound
  <2>. QED
    BY <1>2, <2>1, <2>2 DEF ReadManifest, LoadErrors
<1>3. CASE List(r)
  <2> DEFINE new == [reader[r] EXCEPT !.step = "read"]
  <2>1. CASE Conclude(r, "UnexpectedFile")
    BY <1>3, <2>1, ConcludeSound DEF List, LoadErrors
  <2>2. CASE Present(Loading(r)) \subseteq DOMAIN reader[r].parsed.digest /\ Proceed(r, new)
    <3>1. /\ new \in ReaderStates /\ new.step = "read" /\ new.parsed = reader[r].parsed
          /\ new.read = reader[r].read /\ new.todo = reader[r].todo
      BY <1>0 DEF ReaderStates, ReaderSteps
    <3>2. new.todo # <<>>
      BY <3>1, <1>3 DEF List, LoadsSound, ReadersTyped
    <3> HIDE DEF new
    <3>3. Present(Loading(r))' = Present(Loading(r))
      BY <2>2, <3>1, ProceedReaders, <3>2 DEF LoadsSound, Proceed, Present, Loading
    <3>4. LoadSound(r)'
      BY <1>3, <2>2, <3>1, <3>2, <3>3, ProceedReaders DEF List, LoadSound, LoadsSound
    <3>. QED
      BY <2>2, <3>1, <3>2, <3>4, ProceedSound
  <2>. QED
    BY <1>3, <2>1, <2>2 DEF List
<1>4. CASE ReadFile(r)
  <2> DEFINE declared == reader[r].parsed.digest
  <2>1. PICK p \in DOMAIN declared \ DOMAIN reader[r].read :
          \/ \E result \in LoadErrors : Conclude(r, result)
          \/ Proceed(r, [reader[r] EXCEPT !.read = With(@, p, declared[p])])
    BY <1>4 DEF ReadFile, LoadErrors
  <2> DEFINE read == With(reader[r].read, p, declared[p])
             new  == [reader[r] EXCEPT !.read = read]
  <2>2. CASE \E result \in LoadErrors : Conclude(r, result)
    BY <1>4, <2>2, ConcludeSound DEF ReadFile
  <2>3. CASE Proceed(r, new)
    <3>1. reader[r].parsed.digest \in Digests /\ reader[r].read \in Digests
      BY <1>0 DEF ReaderStates, Manifests, Digests
    <3>2. read \in Digests
      <4>1. PICK D \in SUBSET (Paths \cup {Outside}) : declared \in [D -> Builds]
        BY <3>1 DEF Digests
      <4>2. PICK E \in SUBSET (Paths \cup {Outside}) : reader[r].read \in [E -> Builds]
        BY <3>1 DEF Digests
      <4>3. read \in [E \cup {p} -> Builds] /\ E \cup {p} \in SUBSET (Paths \cup {Outside})
        BY <2>1, <4>1, <4>2 DEF With
      <4>. QED
        BY <4>3 DEF Digests
    <3>3. /\ DOMAIN read = DOMAIN reader[r].read \cup {p}
          /\ read[p] = declared[p]
          /\ \A q \in DOMAIN reader[r].read : read[q] = reader[r].read[q]
      BY <2>1 DEF With
    <3> HIDE DEF read
    <3>4. /\ new \in ReaderStates /\ new.step = "read" /\ new.parsed = reader[r].parsed
          /\ new.read = read /\ new.todo = reader[r].todo /\ new.strict = reader[r].strict
          /\ new.appeared = reader[r].appeared
      BY <1>0, <1>4, <3>2 DEF ReaderStates, ReadFile
    <3>5. new.todo # <<>>
      BY <3>4, <1>4 DEF ReadFile, LoadsSound, ReadersTyped
    <3> HIDE DEF new
    <3>6. Present(Loading(r))' = Present(Loading(r)) /\ Loading(r)' = Loading(r)
      BY <2>3, <3>4, ProceedReaders, <3>5 DEF LoadsSound, Proceed, Present, Loading
    <3>7. LoadSound(r)'
      <4>1. reader'[r] = new
        BY <2>3, <3>4, <3>5, ProceedReaders DEF LoadsSound
      <4>2. LoadSound(r) /\ reader[r].step = "read"
        BY <1>4 DEF LoadsSound, ReadFile
      <4>. QED
        BY <2>1, <3>3, <3>4, <3>6, <4>1, <4>2 DEF LoadSound
    <3>. QED
      BY <2>3, <3>4, <3>5, <3>7, ProceedSound
  <2>. QED
    BY <2>1, <2>2, <2>3
<1>5. CASE Return(r)
  BY <1>5, ConcludeSound DEF Return, Loaded
<1>. QED
  BY <1>1, <1>2, <1>3, <1>4, <1>5, SelectionsOfOne DEF Load

-----------------------------------------------------------------------------
(* Generators and the files *)

\* One file of one directory changes.
LEMMA PutFile ==
  ASSUME FilesTyped, NEW o \in Ops, NEW p \in Paths, NEW c \in FileContents,
         files' = [files EXCEPT ![o][p] = c]
  PROVE  /\ files' \in [Ops -> [Paths -> FileContents]]
         /\ files'[o][p] = c
         /\ \A q \in Paths \ {p} : files'[o][q] = files[o][q]
         /\ \A e \in Ops \ {o} : files'[e] = files[e]
BY DEF FilesTyped

\* The circuit a generator is at is a circuit.
LEMMA AtTyped ==
  ASSUME GeneratorsTyped, NEW g \in Generators, gen[g].step \notin {"idle", "ended"}
  PROVE  At(g) \in Ops /\ Tail(gen[g].todo) \in Seq(Ops)
<1>1. gen[g].todo \in Seq(Ops) /\ gen[g].todo # <<>>
  BY DEF GeneratorsTyped, GeneratorStates
<1>. QED
  BY <1>1, HeadTyped DEF At

\* A generator that goes on within a circuit changes only its program point.
LEMMA AdvanceGenerator ==
  ASSUME GeneratorsTyped, NEW g \in Generators, Working(g), NEW from,
         NEW to \in {"bytesOpen", "manifest", "manifestOpen"}, Advance(g, from, to)
  PROVE  /\ GeneratorsTyped'
         /\ gen'[g].step = to /\ gen'[g].todo = gen[g].todo
         /\ gen'[g].bytes = gen[g].bytes /\ gen'[g].alone = gen[g].alone
         /\ \A h \in Generators \ {g} : gen'[h] = gen[h]
<1>1. gen[g] \in GeneratorStates
  BY DEF GeneratorsTyped
<1>2. /\ gen'[g] \in GeneratorStates
      /\ gen'[g].step = to /\ gen'[g].todo = gen[g].todo
      /\ gen'[g].bytes = gen[g].bytes /\ gen'[g].alone = gen[g].alone
  BY <1>1 DEF Advance, GeneratorsTyped, GeneratorStates, GeneratorSteps
<1>3. \A h \in Generators \ {g} : gen'[h] = gen[h]
  BY DEF Advance, GeneratorsTyped
<1>. QED
  BY <1>2, <1>3 DEF GeneratorsTyped, Working, Advance

\* A generator that leaves a circuit, or has none yet, works at none.
LEMMA LeaveGenerator ==
  ASSUME GeneratorsTyped, NEW g \in Generators, NEW new \in GeneratorStates,
         gen' = [gen EXCEPT ![g] = new], new.step \in {"next", "ended"},
         new.step = "next" => new.todo # <<>>
  PROVE  /\ GeneratorsTyped'
         /\ gen'[g] = new /\ ~Working(g)'
         /\ \A h \in Generators \ {g} : gen'[h] = gen[h]
BY DEF GeneratorsTyped, Working

\* Others are at circuit o: its generators are not alone any more.
LEMMA JoinGenerators ==
  ASSUME GeneratorsTyped, NEW g \in Generators, NEW o,
         gen'[g] = IF Working(g) /\ At(g) = o THEN [gen[g] EXCEPT !.alone = FALSE] ELSE gen[g]
  PROVE  /\ gen'[g] \in GeneratorStates
         /\ gen'[g].step = gen[g].step /\ gen'[g].todo = gen[g].todo
         /\ gen'[g].bytes = gen[g].bytes
         /\ gen'[g].alone = (gen[g].alone /\ ~(Working(g) /\ At(g) = o))
<1>1. gen[g] \in GeneratorStates
  BY DEF GeneratorsTyped
<1>. QED
  BY <1>1 DEF GeneratorStates

\* Beginning a circuit: the generator has its bytes, and is alone if no other
\* works there; those that do are not alone any more.
LEMMA BeginGenerator ==
  ASSUME FilesTyped, GeneratorsTyped, NEW g \in Generators, ReadTarget(g)
  PROVE  /\ GeneratorsTyped'
         /\ gen'[g].step = "bytes" /\ gen'[g].todo = gen[g].todo
         /\ gen'[g].alone = AtRest(At(g))
         /\ \A h \in Generators \ {g} :
              /\ gen'[h].step = gen[h].step /\ gen'[h].todo = gen[h].todo
              /\ gen'[h].bytes = gen[h].bytes
              /\ gen'[h].alone = (gen[h].alone /\ ~(Working(h) /\ At(h) = At(g)))
<1>1. gen[g] \in GeneratorStates /\ At(g) \in Ops
  BY AtTyped DEF GeneratorsTyped, ReadTarget
<1>2. target[At(g)] \in Builds
  BY <1>1 DEF FilesTyped, ReadTarget
<1>3. gen'[g] = [gen[g] EXCEPT !.step = "bytes", !.bytes = target[At(g)], !.alone = AtRest(At(g))]
  BY DEF ReadTarget
<1>4. AtRest(At(g)) \in BOOLEAN
  BY DEF AtRest
<1>5. /\ gen'[g] \in GeneratorStates
      /\ gen'[g].step = "bytes" /\ gen'[g].todo = gen[g].todo
      /\ gen'[g].bytes = target[At(g)] /\ gen'[g].alone = AtRest(At(g))
  BY <1>1, <1>2, <1>3, <1>4 DEF GeneratorStates, GeneratorSteps
<1>6. ASSUME NEW h \in Generators \ {g}
      PROVE  /\ gen'[h] \in GeneratorStates
             /\ gen'[h].step = gen[h].step /\ gen'[h].todo = gen[h].todo
             /\ gen'[h].bytes = gen[h].bytes
             /\ gen'[h].alone = (gen[h].alone /\ ~(Working(h) /\ At(h) = At(g)))
  <2>1. gen'[h] = IF Working(h) /\ At(h) = At(g) THEN [gen[h] EXCEPT !.alone = FALSE] ELSE gen[h]
    BY DEF ReadTarget
  <2>. QED
    BY <2>1, JoinGenerators
<1>7. gen' \in [Generators -> GeneratorStates]
  <2>1. \A h \in Generators : gen'[h] \in GeneratorStates
    BY <1>5, <1>6
  <2>2. DOMAIN gen' = Generators /\ gen' = [h \in Generators |-> gen'[h]]
    BY DEF ReadTarget
  <2>. QED
    BY <2>1, <2>2
<1>8. \A h \in Generators :
        /\ gen'[h].step \notin {"idle", "ended"} => gen'[h].todo # <<>>
        /\ Working(h)' => gen'[h].bytes \in Builds
  BY <1>2, <1>5, <1>6 DEF GeneratorsTyped, Working, ReadTarget
<1>. QED
  BY <1>5, <1>6, <1>7, <1>8 DEF GeneratorsTyped

\* A hand at directory o: those at o are not alone any more.
LEMMA UpsetGenerators ==
  ASSUME FilesTyped, GeneratorsTyped, NEW o \in Ops, Upset(o)
  PROVE  /\ GeneratorsTyped'
         /\ \A h \in Generators :
              /\ gen'[h].step = gen[h].step /\ gen'[h].todo = gen[h].todo
              /\ gen'[h].bytes = gen[h].bytes
              /\ gen'[h].alone = (gen[h].alone /\ ~(Working(h) /\ At(h) = o))
         /\ disturbed' \subseteq Ops /\ upsets' \in 0..MaxUpsets
<1>1. ASSUME NEW h \in Generators
      PROVE  /\ gen'[h] \in GeneratorStates
             /\ gen'[h].step = gen[h].step /\ gen'[h].todo = gen[h].todo
             /\ gen'[h].bytes = gen[h].bytes
             /\ gen'[h].alone = (gen[h].alone /\ ~(Working(h) /\ At(h) = o))
  <2>1. gen'[h] = IF Working(h) /\ At(h) = o THEN [gen[h] EXCEPT !.alone = FALSE] ELSE gen[h]
    BY DEF Upset
  <2>. QED
    BY <2>1, JoinGenerators
<1>2. gen' \in [Generators -> GeneratorStates]
  <2>1. gen' = [h \in Generators |-> gen'[h]]
    BY DEF Upset
  <2>. QED
    BY <1>1, <2>1
<1>3. disturbed' \subseteq Ops /\ upsets' \in 0..MaxUpsets
  BY LoadingAssumption DEF Upset, FilesTyped
<1>. QED
  BY <1>1, <1>2, <1>3 DEF GeneratorsTyped, Working

-----------------------------------------------------------------------------
(* Loads, while their directories change *)

\* A path that gets a file after the listing is noticed; all others are as seen.
LEMMA TouchSound ==
  ASSUME FilesTyped, LoadsSound, NEW o \in Ops, NEW p \in Paths, NEW c \in FileContents,
         files' = [files EXCEPT ![o][p] = c], Touch(o, p)
  PROVE  LoadsSound'
<1>1. ASSUME NEW r \in Readers PROVE LoadSound(r)'
  <2>1. Unmoved(r) /\ reader'[r].appeared = Noticed(r, o, p) /\ Loading(r)' = Loading(r)
    BY TouchReaders DEF LoadsSound, Unmoved, Loading
  <2>2. LoadSound(r)
    BY DEF LoadsSound
  <2>3. ASSUME reader[r].step = "read", reader[r].strict,
               NEW q \in Present(Loading(r))' \ DOMAIN reader[r].parsed.digest
        PROVE  <<Loading(r), q>> \in reader'[r].appeared
    <3>1. CASE q \in Present(Loading(r))
      BY <2>1, <2>2, <2>3, <3>1 DEF LoadSound, Noticed
    <3>2. CASE q \notin Present(Loading(r))
      <4>1. Loading(r) \in Ops
        BY <2>3, HeadTyped DEF LoadsSound, ReadersTyped, ReaderStates, Loading
      <4>2. q = p /\ Loading(r) = o /\ files[o][p] = Absent
        BY <2>1, <3>2, <4>1, PutFile DEF Present
      <4>. QED
        BY <2>1, <4>2 DEF Noticed
    <3>. QED
      BY <3>1, <3>2
  <2>. QED
    BY <2>1, <2>2, <2>3 DEF LoadSound, Unmoved
<1>. QED
  BY <1>1, TouchReaders DEF LoadsSound

\* A manifest that changes does not change what was parsed.
LEMMA DisturbSound ==
  ASSUME LoadsSound, UNCHANGED files,
         reader' = [r \in Readers |-> [reader[r] EXCEPT !.quiet = FALSE]]
  PROVE  LoadsSound'
<1>1. ASSUME NEW r \in Readers PROVE LoadSound(r)'
  <2>1. Unmoved(r) /\ reader'[r].appeared = reader[r].appeared /\ Loading(r)' = Loading(r)
    BY DisturbReaders DEF LoadsSound, Unmoved, Loading
  <2>2. LoadSound(r)
    BY DEF LoadsSound
  <2>3. Present(Loading(r))' = Present(Loading(r))
    BY <2>1 DEF Present
  <2>. QED
    BY <2>1, <2>2, <2>3 DEF LoadSound, Unmoved
<1>. QED
  BY <1>1, DisturbReaders DEF LoadsSound

\* Whatever leaves the files and the loads alone.
LEMMA SameSound ==
  ASSUME LoadsSound, UNCHANGED <<files, reader>>
  PROVE  LoadsSound'
BY DEF LoadsSound, ReadersTyped, LoadSound, Loading, Present

-----------------------------------------------------------------------------
(* Pins *)

\* A generator that has been alone at its circuit is alone there now, and the
\* bytecode it has written is what it will declare.
PinSound(g) ==
  Working(g) /\ gen[g].alone =>
    /\ \A h \in Generators \ {g} : Working(h) => At(h) # At(g)
    /\ gen[g].step \in {"manifest", "manifestOpen"} => files[At(g)][Bytecode] = gen[g].bytes

Sound ==
  /\ FilesTyped /\ GeneratorsTyped /\ LoadsSound
  /\ \A g \in Generators : PinSound(g)
  /\ MismatchHasACause

\* A circuit that is where it was, between steps that are somewhere else.
LEMMA SameMatches ==
  ASSUME NEW o, manifest'[o] = manifest[o], files'[o] = files[o]
  PROVE  Matches(o)' = Matches(o) /\ Empty(o)' = Empty(o)
BY DEF Matches, Empty, Present

\* A step of generator g at its circuit leaves the other circuits alone, and those
\* that work there with it are not alone.
LEMMA WorkSound ==
  ASSUME Sound, NEW g \in Generators, Working(g), Working(g)', At(g)' = At(g),
         gen'[g].bytes = gen[g].bytes, gen'[g].alone = gen[g].alone,
         \A h \in Generators \ {g} : gen'[h] = gen[h],
         \A e \in Ops \ {At(g)} : files'[e] = files[e] /\ manifest'[e] = manifest[e],
         gen'[g].step \in {"manifest", "manifestOpen"} /\ gen[g].alone =>
           files'[At(g)][Bytecode] = gen[g].bytes,
         disturbed' = disturbed
  PROVE  (\A h \in Generators : PinSound(h))' /\ MismatchHasACause'
<1>1. \A h \in Generators : (Working(h)' <=> Working(h)) /\ At(h)' = At(h)
  BY DEF Working, At
<1>2. ASSUME NEW h \in Generators PROVE PinSound(h)'
  <2>1. /\ PinSound(h) /\ (Working(h)' <=> Working(h)) /\ At(h)' = At(h)
        /\ gen'[h].alone = gen[h].alone /\ gen'[h].bytes = gen[h].bytes
    BY <1>1 DEF Sound
  <2>2. ASSUME Working(h), gen[h].alone, NEW k \in Generators \ {h}, Working(k)'
        PROVE  At(k)' # At(h)'
    <3>1. Working(k) /\ At(k)' = At(k)
      BY <1>1, <2>2
    <3>. QED
      BY <2>1, <2>2, <3>1 DEF PinSound
  <2>3. ASSUME Working(h), gen[h].alone, gen'[h].step \in {"manifest", "manifestOpen"}
        PROVE  files'[At(h)][Bytecode] = gen[h].bytes
    <3>1. CASE h # g
      <4>1. At(g) # At(h) /\ At(h) \in Ops
        BY <2>1, <2>3, <3>1, AtTyped DEF Sound, PinSound, Working
      <4>2. gen'[h] = gen[h] /\ files'[At(h)] = files[At(h)]
        BY <3>1, <4>1
      <4>. QED
        BY <2>1, <2>3, <4>2 DEF PinSound
    <3>. QED
      BY <2>3, <3>1
  <2>. QED
    BY <2>1, <2>2, <2>3 DEF PinSound
<1>3. ASSUME NEW o \in Ops, AtRest(o)', o \notin disturbed' PROVE Matches(o)' \/ Empty(o)'
  <2>1. AtRest(o) /\ o # At(g)
    BY <1>1, <1>3 DEF AtRest
  <2>. QED
    BY <1>3, <2>1, SameMatches DEF Sound, MismatchHasACause
<1>. QED
  BY <1>2, <1>3 DEF MismatchHasACause

\* A step after which no generator works where none worked, none claims to be
\* alone that did not, or whose files changed, and each circuit is disturbed, as
\* it is declared, or as it was.
LEMMA RestSound ==
  ASSUME Sound,
         \A h \in Generators :
           Working(h)' => /\ Working(h) /\ At(h)' = At(h)
                          /\ gen'[h].step = gen[h].step /\ gen'[h].bytes = gen[h].bytes
                          /\ gen'[h].alone => gen[h].alone /\ files'[At(h)] = files[At(h)],
         \A o \in Ops \ disturbed' : AtRest(o)' =>
           \/ Matches(o)'
           \/ /\ AtRest(o) /\ o \notin disturbed
              /\ manifest'[o] = manifest[o] /\ files'[o] = files[o]
  PROVE  (\A h \in Generators : PinSound(h))' /\ MismatchHasACause'
<1>1. ASSUME NEW h \in Generators PROVE PinSound(h)'
  <2>1. ASSUME Working(h)', gen'[h].alone
        PROVE  /\ PinSound(h) /\ Working(h) /\ gen[h].alone /\ At(h)' = At(h)
               /\ gen'[h].step = gen[h].step /\ gen'[h].bytes = gen[h].bytes
               /\ files'[At(h)] = files[At(h)]
    BY <2>1 DEF Sound
  <2>2. ASSUME Working(h)', gen'[h].alone, NEW k \in Generators \ {h}, Working(k)'
        PROVE  At(k)' # At(h)'
    <3>1. Working(k) /\ At(k)' = At(k)
      BY <2>2
    <3>. QED
      BY <2>1, <2>2, <3>1 DEF PinSound
  <2>. QED
    BY <2>1, <2>2 DEF PinSound
<1>2. ASSUME NEW o \in Ops, AtRest(o)', o \notin disturbed' PROVE Matches(o)' \/ Empty(o)'
  BY <1>2, SameMatches DEF Sound, MismatchHasACause
<1>. QED
  BY <1>1, <1>2 DEF MismatchHasACause

\* A pin as Init allows it, whole or not there, matches or is empty.
LEMMA SoundInit == Init => Sound
<1> SUFFICES ASSUME Init PROVE Sound
  OBVIOUS
<1>1. Typed
  BY TypedInit
<1>2. \A r \in Readers : LoadSound(r)
  BY DEF Init, IdleReader, LoadSound
<1>3. \A g \in Generators : PinSound(g)
  BY DEF Init, IdleGenerator, PinSound, Working
<1>4. ASSUME NEW o \in Ops PROVE Matches(o) \/ Empty(o)
  <2>1. PICK pin \in Builds \cup {Absent} :
          /\ manifest[o] = IF pin = Absent THEN Absent ELSE Pin(pin)
          /\ files[o] = [p \in Paths |-> IF p = Bytecode THEN pin ELSE Absent]
    BY DEF Init
  <2>2. CASE pin = Absent
    BY <2>1, <2>2 DEF Empty, Present
  <2>3. CASE pin \in Builds
    <3>1. Pin(pin) \in Manifests /\ Bytecode \in Paths /\ pin # Absent
      BY <2>3, PinTyped, LoadingAssumption DEF Bytecode, Paths
    <3>. QED
      BY <2>1, <3>1 DEF Matches, Pin
  <2>. QED
    BY <2>1, <2>2, <2>3
<1>. QED
  BY <1>1, <1>2, <1>3, <1>4 DEF Sound, Typed, LoadsSound, MismatchHasACause

\* A command begins.
LEMMA StartStep ==
  ASSUME Sound, NEW g \in Generators, NEW selected \in Selections, StartGenerate(g, selected)
  PROVE  Sound'
<1> DEFINE new == [IdleGenerator EXCEPT !.step = "next", !.todo = selected]
<1>1. new \in GeneratorStates /\ new.step = "next" /\ new.todo # <<>>
  BY SelectionsTyped DEF IdleGenerator, GeneratorStates, GeneratorSteps
<1>2. gen' = [gen EXCEPT ![g] = new]
  BY DEF StartGenerate
<1> HIDE DEF new
<1>3. GeneratorsTyped' /\ ~Working(g)' /\ \A h \in Generators \ {g} : gen'[h] = gen[h]
  BY <1>1, <1>2, LeaveGenerator DEF Sound
<1>4. FilesTyped' /\ LoadsSound'
  BY SameSound DEF Sound, StartGenerate, FilesTyped
<1>5. ~Working(g)
  BY DEF StartGenerate, Working
<1>6. (\A h \in Generators : PinSound(h))' /\ MismatchHasACause'
  <2>1. \A h \in Generators \ {g} : (Working(h)' <=> Working(h)) /\ At(h)' = At(h)
    BY <1>3 DEF Working, At
  <2>2. \A o : AtRest(o)' => AtRest(o)
    BY <1>5, <2>1 DEF AtRest
  <2>. QED
    BY <1>3, <2>1, <2>2, RestSound DEF StartGenerate
<1>. QED
  BY <1>3, <1>4, <1>6 DEF Sound

\* It meets a circuit that was never compiled.
LEMMA MissingStep ==
  ASSUME Sound, NEW g \in Generators, TargetMissing(g)
  PROVE  Sound'
<1>1. GeneratorsTyped' /\ ~Working(g)' /\ \A h \in Generators \ {g} : gen'[h] = gen[h]
  BY IdleTyped, LeaveGenerator DEF Sound, TargetMissing, EndedGenerator, IdleGenerator
<1>2. FilesTyped' /\ LoadsSound'
  BY SameSound DEF Sound, TargetMissing, FilesTyped
<1>3. ~Working(g)
  BY DEF TargetMissing, Working
<1>4. (\A h \in Generators : PinSound(h))' /\ MismatchHasACause'
  <2>1. \A h \in Generators \ {g} : (Working(h)' <=> Working(h)) /\ At(h)' = At(h)
    BY <1>1 DEF Working, At
  <2>2. \A o : AtRest(o)' => AtRest(o)
    BY <1>3, <2>1 DEF AtRest
  <2>. QED
    BY <1>1, <2>1, <2>2, RestSound DEF TargetMissing
<1>. QED
  BY <1>1, <1>2, <1>4 DEF Sound

\* It dies at a circuit, which is disturbed from then on.
LEMMA DiesStep ==
  ASSUME Sound, NEW g \in Generators, GeneratorDies(g)
  PROVE  Sound'
<1>1. GeneratorsTyped' /\ ~Working(g)' /\ \A h \in Generators \ {g} : gen'[h] = gen[h]
  BY IdleTyped, LeaveGenerator DEF Sound, GeneratorDies, EndedGenerator, IdleGenerator
<1>2. At(g) \in Ops
  BY AtTyped DEF Sound, GeneratorDies, Working
<1>3. FilesTyped'
  BY <1>2, LoadingAssumption DEF Sound, GeneratorDies, FilesTyped
<1>4. LoadsSound'
  BY SameSound DEF Sound, GeneratorDies
<1>5. (\A h \in Generators : PinSound(h))' /\ MismatchHasACause'
  <2>1. \A h \in Generators \ {g} : (Working(h)' <=> Working(h)) /\ At(h)' = At(h)
    BY <1>1 DEF Working, At
  <2>2. \A o : AtRest(o)' /\ o \notin disturbed' => AtRest(o) /\ o \notin disturbed
    BY <2>1 DEF AtRest, GeneratorDies
  <2>. QED
    BY <1>1, <2>1, <2>2, RestSound DEF GeneratorDies
<1>. QED
  BY <1>1, <1>3, <1>4, <1>5 DEF Sound

\* It begins a circuit: it is alone there, or none is.
LEMMA BeginStep ==
  ASSUME Sound, NEW g \in Generators, ReadTarget(g)
  PROVE  Sound'
<1>1. /\ GeneratorsTyped'
      /\ gen'[g].step = "bytes" /\ gen'[g].todo = gen[g].todo
      /\ gen'[g].alone = AtRest(At(g))
      /\ \A h \in Generators \ {g} :
           /\ gen'[h].step = gen[h].step /\ gen'[h].todo = gen[h].todo
           /\ gen'[h].bytes = gen[h].bytes
           /\ gen'[h].alone = (gen[h].alone /\ ~(Working(h) /\ At(h) = At(g)))
  BY BeginGenerator DEF Sound
<1>2. FilesTyped' /\ LoadsSound'
  BY SameSound DEF Sound, ReadTarget, FilesTyped
<1>3. /\ At(g)' = At(g)
      /\ \A h \in Generators \ {g} : (Working(h)' <=> Working(h)) /\ At(h)' = At(h)
  BY <1>1 DEF Working, At
<1>4. PinSound(g)'
  <2>1. ASSUME AtRest(At(g)), NEW h \in Generators \ {g}, Working(h)' PROVE At(h)' # At(g)'
    <3>1. Working(h) /\ At(h)' = At(h)
      BY <1>3, <2>1
    <3>. QED
      BY <1>3, <2>1, <3>1 DEF AtRest
  <2>. QED
    BY <1>1, <2>1 DEF PinSound
<1>5. ASSUME NEW h \in Generators \ {g} PROVE PinSound(h)'
  <2>1. /\ PinSound(h) /\ (Working(h)' <=> Working(h)) /\ At(h)' = At(h)
        /\ gen'[h].step = gen[h].step /\ gen'[h].bytes = gen[h].bytes
        /\ gen'[h].alone = (gen[h].alone /\ ~(Working(h) /\ At(h) = At(g)))
    BY <1>1, <1>3 DEF Sound
  <2>2. ASSUME Working(h), gen'[h].alone, NEW k \in Generators \ {h}, Working(k)'
        PROVE  At(k)' # At(h)'
    <3>1. CASE k = g
      BY <1>3, <2>1, <2>2, <3>1
    <3>2. CASE k # g
      <4>1. Working(k) /\ At(k)' = At(k)
        BY <1>3, <2>2, <3>2
      <4>. QED
        BY <2>1, <2>2, <4>1 DEF PinSound
    <3>. QED
      BY <3>1, <3>2
  <2>3. files' = files
    BY DEF ReadTarget
  <2>. QED
    BY <2>1, <2>2, <2>3 DEF PinSound
<1>6. ASSUME NEW o \in Ops, AtRest(o)', o \notin disturbed' PROVE Matches(o)' \/ Empty(o)'
  <2>1. ~Working(g)
    BY DEF ReadTarget, Working
  <2>2. AtRest(o)
    BY <1>3, <1>6, <2>1 DEF AtRest
  <2>3. manifest' = manifest /\ files' = files /\ disturbed' = disturbed
    BY DEF ReadTarget
  <2>. QED
    BY <1>6, <2>2, <2>3, SameMatches DEF Sound, MismatchHasACause
<1>. QED
  BY <1>1, <1>2, <1>4, <1>5, <1>6 DEF Sound, MismatchHasACause

\* It writes the bytecode.
LEMMA BytecodeStep ==
  ASSUME Sound, NEW g \in Generators, TruncateBytecode(g) \/ WriteBytecode(g)
  PROVE  Sound'
<1>1. PICK to \in {"bytesOpen", "manifest"}, c \in FileContents :
        /\ Working(g) /\ \E from : Advance(g, from, to)
        /\ files' = [files EXCEPT ![At(g)][Bytecode] = c]
        /\ to = "manifest" => c = gen[g].bytes
        /\ Touch(At(g), Bytecode)
        /\ UNCHANGED <<target, manifest, disturbed, upsets>>
  <2>1. CASE TruncateBytecode(g)
    BY <2>1 DEF TruncateBytecode, Working, Advance, FileContents
  <2>2. CASE WriteBytecode(g)
    <3>1. Working(g) /\ gen[g].bytes \in FileContents
      BY <2>2 DEF WriteBytecode, Working, Advance, Sound, GeneratorsTyped, FileContents
    <3>. QED
      BY <2>2, <3>1 DEF WriteBytecode
  <2>. QED
    BY <2>1, <2>2
<1>2. /\ GeneratorsTyped'
      /\ gen'[g].step = to /\ gen'[g].todo = gen[g].todo
      /\ gen'[g].bytes = gen[g].bytes /\ gen'[g].alone = gen[g].alone
      /\ \A h \in Generators \ {g} : gen'[h] = gen[h]
  BY <1>1, AdvanceGenerator DEF Sound
<1>3. At(g) \in Ops /\ Bytecode \in Paths
  BY <1>1, AtTyped, LoadingAssumption DEF Sound, Working, Bytecode, Paths
<1>4. /\ files' \in [Ops -> [Paths -> FileContents]]
      /\ files'[At(g)][Bytecode] = c
      /\ \A e \in Ops \ {At(g)} : files'[e] = files[e]
  BY <1>1, <1>3, PutFile DEF Sound
<1>5. FilesTyped' /\ LoadsSound'
  BY <1>1, <1>3, <1>4, TouchSound DEF Sound, FilesTyped
<1>6. Working(g)' /\ At(g)' = At(g)
  BY <1>1, <1>2 DEF Working, At
<1>7. (\A h \in Generators : PinSound(h))' /\ MismatchHasACause'
  BY <1>1, <1>2, <1>4, <1>6, WorkSound
<1>. QED
  BY <1>2, <1>5, <1>7 DEF Sound

\* It opens the manifest: the bytecode is there, and stays.
LEMMA OpenStep ==
  ASSUME Sound, NEW g \in Generators, TruncateManifest(g)
  PROVE  Sound'
<1>1. Working(g)
  BY DEF TruncateManifest, Advance, Working
<1>2. /\ GeneratorsTyped'
      /\ gen'[g].step = "manifestOpen" /\ gen'[g].todo = gen[g].todo
      /\ gen'[g].bytes = gen[g].bytes /\ gen'[g].alone = gen[g].alone
      /\ \A h \in Generators \ {g} : gen'[h] = gen[h]
  BY <1>1, AdvanceGenerator DEF Sound, TruncateManifest
<1>3. At(g) \in Ops
  BY <1>1, AtTyped DEF Sound, Working
<1>4. FilesTyped'
  BY <1>3 DEF Sound, TruncateManifest, FilesTyped, ManifestContents
<1>5. LoadsSound'
  BY DisturbSound DEF Sound, TruncateManifest
<1>6. Working(g)' /\ At(g)' = At(g)
  BY <1>1, <1>2 DEF Working, At
<1>7. gen[g].alone => files'[At(g)][Bytecode] = gen[g].bytes
  BY <1>1 DEF Sound, PinSound, TruncateManifest, Advance
<1>8. \A e \in Ops \ {At(g)} : files'[e] = files[e] /\ manifest'[e] = manifest[e]
  BY <1>3 DEF Sound, FilesTyped, TruncateManifest
<1>9. (\A h \in Generators : PinSound(h))' /\ MismatchHasACause'
  BY <1>1, <1>2, <1>6, <1>7, <1>8, WorkSound DEF TruncateManifest
<1>. QED
  BY <1>2, <1>4, <1>5, <1>9 DEF Sound

\* It declares what it wrote.  If it was alone, that is what is there.
LEMMA DeclareStep ==
  ASSUME Sound, NEW g \in Generators, WriteManifest(g)
  PROVE  Sound'
<1> DEFINE rest == Tail(gen[g].todo)
           new  == IF rest = <<>> THEN EndedGenerator
                   ELSE [IdleGenerator EXCEPT !.step = "next", !.todo = rest]
<1>1. Working(g) /\ At(g) \in Ops /\ rest \in Seq(Ops) /\ gen[g].bytes \in Builds
  BY AtTyped DEF Sound, GeneratorsTyped, WriteManifest, Working
<1>2. new \in GeneratorStates /\ new.step \in {"next", "ended"} /\ (new.step = "next" => new.todo # <<>>)
  BY <1>1, IdleTyped DEF EndedGenerator, IdleGenerator, GeneratorStates, GeneratorSteps
<1>3. gen' = [gen EXCEPT ![g] = new]
  BY DEF WriteManifest
<1> HIDE DEF new
<1>4. GeneratorsTyped' /\ ~Working(g)' /\ \A h \in Generators \ {g} : gen'[h] = gen[h]
  BY <1>2, <1>3, LeaveGenerator DEF Sound
<1>5. /\ manifest' \in [Ops -> ManifestContents] /\ manifest'[At(g)] = Pin(gen[g].bytes)
      /\ \A e \in Ops \ {At(g)} : manifest'[e] = manifest[e]
  BY <1>1, PinTyped DEF Sound, FilesTyped, WriteManifest, ManifestContents
<1>6. FilesTyped'
  BY <1>1, <1>5 DEF Sound, FilesTyped, WriteManifest
<1>7. LoadsSound'
  BY DisturbSound DEF Sound, WriteManifest
<1>8. (\A h \in Generators : PinSound(h))' /\ MismatchHasACause'
  <2>1. \A h \in Generators \ {g} : (Working(h)' <=> Working(h)) /\ At(h)' = At(h)
    BY <1>4 DEF Working, At
  <2>2. \A o \in Ops \ {At(g)} : AtRest(o)' /\ o \notin disturbed' => AtRest(o) /\ o \notin disturbed
    BY <2>1 DEF AtRest, WriteManifest
  <2>3. ASSUME NEW o \in Ops, o = At(g), o \notin disturbed' PROVE Matches(o)'
    <3>1. ASSUME gen[g].alone PROVE files'[At(g)][Bytecode] = gen[g].bytes
      BY <1>1, <3>1 DEF Sound, PinSound, WriteManifest
    <3>2. Pin(gen[g].bytes) \in Manifests /\ Bytecode \in Paths
      BY <1>1, PinTyped, LoadingAssumption DEF Bytecode, Paths
    <3>. QED
      BY <1>5, <2>3, <3>1, <3>2 DEF WriteManifest, Matches, Pin
  <2>4. files' = files
    BY DEF WriteManifest
  <2>5. ASSUME NEW o \in Ops \ disturbed', AtRest(o)'
        PROVE  \/ Matches(o)'
               \/ /\ AtRest(o) /\ o \notin disturbed
                  /\ manifest'[o] = manifest[o] /\ files'[o] = files[o]
    BY <1>5, <2>2, <2>3, <2>4, <2>5
  <2>. QED
    BY <1>4, <2>1, <2>4, <2>5, RestSound
<1>. QED
  BY <1>4, <1>6, <1>7, <1>8 DEF Sound

\* Compiling changes no pin.
LEMMA CompileStep ==
  ASSUME Sound, NEW o \in Ops, NEW b \in Builds, Compile(o, b)
  PROVE  Sound'
<1>1. FilesTyped' /\ GeneratorsTyped' /\ LoadsSound'
  BY SameSound DEF Sound, Compile, FilesTyped, GeneratorsTyped, Working
<1>2. \A h \in Generators : (Working(h)' <=> Working(h)) /\ At(h)' = At(h)
  BY DEF Compile, Working, At
<1>3. \A e : AtRest(e)' => AtRest(e)
  BY <1>2 DEF AtRest
<1>4. (\A h \in Generators : PinSound(h))' /\ MismatchHasACause'
  BY <1>2, <1>3, RestSound DEF Compile
<1>. QED
  BY <1>1, <1>4 DEF Sound

\* Neither does a load.
LEMMA LoadingStep ==
  ASSUME Sound, NEW r \in Readers, Load(r)
  PROVE  Sound'
<1>1. UNCHANGED <<target, manifest, files, gen, disturbed, upsets>>
  BY DEF Load, StartLoading, ReadManifest, List, ReadFile, Return, Proceed, Conclude
<1>2. FilesTyped' /\ GeneratorsTyped'
  BY <1>1 DEF Sound, FilesTyped, GeneratorsTyped, Working
<1>3. LoadsSound'
  BY LoadStep DEF Sound
<1>4. \A h \in Generators : (Working(h)' <=> Working(h)) /\ At(h)' = At(h)
  BY <1>1 DEF Working, At
<1>5. \A e : AtRest(e)' => AtRest(e)
  BY <1>4, <1>1 DEF AtRest
<1>6. (\A h \in Generators : PinSound(h))' /\ MismatchHasACause'
  BY <1>1, <1>4, <1>5, RestSound
<1>. QED
  BY <1>2, <1>3, <1>6 DEF Sound

\* A hand does, and that is its circuit's disturbance.
LEMMA EditStep ==
  ASSUME Sound, NEW o \in Ops,
         \/ \E m \in HandWritten \cup {Absent} : EditManifest(o, m)
         \/ \E p \in Paths, c \in Builds \cup {Absent} : EditFile(o, p, c)
  PROVE  Sound'
<1>1. Upset(o) /\ disturbed' = disturbed \cup {o}
  BY DEF EditManifest, EditFile, Upset
<1>2. /\ GeneratorsTyped'
      /\ \A h \in Generators :
           /\ gen'[h].step = gen[h].step /\ gen'[h].todo = gen[h].todo
           /\ gen'[h].bytes = gen[h].bytes
           /\ gen'[h].alone = (gen[h].alone /\ ~(Working(h) /\ At(h) = o))
      /\ disturbed' \subseteq Ops /\ upsets' \in 0..MaxUpsets
  BY <1>1, UpsetGenerators DEF Sound
<1>3. /\ FilesTyped' /\ LoadsSound'
      /\ \A e \in Ops \ {o} : files'[e] = files[e] /\ manifest'[e] = manifest[e]
  <2>1. ASSUME NEW m \in HandWritten \cup {Absent}, EditManifest(o, m)
        PROVE  /\ FilesTyped' /\ LoadsSound'
               /\ \A e \in Ops \ {o} : files'[e] = files[e] /\ manifest'[e] = manifest[e]
    <3>1. m \in ManifestContents
      BY HandAssumption DEF ManifestContents
    <3>2. FilesTyped'
      BY <1>2, <2>1, <3>1 DEF Sound, FilesTyped, EditManifest, Upset
    <3>3. LoadsSound'
      BY <2>1, DisturbSound DEF Sound, EditManifest
    <3>. QED
      BY <2>1, <3>2, <3>3 DEF Sound, FilesTyped, EditManifest
  <2>2. ASSUME NEW p \in Paths, NEW c \in Builds \cup {Absent}, EditFile(o, p, c)
        PROVE  /\ FilesTyped' /\ LoadsSound'
               /\ \A e \in Ops \ {o} : files'[e] = files[e] /\ manifest'[e] = manifest[e]
    <3>1. c \in FileContents
      BY DEF FileContents
    <3>2. /\ files' \in [Ops -> [Paths -> FileContents]]
          /\ \A e \in Ops \ {o} : files'[e] = files[e]
      BY <2>2, <3>1, PutFile DEF Sound, EditFile
    <3>3. FilesTyped'
      BY <1>2, <2>2, <3>2 DEF Sound, FilesTyped, EditFile, Upset
    <3>4. LoadsSound'
      BY <2>2, <3>1, TouchSound DEF Sound, EditFile
    <3>. QED
      BY <2>2, <3>2, <3>3, <3>4 DEF EditFile
  <2>. QED
    BY <2>1, <2>2
<1>4. \A h \in Generators : (Working(h)' <=> Working(h)) /\ At(h)' = At(h)
  BY <1>2 DEF Working, At
<1>5. \A h \in Generators : Working(h)' /\ gen'[h].alone => gen[h].alone /\ files'[At(h)] = files[At(h)]
  BY <1>2, <1>3, <1>4, AtTyped DEF Sound, Working
<1>6. \A e : AtRest(e)' => AtRest(e)
  BY <1>4 DEF AtRest
<1>7. (\A h \in Generators : PinSound(h))' /\ MismatchHasACause'
  BY <1>1, <1>2, <1>3, <1>4, <1>5, <1>6, RestSound
<1>. QED
  BY <1>2, <1>3, <1>7 DEF Sound

\* Every step keeps loads and pins sound.
LEMMA SoundStep == Sound /\ [Next]_vars => Sound'
<1> SUFFICES ASSUME Sound, [Next]_vars PROVE Sound'
  OBVIOUS
<1>1. ASSUME NEW g \in Generators, Generate(g) PROVE Sound'
  BY <1>1, StartStep, BeginStep, MissingStep, BytecodeStep, OpenStep, DeclareStep, DiesStep
  DEF Generate
<1>2. ASSUME NEW r \in Readers, Load(r) PROVE Sound'
  BY <1>2, LoadingStep
<1>3. ASSUME NEW o \in Ops, NEW b \in Builds, Compile(o, b) PROVE Sound'
  BY <1>3, CompileStep
<1>4. ASSUME NEW o \in Ops, NEW m \in HandWritten \cup {Absent}, EditManifest(o, m) PROVE Sound'
  BY <1>4, EditStep
<1>5. ASSUME NEW o \in Ops, NEW p \in Paths, NEW c \in Builds \cup {Absent}, EditFile(o, p, c)
      PROVE  Sound'
  BY <1>5, EditStep
<1>6. CASE UNCHANGED vars
  <2>1. UNCHANGED <<target, manifest, files, gen, reader, disturbed, upsets>>
    BY <1>6 DEF vars
  <2>2. FilesTyped' /\ GeneratorsTyped' /\ LoadsSound'
    BY <2>1, SameSound DEF Sound, FilesTyped, GeneratorsTyped, Working
  <2>3. \A h \in Generators : (Working(h)' <=> Working(h)) /\ At(h)' = At(h)
    BY <2>1 DEF Working, At
  <2>4. \A e : AtRest(e)' => AtRest(e)
    BY <2>1, <2>3 DEF AtRest
  <2>5. (\A h \in Generators : PinSound(h))' /\ MismatchHasACause'
    BY <2>1, <2>3, <2>4, RestSound
  <2>. QED
    BY <2>2, <2>5 DEF Sound
<1>. QED
  BY <1>1, <1>2, <1>3, <1>4, <1>5, <1>6 DEF Next

\* The files, the generators and the loads are what they should be, in every
\* behaviour: a load never holds a half-parsed manifest, and a generator always
\* has a circuit to go on with.
THEOREM LoadingTypeCorrect == Spec => []TypeOK
<1>1. Sound => TypeOK
  <2> SUFFICES ASSUME Sound PROVE TypeOK
    OBVIOUS
  <2>1. \A g \in Generators :
          /\ gen[g].step \in GeneratorSteps /\ gen[g].bytes \in Builds \cup {Absent}
          /\ gen[g].step \notin {"idle", "ended"} => At(g) \in Ops
    BY AtTyped DEF Sound, GeneratorsTyped, GeneratorStates
  <2>2. ASSUME NEW r \in Readers
        PROVE  /\ reader[r].step \in ReaderSteps /\ reader[r].parsed \in Manifests
               /\ DOMAIN reader[r].read \subseteq DOMAIN reader[r].parsed.digest
               /\ DOMAIN reader[r].verdict \subseteq Ops
               /\ reader[r].step \notin {"idle", "ended"} => Loading(r) \in Ops
    <3>1. reader[r] \in ReaderStates /\ LoadSound(r)
      BY DEF Sound, LoadsSound, ReadersTyped
    <3>2. DOMAIN reader[r].verdict \subseteq Ops
      BY <3>1 DEF ReaderStates, Reports
    <3>3. reader[r].step \notin {"idle", "ended"} => Loading(r) \in Ops
      BY <3>1, HeadTyped DEF Sound, LoadsSound, ReadersTyped, ReaderStates, Loading
    <3>4. DOMAIN reader[r].read \subseteq DOMAIN reader[r].parsed.digest
      BY <3>1 DEF LoadSound, ReaderStates, ReaderSteps, NothingRead
    <3>. QED
      BY <3>1, <3>2, <3>3, <3>4 DEF ReaderStates
  <2>. QED
    BY <2>1, <2>2 DEF TypeOK, Sound, FilesTyped, GeneratorSteps, ReaderSteps
<1>. QED
  BY <1>1, SoundInit, SoundStep, PTL DEF Spec

\* What a load returns is what one manifest declares, of a supported schema and
\* inside the directory, and nothing is there besides that the listing could have
\* seen, however many hands and generators are at work.
THEOREM LoadsAreAsPromised == Spec => []LoadedAsPromised
<1>1. Sound => LoadedAsPromised
  <2> SUFFICES ASSUME Sound, NEW r \in Readers, Loaded(r)
               PROVE  LET l == reader[r]
                      IN  /\ l.parsed.supported /\ DOMAIN l.parsed.digest \subseteq Paths
                          /\ l.read = l.parsed.digest
                          /\ l.strict => \A p \in Present(Loading(r)) \ DOMAIN l.parsed.digest :
                                           <<Loading(r), p>> \in l.appeared
    BY DEF LoadedAsPromised
  <2>1. reader[r] \in ReaderStates /\ LoadSound(r)
    BY DEF Sound, LoadsSound, ReadersTyped
  <2>2. reader[r].read = reader[r].parsed.digest
    <3>1. PICK D : reader[r].read \in [D -> Builds]
      BY <2>1 DEF ReaderStates, Digests
    <3>2. PICK E : reader[r].parsed.digest \in [E -> Builds]
      BY <2>1 DEF ReaderStates, Manifests
    <3>3. D = E /\ \A p \in D : reader[r].read[p] = reader[r].parsed.digest[p]
      BY <2>1, <3>1, <3>2 DEF Loaded, LoadSound
    <3>. QED
      BY <3>1, <3>2, <3>3
  <2>. QED
    BY <2>1, <2>2 DEF Loaded, LoadSound
<1>. QED
  BY <1>1, SoundInit, SoundStep, PTL DEF Spec

\* A pin that no generator is at and that does not load has been edited by hand,
\* left by a generator that died, or written by two at once, and was not pinned
\* anew by one alone since.
THEOREM MismatchesHaveACause == Spec => []MismatchHasACause
<1>1. Sound => MismatchHasACause
  BY DEF Sound
<1>. QED
  BY <1>1, SoundInit, SoundStep, PTL DEF Spec

-----------------------------------------------------------------------------
(* Loads that nothing moves under *)

\* A load at rest goes by the manifest that is there; its listing and its reads
\* are still right; and so are its verdicts on the circuits before.
QuietLoad(l) ==
  l.quiet =>
    /\ l.step = "list" => l.strict
    /\ l.step \in {"list", "read"} => manifest[Head(l.todo)] = l.parsed
    /\ l.step = "read" /\ l.strict => Present(Head(l.todo)) \subseteq DOMAIN l.parsed.digest
    /\ l.step = "read" => \A p \in DOMAIN l.read : files[Head(l.todo)][p] = l.read[p]
    /\ \A o \in DOMAIN l.verdict :
         l.verdict[o] = "ok" <=> IF l.strict THEN Exact(o) ELSE Matches(o)

QuietSound == Sound /\ \A r \in Readers : QuietLoad(reader[r])

\* A load moves to a state that is right where nothing else moved.
LEMMA QuietMove ==
  ASSUME NEW r \in Readers, NEW l, UNCHANGED <<manifest, files>>, reader'[r] = l, QuietLoad(l)
  PROVE  QuietLoad(reader[r])'
<1>1. \A o : (Exact(o)' <=> Exact(o)) /\ (Matches(o)' <=> Matches(o)) /\ Present(o)' = Present(o)
  BY DEF Exact, Matches, Present
<1>. QED
  BY <1>1 DEF QuietLoad

\* A load that something moved under says nothing.
LEMMA LoudLoad ==
  ASSUME NEW r \in Readers, reader'[r].quiet = FALSE
  PROVE  QuietLoad(reader[r])'
BY DEF QuietLoad

\* A verdict is right if the directory is as it says.
LEMMA ConcludeQuiet ==
  ASSUME QuietSound, NEW r \in Readers, reader[r].step \notin {"idle", "ended"},
         NEW result \in LoadErrors \cup {"ok"}, Conclude(r, result),
         reader[r].quiet =>
           (result = "ok" <=> IF reader[r].strict THEN Exact(Loading(r)) ELSE Matches(Loading(r)))
  PROVE  \A q \in Readers : QuietLoad(reader[q])'
<1> DEFINE rest     == Tail(reader[r].todo)
           step     == IF rest = <<>> THEN "ended" ELSE "manifest"
           verdict  == With(reader[r].verdict, Loading(r), result)
           new == [IdleReader EXCEPT !.step = step, !.todo = rest, !.strict = reader[r].strict,
                                     !.verdict = verdict, !.quiet = reader[r].quiet]
<1>1. reader' = [reader EXCEPT ![r] = new] /\ UNCHANGED <<manifest, files>>
  BY DEF Conclude
<1>2. /\ new.step \notin {"list", "read"} /\ new.strict = reader[r].strict
      /\ new.verdict = verdict /\ new.quiet = reader[r].quiet
  BY DEF IdleReader
<1>3. /\ DOMAIN verdict = DOMAIN reader[r].verdict \cup {Loading(r)}
      /\ verdict[Loading(r)] = result
      /\ \A o \in DOMAIN verdict \ {Loading(r)} :
           o \in DOMAIN reader[r].verdict /\ verdict[o] = reader[r].verdict[o]
  BY DEF With
<1> HIDE DEF new, verdict
<1>4. QuietLoad(new)
  BY <1>2, <1>3 DEF QuietLoad, QuietSound
<1>5. ASSUME NEW q \in Readers PROVE QuietLoad(reader[q])'
  <2>1. CASE q = r
    <3>1. reader'[q] = new
      BY <1>1, <2>1 DEF QuietSound, Sound, LoadsSound, ReadersTyped
    <3>. QED
      BY <1>1, <1>4, <3>1, QuietMove
  <2>2. CASE q # r
    <3>1. reader'[q] = reader[q]
      BY <1>1, <2>2 DEF QuietSound, Sound, LoadsSound, ReadersTyped
    <3>. QED
      BY <1>1, <3>1, QuietMove DEF QuietSound
  <2>. QED
    BY <2>1, <2>2
<1>. QED
  BY <1>5

\* A load that goes on keeps quiet if what it goes on with is right.
LEMMA ProceedQuiet ==
  ASSUME QuietSound, NEW r \in Readers, NEW new, Proceed(r, new), QuietLoad(new)
  PROVE  \A q \in Readers : QuietLoad(reader[q])'
<1>1. ASSUME NEW q \in Readers PROVE QuietLoad(reader[q])'
  <2>1. reader' = [reader EXCEPT ![r] = new] /\ UNCHANGED <<manifest, files>>
    BY DEF Proceed
  <2>2. CASE q = r
    <3>1. reader'[q] = new
      BY <2>1, <2>2 DEF QuietSound, Sound, LoadsSound, ReadersTyped
    <3>. QED
      BY <2>1, <3>1, QuietMove
  <2>3. CASE q # r
    <3>1. reader'[q] = reader[q]
      BY <2>1, <2>3 DEF QuietSound, Sound, LoadsSound, ReadersTyped
    <3>. QED
      BY <2>1, <3>1, QuietMove DEF QuietSound
  <2>. QED
    BY <2>2, <2>3
<1>. QED
  BY <1>1

\* Every step of a load keeps its verdicts right.
LEMMA LoadQuiet ==
  ASSUME QuietSound, NEW r \in Readers, Load(r)
  PROVE  \A q \in Readers : QuietLoad(reader[q])'
<1>0. reader[r] \in ReaderStates /\ LoadSound(r) /\ QuietLoad(reader[r])
  BY DEF QuietSound, Sound, LoadsSound, ReadersTyped
<1>1. ASSUME NEW selected \in Selections, NEW strict \in BOOLEAN, StartLoading(r, selected, strict)
      PROVE  \A q \in Readers : QuietLoad(reader[q])'
  <2> DEFINE new == [IdleReader EXCEPT !.step = "manifest", !.todo = selected, !.strict = strict]
  <2>1. new.step = "manifest" /\ DOMAIN new.verdict = {}
    BY DEF IdleReader, NoVerdict
  <2>2. Proceed(r, new)
    BY <1>1 DEF StartLoading
  <2> HIDE DEF new
  <2>3. QuietLoad(new)
    BY <2>1 DEF QuietLoad
  <2>. QED
    BY <2>2, <2>3, ProceedQuiet
<1>2. CASE ReadManifest(r)
  <2> DEFINE m   == manifest[Loading(r)]
             new == [reader[r] EXCEPT !.step = IF reader[r].strict THEN "list" ELSE "read",
                                      !.parsed = m]
  <2>1. ASSUME NEW result \in LoadErrors, Conclude(r, result),
               ~(m \in Manifests /\ m.supported /\ Outside \notin DOMAIN m.digest)
        PROVE  \A q \in Readers : QuietLoad(reader[q])'
    <3>1. ~Matches(Loading(r)) /\ ~Exact(Loading(r))
      BY <2>1 DEF Matches, Exact, Outside, Paths
    <3>2. result # "ok"
      BY <2>1 DEF LoadErrors
    <3>. QED
      BY <1>2, <2>1, <3>1, <3>2, ConcludeQuiet DEF ReadManifest
  <2>2. CASE /\ m \in Manifests /\ m.supported /\ Outside \notin DOMAIN m.digest
             /\ Proceed(r, new)
    <3>1. /\ new.step = IF reader[r].strict THEN "list" ELSE "read"
          /\ new.parsed = m /\ new.read = reader[r].read /\ new.todo = reader[r].todo
          /\ new.strict = reader[r].strict /\ new.verdict = reader[r].verdict
          /\ new.quiet = reader[r].quiet
      BY <1>0 DEF ReaderStates
    <3>2. DOMAIN new.read = {}
      BY <1>0, <1>2, <3>1 DEF ReadManifest, LoadSound, NothingRead
    <3>3. m = manifest[Head(new.todo)]
      BY <3>1 DEF Loading
    <3> HIDE DEF new, m
    <3>4. QuietLoad(new)
      BY <1>0, <3>1, <3>2, <3>3 DEF QuietLoad
    <3>. QED
      BY <2>2, <3>4, ProceedQuiet
  <2>. QED
    BY <1>2, <2>1, <2>2, HandAssumption DEF ReadManifest, LoadErrors
<1>3. CASE List(r)
  <2> DEFINE new == [reader[r] EXCEPT !.step = "read"]
  <2>1. CASE /\ ~(Present(Loading(r)) \subseteq DOMAIN reader[r].parsed.digest)
             /\ Conclude(r, "UnexpectedFile")
    <3>1. reader[r].quiet => reader[r].strict /\ ~Exact(Loading(r))
      BY <1>0, <1>3, <2>1 DEF List, QuietLoad, Exact, Loading
    <3>. QED
      BY <1>3, <2>1, <3>1, ConcludeQuiet DEF List, LoadErrors
  <2>2. CASE Present(Loading(r)) \subseteq DOMAIN reader[r].parsed.digest /\ Proceed(r, new)
    <3>1. /\ new.step = "read" /\ new.parsed = reader[r].parsed
          /\ new.read = reader[r].read /\ new.todo = reader[r].todo
          /\ new.strict = reader[r].strict /\ new.verdict = reader[r].verdict
          /\ new.quiet = reader[r].quiet
      BY <1>0 DEF ReaderStates
    <3>2. DOMAIN new.read = {}
      BY <1>0, <1>3, <3>1 DEF List, LoadSound, NothingRead
    <3> HIDE DEF new
    <3>3. QuietLoad(new)
      BY <1>0, <1>3, <2>2, <3>1, <3>2 DEF QuietLoad, List, Loading
    <3>. QED
      BY <2>2, <3>3, ProceedQuiet
  <2>. QED
    BY <1>3, <2>1, <2>2 DEF List
<1>4. CASE ReadFile(r)
  <2> DEFINE declared == reader[r].parsed.digest
             content(p) == files[Loading(r)][p]
  <2>1. PICK p \in DOMAIN declared \ DOMAIN reader[r].read :
          \/ /\ content(p) # declared[p]
             /\ \E result \in LoadErrors : Conclude(r, result)
          \/ /\ content(p) = declared[p]
             /\ Proceed(r, [reader[r] EXCEPT !.read = With(@, p, declared[p])])
    <3>1. \A p \in DOMAIN declared : declared[p] \in Builds
      BY <1>0 DEF ReaderStates, Manifests
    <3>. QED
      BY <1>4, <3>1, LoadingAssumption DEF ReadFile, LoadErrors
  <2>2. ASSUME content(p) # declared[p], NEW result \in LoadErrors, Conclude(r, result)
        PROVE  \A q \in Readers : QuietLoad(reader[q])'
    <3>1. reader[r].quiet => ~Matches(Loading(r)) /\ ~Exact(Loading(r))
      BY <1>0, <1>4, <2>1, <2>2 DEF ReadFile, QuietLoad, Matches, Exact, Loading
    <3>2. result # "ok"
      BY <2>2 DEF LoadErrors
    <3>. QED
      BY <1>4, <2>2, <3>1, <3>2, ConcludeQuiet DEF ReadFile
  <2> DEFINE read == With(reader[r].read, p, declared[p])
             new  == [reader[r] EXCEPT !.read = read]
  <2>3. CASE content(p) = declared[p] /\ Proceed(r, new)
    <3>1. /\ DOMAIN read = DOMAIN reader[r].read \cup {p}
          /\ read[p] = declared[p]
          /\ \A q \in DOMAIN reader[r].read : read[q] = reader[r].read[q]
      BY <2>1 DEF With
    <3> HIDE DEF read
    <3>2. /\ new.step = "read" /\ new.parsed = reader[r].parsed
          /\ new.read = read /\ new.todo = reader[r].todo
          /\ new.strict = reader[r].strict /\ new.verdict = reader[r].verdict
          /\ new.quiet = reader[r].quiet
      BY <1>0, <1>4 DEF ReaderStates, ReadFile
    <3> HIDE DEF new
    <3>3. reader[r].quiet =>
            \A q \in DOMAIN read : files[Head(new.todo)][q] = read[q]
      BY <1>0, <1>4, <2>3, <3>1, <3>2 DEF QuietLoad, ReadFile, Loading
    <3>4. QuietLoad(new)
      BY <1>0, <1>4, <3>2, <3>3 DEF QuietLoad, ReadFile
    <3>. QED
      BY <2>3, <3>4, ProceedQuiet
  <2>. QED
    BY <2>1, <2>2, <2>3
<1>5. CASE Return(r)
  <2>1. Loaded(r) /\ Conclude(r, "ok")
    BY <1>5 DEF Return
  <2>2. reader[r].quiet => Matches(Loading(r))
    BY <1>0, <2>1 DEF Loaded, LoadSound, QuietLoad, Matches, Loading, ReaderStates
  <2>3. reader[r].quiet /\ reader[r].strict => Exact(Loading(r))
    BY <1>0, <2>1, <2>2 DEF Loaded, QuietLoad, Exact, Loading
  <2>. QED
    BY <2>1, <2>2, <2>3, ConcludeQuiet DEF Loaded
<1>. QED
  BY <1>1, <1>2, <1>3, <1>4, <1>5, SelectionsOfOne DEF Load

\* Every step does: what changes files is noticed by all loads.
LEMMA QuietStep == QuietSound /\ [Next]_vars => QuietSound'
<1> SUFFICES ASSUME QuietSound, [Next]_vars PROVE QuietSound'
  OBVIOUS
<1>1. Sound'
  BY SoundStep DEF QuietSound
<1>2. ASSUME UNCHANGED <<manifest, files, reader>> PROVE \A r \in Readers : QuietLoad(reader[r])'
  BY <1>2, QuietMove DEF QuietSound
<1>3. ASSUME NEW o, NEW p, Touch(o, p) PROVE \A r \in Readers : QuietLoad(reader[r])'
  <2>1. ASSUME NEW r \in Readers PROVE reader'[r].quiet = FALSE
    <3> DEFINE a == IF files[o][p] = Absent THEN reader[r].appeared \cup {<<o, p>>}
                    ELSE reader[r].appeared
    <3>1. reader'[r] = [reader[r] EXCEPT !.quiet = FALSE, !.appeared = a]
      BY <1>3 DEF Touch
    <3> HIDE DEF a
    <3>. QED
      BY <3>1 DEF QuietSound, Sound, LoadsSound, ReadersTyped, ReaderStates
  <2>. QED
    BY <2>1, LoudLoad
<1>4. ASSUME reader' = [r \in Readers |-> [reader[r] EXCEPT !.quiet = FALSE]]
      PROVE  \A r \in Readers : QuietLoad(reader[r])'
  <2>1. \A r \in Readers : reader'[r].quiet = FALSE
    BY <1>4 DEF QuietSound, Sound, LoadsSound, ReadersTyped, ReaderStates
  <2>. QED
    BY <2>1, LoudLoad
<1>5. ASSUME NEW g \in Generators, Generate(g) PROVE \A r \in Readers : QuietLoad(reader[r])'
  <2>1. \/ UNCHANGED <<manifest, files, reader>>
        \/ Touch(At(g), Bytecode)
        \/ reader' = [r \in Readers |-> [reader[r] EXCEPT !.quiet = FALSE]]
    BY <1>5 DEF Generate, StartGenerate, ReadTarget, TargetMissing, TruncateBytecode, WriteBytecode,
                TruncateManifest, WriteManifest, GeneratorDies
  <2>. QED
    BY <1>2, <1>3, <1>4, <2>1
<1>6. ASSUME NEW r \in Readers, Load(r) PROVE \A q \in Readers : QuietLoad(reader[q])'
  BY <1>6, LoadQuiet
<1>7. ASSUME NEW o \in Ops, NEW b \in Builds, Compile(o, b)
      PROVE  \A r \in Readers : QuietLoad(reader[r])'
  BY <1>2, <1>7 DEF Compile
<1>8. ASSUME NEW o \in Ops, NEW m \in HandWritten \cup {Absent}, EditManifest(o, m)
      PROVE  \A r \in Readers : QuietLoad(reader[r])'
  BY <1>4, <1>8 DEF EditManifest
<1>9. ASSUME NEW o \in Ops, NEW p \in Paths, NEW c \in Builds \cup {Absent}, EditFile(o, p, c)
      PROVE  \A r \in Readers : QuietLoad(reader[r])'
  BY <1>3, <1>9 DEF EditFile
<1>10. ASSUME UNCHANGED vars PROVE \A r \in Readers : QuietLoad(reader[r])'
  BY <1>2, <1>10 DEF vars
<1>11. \A r \in Readers : QuietLoad(reader[r])'
  BY <1>5, <1>6, <1>7, <1>8, <1>9, <1>10 DEF Next
<1>. QED
  BY <1>1, <1>11 DEF QuietSound

\* When nothing moves, `check` tells the truth about every circuit it went
\* through, also about those behind one that failed.
THEOREM QuietChecksAreExact == Spec => []QuietCheckIsExact
<1>1. Init => QuietSound
  <2> SUFFICES ASSUME Init PROVE QuietSound
    OBVIOUS
  <2>1. \A r \in Readers : reader[r].step = "idle" /\ DOMAIN reader[r].verdict = {}
    BY DEF Init, IdleReader, NoVerdict
  <2>. QED
    BY <2>1, SoundInit DEF QuietSound, QuietLoad
<1>2. QuietSound => QuietCheckIsExact
  BY DEF QuietSound, QuietLoad, QuietCheckIsExact
<1>. QED
  BY <1>1, <1>2, QuietStep, PTL DEF Spec

=============================================================================
