----------------------------- MODULE Transcript -----------------------------
(***************************************************************************)
(* The redacted transcript: processes that append lines to one file, each  *)
(* through append_transcript (which opens the file for one entry), through *)
(* a TranscriptWriter (which buffers), or through one that discards        *)
(* everything.  `writeln!` hands over a line in two pieces, the entry and  *)
(* the newline, and each piece may reach the file at another time.  Files  *)
(* are opened for appending, so that what is written goes to the end.      *)
(*                                                                         *)
(* A piece is a pair of its writer and the number of the entry, or of its  *)
(* writer and 0 for a newline.  What an entry says is left out.  A write   *)
(* to a file either happens or fails between two pieces.                   *)
(***************************************************************************)
EXTENDS Naturals, Sequences, SequencesExt, Subsequences

CONSTANTS
  Writers,     \* the processes
  Capacities,  \* sizes a writer's buffer may have
  LineLength,  \* size of an entry; a newline has size 1
  MaxEntries,  \* bound: entries that a process makes
  MaxFaults    \* bound: kills and failed writes

ASSUME TranscriptAssumption ==
  /\ Capacities \subseteq Nat \ {0, 1}
  /\ LineLength \in Nat \ {0, 1}
  /\ MaxEntries \in Nat
  /\ MaxFaults \in Nat

VARIABLES
  file,        \* the transcript, a sequence of pieces
  kind,        \* how each process writes
  capacity,    \* the size of the buffers
  pc,          \* does the process have the file open, and is a line half written?
  buffer,      \* pieces in its TranscriptWriter
  made,        \* how many entries it has begun
  recorded,    \* entries whose write returned Ok since the file was opened
  promised,    \* entries whose write or flush promises that they are in the file
  shared,      \* history: two processes had the file open at the same time
  faults       \* kills and failed writes so far

vars == <<file, kind, capacity, pc, buffer, made, recorded, promised, shared, faults>>

-----------------------------------------------------------------------------
(* Pieces *)

Kinds == {"append", "batch", "null"}

Newline(w) == <<w, 0>>
Pieces     == Writers \X (0..MaxEntries)

IsNewline(piece) == piece[2] = 0
Size(piece)      == IF IsNewline(piece) THEN 1 ELSE LineLength

\* The room a sequence of pieces takes.
Room(pieces) == SumFunction([i \in DOMAIN pieces |-> Size(pieces[i])])

\* The numbers of w's entries among some pieces, in their order.
EntriesOf(w, pieces) ==
  LET own == Only(pieces, {w} \X (1..MaxEntries))
  IN  [i \in DOMAIN own |-> own[i][2]]

Init ==
  /\ file = <<>>
  /\ kind \in [Writers -> Kinds]
  /\ capacity \in Capacities
  /\ pc = [w \in Writers |-> "closed"]
  /\ buffer = [w \in Writers |-> <<>>]
  /\ made = [w \in Writers |-> 0]
  /\ recorded = [w \in Writers |-> {}]
  /\ promised = [w \in Writers |-> {}]
  /\ shared = FALSE
  /\ faults = 0

-----------------------------------------------------------------------------
(* Writing *)

\* Mutant: the file is created anew.
OpenTruncating(w) ==
  /\ pc[w] = "closed"
  /\ made[w] < MaxEntries
  /\ pc' = [pc EXCEPT ![w] = "open"]
  /\ file' = <<>>
  /\ recorded' = [recorded EXCEPT ![w] = {}]
  /\ UNCHANGED <<kind, capacity, buffer, made, promised, shared, faults>>

\* append_transcript opens the file for each entry, TranscriptWriter::append once,
\* and a null writer never.
Open(w) ==
  /\ pc[w] = "closed"
  /\ made[w] < MaxEntries
  /\ pc' = [pc EXCEPT ![w] = "open"]
  /\ shared' = (shared \/ \E v \in Writers \ {w} : pc[v] # "closed" /\ "null" \notin {kind[v], kind[w]})
  /\ recorded' = [recorded EXCEPT ![w] = {}]
  /\ UNCHANGED <<file, kind, capacity, buffer, made, promised, faults>>

\* Mutant: the buffer takes in what does not fit.
PutUnbounded(w, piece) ==
  CASE kind[w] = "null" -> UNCHANGED <<file, buffer>>
    [] kind[w] = "append" -> file' = Append(file, piece) /\ UNCHANGED buffer
    [] kind[w] = "batch" -> buffer' = [buffer EXCEPT ![w] = Append(@, piece)] /\ UNCHANGED file

\* One piece.  A BufWriter takes it in if it fits, empties itself for it if not,
\* and lets a piece through that is as large as itself.
Put(w, piece) ==
  CASE kind[w] = "null" -> UNCHANGED <<file, buffer>>
    [] kind[w] = "append" -> /\ file' = Append(file, piece)
                             /\ UNCHANGED buffer
    [] kind[w] = "batch" ->
         \/ /\ Size(piece) >= capacity
            /\ file' = Append(file \o buffer[w], piece)
            /\ buffer' = [buffer EXCEPT ![w] = <<>>]
         \/ /\ Size(piece) < capacity
            /\ Room(buffer[w]) + Size(piece) > capacity
            /\ file' = file \o buffer[w]
            /\ buffer' = [buffer EXCEPT ![w] = <<piece>>]
         \/ /\ Room(buffer[w]) + Size(piece) <= capacity
            /\ Size(piece) < capacity
            /\ buffer' = [buffer EXCEPT ![w] = Append(@, piece)]
            /\ UNCHANGED file

WriteLine(w) ==
  /\ pc[w] = "open"
  /\ made[w] < MaxEntries
  /\ pc' = [pc EXCEPT ![w] = "line"]
  /\ made' = [made EXCEPT ![w] = @ + 1]
  /\ Put(w, <<w, made[w] + 1>>)
  /\ UNCHANGED <<kind, capacity, recorded, promised, shared, faults>>

\* Mutant: an entry is written without its newline.
WriteNewlineForgotten(w) ==
  /\ pc[w] = "line"
  /\ pc' = [pc EXCEPT ![w] = IF kind[w] = "append" THEN "closed" ELSE "open"]
  /\ recorded' = [recorded EXCEPT ![w] = @ \cup {made[w]}]
  /\ promised' = [promised EXCEPT ![w] = IF kind[w] = "append" THEN @ \cup {made[w]} ELSE @]
  /\ UNCHANGED <<file, buffer, kind, capacity, made, shared, faults>>

\* The write returns Ok.  append_transcript has closed its file by then.
WriteNewline(w) ==
  /\ pc[w] = "line"
  /\ pc' = [pc EXCEPT ![w] = IF kind[w] = "append" THEN "closed" ELSE "open"]
  /\ Put(w, Newline(w))
  /\ recorded' = [recorded EXCEPT ![w] = @ \cup {made[w]}]
  /\ promised' = [promised EXCEPT ![w] = IF kind[w] = "append" THEN @ \cup {made[w]} ELSE @]
  /\ UNCHANGED <<kind, capacity, made, shared, faults>>

\* The buffer goes to the file.
Empty(w) ==
  /\ file' = file \o buffer[w]
  /\ buffer' = [buffer EXCEPT ![w] = <<>>]
  /\ promised' = [promised EXCEPT ![w] = IF kind[w] = "batch" THEN @ \cup recorded[w] ELSE @]

Flush(w) ==
  /\ pc[w] = "open"
  /\ kind[w] # "append"
  /\ Empty(w)
  /\ UNCHANGED <<kind, capacity, pc, made, recorded, shared, faults>>

\* Mutant: the writer is dropped with what it still holds.
DropUnflushed(w) ==
  /\ pc[w] = "open"
  /\ kind[w] # "append"
  /\ pc' = [pc EXCEPT ![w] = "closed"]
  /\ buffer' = [buffer EXCEPT ![w] = <<>>]
  /\ UNCHANGED <<file, promised, kind, capacity, made, recorded, shared, faults>>

\* A TranscriptWriter that goes out of scope empties its buffer.
Drop(w) ==
  /\ pc[w] = "open"
  /\ kind[w] # "append"
  /\ pc' = [pc EXCEPT ![w] = "closed"]
  /\ Empty(w)
  /\ UNCHANGED <<kind, capacity, made, recorded, shared, faults>>

-----------------------------------------------------------------------------
(* Failing *)

Fault ==
  /\ faults < MaxFaults
  /\ faults' = faults + 1
  /\ UNCHANGED <<kind, capacity, recorded, promised, shared>>

\* Mutant: what reached the file is kept in the buffer as well.
EmptyPartlyTwice(w) ==
  /\ buffer[w] # <<>>
  /\ \E k \in 0..Len(buffer[w]) - 1 : file' = file \o SubSeq(buffer[w], 1, k)
  /\ UNCHANGED buffer

\* Some pieces of the buffer reach the file before the write fails; the buffer
\* keeps the others.
EmptyPartly(w) ==
  /\ buffer[w] # <<>>
  /\ \E k \in 0..Len(buffer[w]) - 1 :
       /\ file' = file \o SubSeq(buffer[w], 1, k)
       /\ buffer' = [buffer EXCEPT ![w] = SubSeq(@, k + 1, Len(@))]

\* flush returns the error, and the writer can be used further.
FlushFails(w) ==
  /\ Fault
  /\ pc[w] = "open"
  /\ EmptyPartly(w)
  /\ UNCHANGED <<pc, made>>

\* A line for which the buffer cannot be emptied, or that cannot be written to
\* the file, is not taken; the caller has an error for the entry.
WriteLineFails(w) ==
  /\ Fault
  /\ pc[w] = "open"
  /\ made[w] < MaxEntries
  /\ made' = [made EXCEPT ![w] = @ + 1]
  /\ \/ kind[w] = "append" /\ pc' = [pc EXCEPT ![w] = "closed"] /\ UNCHANGED <<file, buffer>>
     \/ /\ kind[w] = "batch"
        /\ Room(buffer[w]) + LineLength > capacity
        /\ EmptyPartly(w)
        /\ UNCHANGED pc
     \/ /\ kind[w] = "batch"
        /\ LineLength >= capacity
        /\ file' = file \o buffer[w]
        /\ buffer' = [buffer EXCEPT ![w] = <<>>]
        /\ UNCHANGED pc

\* The same for the newline: the caller has an error, and the line is written or
\* in the buffer all the same.
WriteNewlineFails(w) ==
  /\ Fault
  /\ pc[w] = "line"
  /\ UNCHANGED made
  /\ \/ kind[w] = "append" /\ pc' = [pc EXCEPT ![w] = "closed"] /\ UNCHANGED <<file, buffer>>
     \/ /\ kind[w] = "batch"
        /\ Room(buffer[w]) + 1 > capacity
        /\ EmptyPartly(w)
        /\ pc' = [pc EXCEPT ![w] = "open"]

\* Nobody learns of a failure while a writer is dropped.
DropFails(w) ==
  /\ Fault
  /\ pc[w] = "open"
  /\ buffer[w] # <<>>
  /\ \E k \in 0..Len(buffer[w]) - 1 : file' = file \o SubSeq(buffer[w], 1, k)
  /\ buffer' = [buffer EXCEPT ![w] = <<>>]
  /\ pc' = [pc EXCEPT ![w] = "closed"]
  /\ UNCHANGED made

\* The process is killed, and its buffer gone.
Crash(w) ==
  /\ Fault
  /\ pc[w] # "closed"
  /\ buffer' = [buffer EXCEPT ![w] = <<>>]
  /\ pc' = [pc EXCEPT ![w] = "closed"]
  /\ UNCHANGED <<file, made>>

Fails(w) ==
  \/ FlushFails(w) \/ WriteLineFails(w) \/ WriteNewlineFails(w) \/ DropFails(w) \/ Crash(w)

Next ==
  \E w \in Writers :
    Open(w) \/ WriteLine(w) \/ WriteNewline(w) \/ Flush(w) \/ Drop(w) \/ Fails(w)

Spec == Init /\ [][Next]_vars

-----------------------------------------------------------------------------
(* Properties *)

InFile(w)   == ToSet(EntriesOf(w, file))
InBuffer(w) == ToSet(EntriesOf(w, buffer[w]))

TypeOK ==
  /\ file \in Seq(Pieces)
  /\ kind \in [Writers -> Kinds]
  /\ capacity \in Capacities
  /\ pc \in [Writers -> {"closed", "open", "line"}]
  /\ buffer \in [Writers -> Seq(Pieces)]
  /\ \A w \in Writers : Room(buffer[w]) <= capacity
  /\ made \in [Writers -> 0..MaxEntries]
  /\ recorded \in [Writers -> SUBSET (1..MaxEntries)]
  /\ promised \in [Writers -> SUBSET (1..MaxEntries)]
  /\ shared \in BOOLEAN
  /\ faults \in 0..MaxFaults

\* The transcript implements EventLog: whatever is buffered, split over flushes
\* or written through, by however many processes, and whatever fails half-way, the
\* entries of a process reach the file in order, none twice, and none that did is
\* lost ("appending again must not truncate").
Log == INSTANCE EventLog
         WITH pending <- [w \in Writers |-> EntriesOf(w, buffer[w])],
              durable <- [w \in Writers |-> EntriesOf(w, file)]
ImplementsLog == Log!Spec

\* What a flush, a drop or append_transcript has answered Ok for is in the file,
\* and stays there through later writers and kills.
PromisedIsDurable == \A w \in Writers : promised[w] \subseteq InFile(w)

\* An entry whose write returned Ok, from a writer that does not discard, is in
\* the file or still to be flushed, unless a process was killed or a write
\* failed: a writer that is only dropped loses nothing.
LostHasACause ==
  \A w \in Writers :
    kind[w] # "null" /\ faults = 0 => recorded[w] \subseteq InFile(w) \cup InBuffer(w)

\* "JSON-lines transcripts": as long as one process at a time has the file open,
\* and nothing fails, a line holds one entry.  The pieces of two processes may
\* come between one another, and a newline that was not written joins the next
\* entry to the last.
OneEntryPerLine ==
  ~shared /\ faults = 0 => \A i \in DOMAIN file : IsNewline(file[i]) <=> i % 2 = 0

=============================================================================
