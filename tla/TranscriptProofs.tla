-------------------------- MODULE TranscriptProofs --------------------------
(***************************************************************************)
(* Proofs about Transcript, for any number of processes, of entries and of *)
(* faults, any sizes of buffers, and any length of a line.                 *)
(*                                                                         *)
(* Everything rests on what a step does to the pieces: it moves the first  *)
(* k pieces of one process to the end of the file, after the process made  *)
(* at most one more, and either keeps or loses the others.                 *)
(***************************************************************************)
EXTENDS Transcript, DataTheorems

-----------------------------------------------------------------------------
(* The room of a buffer *)

Sizes(s) == [i \in DOMAIN s |-> Size(s[i])]

\* A piece has a size.
LEMMA SizeType ==
  ASSUME NEW piece \in Pieces
  PROVE  Size(piece) \in Nat
BY TranscriptAssumption DEF Size

\* Room is a sum over the positions.
LEMMA RoomIsSum ==
  ASSUME NEW s \in Seq(Pieces)
  PROVE  /\ Room(s) = SumFunctionOnSet(Sizes(s), 1..Len(s))
         /\ \A i \in 1..Len(s) : Sizes(s)[i] = Size(s[i]) /\ Sizes(s)[i] \in Nat
<1>1. DOMAIN Sizes(s) = 1..Len(s)
  BY DEF Sizes
<1>2. ASSUME NEW i \in 1..Len(s) PROVE Sizes(s)[i] = Size(s[i]) /\ Sizes(s)[i] \in Nat
  <2>1. s[i] \in Pieces /\ Sizes(s)[i] = Size(s[i])
    BY DEF Sizes
  <2>. QED
    BY <2>1, SizeType
<1>. QED
  BY <1>1, <1>2 DEF Room, SumFunction, Sizes

\* It is a number, and 0 for nothing.
LEMMA RoomType ==
  ASSUME NEW s \in Seq(Pieces)
  PROVE  Room(<<>>) = 0 /\ Room(s) \in Nat
<1>1. <<>> \in Seq(Pieces) /\ 1..Len(<<>>) = {}
  OBVIOUS
<1>2. SumFunctionOnSet(Sizes(<<>>), {}) = 0
  BY SumRound, FS_EmptySet
<1>3. IsFiniteSet(1..Len(s))
  BY FS_Interval
<1>4. \A i \in 1..Len(s) : Sizes(s)[i] \in Nat
  BY RoomIsSum
<1>5. SumFunctionOnSet(Sizes(s), 1..Len(s)) \in Nat
  BY <1>3, <1>4, SumType
<1>. QED
  BY <1>1, <1>2, <1>5, RoomIsSum

\* The room of one piece more.
LEMMA RoomAppend ==
  ASSUME NEW s \in Seq(Pieces), NEW piece \in Pieces
  PROVE  Room(Append(s, piece)) = Room(s) + Size(piece)
<1> DEFINE n == Len(s) + 1
           more == Append(s, piece)
           f == Sizes(s)
           g == Sizes(more)
           S == 1..Len(s)
           T == 1..n
<1>1. n \in Nat /\ more \in Seq(Pieces) /\ Len(more) = n /\ more[n] = piece /\ n \in 1..n
  OBVIOUS
<1>2. IsFiniteSet(S)
  BY FS_Interval
<1>3. n \notin S /\ T = S \cup {n}
  OBVIOUS
<1>4. \A i \in S : i \in T /\ more[i] = s[i]
  OBVIOUS
<1> HIDE DEF more
<1>5. Room(s) = SumFunctionOnSet(f, S) /\ Room(more) = SumFunctionOnSet(g, T)
  BY <1>1, RoomIsSum
<1>6. g[n] = Size(piece) /\ g[n] \in Nat
  BY <1>1, RoomIsSum
<1>7. \A i \in S : f[i] = Size(s[i]) /\ f[i] \in Nat
  BY RoomIsSum
<1>8. \A i \in T : g[i] = Size(more[i])
  BY <1>1, RoomIsSum
<1>9. \A i \in S : f[i] = g[i] /\ f[i] \in Nat
  BY <1>4, <1>7, <1>8
<1> HIDE DEF f, g, S, T, n
<1>10. SumFunctionOnSet(g, T) = SumFunctionOnSet(f, S) + g[n]
  <2>1. n \notin S
    BY <1>3
  <2>2. T = S \cup {n}
    BY <1>3
  <2>3. g[n] \in Nat
    BY <1>6
  <2>. QED
    BY <1>2, <1>9, <2>1, <2>2, <2>3, SumOneMore
<1>. QED
  BY <1>5, <1>6, <1>10 DEF more

\* The room of two sequences.
LEMMA RoomConcat ==
  ASSUME NEW s \in Seq(Pieces), NEW t \in Seq(Pieces)
  PROVE  Room(s \o t) = Room(s) + Room(t)
<1> DEFINE Fits(u) == Room(s \o u) = Room(s) + Room(u)
           B == {n \in Nat : \E u \in Seq(Pieces) : Len(u) = n /\ ~Fits(u)}
<1> SUFFICES ASSUME ~Fits(t) PROVE FALSE
  OBVIOUS
<1> HIDE DEF Fits
<1>1. B \in SUBSET Nat /\ B # {}
  OBVIOUS
<1> HIDE DEF B
<1>2. PICK n \in B : \A k \in B : n <= k
  BY <1>1, LeastNatural
<1> USE DEF B
<1>3. PICK u \in Seq(Pieces) : Len(u) = n /\ ~Fits(u)
  OBVIOUS
<1>4. u # <<>>
  <2>1. s \o <<>> = s
    BY ConcatEmptySeq
  <2>2. Room(s) \in Nat /\ Room(<<>>) = 0
    BY RoomType
  <2>3. Fits(<<>>)
    BY <2>1, <2>2 DEF Fits
  <2>. QED
    BY <1>3, <2>3
<1>5. PICK v \in Seq(Pieces), p \in Pieces : u = Append(v, p)
  BY <1>4, SequenceEmptyOrAppend
<1>6. Len(v) \in Nat /\ Len(v) < n
  BY <1>3, <1>5
<1>7. Fits(v)
  BY <1>2, <1>6
<1>8. s \o u = Append(s \o v, p) /\ s \o v \in Seq(Pieces)
  <2>1. AppendsLast(s, v, p)
    BY AppendLast
  <2>. QED
    BY <1>5, <2>1, ConcatProperties DEF AppendsLast
<1>9. Room(s \o u) = Room(s \o v) + Size(p) /\ Room(u) = Room(v) + Size(p)
  BY <1>5, <1>8, RoomAppend
<1>10. Room(s) \in Nat /\ Room(v) \in Nat /\ Size(p) \in Nat
  BY RoomType, SizeType
<1>11. Fits(u)
  BY <1>7, <1>9, <1>10 DEF Fits
<1>. QED
  BY <1>3, <1>11

-----------------------------------------------------------------------------
(* The entries among some pieces *)

Own(w) == {w} \X (1..MaxEntries)

\* The entries that are kept are pieces of w.
LEMMA OwnPieces ==
  ASSUME NEW s \in Seq(Pieces), NEW w \in Writers
  PROVE  /\ Only(s, Own(w)) \in Seq(Own(w))
         /\ DOMAIN Only(s, Own(w)) = 1..Len(Only(s, Own(w)))
         /\ EntriesOf(w, s) \in Seq(1..MaxEntries)
         /\ Len(EntriesOf(w, s)) = Len(Only(s, Own(w)))
         /\ \A i \in 1..Len(EntriesOf(w, s)) : EntriesOf(w, s)[i] = Only(s, Own(w))[i][2]
<1>1. Own(w) \subseteq Pieces
  BY TranscriptAssumption DEF Own, Pieces
<1>2. Only(s, Own(w)) \in Seq(Own(w))
  <2>1. Only(s, Own(w)) \in Seq(Pieces \cap Own(w))
    BY OnlyType
  <2>2. Pieces \cap Own(w) = Own(w)
    BY <1>1
  <2>. QED
    BY <2>1, <2>2
<1>3. PICK own \in Seq(Own(w)) : own = Only(s, Own(w))
  BY <1>2
<1>4. EntriesOf(w, s) = [i \in 1..Len(own) |-> own[i][2]]
  BY <1>3 DEF EntriesOf, Own
<1>5. \A i \in 1..Len(own) : own[i][2] \in 1..MaxEntries
  <2>1. \A i \in 1..Len(own) : own[i] \in Own(w)
    OBVIOUS
  <2>. QED
    BY <2>1 DEF Own
<1>. QED
  BY <1>3, <1>4, <1>5

\* Entries of nothing.
LEMMA EntriesOfNone ==
  ASSUME NEW w \in Writers
  PROVE  EntriesOf(w, <<>>) = <<>>
<1>1. <<>> \in Seq(Pieces) /\ Only(<<>>, Own(w)) = <<>> /\ Len(<<>>) = 0
  BY OnlyEmpty
<1>2. EntriesOf(w, <<>>) \in Seq(1..MaxEntries) /\ Len(EntriesOf(w, <<>>)) = 0
  BY <1>1, OwnPieces
<1>. QED
  BY <1>2, EmptySeq

\* Entries of one piece.
LEMMA EntriesOfOne ==
  ASSUME NEW w \in Writers, NEW piece \in Pieces
  PROVE  EntriesOf(w, <<piece>>) = IF piece \in Own(w) THEN <<piece[2]>> ELSE <<>>
<1>1. Only(<<piece>>, Own(w)) = IF piece \in Own(w) THEN <<piece>> ELSE <<>>
  <2>1. <<>> \in Seq(Pieces) /\ Append(<<>>, piece) = <<piece>>
    OBVIOUS
  <2>2. Only(Append(<<>>, piece), Own(w)) =
          IF piece \in Own(w) THEN Append(Only(<<>>, Own(w)), piece) ELSE Only(<<>>, Own(w))
    BY <2>1, OnlyAppend
  <2>. QED
    BY <2>1, <2>2, OnlyEmpty
<1>2. CASE piece \in Own(w)
  <2>1. Only(<<piece>>, Own(w)) = <<piece>>
    BY <1>1, <1>2
  <2>2. EntriesOf(w, <<piece>>) = [i \in DOMAIN <<piece>> |-> <<piece>>[i][2]]
    BY <2>1 DEF EntriesOf, Own
  <2>3. EntriesOf(w, <<piece>>) = <<piece[2]>>
    BY <2>2
  <2>. QED
    BY <1>2, <2>3
<1>3. CASE piece \notin Own(w)
  <2>1. Only(<<piece>>, Own(w)) = <<>>
    BY <1>1, <1>3
  <2>2. EntriesOf(w, <<piece>>) = <<>>
    <3>1. <<piece>> \in Seq(Pieces) /\ Len(<<>>) = 0
      OBVIOUS
    <3>2. EntriesOf(w, <<piece>>) \in Seq(1..MaxEntries) /\ Len(EntriesOf(w, <<piece>>)) = 0
      BY <2>1, <3>1, OwnPieces
    <3>. QED
      BY <3>2, EmptySeq
  <2>. QED
    BY <1>3, <2>2
<1>. QED
  BY <1>2, <1>3

\* Entries of two sequences.
LEMMA EntriesConcat ==
  ASSUME NEW w \in Writers, NEW s \in Seq(Pieces), NEW t \in Seq(Pieces)
  PROVE  EntriesOf(w, s \o t) = EntriesOf(w, s) \o EntriesOf(w, t)
<1>1. s \o t \in Seq(Pieces)
  OBVIOUS
<1>2. PICK a \in Seq(Own(w)), b \in Seq(Own(w)) : a = Only(s, Own(w)) /\ b = Only(t, Own(w))
  BY OwnPieces
<1>3. Only(s \o t, Own(w)) = a \o b
  <2>1. Only(s \o t, Own(w)) = Only(s, Own(w)) \o Only(t, Own(w))
    BY OnlyConcat
  <2>. QED
    BY <1>2, <2>1, Zenon
<1>4. PICK d \in Seq(1..MaxEntries), e \in Seq(1..MaxEntries), f \in Seq(1..MaxEntries) :
        d = EntriesOf(w, s) /\ e = EntriesOf(w, t) /\ f = EntriesOf(w, s \o t)
  BY <1>1, OwnPieces
<1>5. /\ Len(d) = Len(a) /\ \A i \in 1..Len(d) : d[i] = a[i][2]
      /\ Len(e) = Len(b) /\ \A i \in 1..Len(e) : e[i] = b[i][2]
      /\ Len(f) = Len(a \o b) /\ \A i \in 1..Len(f) : f[i] = (a \o b)[i][2]
  BY <1>1, <1>2, <1>3, <1>4, OwnPieces
<1>6. d \o e \in Seq(1..MaxEntries) /\ Len(d \o e) = Len(f)
  BY <1>5
<1>7. ASSUME NEW i \in 1..Len(f) PROVE f[i] = (d \o e)[i]
  <2>1. /\ (a \o b)[i] = IF i <= Len(a) THEN a[i] ELSE b[i - Len(a)]
        /\ (d \o e)[i] = IF i <= Len(d) THEN d[i] ELSE e[i - Len(d)]
    BY <1>5
  <2>2. Len(a) = Len(d) /\ Len(b) = Len(e) /\ Len(f) = Len(a) + Len(b) /\ i \in Int
    BY <1>5
  <2>3. f[i] = (a \o b)[i][2]
    BY <1>5
  <2>4. CASE i <= Len(a)
    <3>1. d[i] = a[i][2]
      BY <1>5, <2>4
    <3>. QED
      BY <2>1, <2>2, <2>3, <2>4, <3>1
  <2>5. CASE ~(i <= Len(a))
    <3>1. i - Len(a) \in 1..Len(e)
      BY <2>2, <2>5
    <3>2. e[i - Len(a)] = b[i - Len(a)][2]
      BY <1>5, <3>1
    <3>. QED
      BY <2>1, <2>2, <2>3, <2>5, <3>2
  <2>. QED
    BY <2>4, <2>5
<1>8. f = d \o e
  BY <1>6, <1>7, SeqEqual
<1>. QED
  BY <1>4, <1>8

\* The entries are exactly the ones that occur.
LEMMA EntriesOccur ==
  ASSUME NEW w \in Writers, NEW s \in Seq(Pieces), NEW e
  PROVE  e \in ToSet(EntriesOf(w, s)) <=> e \in 1..MaxEntries /\ \E i \in 1..Len(s) : s[i] = <<w, e>>
<1>1. PICK at : Numbering(s, Own(w), at)
  BY OnlyNumbers
<1>2. PICK own \in Seq(Own(w)) : own = Only(s, Own(w))
  BY OwnPieces
<1>3. /\ \A n \in 1..Len(own) : at[n] \in 1..Len(s) /\ own[n] = s[at[n]]
      /\ \A i \in 1..Len(s) : s[i] \in Own(w) => \E n \in 1..Len(own) : at[n] = i
  BY <1>1, <1>2 DEF Numbering
<1>4. PICK d \in Seq(1..MaxEntries) : d = EntriesOf(w, s)
  BY OwnPieces
<1>5. Len(d) = Len(own) /\ \A i \in 1..Len(d) : d[i] = own[i][2]
  BY <1>2, <1>4, OwnPieces
<1>6. ASSUME e \in ToSet(d) PROVE e \in 1..MaxEntries /\ \E i \in 1..Len(s) : s[i] = <<w, e>>
  <2>1. PICK n \in 1..Len(d) : d[n] = e
    BY <1>6 DEF ToSet
  <2>2. own[n] \in Own(w) /\ own[n][2] = e
    BY <1>5, <2>1
  <2>3. own[n] = <<w, e>> /\ e \in 1..MaxEntries
    BY <2>2 DEF Own
  <2>4. at[n] \in 1..Len(s) /\ s[at[n]] = <<w, e>>
    BY <1>3, <1>5, <2>1, <2>3
  <2>. QED
    BY <2>3, <2>4
<1>7. ASSUME e \in 1..MaxEntries, NEW i \in 1..Len(s), s[i] = <<w, e>> PROVE e \in ToSet(d)
  <2>1. s[i] \in Own(w)
    BY <1>7 DEF Own
  <2>2. PICK n \in 1..Len(own) : at[n] = i
    BY <1>3, <2>1
  <2>3. own[n] = <<w, e>>
    BY <1>3, <1>7, <2>2
  <2>4. n \in 1..Len(d) /\ d[n] = e
    BY <1>5, <2>3
  <2>. QED
    BY <2>4 DEF ToSet
<1>. QED
  BY <1>4, <1>6, <1>7

-----------------------------------------------------------------------------
(* What a step does to the pieces *)

\* A process that has begun a line has made an entry.
Begun == \A w \in Writers : pc[w] = "line" => made[w] # 0

\* Only a TranscriptWriter that has the file open holds pieces back,
BatchesBuffer ==
  \A w \in Writers : kind[w] # "batch" \/ pc[w] = "closed" => buffer[w] = <<>>

\* and they are its own.
Mine(w, s) == \A i \in 1..Len(s) : s[i][1] = w
BuffersAreOwn == \A w \in Writers : Mine(w, buffer[w])

TypeInv == TypeOK /\ Begun /\ BatchesBuffer /\ BuffersAreOwn

\* w adds `new` to what it holds, and the first part goes to the end of the file.
Moves(w, new) ==
  \E a, b \in Seq(Pieces) :
    /\ a \o b = buffer[w] \o new
    /\ file' = file \o a
    /\ buffer' = [buffer EXCEPT ![w] = b]

\* The first part of what w holds goes to the end of the file, the rest is lost.
Loses(w) ==
  \E a, b \in Seq(Pieces) :
    /\ a \o b = buffer[w]
    /\ file' = file \o a
    /\ buffer' = [buffer EXCEPT ![w] = <<>>]

\* What Put adds.
Handed(w, piece) == IF kind[w] = "null" THEN <<>> ELSE <<piece>>

\* Nothing moves.
LEMMA SameMoves ==
  ASSUME TypeInv, NEW w \in Writers, UNCHANGED <<file, buffer>>
  PROVE  Moves(w, <<>>)
<1>1. PICK b \in Seq(Pieces) : b = buffer[w]
  BY DEF TypeInv, TypeOK
<1>2. <<>> \in Seq(Pieces) /\ <<>> \o b = b /\ b \o <<>> = b
  BY ConcatEmptySeq
<1>3. file \in Seq(Pieces) /\ file \o <<>> = file
  BY ConcatEmptySeq DEF TypeInv, TypeOK
<1>4. buffer' = [buffer EXCEPT ![w] = b]
  BY <1>1 DEF TypeInv, TypeOK
<1>. QED
  BY <1>1, <1>2, <1>3, <1>4 DEF Moves

\* Everything moves.
LEMMA EmptyMoves ==
  ASSUME TypeInv, NEW w \in Writers,
         file' = file \o buffer[w], buffer' = [buffer EXCEPT ![w] = <<>>]
  PROVE  Moves(w, <<>>)
<1>1. buffer[w] \in Seq(Pieces) /\ <<>> \in Seq(Pieces)
  BY DEF TypeInv, TypeOK
<1>. QED
  BY <1>1 DEF Moves

\* Some of it moves.
LEMMA EmptyPartlyMoves ==
  ASSUME TypeInv, NEW w \in Writers, EmptyPartly(w)
  PROVE  Moves(w, <<>>)
<1>1. PICK b \in Seq(Pieces) : b = buffer[w]
  BY DEF TypeInv, TypeOK
<1>2. PICK k \in 0..Len(b) - 1 :
        /\ file' = file \o SubSeq(b, 1, k)
        /\ buffer' = [buffer EXCEPT ![w] = SubSeq(b, k + 1, Len(b))]
  BY <1>1 DEF EmptyPartly, TypeInv, TypeOK
<1>3. k \in 0..Len(b)
  OBVIOUS
<1>4. /\ SubSeq(b, 1, k) \in Seq(Pieces) /\ SubSeq(b, k + 1, Len(b)) \in Seq(Pieces)
      /\ SubSeq(b, 1, k) \o SubSeq(b, k + 1, Len(b)) = b
  BY <1>3, PartsOf
<1>5. b \o <<>> = b
  BY ConcatEmptySeq
<1>. QED
  BY <1>1, <1>2, <1>4, <1>5 DEF Moves

\* Put adds a piece, and what is then held is within the capacity.
LEMMA PutMoves ==
  ASSUME TypeInv, NEW w \in Writers, NEW p \in Pieces, Put(w, p), pc[w] # "closed",
         pc'[w] = "closed" => kind[w] = "append"
  PROVE  /\ Moves(w, Handed(w, p))
         /\ Room(buffer'[w]) <= capacity
         /\ kind[w] # "batch" \/ pc'[w] = "closed" => buffer'[w] = <<>>
<1>1. /\ file \in Seq(Pieces) /\ <<>> \in Seq(Pieces) /\ <<p>> \in Seq(Pieces)
      /\ buffer \in [Writers -> Seq(Pieces)] /\ kind[w] \in Kinds
      /\ Room(buffer[w]) <= capacity /\ capacity \in Nat
      /\ kind[w] # "batch" => buffer[w] = <<>>
  BY TranscriptAssumption DEF TypeInv, TypeOK, BatchesBuffer
<1>2. PICK b \in Seq(Pieces) : b = buffer[w]
  BY <1>1
<1>3. /\ b \o <<p>> = Append(b, p) /\ Append(b, p) \in Seq(Pieces)
      /\ file \o <<>> = file /\ <<>> \o Append(b, p) = Append(b, p)
      /\ Append(b, p) \o <<>> = Append(b, p)
  BY <1>1, ConcatEmptySeq
<1>4. Append(file \o b, p) = file \o Append(b, p)
  <2>1. AppendsLast(file, b, p)
    BY <1>1, AppendLast
  <2>. QED
    BY <2>1 DEF AppendsLast
<1>5. CASE kind[w] = "null"
  <2>1. UNCHANGED <<file, buffer>> /\ Handed(w, p) = <<>>
    BY <1>5 DEF Put, Handed
  <2>. QED
    BY <1>1, <1>5, <2>1, SameMoves
<1>6. CASE kind[w] = "append"
  <2>1. file' = Append(file, p) /\ UNCHANGED buffer /\ Handed(w, p) = <<p>> /\ b = <<>>
    BY <1>1, <1>2, <1>6 DEF Put, Handed
  <2>2. Append(file, p) = file \o <<p>> /\ <<p>> \o <<>> = b \o <<p>>
    BY <1>1, <2>1
  <2>3. buffer' = [buffer EXCEPT ![w] = <<>>]
    BY <1>1, <1>2, <2>1
  <2>. QED
    BY <1>1, <1>2, <1>6, <2>1, <2>2, <2>3 DEF Moves
<1>7. CASE kind[w] = "batch"
  <2>1. Handed(w, p) = <<p>> /\ pc'[w] # "closed"
    BY <1>7 DEF Handed
  <2>2. CASE /\ file' = Append(file \o b, p)
             /\ buffer' = [buffer EXCEPT ![w] = <<>>]
    <3>1. Moves(w, <<p>>)
      BY <1>1, <1>2, <1>3, <1>4, <2>2 DEF Moves
    <3>2. buffer'[w] = <<>> /\ Room(<<>>) = 0
      BY <1>1, <2>2, RoomType
    <3>. QED
      BY <1>1, <2>1, <3>1, <3>2
  <2>3. CASE /\ Size(p) < capacity
             /\ file' = file \o b
             /\ buffer' = [buffer EXCEPT ![w] = <<p>>]
    <3>1. Moves(w, <<p>>)
      BY <1>1, <1>2, <2>3 DEF Moves
    <3>2. buffer'[w] = <<p>> /\ Room(<<p>>) = Size(p)
      <4>1. <<p>> = Append(<<>>, p) /\ Room(<<>>) = 0
        BY <1>1, RoomType
      <4>2. Room(Append(<<>>, p)) = Room(<<>>) + Size(p) /\ Size(p) \in Nat
        BY <1>1, RoomAppend, SizeType
      <4>. QED
        BY <1>1, <2>3, <4>1, <4>2
    <3>. QED
      BY <1>1, <1>7, <2>1, <2>3, <3>1, <3>2, SizeType
  <2>4. CASE /\ Room(b) + Size(p) <= capacity
             /\ buffer' = [buffer EXCEPT ![w] = Append(b, p)]
             /\ UNCHANGED file
    <3>1. Moves(w, <<p>>)
      BY <1>1, <1>2, <1>3, <2>4 DEF Moves
    <3>2. buffer'[w] = Append(b, p) /\ Room(Append(b, p)) = Room(b) + Size(p)
      BY <1>1, <2>4, RoomAppend
    <3>. QED
      BY <1>7, <2>1, <2>4, <3>1, <3>2
  <2>. QED
    BY <1>1, <1>2, <1>7, <2>2, <2>3, <2>4 DEF Put
<1>. QED
  BY <1>1, <1>5, <1>6, <1>7 DEF Kinds

\* A sequence holds elements of its set.
LEMMA HoldsElements ==
  ASSUME NEW S, NEW s \in Seq(S)
  PROVE  ToSet(s) \subseteq S
<1>1. DOMAIN s = 1..Len(s) /\ \A i \in 1..Len(s) : s[i] \in S
  BY LenProperties, ElementOfSeq
<1>. QED
  BY <1>1 DEF ToSet

\* Two sequences hold what either holds.
LEMMA ConcatHolds ==
  ASSUME NEW S, NEW s \in Seq(S), NEW t \in Seq(S)
  PROVE  ToSet(s \o t) = ToSet(s) \cup ToSet(t)
<1> DEFINE u == s \o t
<1>1. /\ Len(u) = Len(s) + Len(t) /\ Len(s) \in Nat /\ Len(t) \in Nat
      /\ DOMAIN u = 1..Len(u) /\ DOMAIN s = 1..Len(s) /\ DOMAIN t = 1..Len(t)
      /\ \A i \in 1..Len(s) : u[i] = s[i]
      /\ \A i \in 1..Len(t) : u[Len(s) + i] = t[i]
  OBVIOUS
<1> HIDE DEF u
<1>2. ASSUME NEW i \in 1..Len(u) PROVE u[i] \in ToSet(s) \cup ToSet(t)
  <2>1. CASE i \in 1..Len(s)
    BY <1>1, <2>1 DEF ToSet
  <2>2. CASE i - Len(s) \in 1..Len(t)
    <3>1. u[i] = t[i - Len(s)]
      BY <1>1, <2>2
    <3>. QED
      BY <1>1, <2>2, <3>1 DEF ToSet
  <2>. QED
    BY <1>1, <2>1, <2>2
<1>3. ASSUME NEW i \in 1..Len(s) PROVE s[i] \in ToSet(u)
  BY <1>1 DEF ToSet
<1>4. ASSUME NEW i \in 1..Len(t) PROVE t[i] \in ToSet(u)
  <2>1. Len(s) + i \in 1..Len(u) /\ u[Len(s) + i] = t[i]
    BY <1>1
  <2>. QED
    BY <1>1, <2>1 DEF ToSet
<1>. QED
  BY <1>1, <1>2, <1>3, <1>4 DEF ToSet, u

\* Pieces of one process hold no entry of another.
LEMMA OthersHaveNone ==
  ASSUME NEW w \in Writers, NEW v \in Writers, v # w, NEW s \in Seq(Pieces), Mine(w, s)
  PROVE  EntriesOf(v, s) = <<>>
<1>1. PICK d \in Seq(1..MaxEntries) : d = EntriesOf(v, s)
  BY OwnPieces
<1>2. ASSUME NEW i \in 1..Len(d) PROVE FALSE
  <2>1. d[i] \in ToSet(EntriesOf(v, s))
    BY <1>1 DEF ToSet
  <2>2. PICK j \in 1..Len(s) : s[j] = <<v, d[i]>>
    BY <2>1, EntriesOccur
  <2>. QED
    BY <2>2 DEF Mine
<1>3. Len(d) = 0
  BY <1>2
<1>. QED
  BY <1>1, <1>3, EmptySeq

\* Two sequences are w's if both are.
LEMMA BothAreMine ==
  ASSUME NEW w \in Writers, NEW s \in Seq(Pieces), NEW t \in Seq(Pieces)
  PROVE  Mine(w, s \o t) <=> Mine(w, s) /\ Mine(w, t)
<1> DEFINE u == s \o t
<1>1. /\ Len(u) = Len(s) + Len(t) /\ Len(s) \in Nat /\ Len(t) \in Nat
      /\ \A i \in 1..Len(s) : i \in 1..Len(u) /\ u[i] = s[i]
      /\ \A i \in 1..Len(t) : Len(s) + i \in 1..Len(u) /\ u[Len(s) + i] = t[i]
      /\ \A i \in 1..Len(u) : ~(i <= Len(s)) => i - Len(s) \in 1..Len(t) /\ u[i] = t[i - Len(s)]
  OBVIOUS
<1> HIDE DEF u
<1>2. ASSUME Mine(w, u) PROVE Mine(w, s) /\ Mine(w, t)
  BY <1>1, <1>2 DEF Mine
<1>3. ASSUME Mine(w, s), Mine(w, t), NEW i \in 1..Len(u) PROVE u[i][1] = w
  <2>1. CASE i <= Len(s)
    BY <1>1, <1>3, <2>1 DEF Mine
  <2>2. CASE ~(i <= Len(s))
    BY <1>1, <1>3, <2>2 DEF Mine
  <2>. QED
    BY <2>1, <2>2
<1>4. ASSUME Mine(w, s), Mine(w, t) PROVE Mine(w, u)
  BY <1>3, <1>4 DEF Mine
<1>. QED
  BY <1>2, <1>4 DEF u

\* What moves keeps its types, its owners and the room it takes.
LEMMA MovesTypes ==
  ASSUME TypeInv, NEW w \in Writers, NEW new \in Seq(Pieces), Mine(w, new), Moves(w, new)
  PROVE  /\ file' \in Seq(Pieces)
         /\ buffer' \in [Writers -> Seq(Pieces)]
         /\ \A v \in Writers \ {w} : buffer'[v] = buffer[v]
         /\ \A v \in Writers : Mine(v, buffer'[v])
         /\ new = <<>> => Room(buffer'[w]) <= Room(buffer[w])
<1>1. PICK a \in Seq(Pieces), b \in Seq(Pieces) :
        a \o b = buffer[w] \o new /\ file' = file \o a /\ buffer' = [buffer EXCEPT ![w] = b]
  BY DEF Moves
<1>2. file \in Seq(Pieces) /\ buffer \in [Writers -> Seq(Pieces)]
  BY DEF TypeInv, TypeOK
<1>3. /\ file' \in Seq(Pieces) /\ buffer' \in [Writers -> Seq(Pieces)] /\ buffer'[w] = b
      /\ \A v \in Writers \ {w} : buffer'[v] = buffer[v]
  BY <1>1, <1>2
<1>4. Mine(w, b)
  <2>1. PICK c \in Seq(Pieces) : c = buffer[w]
    BY <1>2
  <2>2. Mine(w, c \o new)
    BY <2>1, BothAreMine DEF TypeInv, BuffersAreOwn
  <2>3. Mine(w, a \o b)
    BY <1>1, <2>1, <2>2, Zenon
  <2>. QED
    BY <2>3, BothAreMine
<1>5. ASSUME NEW v \in Writers PROVE Mine(v, buffer'[v])
  BY <1>3, <1>4 DEF TypeInv, BuffersAreOwn
<1>6. ASSUME new = <<>> PROVE Room(buffer'[w]) <= Room(buffer[w])
  <2>1. buffer[w] \o <<>> = buffer[w]
    BY <1>2, ConcatEmptySeq
  <2>2. Room(buffer[w]) = Room(a) + Room(b)
    BY <1>1, <1>6, <2>1, RoomConcat
  <2>. QED
    BY <1>3, <2>2, RoomType
<1>. QED
  BY <1>3, <1>5, <1>6

\* The entries of w move as its pieces do, and those of others stay.
LEMMA MovesEntries ==
  ASSUME TypeInv, NEW w \in Writers, NEW new \in Seq(Pieces), Mine(w, new), Moves(w, new)
  PROVE  /\ \E c, d \in Seq(1..MaxEntries) :
              /\ c \o d = EntriesOf(w, buffer[w]) \o EntriesOf(w, new)
              /\ EntriesOf(w, file') = EntriesOf(w, file) \o c
              /\ EntriesOf(w, buffer'[w]) = d
         /\ \A v \in Writers \ {w} :
              /\ EntriesOf(v, file') = EntriesOf(v, file)
              /\ EntriesOf(v, buffer'[v]) = EntriesOf(v, buffer[v])
<1>1. PICK a \in Seq(Pieces), b \in Seq(Pieces) :
        a \o b = buffer[w] \o new /\ file' = file \o a /\ buffer' = [buffer EXCEPT ![w] = b]
  BY DEF Moves
<1>2. file \in Seq(Pieces) /\ buffer \in [Writers -> Seq(Pieces)] /\ Mine(w, buffer[w])
  BY DEF TypeInv, TypeOK, BuffersAreOwn
<1>3. PICK c \in Seq(Pieces) : c = buffer[w]
  BY <1>2
<1>4. buffer'[w] = b /\ \A v \in Writers \ {w} : buffer'[v] = buffer[v]
  BY <1>1, <1>2
<1>5. EntriesOf(w, a) \o EntriesOf(w, b) = EntriesOf(w, c) \o EntriesOf(w, new)
  <2>1. EntriesOf(w, a \o b) = EntriesOf(w, a) \o EntriesOf(w, b)
    BY EntriesConcat
  <2>2. EntriesOf(w, c \o new) = EntriesOf(w, c) \o EntriesOf(w, new)
    BY EntriesConcat
  <2>. QED
    BY <1>1, <1>3, <2>1, <2>2, Zenon
<1>6. \A v \in Writers : EntriesOf(v, file') = EntriesOf(v, file) \o EntriesOf(v, a)
  BY <1>1, <1>2, EntriesConcat
<1>7. ASSUME NEW v \in Writers \ {w} PROVE EntriesOf(v, file') = EntriesOf(v, file)
  <2>1. Mine(w, a)
    <3>1. Mine(w, c \o new)
      BY <1>2, <1>3, BothAreMine
    <3>2. Mine(w, a \o b)
      BY <1>1, <1>3, <3>1, Zenon
    <3>. QED
      BY <3>2, BothAreMine
  <2>2. EntriesOf(v, a) = <<>>
    BY <2>1, OthersHaveNone
  <2>3. EntriesOf(v, file) \in Seq(1..MaxEntries)
    BY <1>2, OwnPieces
  <2>. QED
    BY <1>6, <2>2, <2>3, ConcatEmptySeq
<1>8. EntriesOf(w, a) \in Seq(1..MaxEntries) /\ EntriesOf(w, b) \in Seq(1..MaxEntries)
  BY OwnPieces
<1>. QED
  BY <1>3, <1>4, <1>5, <1>6, <1>7, <1>8

\* The same for a step that loses the rest.
LEMMA LosesTypes ==
  ASSUME TypeInv, NEW w \in Writers, Loses(w)
  PROVE  /\ file' \in Seq(Pieces)
         /\ buffer' \in [Writers -> Seq(Pieces)]
         /\ buffer'[w] = <<>>
         /\ \A v \in Writers \ {w} : buffer'[v] = buffer[v]
         /\ \A v \in Writers : Mine(v, buffer'[v])
         /\ Room(buffer'[w]) <= capacity
<1>1. PICK a \in Seq(Pieces), b \in Seq(Pieces) :
        a \o b = buffer[w] /\ file' = file \o a /\ buffer' = [buffer EXCEPT ![w] = <<>>]
  BY DEF Loses
<1>2. /\ file \in Seq(Pieces) /\ buffer \in [Writers -> Seq(Pieces)] /\ <<>> \in Seq(Pieces)
      /\ capacity \in Nat
  BY TranscriptAssumption DEF TypeInv, TypeOK
<1>3. /\ file' \in Seq(Pieces) /\ buffer' \in [Writers -> Seq(Pieces)] /\ buffer'[w] = <<>>
      /\ \A v \in Writers \ {w} : buffer'[v] = buffer[v]
  BY <1>1, <1>2
<1>4. Mine(w, <<>>)
  BY DEF Mine
<1>5. ASSUME NEW v \in Writers PROVE Mine(v, buffer'[v])
  BY <1>3, <1>4 DEF TypeInv, BuffersAreOwn
<1>6. Room(<<>>) = 0
  BY <1>2, RoomType
<1>. QED
  BY <1>2, <1>3, <1>5, <1>6

LEMMA LosesEntries ==
  ASSUME TypeInv, NEW w \in Writers, Loses(w)
  PROVE  /\ \E c, d \in Seq(1..MaxEntries) :
              /\ c \o d = EntriesOf(w, buffer[w])
              /\ EntriesOf(w, file') = EntriesOf(w, file) \o c
         /\ EntriesOf(w, buffer'[w]) = <<>>
         /\ \A v \in Writers \ {w} :
              /\ EntriesOf(v, file') = EntriesOf(v, file)
              /\ EntriesOf(v, buffer'[v]) = EntriesOf(v, buffer[v])
<1>1. PICK a \in Seq(Pieces), b \in Seq(Pieces) :
        a \o b = buffer[w] /\ file' = file \o a /\ buffer' = [buffer EXCEPT ![w] = <<>>]
  BY DEF Loses
<1>2. file \in Seq(Pieces) /\ buffer \in [Writers -> Seq(Pieces)] /\ Mine(w, buffer[w])
  BY DEF TypeInv, TypeOK, BuffersAreOwn
<1>3. buffer'[w] = <<>> /\ \A v \in Writers \ {w} : buffer'[v] = buffer[v]
  BY <1>1, <1>2
<1>4. EntriesOf(w, a) \o EntriesOf(w, b) = EntriesOf(w, buffer[w])
  <2>1. EntriesOf(w, a \o b) = EntriesOf(w, a) \o EntriesOf(w, b)
    BY EntriesConcat
  <2>. QED
    BY <1>1, <2>1
<1>5. \A v \in Writers : EntriesOf(v, file') = EntriesOf(v, file) \o EntriesOf(v, a)
  BY <1>1, <1>2, EntriesConcat
<1>6. ASSUME NEW v \in Writers \ {w} PROVE EntriesOf(v, file') = EntriesOf(v, file)
  <2>1. Mine(w, a)
    BY <1>1, <1>2, BothAreMine
  <2>2. EntriesOf(v, a) = <<>>
    BY <2>1, OthersHaveNone
  <2>3. EntriesOf(v, file) \in Seq(1..MaxEntries)
    BY <1>2, OwnPieces
  <2>. QED
    BY <1>5, <2>2, <2>3, ConcatEmptySeq
<1>7. EntriesOf(w, a) \in Seq(1..MaxEntries) /\ EntriesOf(w, b) \in Seq(1..MaxEntries)
  BY OwnPieces
<1>. QED
  BY <1>3, <1>4, <1>5, <1>6, <1>7, EntriesOfNone

-----------------------------------------------------------------------------
(* What each step does to the pieces *)

\* Whoever holds nothing back, or has closed the file, has an empty buffer.
Settled(w) == kind[w] # "batch" \/ pc'[w] = "closed" => buffer'[w] = <<>>

\* A step that fails moves a part of the buffer or nothing.
LEMMA FailingMoves ==
  ASSUME TypeInv, NEW w \in Writers, FlushFails(w) \/ WriteLineFails(w) \/ WriteNewlineFails(w)
  PROVE  Moves(w, <<>>) /\ Settled(w)
<1>1. /\ buffer \in [Writers -> Seq(Pieces)] /\ pc \in [Writers -> {"closed", "open", "line"}]
      /\ kind[w] # "batch" \/ pc[w] = "closed" => buffer[w] = <<>>
      /\ kind[w] \in Kinds
  BY DEF TypeInv, TypeOK, BatchesBuffer
<1>2. ASSUME EmptyPartly(w), pc[w] # "closed", pc'[w] # "closed"
      PROVE  Moves(w, <<>>) /\ Settled(w)
  BY <1>1, <1>2, EmptyPartlyMoves DEF EmptyPartly, Settled
<1>3. ASSUME UNCHANGED <<file, buffer>>, kind[w] = "append" PROVE Moves(w, <<>>) /\ Settled(w)
  BY <1>1, <1>3, SameMoves DEF Settled
<1>4. CASE FlushFails(w)
  BY <1>1, <1>2, <1>4 DEF FlushFails
<1>5. CASE WriteLineFails(w)
  <2>1. pc[w] = "open"
    BY <1>5 DEF WriteLineFails
  <2>2. CASE kind[w] = "append" /\ UNCHANGED <<file, buffer>>
    BY <1>3, <2>2
  <2>3. CASE EmptyPartly(w) /\ UNCHANGED pc
    BY <1>2, <2>1, <2>3
  <2>4. CASE /\ file' = file \o buffer[w]
             /\ buffer' = [buffer EXCEPT ![w] = <<>>]
    BY <1>1, <2>4, EmptyMoves DEF Settled
  <2>. QED
    BY <1>5, <2>2, <2>3, <2>4 DEF WriteLineFails
<1>6. CASE WriteNewlineFails(w)
  <2>1. pc[w] = "line"
    BY <1>6 DEF WriteNewlineFails
  <2>2. CASE kind[w] = "append" /\ UNCHANGED <<file, buffer>>
    BY <1>3, <2>2
  <2>3. CASE EmptyPartly(w) /\ pc' = [pc EXCEPT ![w] = "open"]
    BY <1>1, <1>2, <2>1, <2>3
  <2>. QED
    BY <1>6, <2>2, <2>3 DEF WriteNewlineFails
<1>. QED
  BY <1>4, <1>5, <1>6

\* So do opening, flushing and dropping.
LEMMA OpenFlushMoves ==
  ASSUME TypeInv, NEW w \in Writers, Open(w) \/ Flush(w) \/ Drop(w)
  PROVE  Moves(w, <<>>) /\ Settled(w)
<1>1. /\ buffer \in [Writers -> Seq(Pieces)] /\ pc \in [Writers -> {"closed", "open", "line"}]
      /\ kind[w] # "batch" \/ pc[w] = "closed" => buffer[w] = <<>>
  BY DEF TypeInv, TypeOK, BatchesBuffer
<1>2. CASE Open(w)
  BY <1>1, <1>2, SameMoves DEF Open, Settled
<1>3. CASE Flush(w) \/ Drop(w)
  BY <1>1, <1>3, EmptyMoves DEF Flush, Drop, Empty, Settled
<1>. QED
  BY <1>2, <1>3

\* A writer that goes away may lose what it holds.
LEMMA GoingLoses ==
  ASSUME TypeInv, NEW w \in Writers, DropFails(w) \/ Crash(w)
  PROVE  Loses(w)
<1>1. buffer \in [Writers -> Seq(Pieces)] /\ file \in Seq(Pieces)
  BY DEF TypeInv, TypeOK
<1>2. PICK b \in Seq(Pieces) : b = buffer[w]
  BY <1>1
<1>3. CASE DropFails(w)
  <2>1. PICK k \in 0..Len(b) - 1 : file' = file \o SubSeq(b, 1, k)
    BY <1>2, <1>3 DEF DropFails
  <2>2. k \in 0..Len(b)
    OBVIOUS
  <2>3. /\ SubSeq(b, 1, k) \in Seq(Pieces) /\ SubSeq(b, k + 1, Len(b)) \in Seq(Pieces)
        /\ SubSeq(b, 1, k) \o SubSeq(b, k + 1, Len(b)) = b
    BY <2>2, PartsOf
  <2>. QED
    BY <1>2, <1>3, <2>1, <2>3 DEF DropFails, Loses
<1>4. CASE Crash(w)
  <2>1. file \o <<>> = file /\ <<>> \o b = b /\ <<>> \in Seq(Pieces)
    BY <1>1, ConcatEmptySeq
  <2>. QED
    BY <1>2, <1>4, <2>1 DEF Crash, Loses
<1>. QED
  BY <1>3, <1>4

\* A line, or its end, is handed over.
LEMMA WritingMoves ==
  ASSUME TypeInv, NEW w \in Writers
  PROVE  /\ WriteLine(w) =>
              /\ Moves(w, Handed(w, <<w, made[w] + 1>>)) /\ Settled(w)
              /\ Room(buffer'[w]) <= capacity
              /\ <<w, made[w] + 1>> \in Own(w) /\ <<w, made[w] + 1>> \in Pieces
         /\ WriteNewline(w) =>
              /\ Moves(w, Handed(w, Newline(w))) /\ Settled(w)
              /\ Room(buffer'[w]) <= capacity
              /\ Newline(w) \notin Own(w) /\ Newline(w) \in Pieces
<1>1. /\ pc \in [Writers -> {"closed", "open", "line"}] /\ made[w] \in 0..MaxEntries
      /\ MaxEntries \in Nat
  BY TranscriptAssumption DEF TypeInv, TypeOK
<1>2. ASSUME WriteLine(w)
      PROVE  /\ Moves(w, Handed(w, <<w, made[w] + 1>>)) /\ Settled(w)
             /\ Room(buffer'[w]) <= capacity
             /\ <<w, made[w] + 1>> \in Own(w) /\ <<w, made[w] + 1>> \in Pieces
  <2>1. /\ pc[w] = "open" /\ pc'[w] = "line" /\ Put(w, <<w, made[w] + 1>>)
        /\ made[w] + 1 \in 1..MaxEntries /\ made[w] + 1 \in 0..MaxEntries
    BY <1>1, <1>2 DEF WriteLine
  <2>2. <<w, made[w] + 1>> \in Own(w) /\ <<w, made[w] + 1>> \in Pieces
    BY <2>1 DEF Own, Pieces
  <2>. QED
    BY <2>1, <2>2, PutMoves DEF Settled
<1>3. ASSUME WriteNewline(w)
      PROVE  /\ Moves(w, Handed(w, Newline(w))) /\ Settled(w)
             /\ Room(buffer'[w]) <= capacity
             /\ Newline(w) \notin Own(w) /\ Newline(w) \in Pieces
  <2>1. /\ pc[w] # "closed" /\ Put(w, Newline(w))
        /\ pc'[w] = "closed" => kind[w] = "append"
    BY <1>1, <1>3 DEF WriteNewline
  <2>2. Newline(w) \notin Own(w) /\ Newline(w) \in Pieces
    BY <1>1 DEF Newline, Own, Pieces
  <2>. QED
    BY <2>1, <2>2, PutMoves DEF Settled
<1>. QED
  BY <1>2, <1>3

-----------------------------------------------------------------------------
(* Types *)

\* What every step has of the types, and what it leaves of other processes.
Keeps(w) ==
  /\ file' \in Seq(Pieces)
  /\ buffer' \in [Writers -> Seq(Pieces)]
  /\ Room(buffer'[w]) <= capacity
  /\ \A v \in Writers \ {w} : buffer'[v] = buffer[v]
  /\ \A v \in Writers : Mine(v, buffer'[v])
  /\ Settled(w)

\* Every step of w keeps them.
LEMMA StepKeeps ==
  ASSUME TypeInv, NEW w \in Writers,
         Open(w) \/ WriteLine(w) \/ WriteNewline(w) \/ Flush(w) \/ Drop(w) \/ Fails(w)
  PROVE  Keeps(w)
<1>1. <<>> \in Seq(Pieces) /\ Mine(w, <<>>) /\ Room(buffer[w]) <= capacity
  BY DEF Mine, TypeInv, TypeOK
<1>2. capacity \in Nat /\ Room(buffer[w]) \in Nat
  BY TranscriptAssumption, RoomType DEF TypeInv, TypeOK
<1>3. ASSUME Moves(w, <<>>), Settled(w) PROVE Keeps(w)
  <2>1. /\ file' \in Seq(Pieces)
        /\ buffer' \in [Writers -> Seq(Pieces)]
        /\ \A v \in Writers \ {w} : buffer'[v] = buffer[v]
        /\ \A v \in Writers : Mine(v, buffer'[v])
        /\ Room(buffer'[w]) <= Room(buffer[w])
    BY <1>1, <1>3, MovesTypes
  <2>2. Room(buffer'[w]) \in Nat
    BY <2>1, RoomType
  <2>3. Room(buffer'[w]) <= capacity
    BY <1>1, <1>2, <2>1, <2>2
  <2>. QED
    BY <1>3, <2>1, <2>3 DEF Keeps
<1>4. ASSUME NEW p \in Pieces, p[1] = w, Moves(w, Handed(w, p)), Settled(w), Room(buffer'[w]) <= capacity
      PROVE  Keeps(w)
  <2>1. Handed(w, p) \in Seq(Pieces)
    BY <1>1 DEF Handed
  <2>2. Mine(w, Handed(w, p))
    BY <1>4 DEF Mine, Handed
  <2>. QED
    BY <1>4, <2>1, <2>2, MovesTypes DEF Keeps
<1>5. CASE Open(w) \/ Flush(w) \/ Drop(w)
  BY <1>3, <1>5, OpenFlushMoves
<1>6. CASE WriteLine(w)
  <2>1. <<w, made[w] + 1>>[1] = w
    OBVIOUS
  <2>. QED
    BY <1>4, <1>6, <2>1, WritingMoves
<1>7. CASE WriteNewline(w)
  <2>1. Newline(w)[1] = w
    BY DEF Newline
  <2>. QED
    BY <1>4, <1>7, <2>1, WritingMoves
<1>8. CASE FlushFails(w) \/ WriteLineFails(w) \/ WriteNewlineFails(w)
  BY <1>3, <1>8, FailingMoves
<1>9. CASE DropFails(w) \/ Crash(w)
  BY <1>9, GoingLoses, LosesTypes DEF Keeps, Settled
<1>. QED
  BY <1>5, <1>6, <1>7, <1>8, <1>9 DEF Fails

\* The types hold at first,
LEMMA TypeInit == Init => TypeInv
<1> SUFFICES ASSUME Init PROVE TypeInv
  OBVIOUS
<1>1. <<>> \in Seq(Pieces) /\ Capacities \subseteq Nat
  BY TranscriptAssumption
<1>2. Room(<<>>) = 0
  BY <1>1, RoomType
<1>3. TypeOK
  <2>1. /\ pc \in [Writers -> {"closed", "open", "line"}]
        /\ buffer \in [Writers -> Seq(Pieces)]
        /\ recorded \in [Writers -> SUBSET (1..MaxEntries)]
        /\ promised \in [Writers -> SUBSET (1..MaxEntries)]
    BY <1>1 DEF Init
  <2>2. made \in [Writers -> 0..MaxEntries] /\ faults \in 0..MaxFaults
    BY TranscriptAssumption DEF Init
  <2>3. \A w \in Writers : Room(buffer[w]) <= capacity
    <3>1. \A w \in Writers : buffer[w] = <<>> /\ capacity \in Nat
      BY <1>1 DEF Init
    <3>. QED
      BY <1>2, <3>1
  <2>. QED
    BY <1>1, <2>1, <2>2, <2>3 DEF Init, TypeOK
<1>4. Begun /\ BatchesBuffer /\ BuffersAreOwn
  BY DEF Init, Begun, BatchesBuffer, BuffersAreOwn, Mine
<1>. QED
  BY <1>3, <1>4 DEF TypeInv

\* and a step keeps them.
LEMMA TypeStep == TypeInv /\ [Next]_vars => TypeInv'
<1> SUFFICES ASSUME TypeInv, [Next]_vars PROVE TypeInv'
  OBVIOUS
<1>1. CASE UNCHANGED vars
  BY <1>1 DEF TypeInv, TypeOK, Begun, BatchesBuffer, BuffersAreOwn, Mine, vars
<1>2. ASSUME NEW w \in Writers,
             Open(w) \/ WriteLine(w) \/ WriteNewline(w) \/ Flush(w) \/ Drop(w) \/ Fails(w)
      PROVE  TypeInv'
  <2>1. Keeps(w)
    BY <1>2, StepKeeps
  <2>2. /\ kind \in [Writers -> Kinds] /\ capacity \in Capacities
        /\ pc \in [Writers -> {"closed", "open", "line"}]
        /\ made \in [Writers -> 0..MaxEntries]
        /\ recorded \in [Writers -> SUBSET (1..MaxEntries)]
        /\ promised \in [Writers -> SUBSET (1..MaxEntries)]
        /\ shared \in BOOLEAN /\ faults \in 0..MaxFaults
        /\ MaxEntries \in Nat /\ MaxFaults \in Nat
        /\ \A v \in Writers : Room(buffer[v]) <= capacity
        /\ \A v \in Writers : pc[v] = "line" => made[v] # 0
        /\ \A v \in Writers : kind[v] # "batch" \/ pc[v] = "closed" => buffer[v] = <<>>
    BY TranscriptAssumption DEF TypeInv, TypeOK, Begun, BatchesBuffer
  <2>3. UNCHANGED <<kind, capacity>>
    BY <1>2 DEF Open, WriteLine, WriteNewline, Flush, Drop, Fails, Fault, FlushFails,
                WriteLineFails, WriteNewlineFails, DropFails, Crash
  <2>4. /\ pc' \in [Writers -> {"closed", "open", "line"}]
        /\ \A v \in Writers \ {w} : pc'[v] = pc[v]
    BY <1>2, <2>2 DEF Open, WriteLine, WriteNewline, Flush, Drop, Fails, Fault, FlushFails,
                      WriteLineFails, WriteNewlineFails, DropFails, Crash
  <2>5. /\ made' \in [Writers -> 0..MaxEntries]
        /\ \A v \in Writers : pc'[v] = "line" => made'[v] # 0
    <3>1. CASE WriteLine(w) \/ WriteLineFails(w)
      <4>1. made' = [made EXCEPT ![w] = @ + 1] /\ made[w] < MaxEntries
        BY <3>1 DEF WriteLine, WriteLineFails
      <4>2. made[w] \in 0..MaxEntries /\ made[w] + 1 \in 0..MaxEntries /\ made[w] + 1 # 0
        BY <2>2, <4>1
      <4>. QED
        BY <2>2, <2>4, <4>1, <4>2
    <3>2. CASE ~WriteLine(w) /\ ~WriteLineFails(w)
      <4>1. made' = made /\ (pc'[w] = "line" => pc[w] = "line")
        BY <1>2, <2>2, <3>2 DEF Open, WriteNewline, Flush, Drop, Fails, Fault, FlushFails,
                                WriteNewlineFails, DropFails, Crash
      <4>. QED
        BY <2>2, <2>4, <4>1
    <3>. QED
      BY <3>1, <3>2
  <2>6. /\ recorded' \in [Writers -> SUBSET (1..MaxEntries)]
        /\ promised' \in [Writers -> SUBSET (1..MaxEntries)]
    BY <1>2, <2>2 DEF Open, WriteLine, WriteNewline, Flush, Drop, Fails, Fault, FlushFails,
                      WriteLineFails, WriteNewlineFails, DropFails, Crash, Empty
  <2>7. shared' \in BOOLEAN /\ faults' \in 0..MaxFaults
    <3>1. CASE Open(w)
      <4>1. shared' \in BOOLEAN
        BY <3>1, Zenon DEF Open
      <4>. QED
        BY <2>2, <3>1, <4>1 DEF Open
    <3>2. CASE ~Open(w)
      BY <1>2, <2>2, <3>2 DEF WriteLine, WriteNewline, Flush, Drop, Fails, Fault, FlushFails,
                              WriteLineFails, WriteNewlineFails, DropFails, Crash
    <3>. QED
      BY <3>1, <3>2
  <2>8. \A v \in Writers : Room(buffer'[v]) <= capacity
    BY <2>1, <2>2 DEF Keeps
  <2>9. TypeOK'
    BY <2>1, <2>2, <2>3, <2>4, <2>5, <2>6, <2>7, <2>8 DEF TypeOK, Keeps
  <2>10. Begun'
    BY <2>5 DEF Begun
  <2>11. BatchesBuffer'
    BY <2>1, <2>2, <2>3, <2>4 DEF BatchesBuffer, Keeps, Settled
  <2>12. BuffersAreOwn'
    BY <2>1 DEF BuffersAreOwn, Keeps, Mine
  <2>. QED
    BY <2>9, <2>10, <2>11, <2>12 DEF TypeInv
<1>. QED
  BY <1>1, <1>2 DEF Next

\* Every state of the transcript has its types: in particular no buffer is ever
\* fuller than its capacity, whatever was written, flushed and failed
\* (TranscriptWriter::append, flush, and BufWriter's drop).
THEOREM TranscriptTypes == Spec => []TypeOK
<1>1. TypeInv => TypeOK
  BY DEF TypeInv
<1>. QED
  BY <1>1, TypeInit, TypeStep, PTL DEF Spec

-----------------------------------------------------------------------------
(* What was promised, and what was lost *)

Held(w) == InFile(w) \cup InBuffer(w)

\* What of a process is where it should be: a line that is half written; what was
\* recorded, while the process has the file open or nothing has failed; and what
\* was promised.
EntriesKept(w) ==
  /\ pc[w] = "line" /\ kind[w] # "null" => made[w] \in Held(w)
  /\ kind[w] # "null" /\ (pc[w] # "closed" \/ faults = 0) => recorded[w] \subseteq Held(w)
  /\ promised[w] \subseteq InFile(w)

KeepingInv == TypeInv /\ \A w \in Writers : EntriesKept(w)

\* What moves is still held, and what is in the file stays there.
LEMMA MovesKeep ==
  ASSUME TypeInv, NEW w \in Writers, NEW new \in Seq(Pieces), Mine(w, new), Moves(w, new)
  PROVE  /\ \A v \in Writers : InFile(v) \subseteq InFile(v)'
         /\ Held(w)' = Held(w) \cup ToSet(EntriesOf(w, new))
         /\ \A v \in Writers \ {w} : Held(v)' = Held(v)
<1>1. PICK c \in Seq(1..MaxEntries), d \in Seq(1..MaxEntries) :
        /\ c \o d = EntriesOf(w, buffer[w]) \o EntriesOf(w, new)
        /\ EntriesOf(w, file') = EntriesOf(w, file) \o c
        /\ EntriesOf(w, buffer'[w]) = d
  BY MovesEntries
<1>2. \A v \in Writers \ {w} :
        EntriesOf(v, file') = EntriesOf(v, file) /\ EntriesOf(v, buffer'[v]) = EntriesOf(v, buffer[v])
  BY MovesEntries
<1>3. /\ EntriesOf(w, buffer[w]) \in Seq(1..MaxEntries)
      /\ EntriesOf(w, file) \in Seq(1..MaxEntries)
      /\ EntriesOf(w, new) \in Seq(1..MaxEntries)
  BY OwnPieces DEF TypeInv, TypeOK
<1>4. ToSet(EntriesOf(w, file')) = InFile(w) \cup ToSet(c)
  BY <1>1, <1>3, ConcatHolds DEF InFile
<1>5. ToSet(c) \cup ToSet(d) = InBuffer(w) \cup ToSet(EntriesOf(w, new))
  <2>1. ToSet(c \o d) = ToSet(c) \cup ToSet(d)
    BY ConcatHolds
  <2>2. ToSet(EntriesOf(w, buffer[w]) \o EntriesOf(w, new)) = InBuffer(w) \cup ToSet(EntriesOf(w, new))
    BY <1>3, ConcatHolds DEF InBuffer
  <2>. QED
    BY <1>1, <2>1, <2>2
<1>6. Held(w)' = InFile(w) \cup ToSet(c) \cup ToSet(d)
  BY <1>1, <1>4 DEF Held, InFile, InBuffer
<1>. QED
  BY <1>2, <1>4, <1>5, <1>6 DEF Held, InFile, InBuffer

LEMMA LosesKeep ==
  ASSUME TypeInv, NEW w \in Writers, Loses(w)
  PROVE  /\ \A v \in Writers : InFile(v) \subseteq InFile(v)'
         /\ \A v \in Writers \ {w} : Held(v)' = Held(v)
         /\ Held(w)' \subseteq Held(w)
<1>1. PICK c \in Seq(1..MaxEntries), d \in Seq(1..MaxEntries) :
        /\ c \o d = EntriesOf(w, buffer[w])
        /\ EntriesOf(w, file') = EntriesOf(w, file) \o c
  BY LosesEntries
<1>2. \A v \in Writers \ {w} :
        EntriesOf(v, file') = EntriesOf(v, file) /\ EntriesOf(v, buffer'[v]) = EntriesOf(v, buffer[v])
  BY LosesEntries
<1>3. EntriesOf(w, file) \in Seq(1..MaxEntries)
  BY OwnPieces DEF TypeInv, TypeOK
<1>4. ToSet(EntriesOf(w, file')) = InFile(w) \cup ToSet(c)
  BY <1>1, <1>3, ConcatHolds DEF InFile
<1>5. ToSet(c) \subseteq InBuffer(w)
  <2>1. ToSet(c \o d) = ToSet(c) \cup ToSet(d)
    BY ConcatHolds
  <2>2. InBuffer(w) = ToSet(c \o d)
    BY <1>1, Zenon DEF InBuffer
  <2>. QED
    BY <2>1, <2>2
<1>6. EntriesOf(w, buffer'[w]) = <<>> /\ ToSet(<<>>) = {}
  BY LosesEntries DEF ToSet
<1>7. Held(w)' = InFile(w) \cup ToSet(c)
  BY <1>4, <1>6 DEF Held, InFile, InBuffer
<1>. QED
  BY <1>2, <1>4, <1>5, <1>7 DEF Held, InFile, InBuffer

\* A process that holds nothing back has everything in the file.
LEMMA SettledIsInFile ==
  ASSUME NEW w \in Writers, buffer'[w] = <<>>
  PROVE  Held(w)' = InFile(w)'
<1>1. EntriesOf(w, buffer'[w]) = <<>>
  BY EntriesOfNone
<1>2. ToSet(<<>>) = {}
  BY DEF ToSet
<1>. QED
  BY <1>1, <1>2 DEF Held, InBuffer

\* What Put hands over, seen as entries.
LEMMA HandedEntries ==
  ASSUME NEW w \in Writers, NEW p \in Pieces, p[1] = w
  PROVE  /\ Handed(w, p) \in Seq(Pieces) /\ Mine(w, Handed(w, p))
         /\ EntriesOf(w, Handed(w, p)) = IF kind[w] # "null" /\ p \in Own(w) THEN <<p[2]>> ELSE <<>>
<1>1. Handed(w, p) \in Seq(Pieces) /\ Mine(w, Handed(w, p))
  BY DEF Handed, Mine
<1>2. CASE kind[w] = "null"
  BY <1>1, <1>2, EntriesOfNone DEF Handed
<1>3. CASE kind[w] # "null"
  BY <1>1, <1>3, EntriesOfOne DEF Handed
<1>. QED
  BY <1>2, <1>3

\* A step keeps what it should.
LEMMA KeepingStep == KeepingInv /\ [Next]_vars => KeepingInv'
<1> SUFFICES ASSUME KeepingInv, [Next]_vars PROVE KeepingInv'
  OBVIOUS
<1>1. TypeInv'
  BY TypeStep DEF KeepingInv
<1>2. CASE UNCHANGED vars
  BY <1>1, <1>2 DEF KeepingInv, EntriesKept, Held, InFile, InBuffer, vars
<1>3. ASSUME NEW w \in Writers,
             Open(w) \/ WriteLine(w) \/ WriteNewline(w) \/ Flush(w) \/ Drop(w) \/ Fails(w)
      PROVE  KeepingInv'
  <2>1. /\ TypeInv /\ EntriesKept(w)
        /\ pc \in [Writers -> {"closed", "open", "line"}] /\ made \in [Writers -> 0..MaxEntries]
        /\ recorded \in [Writers -> SUBSET (1..MaxEntries)]
        /\ promised \in [Writers -> SUBSET (1..MaxEntries)]
        /\ faults \in Nat
        /\ kind[w] # "batch" \/ pc[w] = "closed" => buffer[w] = <<>>
        /\ <<>> \in Seq(Pieces) /\ Mine(w, <<>>)
    BY DEF KeepingInv, TypeInv, TypeOK, BatchesBuffer, Mine
  <2>2. ToSet(EntriesOf(w, <<>>)) = {}
    BY EntriesOfNone DEF ToSet
  <2>3. ASSUME Moves(w, <<>>)
        PROVE  /\ \A v \in Writers : InFile(v) \subseteq InFile(v)'
               /\ \A v \in Writers : Held(v)' = Held(v)
    BY <2>1, <2>2, <2>3, MovesKeep
  <2>4. /\ \A v \in Writers : InFile(v) \subseteq InFile(v)'
        /\ \A v \in Writers \ {w} : Held(v)' = Held(v)
        /\ DropFails(w) \/ Crash(w) \/ Held(w) \subseteq Held(w)'
        /\ WriteLine(w) /\ kind[w] # "null" => made[w] + 1 \in Held(w)'
    <3>1. CASE Open(w) \/ Flush(w) \/ Drop(w)
      BY <2>1, <2>3, <3>1, OpenFlushMoves DEF Open, Flush, Drop, WriteLine
    <3>2. CASE FlushFails(w) \/ WriteLineFails(w) \/ WriteNewlineFails(w)
      <4>1. ~WriteLine(w)
        BY <2>1, <3>2 DEF FlushFails, WriteLineFails, WriteNewlineFails, WriteLine, Fault
      <4>. QED
        BY <2>1, <2>3, <3>2, <4>1, FailingMoves
    <3>3. CASE DropFails(w) \/ Crash(w)
      <4>1. ~WriteLine(w)
        BY <2>1, <3>3 DEF DropFails, Crash, WriteLine, Fault
      <4>. QED
        BY <2>1, <3>3, <4>1, GoingLoses, LosesKeep
    <3>4. CASE WriteLine(w)
      <4> DEFINE p == <<w, made[w] + 1>>
      <4>1. p \in Pieces /\ p[1] = w /\ p[2] = made[w] + 1 /\ p \in Own(w) /\ Moves(w, Handed(w, p)) /\ Settled(w)
        BY <2>1, <3>4, WritingMoves
      <4> HIDE DEF p
      <4>2. Handed(w, p) \in Seq(Pieces) /\ Mine(w, Handed(w, p))
        BY <4>1, HandedEntries
      <4>3. kind[w] # "null" => made[w] + 1 \in ToSet(EntriesOf(w, Handed(w, p)))
        BY <4>1, HandedEntries DEF ToSet
      <4>. QED
        BY <2>1, <4>1, <4>2, <4>3, MovesKeep
    <3>5. CASE WriteNewline(w)
      <4> DEFINE p == Newline(w)
      <4>1. p \in Pieces /\ p[1] = w /\ Moves(w, Handed(w, p)) /\ Settled(w)
        BY <2>1, <3>5, WritingMoves DEF Newline
      <4> HIDE DEF p
      <4>2. Handed(w, p) \in Seq(Pieces) /\ Mine(w, Handed(w, p))
        BY <4>1, HandedEntries
      <4>3. ~WriteLine(w)
        BY <2>1, <3>5 DEF WriteLine, WriteNewline
      <4>. QED
        BY <2>1, <4>1, <4>2, <4>3, MovesKeep
    <3>. QED
      BY <1>3, <3>1, <3>2, <3>3, <3>4, <3>5 DEF Fails
  <2>5. buffer'[w] = <<>> => Held(w)' = InFile(w)'
    BY SettledIsInFile
  <2>6. EntriesKept(w)'
    <3>0. /\ pc[w] = "line" /\ kind[w] # "null" => made[w] \in Held(w)
          /\ kind[w] # "null" /\ (pc[w] # "closed" \/ faults = 0) => recorded[w] \subseteq Held(w)
          /\ promised[w] \subseteq InFile(w) /\ InFile(w) \subseteq InFile(w)'
      BY <2>1, <2>4 DEF EntriesKept
    <3>1. CASE Open(w)
      <4>1. pc'[w] = "open" /\ recorded'[w] = {} /\ UNCHANGED <<kind, promised>>
        BY <2>1, <3>1 DEF Open
      <4>. QED
        BY <3>0, <4>1 DEF EntriesKept
    <3>2. CASE WriteLine(w)
      <4>1. /\ pc[w] = "open" /\ made'[w] = made[w] + 1 /\ UNCHANGED <<kind, recorded, promised>>
            /\ Held(w) \subseteq Held(w)' \/ DropFails(w) \/ Crash(w)
            /\ ~DropFails(w) /\ ~Crash(w)
        BY <2>1, <2>4, <3>2 DEF WriteLine, DropFails, Crash, Fault
      <4>2. kind[w] # "null" => made'[w] \in Held(w)'
        BY <2>4, <3>2, <4>1
      <4>. QED
        BY <3>0, <4>1, <4>2 DEF EntriesKept
    <3>3. CASE WriteNewline(w)
      <4>1. /\ pc[w] = "line" /\ recorded'[w] = recorded[w] \cup {made[w]} /\ UNCHANGED <<kind, made>>
            /\ promised'[w] = IF kind[w] = "append" THEN promised[w] \cup {made[w]} ELSE promised[w]
            /\ pc'[w] # "line"
            /\ ~DropFails(w) /\ ~Crash(w)
        BY <2>1, <3>3 DEF WriteNewline, DropFails, Crash, Fault
      <4>2. Held(w) \subseteq Held(w)'
        BY <2>4, <4>1
      <4>3. kind[w] = "append" => Held(w)' = InFile(w)'
        BY <2>1, <2>5, <3>3, WritingMoves DEF Settled
      <4>. QED
        BY <3>0, <4>1, <4>2, <4>3 DEF EntriesKept
    <3>4. CASE Flush(w) \/ Drop(w)
      <4>1. /\ buffer'[w] = <<>> /\ pc[w] = "open" /\ UNCHANGED <<kind, recorded>> /\ pc'[w] # "line"
            /\ promised'[w] \subseteq promised[w] \cup recorded[w]
            /\ kind[w] = "null" => promised'[w] = promised[w]
        <5>1. Empty(w) /\ buffer \in [Writers -> Seq(Pieces)]
          BY <3>4 DEF Flush, Drop, KeepingInv, TypeInv, TypeOK
        <5>2. buffer'[w] = <<>>
          BY <5>1 DEF Empty
        <5>3. pc[w] = "open" /\ UNCHANGED <<kind, recorded>> /\ pc'[w] # "line"
          BY <2>1, <3>4 DEF Flush, Drop
        <5>. QED
          BY <2>1, <5>1, <5>2, <5>3 DEF Empty
      <4>2. Held(w) \subseteq Held(w)'
        BY <2>1, <2>3, <3>4, OpenFlushMoves
      <4>. QED
        BY <2>5, <3>0, <4>1, <4>2 DEF EntriesKept
    <3>5. CASE FlushFails(w) \/ WriteLineFails(w) \/ WriteNewlineFails(w)
      <4>1. pc[w] # "closed" /\ UNCHANGED <<kind, recorded, promised>> /\ pc'[w] # "line"
        BY <2>1, <3>5 DEF FlushFails, WriteLineFails, WriteNewlineFails, Fault
      <4>2. Held(w) \subseteq Held(w)'
        BY <2>1, <2>3, <3>5, FailingMoves
      <4>. QED
        BY <3>0, <4>1, <4>2 DEF EntriesKept
    <3>6. CASE DropFails(w) \/ Crash(w)
      <4>1. pc'[w] = "closed" /\ faults' # 0 /\ UNCHANGED <<kind, promised>>
        BY <2>1, <3>6 DEF DropFails, Crash, Fault
      <4>. QED
        BY <3>0, <4>1 DEF EntriesKept
    <3>. QED
      BY <1>3, <3>1, <3>2, <3>3, <3>4, <3>5, <3>6 DEF Fails
  <2>7. ASSUME NEW v \in Writers, v # w PROVE EntriesKept(v)'
    <3>1. /\ pc'[v] = pc[v] /\ kind' = kind /\ made'[v] = made[v]
          /\ recorded'[v] = recorded[v] /\ promised'[v] = promised[v]
          /\ faults' = 0 => faults = 0
      BY <1>3, <2>1, <2>7 DEF Open, WriteLine, WriteNewline, Flush, Drop, Fails, Fault, FlushFails,
                              WriteLineFails, WriteNewlineFails, DropFails, Crash, Empty
    <3>2. EntriesKept(v) /\ Held(v)' = Held(v) /\ InFile(v) \subseteq InFile(v)'
      BY <2>4, <2>7 DEF KeepingInv
    <3>. QED
      BY <3>1, <3>2 DEF EntriesKept
  <2>. QED
    BY <1>1, <2>6, <2>7 DEF KeepingInv
<1>. QED
  BY <1>2, <1>3 DEF Next

\* It holds in every state.
LEMMA Keeping == Spec => []KeepingInv
<1>1. Init => KeepingInv
  BY TypeInit DEF Init, KeepingInv, EntriesKept
<1>. QED
  BY <1>1, KeepingStep, PTL DEF Spec

\* What append_transcript, flush or a drop has answered Ok for is in the file, and
\* stays there: through lines half written, flushes that fail, kills, and writers
\* that come later.
THEOREM PromisesAreKept == Spec => []PromisedIsDurable
<1>1. KeepingInv => PromisedIsDurable
  BY DEF KeepingInv, EntriesKept, PromisedIsDurable
<1>. QED
  BY <1>1, Keeping, PTL

\* An entry that was recorded and has neither reached the file nor waits to be
\* flushed shows a kill or a failed write: dropping a TranscriptWriter alone loses
\* nothing.
THEOREM NothingIsLostQuietly == Spec => []LostHasACause
<1>1. KeepingInv => LostHasACause
  BY DEF KeepingInv, EntriesKept, LostHasACause, Held
<1>. QED
  BY <1>1, Keeping, PTL

-----------------------------------------------------------------------------
(* One entry to a line *)

\* The file, and what w still holds of it.
Text(w) == file \o buffer[w]

\* Every second piece is a newline.
Alternates(s) == \A i \in 1..Len(s) : IsNewline(s[i]) <=> i % 2 = 0

Whole(s) == Alternates(s) /\ Len(s) % 2 = 0

\* w has the file open and does not discard what it is given.
Active(w) == kind[w] # "null" /\ pc[w] # "closed"

\* Only one process is active at a time; what it has written, with what it holds, is
\* whole unless it is in the middle of a line; and the file is when none is active.
LinesInv ==
  ~shared /\ faults = 0 =>
    /\ \A v, w \in Writers : Active(v) /\ Active(w) => v = w
    /\ \A w \in Writers : Active(w) =>
         /\ Alternates(Text(w))
         /\ pc[w] = "open" <=> Len(Text(w)) % 2 = 0
    /\ (\A w \in Writers : ~Active(w)) => Whole(file)

WritingInv == TypeInv /\ LinesInv

\* Even and odd.
LEMMA EvenOdd ==
  ASSUME NEW n \in Nat
  PROVE  (n + 1) % 2 = 0 <=> n % 2 # 0
OBVIOUS

\* One piece more.
LEMMA AlternatesAppend ==
  ASSUME NEW s \in Seq(Pieces), NEW p \in Pieces, Alternates(s), IsNewline(p) <=> Len(s) % 2 # 0
  PROVE  /\ Alternates(s \o <<p>>)
         /\ Len(s \o <<p>>) % 2 = 0 <=> Len(s) % 2 # 0
<1> DEFINE u == s \o <<p>>
<1>1. /\ Len(s) \in Nat /\ Len(u) = Len(s) + 1 /\ u[Len(s) + 1] = p
      /\ \A i \in 1..Len(s) : u[i] = s[i]
      /\ \A i \in 1..Len(u) : i \in 1..Len(s) \/ i = Len(s) + 1
  OBVIOUS
<1> HIDE DEF u
<1>2. Len(u) % 2 = 0 <=> Len(s) % 2 # 0
  BY <1>1, EvenOdd
<1>3. ASSUME NEW i \in 1..Len(u) PROVE IsNewline(u[i]) <=> i % 2 = 0
  <2>1. CASE i \in 1..Len(s)
    <3>1. u[i] = s[i]
      BY <1>1, <2>1
    <3>. QED
      BY <2>1, <3>1 DEF Alternates
  <2>2. CASE i = Len(s) + 1
    BY <1>1, <1>2, <2>2
  <2>. QED
    BY <1>1, <2>1, <2>2
<1>. QED
  BY <1>2, <1>3 DEF Alternates, u

\* What alternates does from the start.
LEMMA AlternatesFirst ==
  ASSUME NEW s \in Seq(Pieces), NEW t \in Seq(Pieces), Alternates(s \o t)
  PROVE  Alternates(s)
<1>1. \A i \in 1..Len(s) : i \in 1..Len(s \o t) /\ (s \o t)[i] = s[i]
  OBVIOUS
<1>. QED
  BY <1>1 DEF Alternates

\* What moves stays in the text.
LEMMA MovesText ==
  ASSUME TypeInv, NEW w \in Writers, NEW new \in Seq(Pieces), Moves(w, new)
  PROVE  Text(w)' = Text(w) \o new
<1>1. PICK a \in Seq(Pieces), b \in Seq(Pieces) :
        a \o b = buffer[w] \o new /\ file' = file \o a /\ buffer' = [buffer EXCEPT ![w] = b]
  BY DEF Moves
<1>2. file \in Seq(Pieces) /\ buffer \in [Writers -> Seq(Pieces)]
  BY DEF TypeInv, TypeOK
<1>3. PICK f \in Seq(Pieces), c \in Seq(Pieces) : f = file /\ c = buffer[w]
  BY <1>2
<1>4. buffer'[w] = b
  BY <1>1, <1>2
<1>5. Associates(f, a, b) /\ Associates(f, c, new)
  BY ConcatInTurn
<1>6. Text(w)' = (f \o a) \o b /\ Text(w) = f \o c
  BY <1>1, <1>3, <1>4 DEF Text
<1>. QED
  BY <1>1, <1>3, <1>5, <1>6, Zenon DEF Associates

\* A process that discards everything changes neither.
LEMMA NullIsSilent ==
  ASSUME TypeInv, NEW w \in Writers, kind[w] = "null",
         Open(w) \/ WriteLine(w) \/ WriteNewline(w) \/ Flush(w) \/ Drop(w)
  PROVE  file' = file /\ buffer' = buffer
<1>1. buffer[w] = <<>> /\ file \in Seq(Pieces) /\ buffer \in [Writers -> Seq(Pieces)]
  BY DEF TypeInv, TypeOK, BatchesBuffer
<1>2. CASE Open(w)
  BY <1>2 DEF Open
<1>3. CASE WriteLine(w) \/ WriteNewline(w)
  <2>1. Put(w, <<w, made[w] + 1>>) \/ Put(w, Newline(w))
    BY <1>3 DEF WriteLine, WriteNewline
  <2>. QED
    BY <2>1 DEF Put
<1>4. CASE Flush(w) \/ Drop(w)
  <2>1. file' = file \o <<>> /\ buffer' = [buffer EXCEPT ![w] = <<>>]
    BY <1>1, <1>4 DEF Flush, Drop, Empty
  <2>2. file \o <<>> = file
    BY <1>1, ConcatEmptySeq
  <2>. QED
    BY <1>1, <2>1, <2>2
<1>. QED
  BY <1>2, <1>3, <1>4

\* A text of which nothing is held back is the file.
LEMMA TextIsFile ==
  ASSUME NEW w \in Writers, file \in Seq(Pieces), buffer[w] = <<>>
  PROVE  Text(w) = file
BY ConcatEmptySeq DEF Text

\* A step keeps the lines whole.
LEMMA LinesStep == WritingInv /\ [Next]_vars => WritingInv'
<1> SUFFICES ASSUME WritingInv, [Next]_vars PROVE WritingInv'
  OBVIOUS
<1>1. TypeInv /\ TypeInv' /\ LinesInv
  BY TypeStep DEF WritingInv
<1>2. CASE UNCHANGED vars
  BY <1>1, <1>2 DEF WritingInv, LinesInv, Active, Text, Whole, Alternates, vars
<1>3. ASSUME NEW w \in Writers,
             Open(w) \/ WriteLine(w) \/ WriteNewline(w) \/ Flush(w) \/ Drop(w) \/ Fails(w)
      PROVE  WritingInv'
  <2> SUFFICES ASSUME ~shared', faults' = 0
               PROVE  /\ \A u, v \in Writers : Active(u)' /\ Active(v)' => u = v
                      /\ \A v \in Writers : Active(v)' =>
                           /\ Alternates(Text(v)')
                           /\ pc'[v] = "open" <=> Len(Text(v)') % 2 = 0
                      /\ (\A v \in Writers : ~Active(v)') => Whole(file')
    BY <1>1 DEF WritingInv, LinesInv, Whole, Alternates
  <2>1. /\ file \in Seq(Pieces) /\ buffer \in [Writers -> Seq(Pieces)]
        /\ file' \in Seq(Pieces) /\ buffer' \in [Writers -> Seq(Pieces)]
        /\ pc \in [Writers -> {"closed", "open", "line"}] /\ kind[w] \in Kinds
        /\ faults \in Nat /\ shared \in BOOLEAN
    BY <1>1 DEF TypeInv, TypeOK
  <2>2. ~Fails(w)
    BY <2>1 DEF Fails, Fault, FlushFails, WriteLineFails, WriteNewlineFails, DropFails, Crash
  <2>3. ~shared /\ faults = 0 /\ kind' = kind
    BY <1>3, <2>1, <2>2 DEF Open, WriteLine, WriteNewline, Flush, Drop
  <2>4. /\ \A u, v \in Writers : Active(u) /\ Active(v) => u = v
        /\ \A v \in Writers : Active(v) =>
             Alternates(Text(v)) /\ (pc[v] = "open" <=> Len(Text(v)) % 2 = 0)
        /\ (\A v \in Writers : ~Active(v)) => Whole(file)
    BY <1>1, <2>3 DEF LinesInv
  <2>5. \A v \in Writers \ {w} : Active(v)' <=> Active(v)
    BY <1>3, <2>1, <2>2, <2>3 DEF Active, Open, WriteLine, WriteNewline, Flush, Drop
  <2>6. CASE kind[w] = "null"
    <3>1. file' = file /\ buffer' = buffer
      BY <1>1, <1>3, <2>2, <2>6, NullIsSilent
    <3>2. ~Active(w) /\ ~Active(w)'
      BY <2>3, <2>6 DEF Active
    <3>3. \A v \in Writers : Text(v)' = Text(v) /\ (Active(v)' <=> Active(v)) /\ (Active(v) => pc'[v] = pc[v])
      BY <1>3, <2>1, <2>2, <2>5, <3>1, <3>2 DEF Text, Open, WriteLine, WriteNewline, Flush, Drop
    <3>. QED
      BY <2>4, <3>1, <3>3
  <2>7. CASE kind[w] # "null"
    <3>1. Active(w)' <=> pc'[w] # "closed"
      BY <2>3, <2>7 DEF Active
    <3>2. \A v \in Writers \ {w} : ~Active(v)
      <4>1. CASE Open(w)
        BY <2>7, <4>1 DEF Open, Active
      <4>2. CASE ~Open(w)
        <5>1. Active(w)
          BY <1>3, <2>2, <2>7, <4>2 DEF Active, WriteLine, WriteNewline, Flush, Drop
        <5>. QED
          BY <2>4, <5>1
      <4>. QED
        BY <4>1, <4>2
    <3>3. Text(w) \in Seq(Pieces) /\ Text(w)' \in Seq(Pieces)
      BY <2>1 DEF Text
    <3>4. SUFFICES /\ Alternates(Text(w)')
                   /\ pc'[w] = "line" => Len(Text(w)') % 2 # 0
                   /\ pc'[w] # "line" => Len(Text(w)') % 2 = 0
                   /\ pc'[w] = "closed" => Text(w)' = file'
      <4>1. pc'[w] \in {"closed", "open", "line"}
        BY <1>1 DEF TypeInv, TypeOK
      <4>. QED
        BY <2>5, <3>1, <3>2, <3>4, <4>1 DEF Whole
    <3>5. pc'[w] = "closed" => Text(w)' = file'
      <4>1. ASSUME pc'[w] = "closed" PROVE buffer'[w] = <<>>
        BY <1>1, <4>1 DEF TypeInv, BatchesBuffer
      <4>2. file' \o <<>> = file'
        BY <2>1, ConcatEmptySeq
      <4>. QED
        BY <4>1, <4>2 DEF Text
    <3>6. CASE Open(w) \/ Flush(w) \/ Drop(w)
      <4>1. Text(w)' = Text(w)
        <5>1. Moves(w, <<>>) /\ <<>> \in Seq(Pieces)
          BY <1>1, <3>6, OpenFlushMoves
        <5>2. Text(w)' = Text(w) \o <<>>
          BY <1>1, <5>1, MovesText
        <5>. QED
          BY <3>3, <5>2, ConcatEmptySeq
      <4>2. Alternates(Text(w)) /\ Len(Text(w)) % 2 = 0
        <5>1. CASE Open(w)
          <6>1. ~Active(w) /\ buffer[w] = <<>>
            BY <1>1, <5>1 DEF Open, Active, TypeInv, BatchesBuffer
          <6>2. Whole(file) /\ Text(w) = file
            BY <2>1, <2>4, <3>2, <6>1, TextIsFile
          <6>. QED
            BY <6>2 DEF Whole
        <5>2. CASE Flush(w) \/ Drop(w)
          <6>1. Active(w) /\ pc[w] = "open"
            BY <2>7, <5>2 DEF Flush, Drop, Active
          <6>. QED
            BY <2>4, <6>1
        <5>. QED
          BY <3>6, <5>1, <5>2
      <4>3. pc'[w] # "line"
        BY <2>1, <3>6 DEF Open, Flush, Drop
      <4>. QED
        BY <3>5, <4>1, <4>2, <4>3
    <3>7. CASE WriteLine(w)
      <4> DEFINE p == <<w, made[w] + 1>>
      <4>1. p \in Pieces /\ p \in Own(w) /\ Moves(w, <<p>>)
        BY <1>1, <2>7, <3>7, WritingMoves DEF Handed
      <4>2. ~IsNewline(p)
        BY <4>1 DEF Own, IsNewline
      <4> HIDE DEF p
      <4>3. Text(w)' = Text(w) \o <<p>>
        <5>1. <<p>> \in Seq(Pieces)
          BY <4>1
        <5>. QED
          BY <1>1, <4>1, <5>1, MovesText
      <4>4. Alternates(Text(w)) /\ Len(Text(w)) % 2 = 0 /\ pc'[w] = "line"
        BY <2>1, <2>4, <2>7, <3>7 DEF WriteLine, Active
      <4>5. Alternates(Text(w) \o <<p>>) /\ (Len(Text(w) \o <<p>>) % 2 = 0 <=> Len(Text(w)) % 2 # 0)
        BY <3>3, <4>1, <4>2, <4>4, AlternatesAppend
      <4>. QED
        BY <4>3, <4>4, <4>5
    <3>8. CASE WriteNewline(w)
      <4> DEFINE p == Newline(w)
      <4>1. p \in Pieces /\ IsNewline(p) /\ Moves(w, <<p>>)
        BY <1>1, <2>7, <3>8, WritingMoves DEF Handed, Newline, IsNewline
      <4> HIDE DEF p
      <4>2. Text(w)' = Text(w) \o <<p>>
        <5>1. <<p>> \in Seq(Pieces)
          BY <4>1
        <5>. QED
          BY <1>1, <4>1, <5>1, MovesText
      <4>3. Alternates(Text(w)) /\ Len(Text(w)) % 2 # 0 /\ pc'[w] # "line"
        BY <2>1, <2>4, <2>7, <3>8 DEF WriteNewline, Active
      <4>4. Alternates(Text(w) \o <<p>>) /\ (Len(Text(w) \o <<p>>) % 2 = 0 <=> Len(Text(w)) % 2 # 0)
        BY <3>3, <4>1, <4>3, AlternatesAppend
      <4>. QED
        BY <3>5, <4>2, <4>3, <4>4
    <3>. QED
      BY <1>3, <2>2, <3>6, <3>7, <3>8
  <2>. QED
    BY <2>6, <2>7
<1>. QED
  BY <1>2, <1>3 DEF Next

\* In the file a line holds one entry, as long as one process at a time has it open
\* and nothing fails: every newline has reached the file behind its entry, also when
\* the buffer was emptied between the two.
THEOREM LinesAreWhole == Spec => []OneEntryPerLine
<1>1. Init => WritingInv
  <2> SUFFICES ASSUME Init PROVE WritingInv
    OBVIOUS
  <2>1. TypeInv /\ file = <<>> /\ \A w \in Writers : ~Active(w)
    BY TypeInit DEF Init, Active
  <2>2. Whole(file)
    BY <2>1 DEF Whole, Alternates
  <2>. QED
    BY <2>1, <2>2 DEF WritingInv, LinesInv
<1>2. WritingInv => OneEntryPerLine
  <2> SUFFICES ASSUME WritingInv, ~shared /\ faults = 0
               PROVE  \A i \in DOMAIN file : IsNewline(file[i]) <=> i % 2 = 0
    BY DEF OneEntryPerLine
  <2>1. file \in Seq(Pieces) /\ buffer \in [Writers -> Seq(Pieces)] /\ LinesInv
    BY DEF WritingInv, TypeInv, TypeOK
  <2> SUFFICES Alternates(file)
    BY <2>1 DEF Alternates
  <2>2. CASE \E w \in Writers : Active(w)
    <3>1. PICK w \in Writers : Active(w)
      BY <2>2
    <3>2. Alternates(file \o buffer[w]) /\ buffer[w] \in Seq(Pieces)
      BY <2>1, <3>1 DEF LinesInv, Text
    <3>. QED
      BY <2>1, <3>2, AlternatesFirst
  <2>3. CASE \A w \in Writers : ~Active(w)
    BY <2>1, <2>3 DEF LinesInv, Whole
  <2>. QED
    BY <2>2, <2>3
<1>. QED
  BY <1>1, <1>2, LinesStep, PTL DEF Spec

-----------------------------------------------------------------------------
(* The transcript implements its log *)

\* No process holds, or has written, an entry that it has not made yet.
HeldAreMade == \A w \in Writers : \A e \in Held(w) : e <= made[w]

LoggingInv == TypeInv /\ HeldAreMade

\* The entries that wait and the ones in the file, as EventLog sees them.
Pending == [w \in Writers |-> EntriesOf(w, buffer[w])]
Durable == [w \in Writers |-> EntriesOf(w, file)]

\* What the entries of w become when `new` are made and the first of them move on.
Forwards(w, new, c, d) ==
  /\ c \o d = Pending[w] \o new
  /\ Durable' = [Durable EXCEPT ![w] = @ \o c]
  /\ Pending' = [Pending EXCEPT ![w] = d]

\* Pending and Durable are made of sequences of entries.
LEMMA LogTypes ==
  ASSUME TypeInv
  PROVE  /\ Pending \in [Writers -> Seq(1..MaxEntries)]
         /\ Durable \in [Writers -> Seq(1..MaxEntries)]
         /\ \A w \in Writers : ToSet(Pending[w]) \cup ToSet(Durable[w]) = Held(w)
<1>1. \A w \in Writers :
        /\ EntriesOf(w, buffer[w]) \in Seq(1..MaxEntries)
        /\ EntriesOf(w, file) \in Seq(1..MaxEntries)
  BY OwnPieces DEF TypeInv, TypeOK
<1>. QED
  BY <1>1 DEF Pending, Durable, Held, InFile, InBuffer

\* Pieces that move are entries that move.
LEMMA MovesForward ==
  ASSUME TypeInv, NEW w \in Writers, NEW new \in Seq(Pieces), Mine(w, new), Moves(w, new)
  PROVE  \E c, d \in Seq(1..MaxEntries) : Forwards(w, EntriesOf(w, new), c, d)
<1>1. PICK c \in Seq(1..MaxEntries), d \in Seq(1..MaxEntries) :
        /\ c \o d = EntriesOf(w, buffer[w]) \o EntriesOf(w, new)
        /\ EntriesOf(w, file') = EntriesOf(w, file) \o c
        /\ EntriesOf(w, buffer'[w]) = d
  BY MovesEntries
<1>2. \A v \in Writers \ {w} :
        EntriesOf(v, file') = EntriesOf(v, file) /\ EntriesOf(v, buffer'[v]) = EntriesOf(v, buffer[v])
  BY MovesEntries
<1>3. Durable' = [Durable EXCEPT ![w] = @ \o c]
  BY <1>1, <1>2 DEF Durable
<1>4. Pending' = [Pending EXCEPT ![w] = d]
  BY <1>1, <1>2 DEF Pending
<1>. QED
  BY <1>1, <1>3, <1>4 DEF Forwards, Pending

\* Entries that move are a step of the log.
LEMMA ForwardsProceeds ==
  ASSUME LoggingInv, NEW w \in Writers,
         NEW new \in Seq(1..MaxEntries), Len(new) <= 1, \A i \in 1..Len(new) : new[i] > made[w],
         NEW c \in Seq(1..MaxEntries), NEW d \in Seq(1..MaxEntries), Forwards(w, new, c, d)
  PROVE  Log!Next
<1>1. /\ Pending \in [Writers -> Seq(1..MaxEntries)] /\ Durable \in [Writers -> Seq(1..MaxEntries)]
      /\ made[w] \in Nat
      /\ \A e \in ToSet(Pending[w]) \cup ToSet(Durable[w]) : e <= made[w]
  BY LogTypes DEF LoggingInv, HeldAreMade, TypeInv, TypeOK
<1>2. PICK p \in Seq(1..MaxEntries), q \in Seq(1..MaxEntries) : p = Pending[w] /\ q = Durable[w]
  BY <1>1
<1>3. ASSUME NEW i \in 1..Len(new), NEW b \in {p, q}, NEW j \in 1..Len(b) PROVE b[j] < new[i]
  <2>1. new[i] > made[w] /\ new[i] \in 1..MaxEntries /\ MaxEntries \in Nat
    BY TranscriptAssumption
  <2>2. b[j] \in 1..MaxEntries /\ b[j] \in ToSet(b)
    <3>1. b \in Seq(1..MaxEntries)
      OBVIOUS
    <3>2. j \in DOMAIN b /\ b[j] \in 1..MaxEntries
      BY <3>1, ElementOfSeq, LenProperties
    <3>. QED
      BY <3>2 DEF ToSet
  <2>3. b[j] <= made[w]
    BY <1>1, <1>2, <2>2
  <2>4. b[j] \in Nat /\ new[i] \in Nat
    BY <2>1, <2>2
  <2>. QED
    BY <1>1, <2>1, <2>3, <2>4
<1>4. Len(c) \in 0..Len(p) + 1 /\ Len(c) <= Len(p \o new)
  <2>1. c \o d = p \o new
    BY <1>2 DEF Forwards
  <2>2. Len(c \o d) = Len(c) + Len(d) /\ Len(p \o new) = Len(p) + Len(new)
    OBVIOUS
  <2>. QED
    BY <2>1, <2>2
<1>5. SubSeq(p \o new, 1, Len(c)) = c /\ SubSeq(p \o new, Len(c) + 1, Len(p \o new)) = d
  <2>1. SubSeq(c \o d, 1, Len(c)) = c /\ SubSeq(c \o d, Len(c) + 1, Len(c \o d)) = d
    BY PartsAre
  <2>2. c \o d = p \o new
    BY <1>2 DEF Forwards
  <2>. QED
    BY <2>1, <2>2, Zenon
<1>6. Log!Proceed(w, new, Len(c))
  <2>1. /\ DOMAIN new = 1..Len(new) /\ DOMAIN p = 1..Len(p) /\ DOMAIN q = 1..Len(q)
        /\ p = EntriesOf(w, buffer[w]) /\ q = EntriesOf(w, file)
    BY <1>2 DEF Pending, Durable
  <2>2. \A e \in {new[i] : i \in DOMAIN new} :
          (\A j \in DOMAIN p : p[j] < e) /\ (\A j \in DOMAIN q : q[j] < e)
    BY <1>3, <2>1
  <2>3. Durable' = [Durable EXCEPT ![w] = @ \o SubSeq(p \o new, 1, Len(c))]
    BY <1>5 DEF Forwards
  <2>4. Pending' = [Pending EXCEPT ![w] = SubSeq(p \o new, Len(c) + 1, Len(p \o new))]
    BY <1>5 DEF Forwards
  <2>. QED
    BY <1>2, <1>4, <2>2, <2>3, <2>4 DEF Log!Proceed, Pending, Durable
<1>7. new = <<>> \/ \E e \in 1..MaxEntries : new = <<e>>
  <2>1. CASE Len(new) = 0
    BY <2>1, EmptySeq
  <2>2. CASE Len(new) = 1
    <3>1. PICK e \in 1..MaxEntries : e = new[1]
      <4>1. 1 \in 1..Len(new)
        BY <2>2
      <4>2. new[1] \in 1..MaxEntries
        BY <4>1, ElementOfSeq
      <4>. QED
        BY <4>2
    <3>2. <<e>> \in Seq(1..MaxEntries) /\ Len(<<e>>) = Len(new) /\ \A i \in 1..Len(new) : <<e>>[i] = new[i]
      BY <2>2, <3>1
    <3>3. new = <<e>>
      BY <3>2, SeqEqual
    <3>. QED
      BY <3>3
  <2>3. Len(new) = 0 \/ Len(new) = 1
    <3>1. PICK n \in Nat : n = Len(new)
      BY LenProperties
    <3>2. n <= 1
      BY <3>1
    <3>. QED
      BY <3>1, <3>2
  <2>. QED
    BY <2>1, <2>2, <2>3, Zenon
<1>. QED
  BY <1>2, <1>4, <1>6, <1>7 DEF Log!Next, Pending

\* Entries that move in part, and are lost otherwise, are a step of the log too.
LEMMA LosesForward ==
  ASSUME TypeInv, NEW w \in Writers, Loses(w)
  PROVE  Log!Next
<1>1. PICK c \in Seq(1..MaxEntries), d \in Seq(1..MaxEntries) :
        /\ c \o d = EntriesOf(w, buffer[w])
        /\ EntriesOf(w, file') = EntriesOf(w, file) \o c
  BY LosesEntries
<1>2. /\ EntriesOf(w, buffer'[w]) = <<>>
      /\ \A v \in Writers \ {w} :
           EntriesOf(v, file') = EntriesOf(v, file) /\ EntriesOf(v, buffer'[v]) = EntriesOf(v, buffer[v])
  BY LosesEntries
<1>3. SubSeq(c \o d, 1, Len(c)) = c
  BY PartsAre
<1>4. Len(c) \in 0..Len(c \o d) + 1 /\ Len(c) <= Len(c \o d)
  OBVIOUS
<1>5. PICK p \in Seq(1..MaxEntries) : p = Pending[w]
  BY LogTypes
<1>6. p = c \o d
  BY <1>1, <1>5 DEF Pending
<1>7. Durable' = [Durable EXCEPT ![w] = @ \o SubSeq(p, 1, Len(c))]
  BY <1>1, <1>2, <1>3, <1>6 DEF Durable
<1>8. Pending' = [Pending EXCEPT ![w] = <<>>]
  BY <1>2 DEF Pending
<1>9. Len(c) \in 0..Len(p) + 1 /\ Len(c) <= Len(p)
  BY <1>4, <1>6
<1>10. Log!Lose(w, Len(c))
  BY <1>5, <1>7, <1>8, <1>9 DEF Log!Lose, Pending, Durable
<1>. QED
  BY <1>5, <1>9, <1>10 DEF Log!Next, Pending

\* A step makes an entry only with the next number, and holds no other.
LEMMA LoggingStep == LoggingInv /\ [Next]_vars => LoggingInv'
<1> SUFFICES ASSUME LoggingInv, [Next]_vars PROVE LoggingInv'
  OBVIOUS
<1>1. TypeInv /\ TypeInv' /\ HeldAreMade
  BY TypeStep DEF LoggingInv
<1>2. CASE UNCHANGED vars
  BY <1>1, <1>2 DEF LoggingInv, HeldAreMade, Held, InFile, InBuffer, vars
<1>3. ASSUME NEW w \in Writers,
             Open(w) \/ WriteLine(w) \/ WriteNewline(w) \/ Flush(w) \/ Drop(w) \/ Fails(w)
      PROVE  HeldAreMade'
  <2>1. /\ made \in [Writers -> 0..MaxEntries] /\ made' \in [Writers -> 0..MaxEntries]
        /\ MaxEntries \in Nat
        /\ <<>> \in Seq(Pieces) /\ Mine(w, <<>>)
    BY <1>1, TranscriptAssumption DEF TypeInv, TypeOK, Mine
  <2>2. \A v \in Writers : made[v] <= made'[v]
    <3>1. \A v \in Writers : made'[v] = made[v] \/ made'[v] = made[v] + 1
      BY <1>3, <2>1 DEF Open, WriteLine, WriteNewline, Flush, Drop, Fails, Fault, FlushFails,
                        WriteLineFails, WriteNewlineFails, DropFails, Crash
    <3>. QED
      BY <2>1, <3>1
  <2>3. ToSet(EntriesOf(w, <<>>)) = {}
    BY EntriesOfNone DEF ToSet
  <2>4. /\ \A v \in Writers \ {w} : Held(v)' = Held(v)
        /\ \A e \in Held(w)' : e \in Held(w) \/ e = made'[w]
    <3>1. ASSUME Moves(w, <<>>)
          PROVE  Held(w)' = Held(w) /\ \A v \in Writers \ {w} : Held(v)' = Held(v)
      BY <1>1, <2>1, <2>3, <3>1, MovesKeep
    <3>2. CASE Open(w) \/ Flush(w) \/ Drop(w)
      BY <1>1, <3>1, <3>2, OpenFlushMoves
    <3>3. CASE FlushFails(w) \/ WriteLineFails(w) \/ WriteNewlineFails(w)
      BY <1>1, <3>1, <3>3, FailingMoves
    <3>4. CASE DropFails(w) \/ Crash(w)
      BY <1>1, <3>4, GoingLoses, LosesKeep
    <3>5. ASSUME NEW p \in Pieces, p[1] = w, Moves(w, Handed(w, p)), p \in Own(w) => p[2] = made'[w]
          PROVE  /\ \A v \in Writers \ {w} : Held(v)' = Held(v)
                 /\ \A e \in Held(w)' : e \in Held(w) \/ e = made'[w]
      <4>1. Handed(w, p) \in Seq(Pieces) /\ Mine(w, Handed(w, p))
        BY <3>5, HandedEntries
      <4>2. \A e \in ToSet(EntriesOf(w, Handed(w, p))) : e = made'[w]
        BY <3>5, HandedEntries DEF ToSet
      <4>. QED
        BY <1>1, <3>5, <4>1, <4>2, MovesKeep
    <3>6. CASE WriteLine(w)
      <4> DEFINE p == <<w, made[w] + 1>>
      <4>1. p \in Pieces /\ p[1] = w /\ p[2] = made'[w] /\ Moves(w, Handed(w, p))
        BY <1>1, <2>1, <3>6, WritingMoves DEF WriteLine
      <4> HIDE DEF p
      <4>. QED
        BY <3>5, <4>1
    <3>7. CASE WriteNewline(w)
      <4> DEFINE p == Newline(w)
      <4>1. p \in Pieces /\ p[1] = w /\ p \notin Own(w) /\ Moves(w, Handed(w, p))
        BY <1>1, <3>7, WritingMoves DEF Newline
      <4> HIDE DEF p
      <4>. QED
        BY <3>5, <4>1
    <3>. QED
      BY <1>3, <3>2, <3>3, <3>4, <3>6, <3>7 DEF Fails
  <2>5. ASSUME NEW v \in Writers, NEW e \in Held(v)' PROVE e <= made'[v]
    <3>1. e \in Held(v) \/ e = made'[v]
      BY <2>4
    <3>2. e \in 1..MaxEntries
      <4>1. /\ EntriesOf(v, buffer'[v]) \in Seq(1..MaxEntries)
            /\ EntriesOf(v, file') \in Seq(1..MaxEntries)
        BY <1>1, OwnPieces DEF TypeInv, TypeOK
      <4>2. Held(v)' = ToSet(EntriesOf(v, file')) \cup ToSet(EntriesOf(v, buffer'[v]))
        BY DEF Held, InFile, InBuffer
      <4>. QED
        BY <4>1, <4>2, HoldsElements
    <3>3. e \in Nat /\ made[v] \in Nat /\ made'[v] \in Nat
      BY <2>1, <3>2
    <3>4. e \in Held(v) => e <= made[v]
      BY <1>1 DEF HeldAreMade
    <3>. QED
      BY <2>2, <3>1, <3>3, <3>4
  <2>. QED
    BY <2>5 DEF HeldAreMade
<1>. QED
  BY <1>1, <1>2, <1>3 DEF Next, LoggingInv

\* Every step is one of the log, or changes nothing that the log sees.
LEMMA LogStep == LoggingInv /\ [Next]_vars => [Log!Next]_Log!vars
<1> SUFFICES ASSUME LoggingInv, [Next]_vars PROVE [Log!Next]_Log!vars
  OBVIOUS
<1>1. TypeInv
  BY DEF LoggingInv
<1>2. CASE UNCHANGED vars
  BY <1>2 DEF vars, Log!vars
<1>3. ASSUME NEW w \in Writers,
             Open(w) \/ WriteLine(w) \/ WriteNewline(w) \/ Flush(w) \/ Drop(w) \/ Fails(w)
      PROVE  Log!Next
  <2>1. made \in [Writers -> 0..MaxEntries] /\ <<>> \in Seq(Pieces) /\ Mine(w, <<>>)
    BY <1>1 DEF TypeInv, TypeOK, Mine
  <2>2. ASSUME NEW new \in Seq(Pieces), Mine(w, new), Moves(w, new),
               EntriesOf(w, new) = <<>> \/ EntriesOf(w, new) = <<made[w] + 1>>
        PROVE  Log!Next
    <3>1. PICK n \in Seq(1..MaxEntries) : n = EntriesOf(w, new)
      BY OwnPieces
    <3>2. PICK c \in Seq(1..MaxEntries), d \in Seq(1..MaxEntries) : Forwards(w, n, c, d)
      BY <1>1, <2>2, <3>1, MovesForward
    <3>3. Len(n) <= 1 /\ \A i \in 1..Len(n) : n[i] > made[w]
      <4>1. CASE n = <<>>
        BY <4>1
      <4>2. CASE n = <<made[w] + 1>>
        BY <2>1, <4>2
      <4>. QED
        BY <2>2, <3>1, <4>1, <4>2
    <3>. QED
      BY <3>2, <3>3, ForwardsProceeds
  <2>3. ASSUME Moves(w, <<>>) PROVE Log!Next
    BY <2>1, <2>2, <2>3, EntriesOfNone
  <2>4. CASE Open(w) \/ Flush(w) \/ Drop(w)
    BY <1>1, <2>3, <2>4, OpenFlushMoves
  <2>5. CASE FlushFails(w) \/ WriteLineFails(w) \/ WriteNewlineFails(w)
    BY <1>1, <2>3, <2>5, FailingMoves
  <2>6. CASE DropFails(w) \/ Crash(w)
    BY <1>1, <2>6, GoingLoses, LosesForward
  <2>7. CASE WriteLine(w)
    <3> DEFINE p == <<w, made[w] + 1>>
    <3>1. p \in Pieces /\ p[1] = w /\ p[2] = made[w] + 1 /\ Moves(w, Handed(w, p))
      BY <1>1, <2>7, WritingMoves
    <3> HIDE DEF p
    <3>. QED
      BY <2>2, <3>1, HandedEntries
  <2>8. CASE WriteNewline(w)
    <3> DEFINE p == Newline(w)
    <3>1. p \in Pieces /\ p[1] = w /\ p \notin Own(w) /\ Moves(w, Handed(w, p))
      BY <1>1, <2>8, WritingMoves DEF Newline
    <3> HIDE DEF p
    <3>. QED
      BY <2>2, <3>1, HandedEntries
  <2>. QED
    BY <1>3, <2>4, <2>5, <2>6, <2>7, <2>8 DEF Fails
<1>. QED
  BY <1>2, <1>3 DEF Next

\* The transcript implements its log: the entries of a process reach the file in the
\* order they were made, none twice; none that did is lost; and if one that waits is
\* lost, so is all that waits behind it.
THEOREM TranscriptIsALog == Spec => ImplementsLog
<1>1. Init => LoggingInv /\ Log!Init
  <2> SUFFICES ASSUME Init PROVE LoggingInv /\ Log!Init
    OBVIOUS
  <2>1. TypeInv /\ file = <<>> /\ \A w \in Writers : buffer[w] = <<>>
    BY TypeInit DEF Init
  <2>2. \A w \in Writers : EntriesOf(w, file) = <<>> /\ EntriesOf(w, buffer[w]) = <<>>
    BY <2>1, EntriesOfNone
  <2>3. HeldAreMade
    BY <2>2 DEF HeldAreMade, Held, InFile, InBuffer, ToSet
  <2>. QED
    BY <2>1, <2>2, <2>3 DEF LoggingInv, Log!Init
<1>. QED
  BY <1>1, LoggingStep, LogStep, PTL DEF Spec, ImplementsLog, Log!Spec

=============================================================================
