------------------------ MODULE WitnessNamingProofs ------------------------
(***************************************************************************)
(* Proofs about WitnessNaming and VectorCatalog, for any names that a      *)
(* caller adds, any number of them, any fresh name, any set of kinds of    *)
(* edit, and any number of mistakes in a vector.                           *)
(***************************************************************************)
EXTENDS VectorCatalog, SequenceTheorems, TLAPS

-----------------------------------------------------------------------------
(* The tables *)

\* The operations by name.
LEMMA OperationsAre == Operations = {"register", "deposit", "merge", "transfer", "withdraw"}
BY DEF Operations, Expectations

\* The expectations say what the circuits declare.
LEMMA TablesAgree ==
  ASSUME NEW op \in Operations
  PROVE  /\ Mains[op].public = Expectations[op].public
         /\ Mains[op].private = Expectations[op].private
         /\ Mains[op].returns = Len(Expectations[op].returns)
<1>1. CASE op = "register"
  BY <1>1 DEF Mains, Expectations, Expected, Main, RegisterMain
<1>2. CASE op = "deposit"
  BY <1>2 DEF Mains, Expectations, Expected, Main, DepositMain
<1>3. CASE op = "merge"
  BY <1>3 DEF Mains, Expectations, Expected, Main, MergeMain
<1>4. CASE op = "transfer"
  BY <1>4 DEF Mains, Expectations, Expected, Main, TransferMain
<1>5. CASE op = "withdraw"
  BY <1>5 DEF Mains, Expectations, Expected, Main, WithdrawMain
<1>. QED
  BY <1>1, <1>2, <1>3, <1>4, <1>5, OperationsAre

\* The names that are public in some operation, and the ones that are private.
PublicOnes ==
  {"token_address", "account_address", "sender_address", "recipient_address", "old_commitment",
   "commitment", "commitment_a", "commitment_b", "old_sender_commitment", "root_hi", "root_lo"}

PrivateOnes ==
  {"account_sk", "sender_sk", "amount", "amount_a", "amount_b", "old_amount", "blinding",
   "blinding_a", "blinding_b", "old_blinding", "recipient_blinding", "change_blinding"}

Returned ==
  {"new_commitment", "nullifier", "merged_commitment", "nullifier_a", "nullifier_b",
   "recipient_commitment", "change_commitment"}

\* No name is on two sides.
LEMMA SidesApart ==
  /\ PublicOnes \cap PrivateOnes = {}
  /\ PublicOnes \cap Returned = {}
  /\ PrivateOnes \cap Returned = {}
BY DEF PublicOnes, PrivateOnes, Returned

\* No list has a name twice.
Distinct(s) == \A i, j \in 1..Len(s) : s[i] = s[j] => i = j

\* A list of so many members of a set.
Lists(s, n, set) ==
  /\ n = Len(s)
  /\ s = [i \in 1..n |-> s[i]]
  /\ \A i \in 1..n : s[i] \in set

LEMMA ListsAreSequences ==
  ASSUME NEW s, NEW n \in Nat, NEW set, Lists(s, n, set)
  PROVE  s \in Seq(set) /\ Len(s) = n
<1>1. s \in [1..n -> set]
  BY DEF Lists
<1>2. s \in Seq(set)
  BY <1>1
<1>. QED
  BY <1>2 DEF Lists

\* The public names of each operation.
LEMMA PublicLists ==
  ASSUME NEW op \in Operations
  PROVE  /\ Expectations[op].public \in Seq(PublicOnes)
         /\ op = "register" => Len(Expectations[op].public) = 1
         /\ op = "deposit" => Len(Expectations[op].public) = 3
         /\ op = "merge" => Len(Expectations[op].public) = 6
         /\ op = "transfer" => Len(Expectations[op].public) = 6
         /\ op = "withdraw" => Len(Expectations[op].public) = 5
<1>1. op = "register" => Lists(Expectations[op].public, 1, PublicOnes)
  BY DEF Expectations, Expected, Lists, PublicOnes
<1>2. op = "deposit" => Lists(Expectations[op].public, 3, PublicOnes)
  BY DEF Expectations, Expected, Lists, PublicOnes
<1>3. op = "merge" => Lists(Expectations[op].public, 6, PublicOnes)
  BY DEF Expectations, Expected, Lists, PublicOnes
<1>4. op = "transfer" => Lists(Expectations[op].public, 6, PublicOnes)
  BY DEF Expectations, Expected, Lists, PublicOnes
<1>5. op = "withdraw" => Lists(Expectations[op].public, 5, PublicOnes)
  BY DEF Expectations, Expected, Lists, PublicOnes
<1>. QED
  BY <1>1, <1>2, <1>3, <1>4, <1>5, OperationsAre, ListsAreSequences

\* The private ones.
LEMMA PrivateLists ==
  ASSUME NEW op \in Operations
  PROVE  /\ Expectations[op].private \in Seq(PrivateOnes)
         /\ op = "register" => Len(Expectations[op].private) = 1
         /\ op = "deposit" => Len(Expectations[op].private) = 5
         /\ op = "merge" => Len(Expectations[op].private) = 6
         /\ op = "transfer" => Len(Expectations[op].private) = 6
         /\ op = "withdraw" => Len(Expectations[op].private) = 5
<1>1. op = "register" => Lists(Expectations[op].private, 1, PrivateOnes)
  BY DEF Expectations, Expected, Lists, PrivateOnes
<1>2. op = "deposit" => Lists(Expectations[op].private, 5, PrivateOnes)
  BY DEF Expectations, Expected, Lists, PrivateOnes
<1>3. op = "merge" => Lists(Expectations[op].private, 6, PrivateOnes)
  BY DEF Expectations, Expected, Lists, PrivateOnes
<1>4. op = "transfer" => Lists(Expectations[op].private, 6, PrivateOnes)
  BY DEF Expectations, Expected, Lists, PrivateOnes
<1>5. op = "withdraw" => Lists(Expectations[op].private, 5, PrivateOnes)
  BY DEF Expectations, Expected, Lists, PrivateOnes
<1>. QED
  BY <1>1, <1>2, <1>3, <1>4, <1>5, OperationsAre, ListsAreSequences

\* The returned ones.
LEMMA ReturnLists ==
  ASSUME NEW op \in Operations
  PROVE  /\ Expectations[op].returns \in Seq(Returned)
         /\ op = "register" => Len(Expectations[op].returns) = 0
         /\ op = "deposit" => Len(Expectations[op].returns) = 2
         /\ op = "merge" => Len(Expectations[op].returns) = 3
         /\ op = "transfer" => Len(Expectations[op].returns) = 3
         /\ op = "withdraw" => Len(Expectations[op].returns) = 2
<1>1. op = "register" => Lists(Expectations[op].returns, 0, Returned)
  BY DEF Expectations, Expected, Lists, Returned
<1>2. op = "deposit" => Lists(Expectations[op].returns, 2, Returned)
  BY DEF Expectations, Expected, Lists, Returned
<1>3. op = "merge" => Lists(Expectations[op].returns, 3, Returned)
  BY DEF Expectations, Expected, Lists, Returned
<1>4. op = "transfer" => Lists(Expectations[op].returns, 3, Returned)
  BY DEF Expectations, Expected, Lists, Returned
<1>5. op = "withdraw" => Lists(Expectations[op].returns, 2, Returned)
  BY DEF Expectations, Expected, Lists, Returned
<1>. QED
  BY <1>1, <1>2, <1>3, <1>4, <1>5, OperationsAre, ListsAreSequences

\* No name is in a list twice.
LEMMA NamesDiffer ==
  ASSUME NEW op \in Operations
  PROVE  Distinct(Expectations[op].public) /\ Distinct(Expectations[op].returns)
<1>1. CASE op = "register"
  <2>1. Distinct(Expectations[op].public)
    BY <1>1 DEF Expectations, Expected, Distinct
  <2>2. Distinct(Expectations[op].returns)
    BY <1>1 DEF Expectations, Expected, Distinct
  <2>. QED
    BY <2>1, <2>2
<1>2. CASE op = "deposit"
  <2>1. Distinct(Expectations[op].public)
    BY <1>2 DEF Expectations, Expected, Distinct
  <2>2. Distinct(Expectations[op].returns)
    <3>1. \A i, j \in 1..2 : Expectations[op].returns[i] = Expectations[op].returns[j] => i = j
      BY <1>2 DEF Expectations, Expected
    <3>2. 1..Len(Expectations[op].returns) = 1..2
      BY <1>2, ReturnLists
    <3>. QED
      BY <3>1, <3>2, Zenon DEF Distinct
  <2>. QED
    BY <2>1, <2>2
<1>3. CASE op = "merge"
  <2>1. Distinct(Expectations[op].public)
    BY <1>3 DEF Expectations, Expected, Distinct
  <2>2. Distinct(Expectations[op].returns)
    <3>1. \A i, j \in 1..3 : Expectations[op].returns[i] = Expectations[op].returns[j] => i = j
      BY <1>3 DEF Expectations, Expected
    <3>2. 1..Len(Expectations[op].returns) = 1..3
      BY <1>3, ReturnLists
    <3>. QED
      BY <3>1, <3>2, Zenon DEF Distinct
  <2>. QED
    BY <2>1, <2>2
<1>4. CASE op = "transfer"
  <2>1. Distinct(Expectations[op].public)
    BY <1>4 DEF Expectations, Expected, Distinct
  <2>2. Distinct(Expectations[op].returns)
    <3>1. \A i, j \in 1..3 : Expectations[op].returns[i] = Expectations[op].returns[j] => i = j
      BY <1>4 DEF Expectations, Expected
    <3>2. 1..Len(Expectations[op].returns) = 1..3
      BY <1>4, ReturnLists
    <3>. QED
      BY <3>1, <3>2, Zenon DEF Distinct
  <2>. QED
    BY <2>1, <2>2
<1>5. CASE op = "withdraw"
  <2>1. Distinct(Expectations[op].public)
    BY <1>5 DEF Expectations, Expected, Distinct
  <2>2. Distinct(Expectations[op].returns)
    <3>1. \A i, j \in 1..2 : Expectations[op].returns[i] = Expectations[op].returns[j] => i = j
      BY <1>5 DEF Expectations, Expected
    <3>2. 1..Len(Expectations[op].returns) = 1..2
      BY <1>5, ReturnLists
    <3>. QED
      BY <3>1, <3>2, Zenon DEF Distinct
  <2>. QED
    BY <2>1, <2>2
<1>. QED
  BY <1>1, <1>2, <1>3, <1>4, <1>5, OperationsAre

\* The words of an operation: an odd number, which merge and transfer alone share.
Count(op) == Len(Expectations[op].public) + Len(Expectations[op].returns)

LEMMA CountsAre ==
  ASSUME NEW op \in Operations
  PROVE  /\ op = "register" => Count(op) = 1
         /\ op = "deposit" => Count(op) = 5
         /\ op = "merge" => Count(op) = 9
         /\ op = "transfer" => Count(op) = 9
         /\ op = "withdraw" => Count(op) = 7
<1>1. CASE op = "register"
  <2>1. Len(Expectations[op].public) = 1
    BY <1>1, PublicLists
  <2>2. Len(Expectations[op].returns) = 0
    BY <1>1, ReturnLists
  <2>. QED
    BY <1>1, <2>1, <2>2 DEF Count
<1>2. CASE op = "deposit"
  <2>1. Len(Expectations[op].public) = 3
    BY <1>2, PublicLists
  <2>2. Len(Expectations[op].returns) = 2
    BY <1>2, ReturnLists
  <2>. QED
    BY <1>2, <2>1, <2>2 DEF Count
<1>3. CASE op = "merge"
  <2>1. Len(Expectations[op].public) = 6
    BY <1>3, PublicLists
  <2>2. Len(Expectations[op].returns) = 3
    BY <1>3, ReturnLists
  <2>. QED
    BY <1>3, <2>1, <2>2 DEF Count
<1>4. CASE op = "transfer"
  <2>1. Len(Expectations[op].public) = 6
    BY <1>4, PublicLists
  <2>2. Len(Expectations[op].returns) = 3
    BY <1>4, ReturnLists
  <2>. QED
    BY <1>4, <2>1, <2>2 DEF Count
<1>5. CASE op = "withdraw"
  <2>1. Len(Expectations[op].public) = 5
    BY <1>5, PublicLists
  <2>2. Len(Expectations[op].returns) = 2
    BY <1>5, ReturnLists
  <2>. QED
    BY <1>5, <2>1, <2>2 DEF Count
<1>. QED
  BY <1>1, <1>2, <1>3, <1>4, <1>5, OperationsAre

\* No circuit other than the operation's has as many words and asks for no more names.
LEMMA NoOtherCircuit ==
  ASSUME NEW op \in Operations, NEW circuit \in Operations, Count(op) = Count(circuit),
         ToSet(Mains[circuit].private) \subseteq
           ToSet(Expectations[op].public) \cup ToSet(Expectations[op].private)
  PROVE  circuit = op
<1>1. CASE op = "merge" /\ circuit = "transfer"
  <2>1. "sender_sk" \in ToSet(Mains[circuit].private)
    BY <1>1 DEF Mains, TransferMain, Main, ToSet
  <2>2. "sender_sk" \notin ToSet(Expectations[op].public) \cup ToSet(Expectations[op].private)
    BY <1>1 DEF Expectations, Expected, ToSet
  <2>. QED
    BY <2>1, <2>2
<1>2. CASE op = "transfer" /\ circuit = "merge"
  <2>1. "account_sk" \in ToSet(Mains[circuit].private)
    BY <1>2 DEF Mains, MergeMain, Main, ToSet
  <2>2. "account_sk" \notin ToSet(Expectations[op].public) \cup ToSet(Expectations[op].private)
    BY <1>2 DEF Expectations, Expected, ToSet
  <2>. QED
    BY <2>1, <2>2
<1>. QED
  BY <1>1, <1>2, CountsAre, OperationsAre

-----------------------------------------------------------------------------
(* Edits *)

\* Names that a public parameter can have after an edit.
AnyName == PublicOnes \cup PrivateOnes \cup {Fresh}

\* The words that bb reports for a circuit.
WordCount(m) == Len(m.public) + m.returns

\* The interface of a circuit before it is edited.
LEMMA MainsAre ==
  ASSUME NEW op \in Operations
  PROVE  /\ Mains[op] = Main(Expectations[op].public, Expectations[op].private,
                             Len(Expectations[op].returns))
         /\ Mains[op].public \in Seq(PublicOnes)
         /\ Mains[op].private \in Seq(PrivateOnes)
         /\ Mains[op].returns \in Nat
         /\ WordCount(Mains[op]) = Count(op)
<1>1. Mains[op] = Main(Mains[op].public, Mains[op].private, Mains[op].returns)
  <2>1. CASE op = "register"
    BY <2>1 DEF Mains, Main, RegisterMain
  <2>2. CASE op = "deposit"
    BY <2>2 DEF Mains, Main, DepositMain
  <2>3. CASE op = "merge"
    BY <2>3 DEF Mains, Main, MergeMain
  <2>4. CASE op = "transfer"
    BY <2>4 DEF Mains, Main, TransferMain
  <2>5. CASE op = "withdraw"
    BY <2>5 DEF Mains, Main, WithdrawMain
  <2>. QED
    BY <2>1, <2>2, <2>3, <2>4, <2>5, OperationsAre
<1>2. /\ Mains[op].public = Expectations[op].public
      /\ Mains[op].private = Expectations[op].private
      /\ Mains[op].returns = Len(Expectations[op].returns)
  BY TablesAgree
<1>3. /\ Expectations[op].public \in Seq(PublicOnes)
      /\ Expectations[op].private \in Seq(PrivateOnes)
      /\ Expectations[op].returns \in Seq(Returned)
  BY PublicLists, PrivateLists, ReturnLists
<1>. QED
  BY <1>1, <1>2, <1>3 DEF WordCount, Count

\* What the edits of a list do to it.
LEMMA RemovesOne ==
  ASSUME NEW S, NEW s \in Seq(S), NEW i \in 1..Len(s)
  PROVE  RemoveAt(s, i) \in Seq(S) /\ Len(RemoveAt(s, i)) = Len(s) - 1
<1> DEFINE a == SubSeq(s, 1, i - 1)
           b == SubSeq(s, i + 1, Len(s))
<1>1. \A k \in 1..Len(s) : s[k] \in S
  BY ElementOfSeq
<1>2. a \in Seq(S) /\ Len(a) = i - 1
  BY <1>1, SubSeqProperties
<1>3. b \in Seq(S) /\ Len(b) = Len(s) - i
  BY <1>1, SubSeqProperties
<1> HIDE DEF a, b
<1>4. a \o b \in Seq(S) /\ Len(a \o b) = Len(a) + Len(b)
  BY <1>2, <1>3, ConcatProperties
<1>5. Len(a \o b) = Len(s) - 1
  BY <1>2, <1>3, <1>4, LenProperties
<1>. QED
  BY <1>4, <1>5 DEF RemoveAt, a, b

LEMMA InsertsOne ==
  ASSUME NEW S, NEW s \in Seq(S), NEW i \in 1..Len(s) + 1, NEW e \in S
  PROVE  InsertAt(s, i, e) \in Seq(S) /\ Len(InsertAt(s, i, e)) = Len(s) + 1
<1> DEFINE a == SubSeq(s, 1, i - 1)
           b == SubSeq(s, i, Len(s))
           c == <<e>>
<1>1. \A k \in 1..Len(s) : s[k] \in S
  BY ElementOfSeq
<1>2. a \in Seq(S) /\ Len(a) = i - 1
  BY <1>1, SubSeqProperties
<1>3. b \in Seq(S) /\ Len(b) = Len(s) - i + 1
  BY <1>1, SubSeqProperties
<1>4. c \in Seq(S) /\ Len(c) = 1
  OBVIOUS
<1> HIDE DEF a, b, c
<1>5. a \o c \in Seq(S) /\ Len(a \o c) = Len(a) + Len(c)
  BY <1>2, <1>4, ConcatProperties
<1>6. (a \o c) \o b \in Seq(S) /\ Len((a \o c) \o b) = Len(a \o c) + Len(b)
  BY <1>3, <1>5, ConcatProperties
<1>7. Len((a \o c) \o b) = Len(s) + 1
  BY <1>2, <1>3, <1>4, <1>5, <1>6, LenProperties
<1>. QED
  BY <1>6, <1>7 DEF InsertAt, a, b, c

\* An edit changes the number of words by one, or puts the fresh name in the place
\* of a public one, or exchanges two public ones.
Renamed(m, op) ==
  \E i \in 1..Len(Mains[op].public) : m = [Mains[op] EXCEPT !.public = ReplaceAt(@, i, Fresh)]

Exchanged(m, op) ==
  \E i, j \in 1..Len(Mains[op].public) : m = [Mains[op] EXCEPT !.public = Swapped(@, i, j)]

LEMMA EditsAre ==
  ASSUME NEW op \in Operations, NEW kind \in Edits, NEW m \in Edited(Mains[op], kind)
  PROVE  \/ /\ m.public \in Seq(AnyName) /\ m.returns \in Nat
            /\ WordCount(m) \in {Count(op) - 1, Count(op) + 1}
         \/ Renamed(m, op)
         \/ Exchanged(m, op)
<1> DEFINE public  == Mains[op].public
           private == Mains[op].private
           returns == Mains[op].returns
           n       == Len(public)
<1>1. /\ public \in Seq(AnyName) /\ private \in Seq(AnyName)
      /\ returns \in Nat /\ Fresh \in AnyName
      /\ Count(op) = n + returns /\ n \in Nat
      /\ Mains[op] = Main(public, private, returns)
  <2>1. public \in Seq(PublicOnes) /\ private \in Seq(PrivateOnes) /\ returns \in Nat
    BY MainsAre
  <2>2. public \in Seq(AnyName) /\ private \in Seq(AnyName) /\ Fresh \in AnyName
    BY <2>1, SeqMonotonic DEF AnyName
  <2>3. Count(op) = n + returns
    BY MainsAre DEF WordCount
  <2>4. Mains[op] = Main(public, private, returns)
    BY MainsAre, TablesAgree
  <2>. QED
    BY <2>1, <2>2, <2>3, <2>4, LenProperties
<1>2. kind \in {"drop", "add", "rename", "reveal", "return", "reorder"}
  BY NamingAssumption
<1>3. CASE kind = "drop"
  <2>1. PICK i \in 1..n : m = [Mains[op] EXCEPT !.public = RemoveAt(@, i)]
    BY <1>3 DEF Edited
  <2>2. m.public = RemoveAt(public, i) /\ m.returns = returns
    BY <1>1, <2>1 DEF Main
  <2>3. m.public \in Seq(AnyName) /\ Len(m.public) = n - 1
    BY <1>1, <2>2, RemovesOne
  <2>. QED
    BY <1>1, <2>2, <2>3 DEF WordCount
<1>4. CASE kind = "add"
  <2>1. PICK i \in 1..n + 1 : m = [Mains[op] EXCEPT !.public = InsertAt(@, i, Fresh)]
    BY <1>4 DEF Edited
  <2>2. m.public = InsertAt(public, i, Fresh) /\ m.returns = returns
    BY <1>1, <2>1 DEF Main
  <2>3. m.public \in Seq(AnyName) /\ Len(m.public) = n + 1
    BY <1>1, <2>2, InsertsOne
  <2>. QED
    BY <1>1, <2>2, <2>3 DEF WordCount
<1>5. CASE kind = "rename"
  BY <1>5 DEF Edited, Renamed
<1>6. CASE kind = "reveal"
  <2>1. PICK i \in {1, n + 1}, j \in DOMAIN private :
          m = Main(InsertAt(public, i, private[j]), RemoveAt(private, j), returns)
    BY <1>6 DEF Edited
  <2>2. m.public = InsertAt(public, i, private[j]) /\ m.returns = returns
    BY <2>1 DEF Main
  <2>3. private[j] \in AnyName /\ i \in 1..n + 1
    BY <1>1, <2>1
  <2>4. m.public \in Seq(AnyName) /\ Len(m.public) = n + 1
    BY <1>1, <2>2, <2>3, InsertsOne
  <2>5. WordCount(m) = n + 1 + returns /\ m.returns \in Nat
    BY <1>1, <2>2, <2>4 DEF WordCount
  <2>6. n + 1 + returns = Count(op) + 1
    BY <1>1
  <2>. QED
    BY <2>4, <2>5, <2>6
<1>7. CASE kind = "return"
  <2>1. PICK r \in {returns + 1, returns - 1} \cap Nat : m = [Mains[op] EXCEPT !.returns = r]
    BY <1>7 DEF Edited
  <2>2. m.public = public /\ m.returns = r
    BY <1>1, <2>1 DEF Main
  <2>3. WordCount(m) = n + r
    BY <2>2 DEF WordCount
  <2>4. m.public \in Seq(AnyName) /\ m.returns \in Nat
    BY <1>1, <2>1, <2>2
  <2>5. n + r \in {Count(op) - 1, Count(op) + 1}
    BY <1>1, <2>1
  <2>6. WordCount(m) \in {Count(op) - 1, Count(op) + 1}
    BY <2>3, <2>5, Zenon
  <2>. QED
    BY <2>4, <2>6, Zenon
<1>8. CASE kind = "reorder"
  BY <1>8 DEF Edited, Exchanged
<1>. QED
  BY <1>2, <1>3, <1>4, <1>5, <1>6, <1>7, <1>8

\* What a circuit's source may be, with one edit or none.
Interfaces(op) == {Mains[op]} \cup UNION {Edited(Mains[op], kind) : kind \in Edits}

\* The sources with as many words as before the edit: all else is the same but for
\* a public parameter with the fresh name, or two in each other's place.
Kept(m, op) ==
  LET public == Expectations[op].public
  IN  /\ m.private = Expectations[op].private
      /\ m.returns = Len(Expectations[op].returns)
      /\ m.public \in Seq(PublicOnes \cup {Fresh})
      /\ Len(m.public) = Len(public)
      /\ \/ m.public = public
         \/ \E i \in 1..Len(public) : m.public[i] = Fresh
         \/ \E i, j \in 1..Len(public) : m.public = Swapped(public, i, j)

LEMMA InterfacesAre ==
  ASSUME NEW op \in Operations, NEW m \in Interfaces(op)
  PROVE  /\ m.public \in Seq(AnyName) /\ m.returns \in Nat
         /\ WordCount(m) \in {Count(op) - 1, Count(op) + 1} \/ Kept(m, op)
<1> DEFINE public == Expectations[op].public
           N == 1..Len(public)
           M == Mains[op]
<1>1. /\ M = Main(public, Expectations[op].private, Len(Expectations[op].returns))
      /\ public \in Seq(PublicOnes) /\ Len(Expectations[op].returns) \in Nat
  BY MainsAre, PublicLists, ReturnLists, LenProperties
<1>2. /\ M.public = public /\ M.private = Expectations[op].private
      /\ M.returns = Len(Expectations[op].returns)
  BY TablesAgree
<1>3. Kept(m, op) => m.public \in Seq(AnyName) /\ m.returns \in Nat
  <2>1. Seq(PublicOnes \cup {Fresh}) \subseteq Seq(AnyName)
    BY SeqMonotonic DEF AnyName
  <2>. QED
    BY <1>1, <2>1 DEF Kept
<1>4. /\ public \in Seq(PublicOnes \cup {Fresh}) /\ Len(public) \in Nat
      /\ \A i \in N : public[i] \in PublicOnes \cup {Fresh}
      /\ public \in [N -> PublicOnes \cup {Fresh}]
  BY <1>1, SeqMonotonic, LenProperties, ElementOfSeq
<1>5. CASE m = M
  BY <1>2, <1>3, <1>4, <1>5 DEF Kept
<1>6. CASE Renamed(m, op)
  <2>1. PICK i \in N : m = [M EXCEPT !.public = ReplaceAt(@, i, Fresh)]
    BY <1>2, <1>6 DEF Renamed
  <2>2. m.public = ReplaceAt(public, i, Fresh) /\ m.private = M.private /\ m.returns = M.returns
    BY <1>1, <1>2, <2>1 DEF Main
  <2>3. ReplaceAt(public, i, Fresh) = [public EXCEPT ![i] = Fresh]
    BY <1>4 DEF ReplaceAt
  <2>4. m.public \in [N -> PublicOnes \cup {Fresh}] /\ m.public[i] = Fresh
    BY <1>4, <2>2, <2>3
  <2>5. m.public \in Seq(PublicOnes \cup {Fresh}) /\ Len(m.public) = Len(public)
    BY <1>4, <2>4
  <2>6. Kept(m, op)
    BY <1>2, <2>2, <2>4, <2>5 DEF Kept
  <2>. QED
    BY <1>3, <2>6
<1>7. CASE Exchanged(m, op)
  <2>1. PICK i \in N, j \in N : m = [M EXCEPT !.public = Swapped(@, i, j)]
    BY <1>2, <1>7 DEF Exchanged
  <2>2. /\ m.public = Swapped(public, i, j)
        /\ m.private = M.private /\ m.returns = M.returns
    BY <1>1, <1>2, <2>1 DEF Main
  <2>3. m.public \in [N -> PublicOnes \cup {Fresh}]
    BY <1>4, <2>2 DEF Swapped
  <2>4. m.public \in Seq(PublicOnes \cup {Fresh}) /\ Len(m.public) = Len(public)
    BY <1>4, <2>3
  <2>5. Kept(m, op)
    BY <1>2, <2>2, <2>4 DEF Kept
  <2>. QED
    BY <1>3, <2>5
<1>. QED
  BY <1>5, <1>6, <1>7, <1>3, EditsAre DEF Interfaces

\* All counts are odd: a source with a word more or less than before has as many
\* as no operation, and the others are told apart by the keys that they ask for.
LEMMA MatchingCounts ==
  ASSUME NEW op \in Operations, NEW circuit \in Operations, NEW m \in Interfaces(circuit),
         WordCount(m) = Count(op)
  PROVE  Kept(m, circuit) /\ Count(circuit) = Count(op)
<1>1. Count(op) \in {1, 5, 7, 9} /\ Count(circuit) \in {1, 5, 7, 9}
  BY CountsAre, OperationsAre
<1>2. Kept(m, circuit)
  <2>1. Count(op) # Count(circuit) - 1 /\ Count(op) # Count(circuit) + 1
    BY <1>1
  <2>. QED
    BY <2>1, InterfacesAre
<1>3. WordCount(m) = Count(circuit)
  BY <1>2 DEF Kept, WordCount, Count
<1>. QED
  BY <1>2, <1>3

-----------------------------------------------------------------------------
(* Lines, words and names *)

\* The values of the three sides are apart, and tell their names.
LEMMA ValuesApart ==
  ASSUME NEW a, NEW b
  PROVE  /\ Public(a) # Secret(b) /\ Return(a) # Secret(b) /\ Return(a) # Public(b)
         /\ Secret(a) = Secret(b) => a = b
         /\ Public(a) = Public(b) => a = b
BY DEF Public, Secret, Return

\* A file that can be read gives each name the value of the side that it is on, and
\* no name is on both.
LEMMA LinesAre ==
  ASSUME NEW req
  PROVE  /\ Readable(Encode(req)) <=> req.public \cap req.private = {}
         /\ {l.name : l \in Encode(req)} = req.public \cup req.private
         /\ Readable(Encode(req)) =>
              /\ \A n \in req.public : ValueOf(Encode(req), n) = Public(n)
              /\ \A n \in req.private : ValueOf(Encode(req), n) = Secret(n)
<1> DEFINE toml == Encode(req)
           P(n) == [name |-> n, value |-> Public(n)]
           S(n) == [name |-> n, value |-> Secret(n)]
<1>1. \A l : l \in toml <=>
        (\E n \in req.public : l = P(n)) \/ (\E n \in req.private : l = S(n))
  BY DEF Encode
<1>2. \A n : P(n).name = n /\ S(n).name = n /\ P(n).value = Public(n) /\ S(n).value = Secret(n)
  OBVIOUS
<1>3. \A n : P(n) # S(n)
  BY <1>2, ValuesApart
<1> HIDE DEF toml, P, S
<1>4. {l.name : l \in toml} = req.public \cup req.private
  BY <1>1, <1>2
<1>5. Readable(toml) => req.public \cap req.private = {}
  BY <1>1, <1>2, <1>3 DEF Readable
<1>6. req.public \cap req.private = {} => Readable(toml)
  BY <1>1, <1>2 DEF Readable
<1>7. ASSUME Readable(toml), NEW n \in req.public
      PROVE  ValueOf(toml, n) = Public(n)
  <2>1. P(n) \in toml /\ P(n).name = n
    BY <1>1, <1>2
  <2>2. \A l \in toml : l.name = n => l = P(n)
    BY <1>7, <2>1 DEF Readable
  <2>3. (CHOOSE l \in toml : l.name = n) = P(n)
    BY <2>1, <2>2
  <2>. QED
    BY <1>2, <2>3 DEF ValueOf
<1>8. ASSUME Readable(toml), NEW n \in req.private
      PROVE  ValueOf(toml, n) = Secret(n)
  <2>1. S(n) \in toml /\ S(n).name = n
    BY <1>1, <1>2
  <2>2. \A l \in toml : l.name = n => l = S(n)
    BY <1>8, <2>1 DEF Readable
  <2>3. (CHOOSE l \in toml : l.name = n) = S(n)
    BY <2>1, <2>2
  <2>. QED
    BY <1>2, <2>3 DEF ValueOf
<1>. QED
  BY <1>4, <1>5, <1>6, <1>7, <1>8 DEF toml

\* What nargo asks of a file for a circuit that has kept its parameters.
LEMMA SolvableIs ==
  ASSUME NEW op \in Operations, NEW m, Kept(m, op), NEW toml
  PROVE  Solvable(m, toml) <=>
           /\ Readable(toml)
           /\ ToSet(m.public) \cup ToSet(m.private) \subseteq {l.name : l \in toml}
<1> DEFINE a == m.public
           b == m.private
           S == PublicOnes \cup PrivateOnes \cup {Fresh}
<1>1. a \in Seq(S) /\ b \in Seq(S)
  <2>1. a \in Seq(PublicOnes \cup {Fresh}) /\ b \in Seq(PrivateOnes)
    BY PrivateLists DEF Kept
  <2>. QED
    BY <2>1, SeqMonotonic
<1> HIDE DEF a, b, S
<1>2. /\ a \o b \in Seq(S) /\ Len(a \o b) = Len(a) + Len(b)
      /\ Len(a) \in Nat /\ Len(b) \in Nat
      /\ DOMAIN a = 1..Len(a) /\ DOMAIN b = 1..Len(b) /\ DOMAIN (a \o b) = 1..Len(a) + Len(b)
      /\ \A i \in 1..Len(a) + Len(b) :
           (a \o b)[i] = IF i <= Len(a) THEN a[i] ELSE b[i - Len(a)]
  BY <1>1, ConcatProperties, LenProperties
<1>3. \A i \in DOMAIN a : i \in DOMAIN (a \o b) /\ (a \o b)[i] = a[i]
  BY <1>2
<1>4. \A i \in DOMAIN b : Len(a) + i \in DOMAIN (a \o b) /\ (a \o b)[Len(a) + i] = b[i]
  BY <1>2
<1>5. \A i \in DOMAIN (a \o b) :
        \/ i \in DOMAIN a /\ (a \o b)[i] = a[i]
        \/ i - Len(a) \in DOMAIN b /\ (a \o b)[i] = b[i - Len(a)]
  BY <1>2
<1>6. ToSet(a \o b) = ToSet(a) \cup ToSet(b)
  <2>1. ToSet(a) \subseteq ToSet(a \o b)
    BY <1>3 DEF ToSet
  <2>2. ToSet(b) \subseteq ToSet(a \o b)
    BY <1>4 DEF ToSet
  <2>3. ToSet(a \o b) \subseteq ToSet(a) \cup ToSet(b)
    BY <1>5 DEF ToSet
  <2>. QED
    BY <2>1, <2>2, <2>3
<1>. QED
  BY <1>6 DEF Solvable, Places, a, b

\* A circuit that nobody has edited has kept them.
LEMMA MainsKept ==
  ASSUME NEW op \in Operations
  PROVE  Kept(Mains[op], op)
<1>1. Mains[op].public \in Seq(PublicOnes \cup {Fresh})
  BY MainsAre, SeqMonotonic
<1>. QED
  BY <1>1, TablesAgree DEF Kept

\* bb's words: the values of the public parameters, then the returns.
LEMMA WordsAre ==
  ASSUME NEW S, NEW m, m.public \in Seq(S), m.returns \in Nat, NEW toml
  PROVE  /\ DOMAIN Words(m, toml) = 1..WordCount(m)
         /\ Len(Words(m, toml)) = WordCount(m)
         /\ \A i \in 1..Len(m.public) : Words(m, toml)[i] = ValueOf(toml, m.public[i])
         /\ \A i \in 1..m.returns : Words(m, toml)[Len(m.public) + i] = Return(i)
<1> DEFINE a == [i \in DOMAIN m.public |-> ValueOf(toml, m.public[i])]
           b == [i \in 1..m.returns |-> Return(i)]
           T == {ValueOf(toml, m.public[i]) : i \in DOMAIN m.public} \cup {Return(i) : i \in 1..m.returns}
           n == Len(m.public)
<1>1. n \in Nat /\ DOMAIN m.public = 1..n
  BY LenProperties
<1>2. a \in [1..n -> T] /\ b \in [1..m.returns -> T]
  BY <1>1
<1>3. /\ a \in Seq(T) /\ b \in Seq(T) /\ Len(a) = n /\ Len(b) = m.returns
  BY <1>1, <1>2
<1>4. Words(m, toml) = a \o b
  BY DEF Words
<1> HIDE DEF a, b, T
<1>5. /\ Len(a \o b) = Len(a) + Len(b) /\ a \o b \in Seq(T)
      /\ \A i \in 1..Len(a) + Len(b) :
           (a \o b)[i] = IF i <= Len(a) THEN a[i] ELSE b[i - Len(a)]
  BY <1>3, ConcatProperties
<1>6. DOMAIN (a \o b) = 1..Len(a \o b)
  BY <1>5, LenProperties
<1>7. \A i \in 1..n : (a \o b)[i] = a[i]
  BY <1>1, <1>3, <1>5
<1>8. \A i \in 1..m.returns : (a \o b)[n + i] = b[i]
  BY <1>1, <1>3, <1>5
<1>9. \A i \in 1..n : a[i] = ValueOf(toml, m.public[i])
  BY <1>1 DEF a
<1>10. \A i \in 1..m.returns : b[i] = Return(i)
  BY DEF b
<1>. QED
  BY <1>3, <1>4, <1>5, <1>6, <1>7, <1>8, <1>9, <1>10 DEF WordCount

\* The names that the words of an operation get: as many as it counts, no name
\* twice.
LEMMA NamesAre ==
  ASSUME NEW op \in Operations
  PROVE  LET public == Expectations[op].public
             returns == Expectations[op].returns
         IN  /\ PublicNames(op) \in Seq(PublicOnes \cup Returned)
             /\ Len(PublicNames(op)) = Count(op)
             /\ \A i \in 1..Len(public) : PublicNames(op)[i] = public[i]
             /\ \A i \in 1..Len(returns) : PublicNames(op)[Len(public) + i] = returns[i]
             /\ Distinct(PublicNames(op))
<1> DEFINE public == Expectations[op].public
           returns == Expectations[op].returns
           p == Len(public)
           r == Len(returns)
           names == PublicNames(op)
<1>1. /\ public \in Seq(PublicOnes) /\ returns \in Seq(Returned)
      /\ p \in Nat /\ r \in Nat
      /\ \A i \in 1..p : public[i] \in PublicOnes
      /\ \A i \in 1..r : returns[i] \in Returned
  BY PublicLists, ReturnLists, LenProperties, ElementOfSeq
<1>2. public \in Seq(PublicOnes \cup Returned) /\ returns \in Seq(PublicOnes \cup Returned)
  BY <1>1, SeqMonotonic
<1>3. names = public \o returns
  BY DEF PublicNames
<1>4. Distinct(public) /\ Distinct(returns)
  BY NamesDiffer
<1> HIDE DEF public, returns, names
<1>5. /\ names \in Seq(PublicOnes \cup Returned) /\ Len(names) = p + r
      /\ \A i \in 1..p + r : names[i] = IF i <= p THEN public[i] ELSE returns[i - p]
  BY <1>2, <1>3, ConcatProperties
<1>6. \A i \in 1..p : names[i] = public[i]
  BY <1>1, <1>5
<1>7. \A i \in 1..r : names[p + i] = returns[i]
  BY <1>1, <1>5
<1>8. ASSUME NEW i \in 1..p + r, NEW j \in 1..p + r, names[i] = names[j]
      PROVE  i = j
  <2>1. CASE i <= p /\ j <= p
    BY <1>1, <1>4, <1>5, <1>8, <2>1 DEF Distinct
  <2>2. CASE ~(i <= p) /\ ~(j <= p)
    <3>1. i - p \in 1..r /\ j - p \in 1..r
      BY <1>1, <2>2
    <3>2. returns[i - p] = returns[j - p]
      BY <1>5, <1>8, <2>2
    <3>3. i - p = j - p
      BY <1>4, <3>1, <3>2 DEF Distinct
    <3>. QED
      BY <1>1, <3>3
  <2>3. CASE i <= p /\ ~(j <= p)
    <3>1. names[i] \in PublicOnes
      BY <1>1, <1>5, <2>3
    <3>2. j - p \in 1..r /\ names[j] = returns[j - p]
      BY <1>1, <1>5, <2>3
    <3>3. names[j] \in Returned
      BY <1>1, <3>2
    <3>. QED
      BY <1>8, <3>1, <3>3, SidesApart
  <2>4. CASE ~(i <= p) /\ j <= p
    <3>1. i - p \in 1..r /\ names[i] = returns[i - p]
      BY <1>1, <1>5, <2>4
    <3>2. names[i] \in Returned
      BY <1>1, <3>1
    <3>3. names[j] \in PublicOnes
      BY <1>1, <1>5, <2>4
    <3>. QED
      BY <1>8, <3>2, <3>3, SidesApart
  <2>. QED
    BY <2>1, <2>2, <2>3, <2>4
<1>9. Distinct(names)
  BY <1>5, <1>8 DEF Distinct
<1>10. Len(names) = Count(op)
  BY <1>5 DEF Count, public, returns
<1>. QED
  BY <1>5, <1>6, <1>7, <1>9, <1>10 DEF public, returns, names

\* Of as many words as names, no name twice, each name gets the word at its place.
LEMMA NamedAre ==
  ASSUME NEW S, NEW names \in Seq(S), Distinct(names), NEW words,
         DOMAIN words = 1..Len(names)
  PROVE  /\ DOMAIN Named(names, words) = ToSet(names)
         /\ \A i \in 1..Len(names) : Named(names, words)[names[i]] = words[i]
<1>1. DOMAIN names = 1..Len(names)
  BY LenProperties
<1>2. {names[i] : i \in DOMAIN names \cap DOMAIN words} = ToSet(names)
  BY <1>1 DEF ToSet
<1>3. ASSUME NEW i \in 1..Len(names)
      PROVE  Named(names, words)[names[i]] = words[i]
  <2>1. \A j \in DOMAIN names : names[j] = names[i] => j = i
    BY <1>1 DEF Distinct
  <2>2. (CHOOSE j \in DOMAIN names : names[j] = names[i]) = i
    BY <1>1, <2>1
  <2>3. names[i] \in {names[k] : k \in DOMAIN names \cap DOMAIN words}
    BY <1>1
  <2>. QED
    BY <2>2, <2>3 DEF Named
<1>. QED
  BY <1>2, <1>3 DEF Named

-----------------------------------------------------------------------------
(* The inductive invariant *)

Names == PublicOnes \cup PrivateOnes \cup Extras \cup {Illegal}

RequestType ==
  [operation : Operations, circuit : Operations, public : SUBSET Names, private : SUBSET Names,
   extra : 0..MaxExtra]

\* A response is to an accepted request that the pinned circuit is solvable for, and
\* names the words that are as many as the operation counts.
Responded ==
  /\ Accepted(request)
  /\ Solvable(pinned, Encode(request))
  /\ WordCount(pinned) = Count(request.operation)
  /\ answer.outputs = Named(PublicNames(request.operation), Words(pinned, Encode(request)))

\* A response whose witness is of another circuit than the pinned one: nothing is
\* known of its outputs but their names.
Misread ==
  /\ answer.outcome = "notVerified"
  /\ target # pinned
  /\ DOMAIN answer.outputs = ToSet(PublicNames(request.operation))

NamingInv ==
  /\ request \in RequestType
  /\ target \in Interfaces(request.circuit)
  /\ pinned \in Interfaces(request.circuit)
  /\ \/ answer.outcome \in {"none", "invalid", "unsolved", "drifted"} /\ answer.outputs = <<>>
     \/ answer.outcome \in {"notVerified", "released"} /\ Responded
     \/ Misread

Vectors ==
  [operation : Operations, circuit : Operations, witnessOperation : Operations,
   category : KnownCategories \cup {"unheard-of"}, expect : BOOLEAN,
   private : SUBSET Names, public : SUBSET Names, canonical : BOOLEAN,
   state : {"none", "agrees", "differs"}, outputs : BOOLEAN]

\* A file has no answer; a command that ends well made its request of the vector.
VectorInv ==
  /\ NamingInv
  /\ vector \in Vectors \cup {NoVector}
  /\ stage = "file" => vector \in Vectors /\ answer = NoAnswer
  /\ stage \in {"malformed", "built", "green", "mockProven"} =>
       vector \in Vectors /\ Loads(vector) /\ request = ToRequest(vector)
  /\ stage = "malformed" => ~RequestValidates(vector)
  /\ stage \in {"built", "green", "mockProven"} => RequestValidates(vector)
  /\ stage \in {"green", "mockProven"} => Green(vector) /\ target = Mains[vector.circuit] /\ pinned = Mains[vector.circuit]

\* The lists of the operations have at least one public and one private name each.
LEMMA ListsHaveNames ==
  ASSUME NEW op \in Operations
  PROVE  /\ ToSet(Expectations[op].public) \subseteq PublicOnes
         /\ ToSet(Expectations[op].private) \subseteq PrivateOnes
         /\ ToSet(Expectations[op].public) # {} /\ ToSet(Expectations[op].private) # {}
<1> DEFINE public == Expectations[op].public
           private == Expectations[op].private
<1>1. public \in Seq(PublicOnes) /\ Len(public) \in {1, 3, 5, 6}
  BY PublicLists, OperationsAre
<1>2. private \in Seq(PrivateOnes) /\ Len(private) \in {1, 5, 6}
  BY PrivateLists, OperationsAre
<1> HIDE DEF public, private
<1>3. \A i \in DOMAIN public : public[i] \in PublicOnes
  BY <1>1, ElementOfSeq, LenProperties
<1>4. \A i \in DOMAIN private : private[i] \in PrivateOnes
  BY <1>2, ElementOfSeq, LenProperties
<1>5. 1 \in DOMAIN public /\ 1 \in DOMAIN private
  BY <1>1, <1>2, LenProperties
<1>. QED
  BY <1>3, <1>4, <1>5 DEF ToSet, public, private

\* A request that has the names of its operation, none of them twice, leaves the
\* operation's circuit nothing to ask for.
LEMMA NamesSolve ==
  ASSUME NEW req \in RequestType, Accepted(req), req.public \cap req.private = {}
  PROVE  /\ Solvable(Mains[req.operation], Encode(req))
         /\ Len(Words(Mains[req.operation], Encode(req))) = Len(PublicNames(req.operation))
<1> DEFINE op == req.operation
           M == Mains[op]
<1>1. op \in Operations
  BY DEF RequestType
<1>2. M.public = Expectations[op].public /\ M.private = Expectations[op].private
  BY <1>1, TablesAgree
<1>3. ToSet(M.public) \cup ToSet(M.private) \subseteq req.public \cup req.private
  BY <1>2 DEF Accepted
<1>4. Solvable(M, Encode(req))
  BY <1>1, <1>3, LinesAre, MainsKept, SolvableIs
<1>5. Len(Words(M, Encode(req))) = WordCount(M)
  BY <1>1, MainsAre, WordsAre
<1>6. WordCount(M) = Len(PublicNames(op))
  BY <1>1, MainsAre, NamesAre
<1>. QED
  BY <1>4, <1>5, <1>6

\* The request comes as a record of its type.
LEMMA NamingInit ==
  ASSUME Init
  PROVE  NamingInv /\ answer = NoAnswer
<1> DEFINE Asked(op) == ToSet(Expectations[op].private) \cup ToSet(Expectations[op].public)
           Of(op, circuit, forgotten) ==
             /\ request = [operation |-> op, circuit |-> circuit,
                           public |-> ToSet(Expectations[op].public) \ forgotten,
                           private |-> ToSet(Expectations[op].private) \ forgotten,
                           extra |-> 0]
             /\ target = Mains[circuit]
             /\ pinned = Mains[circuit]
             /\ answer = NoAnswer
<1>0. PICK op \in Operations, circuit \in Operations :
        \E forgotten \in {{}} \cup {{n} : n \in Asked(op)} : Of(op, circuit, forgotten)
  BY DEF Init
<1>1. PICK forgotten \in {{}} \cup {{n} : n \in Asked(op)} : Of(op, circuit, forgotten)
  BY <1>0
<1>2. /\ ToSet(Expectations[op].public) \ forgotten \in SUBSET Names
      /\ ToSet(Expectations[op].private) \ forgotten \in SUBSET Names
  BY ListsHaveNames DEF Names
<1>3. 0 \in 0..MaxExtra
  BY NamingAssumption
<1>4. request \in RequestType
  BY <1>1, <1>2, <1>3 DEF RequestType
<1>5. target \in Interfaces(request.circuit) /\ pinned \in Interfaces(request.circuit)
  BY <1>1 DEF Interfaces
<1>. QED
  BY <1>1, <1>4, <1>5 DEF NamingInv, NoAnswer

\* An answer without outputs keeps the invariant.
LEMMA EndsWithout ==
  ASSUME NamingInv, NEW outcome \in {"invalid", "unsolved", "drifted"}, Answer(outcome, <<>>)
  PROVE  NamingInv'
<1>1. request' = request /\ target' = target /\ pinned' = pinned
  BY DEF Answer
<1>2. answer'.outcome = outcome /\ answer'.outputs = <<>>
  BY DEF Answer
<1>. QED
  BY <1>1, <1>2 DEF NamingInv

\* Every step of a request keeps the invariant.
LEMMA NamingStep ==
  ASSUME NamingInv,
         \/ \E name \in Extras : WithPublic(name) \/ WithPrivate(name)
         \/ Sources \/ Proving
  PROVE  NamingInv'
<1>1. ASSUME NEW name \in Extras, WithPublic(name)
      PROVE  NamingInv'
  <2>1. request' \in RequestType /\ request'.circuit = request.circuit
    <3>1. request' = [request EXCEPT !.public = @ \cup {name}, !.extra = @ + 1]
      BY <1>1 DEF WithPublic
    <3>2. request.extra + 1 \in 0..MaxExtra
      <4>1. request.extra \in 0..MaxExtra /\ request.extra < MaxExtra
        BY <1>1 DEF WithPublic, NamingInv, RequestType
      <4>. QED
        BY <4>1, NamingAssumption
    <3>3. request.public \cup {name} \in SUBSET Names
      BY DEF NamingInv, RequestType, Names
    <3>. QED
      BY <3>1, <3>2, <3>3 DEF NamingInv, RequestType
  <2>2. /\ target' = target /\ pinned' = pinned
        /\ answer' = answer /\ answer = NoAnswer
    BY <1>1 DEF WithPublic
  <2>. QED
    BY <2>1, <2>2 DEF NamingInv, NoAnswer
<1>2. ASSUME NEW name \in Extras, WithPrivate(name)
      PROVE  NamingInv'
  <2>1. request' \in RequestType /\ request'.circuit = request.circuit
    <3>1. request' = [request EXCEPT !.private = @ \cup {name}, !.extra = @ + 1]
      BY <1>2 DEF WithPrivate
    <3>2. request.extra + 1 \in 0..MaxExtra
      <4>1. request.extra \in 0..MaxExtra /\ request.extra < MaxExtra
        BY <1>2 DEF WithPrivate, NamingInv, RequestType
      <4>. QED
        BY <4>1, NamingAssumption
    <3>3. request.private \cup {name} \in SUBSET Names
      BY DEF NamingInv, RequestType, Names
    <3>. QED
      BY <3>1, <3>2, <3>3 DEF NamingInv, RequestType
  <2>2. /\ target' = target /\ pinned' = pinned
        /\ answer' = answer /\ answer = NoAnswer
    BY <1>2 DEF WithPrivate
  <2>. QED
    BY <2>1, <2>2 DEF NamingInv, NoAnswer
<1>3. CASE Sources
  <2>1. target' \in Interfaces(request.circuit) /\ pinned' \in Interfaces(request.circuit)
    <3>1. CASE Edit
      BY <3>1 DEF Edit, Interfaces, NamingInv
    <3>2. CASE Pin
      BY <3>2 DEF Pin, NamingInv
    <3>3. CASE TakeBack
      BY <3>3 DEF TakeBack, Interfaces, NamingInv
    <3>. QED
      BY <1>3, <3>1, <3>2, <3>3 DEF Sources
  <2>2. request' = request /\ answer' = answer /\ answer = NoAnswer
    BY <1>3 DEF Sources, Edit, Pin, TakeBack
  <2>. QED
    BY <2>1, <2>2 DEF NamingInv, NoAnswer
<1>4. CASE Refuse
  BY <1>4, EndsWithout DEF Refuse
<1>5. CASE SolveFails
  BY <1>5, EndsWithout DEF SolveFails
<1>6. /\ request.operation \in Operations /\ request.circuit \in Operations
      /\ pinned.public \in Seq(AnyName) /\ pinned.returns \in Nat
      /\ Len(PublicNames(request.operation)) = Count(request.operation)
  <2>1. request.operation \in Operations /\ request.circuit \in Operations
    BY DEF NamingInv, RequestType
  <2>. QED
    BY <2>1, InterfacesAre, NamesAre DEF NamingInv
<1>7. CASE Prove
  <2> DEFINE names == PublicNames(request.operation)
             words == Words(pinned, Encode(request))
  <2>1. Accepted(request) /\ Solvable(pinned, Encode(request))
    BY <1>7 DEF Prove, Fits, Solvable
  <2>2. CASE Answer("drifted", <<>>)
    BY <2>2, EndsWithout
  <2>3. CASE Len(words) = Len(names) /\ Respond(Named(names, words))
    <3>1. WordCount(pinned) = Count(request.operation)
      BY <1>6, <2>3, WordsAre
    <3>2. /\ request' = request /\ target' = target /\ pinned' = pinned
          /\ answer'.outcome \in {"notVerified", "released"}
          /\ answer'.outputs = Named(names, words)
      BY <2>3 DEF Respond, Answer
    <3>3. Responded'
      BY <2>1, <3>1, <3>2 DEF Responded
    <3>. QED
      BY <3>2, <3>3 DEF NamingInv
  <2>. QED
    BY <1>7, <2>2, <2>3 DEF Prove
<1>8. CASE ProveElsewhere
  <2> DEFINE names == PublicNames(request.operation)
             words == WordsByPlace(Encode(request))
  <2>1. CASE Answer("drifted", <<>>)
    BY <2>1, EndsWithout
  <2>2. CASE Len(words) = Len(names) /\ Answer("notVerified", Named(names, words))
    <3>1. DOMAIN words = 1..Len(names)
      <4>1. DOMAIN words = 1..Len(pinned.public) + pinned.returns
        BY DEF WordsByPlace
      <4>2. Len(pinned.public) + pinned.returns \in Nat
        BY <1>6, LenProperties
      <4>3. Len(words) = Len(pinned.public) + pinned.returns
        BY <4>1, <4>2
      <4>. QED
        BY <2>2, <4>1, <4>3
    <3>2. names \in Seq(PublicOnes \cup Returned) /\ Distinct(names)
      BY <1>6, NamesAre
    <3>3. DOMAIN Named(names, words) = ToSet(names)
      BY <3>1, <3>2, NamedAre
    <3>4. /\ request' = request /\ target' = target /\ pinned' = pinned
          /\ answer'.outcome = "notVerified"
          /\ answer'.outputs = Named(names, words)
      BY <2>2 DEF Answer
    <3>5. target # pinned
      BY <1>8 DEF ProveElsewhere
    <3>6. Misread'
      BY <3>3, <3>4, <3>5 DEF Misread
    <3>. QED
      BY <3>4, <3>6 DEF NamingInv
  <2>. QED
    BY <1>8, <2>1, <2>2 DEF ProveElsewhere
<1>. QED
  BY <1>1, <1>2, <1>3, <1>4, <1>5, <1>7, <1>8 DEF Proving

-----------------------------------------------------------------------------
(* What follows of a request and its answer *)

\* What a response says: the words at the places of the names.
LEMMA ResponseSays ==
  ASSUME NamingInv, Responded
  PROVE  LET op == request.operation
             toml == Encode(request)
             names == PublicNames(op)
         IN  /\ op \in Operations /\ request.circuit \in Operations
             /\ Kept(pinned, request.circuit) /\ Count(request.circuit) = Count(op)
             /\ DOMAIN answer.outputs = ToSet(names)
             /\ \A i \in 1..Len(pinned.public) :
                  i \in 1..Count(op) /\ answer.outputs[names[i]] = ValueOf(toml, pinned.public[i])
             /\ \A i \in 1..pinned.returns :
                  /\ Len(pinned.public) + i \in 1..Count(op)
                  /\ answer.outputs[names[Len(pinned.public) + i]] = Return(i)
<1> DEFINE op == request.operation
           toml == Encode(request)
           names == PublicNames(op)
           words == Words(pinned, toml)
<1>1. op \in Operations /\ request.circuit \in Operations
  BY DEF NamingInv, RequestType
<1>2. /\ pinned \in Interfaces(request.circuit) /\ WordCount(pinned) = Count(op)
      /\ pinned.public \in Seq(AnyName) /\ pinned.returns \in Nat
  BY <1>1, InterfacesAre DEF NamingInv, Responded
<1>3. Kept(pinned, request.circuit) /\ Count(request.circuit) = Count(op)
  BY <1>1, <1>2, MatchingCounts
<1>4. /\ DOMAIN words = 1..Count(op)
      /\ \A i \in 1..Len(pinned.public) : words[i] = ValueOf(toml, pinned.public[i])
      /\ \A i \in 1..pinned.returns : words[Len(pinned.public) + i] = Return(i)
  BY <1>2, WordsAre
<1>5. /\ names \in Seq(PublicOnes \cup Returned) /\ Len(names) = Count(op) /\ Distinct(names)
  BY <1>1, NamesAre
<1>6. /\ DOMAIN answer.outputs = ToSet(names)
      /\ \A i \in 1..Count(op) : answer.outputs[names[i]] = words[i]
  BY <1>4, <1>5, NamedAre DEF Responded
<1>7. /\ \A i \in 1..Len(pinned.public) : i \in 1..Count(op)
      /\ \A i \in 1..pinned.returns : Len(pinned.public) + i \in 1..Count(op)
  <2>1. Len(pinned.public) \in Nat /\ pinned.returns \in Nat
        /\ Count(op) = Len(pinned.public) + pinned.returns
    BY <1>2, LenProperties DEF WordCount
  <2>. QED
    BY <2>1
<1>. QED
  BY <1>1, <1>3, <1>4, <1>6, <1>7

LEMMA TypesFollow ==
  ASSUME NamingInv
  PROVE  TypeOK
<1>1. /\ request.operation \in Operations /\ request.circuit \in Operations
      /\ request.extra \in 0..MaxExtra
      /\ answer.outcome \in {"none", "invalid", "unsolved", "drifted", "notVerified", "released"}
  BY DEF NamingInv, RequestType, Misread
<1>2. DOMAIN answer.outputs \in {{}, ToSet(PublicNames(request.operation))}
  <2>1. CASE answer.outputs = <<>>
    BY <2>1
  <2>2. CASE Responded
    BY <2>2, ResponseSays
  <2>3. CASE Misread
    BY <2>3 DEF Misread
  <2>. QED
    BY <2>1, <2>2, <2>3 DEF NamingInv
<1>. QED
  BY <1>1, <1>2 DEF TypeOK

\* A word is a private value only if its parameter has a private name, and the
\* parameters of a matching circuit are public names of the table, or fresh.
LEMMA SecretsFollow ==
  ASSUME NamingInv
  PROVE  SecretsStayPrivate
<1> DEFINE op == request.operation
           toml == Encode(request)
           names == PublicNames(op)
           secrets == ToSet(Expectations[op].private)
<1>1. CASE answer.outputs = <<>>
  BY <1>1 DEF SecretsStayPrivate
<1>2. CASE Responded
  <2> SUFFICES ASSUME NEW n \in DOMAIN answer.outputs, NEW secret \in secrets
               PROVE  answer.outputs[n] # Secret(secret)
    BY DEF SecretsStayPrivate
  <2>1. /\ op \in Operations /\ request.circuit \in Operations
        /\ Kept(pinned, request.circuit)
        /\ DOMAIN answer.outputs = ToSet(names)
        /\ \A i \in 1..Len(pinned.public) :
             answer.outputs[names[i]] = ValueOf(toml, pinned.public[i])
        /\ \A i \in 1..pinned.returns :
             answer.outputs[names[Len(pinned.public) + i]] = Return(i)
    BY <1>2, ResponseSays
  <2>2. names \in Seq(PublicOnes \cup Returned) /\ Len(names) = Count(op)
    BY <2>1, NamesAre
  <2>3. PICK k \in 1..Count(op) : n = names[k]
    <3>1. DOMAIN names = 1..Count(op)
      BY <2>2, LenProperties
    <3>. QED
      BY <2>1, <3>1 DEF ToSet
  <2>4. /\ pinned.public \in Seq(PublicOnes \cup {Fresh}) /\ pinned.returns \in Nat
        /\ Len(pinned.public) \in Nat /\ Count(op) = Len(pinned.public) + pinned.returns
    <3>1. pinned.public \in Seq(PublicOnes \cup {Fresh}) /\ pinned.returns \in Nat
      BY <2>1, ReturnLists, LenProperties DEF Kept
    <3>2. Count(op) = WordCount(pinned)
      BY <1>2 DEF Responded
    <3>. QED
      BY <3>1, <3>2, LenProperties DEF WordCount
  <2>5. CASE k \in 1..Len(pinned.public)
    <3> DEFINE p == pinned.public[k]
    <3>1. p \in PublicOnes \cup {Fresh}
      BY <2>4, <2>5, ElementOfSeq
    <3>2. secret \in PrivateOnes /\ secret # Fresh
      BY <2>1, ListsHaveNames, NamingAssumption
    <3>3. p # secret
      BY <3>1, <3>2, SidesApart
    <3>4. answer.outputs[n] \in {Public(p), Secret(p)}
      <4>1. answer.outputs[n] = ValueOf(toml, p)
        BY <2>1, <2>3, <2>5
      <4>2. p \in request.public \cup request.private
        <5>1. p \in ToSet(pinned.public)
          BY <2>4, <2>5, LenProperties DEF ToSet
        <5>. QED
          BY <1>2, <2>1, <5>1, LinesAre, SolvableIs DEF Responded
      <4>3. Readable(toml)
        BY <1>2 DEF Responded, Solvable
      <4>. QED
        BY <4>1, <4>2, <4>3, LinesAre
    <3>. QED
      BY <3>3, <3>4, ValuesApart
  <2>6. CASE k \notin 1..Len(pinned.public)
    <3>1. k - Len(pinned.public) \in 1..pinned.returns /\ Len(pinned.public) + (k - Len(pinned.public)) = k
      BY <2>3, <2>4, <2>6
    <3>2. answer.outputs[n] = Return(k - Len(pinned.public))
      BY <2>1, <2>3, <3>1
    <3>. QED
      BY <3>2, ValuesApart
  <2>. QED
    BY <2>5, <2>6
<1>3. CASE Misread
  BY <1>3 DEF Misread, SecretsStayPrivate
<1>. QED
  BY <1>1, <1>2, <1>3 DEF NamingInv

\* The expectations say what the circuits declare, and the sides are apart.
LEMMA PreparedFollows ==
  ASSUME NamingInv
  PROVE  PreparedSolves
<1> DEFINE op == request.operation
           toml == Encode(request)
           pub == ToSet(Expectations[op].public)
           priv == ToSet(Expectations[op].private)
<1> DEFINE main == Mains[request.circuit]
<1> SUFFICES ASSUME request.circuit = op, target = main, pinned = main
             PROVE  /\ Assembles(request) \/ (Accepted(request) /\ Validates(request)) =>
                         /\ Accepted(request) /\ Solvable(target, toml)
                         /\ Len(Words(pinned, toml)) = Len(PublicNames(op))
                    /\ Solvable(target, toml) /\ ~Accepted(request) =>
                         \/ request.private \cap ToSet(main.public) # {}
                         \/ request.public \cap ToSet(main.private) # {}
  BY DEF PreparedSolves
<1>1. op \in Operations /\ request \in RequestType
  BY DEF NamingInv, RequestType
<1>2. ToSet(main.public) = pub /\ ToSet(main.private) = priv
  BY <1>1, TablesAgree
<1>3. pub # {} /\ priv # {}
  BY <1>1, ListsHaveNames
<1>4. ASSUME Assembles(request) \/ (Accepted(request) /\ Validates(request))
      PROVE  /\ Accepted(request) /\ Solvable(target, toml)
             /\ Len(Words(pinned, toml)) = Len(PublicNames(op))
  <2>1. Accepted(request) /\ request.public \cap request.private = {}
    BY <1>3, <1>4 DEF Assembles, Accepted, Validates
  <2>. QED
    BY <1>1, <2>1, NamesSolve
<1>5. ASSUME Solvable(target, toml), ~Accepted(request)
      PROVE  \/ request.private \cap ToSet(main.public) # {}
             \/ request.public \cap ToSet(main.private) # {}
  <2>1. pub \cup priv \subseteq request.public \cup request.private
    BY <1>1, <1>2, <1>5, LinesAre, MainsKept, SolvableIs
  <2>2. ~(priv \subseteq request.private /\ pub \subseteq request.public)
    BY <1>3, <1>5 DEF Accepted
  <2>. QED
    BY <1>2, <2>1, <2>2
<1>. QED
  BY <1>4, <1>5

\* A list in another order has the same members.
LEMMA SwappedIs ==
  ASSUME NEW S, NEW s \in Seq(S), NEW i \in 1..Len(s), NEW j \in 1..Len(s)
  PROVE  /\ DOMAIN Swapped(s, i, j) = 1..Len(s)
         /\ Swapped(s, i, j)[i] = s[j] /\ Swapped(s, i, j)[j] = s[i]
         /\ \A k \in 1..Len(s) \ {i, j} : Swapped(s, i, j)[k] = s[k]
         /\ ToSet(Swapped(s, i, j)) = ToSet(s)
<1> DEFINE t == Swapped(s, i, j)
<1>1. DOMAIN s = 1..Len(s)
  BY LenProperties
<1>2. DOMAIN t = 1..Len(s)
  BY <1>1 DEF Swapped
<1>3. /\ t[i] = s[j] /\ t[j] = s[i]
      /\ \A k \in 1..Len(s) \ {i, j} : t[k] = s[k]
  BY <1>1 DEF Swapped
<1> HIDE DEF t
<1>4. \A k \in 1..Len(s) : \E l \in 1..Len(s) : t[k] = s[l]
  BY <1>3
<1>5. \A k \in 1..Len(s) : \E l \in 1..Len(s) : s[k] = t[l]
  BY <1>3
<1>6. ToSet(t) = ToSet(s)
  <2>1. ToSet(t) = {t[k] : k \in 1..Len(s)} /\ ToSet(s) = {s[k] : k \in 1..Len(s)}
    BY <1>1, <1>2 DEF ToSet
  <2>2. ToSet(t) \subseteq ToSet(s)
    BY <2>1, <1>4
  <2>3. ToSet(s) \subseteq ToSet(t)
    BY <2>1, <1>5
  <2>. QED
    BY <2>2, <2>3
<1>. QED
  BY <1>2, <1>3, <1>6 DEF t

\* A matching circuit that asks for no more than the operation's names is the
\* operation's, without a fresh name.  So the words stand at the places of their
\* names, or two of them in each other's.
LEMMA NamesFollow ==
  ASSUME NamingInv
  PROVE  NamedAsRequested
<1> DEFINE op == request.operation
           toml == Encode(request)
           names == PublicNames(op)
           public == Expectations[op].public
           returns == Expectations[op].returns
           p == Len(public)
           Gives(n, value) == n \in DOMAIN answer.outputs /\ answer.outputs[n] = value
           Wrong == {n \in ToSet(public) : ~Gives(n, Public(n))}
<1> SUFFICES ASSUME answer.outcome = "released", request.public = ToSet(public),
                    request.private = ToSet(Expectations[op].private)
             PROVE  /\ \/ Wrong = {}
                       \/ /\ Reordered(pinned, Mains[request.circuit])
                          /\ \E n, k \in Wrong :
                               Wrong = {n, k} /\ Gives(n, Public(k)) /\ Gives(k, Public(n))
                    /\ \A i \in DOMAIN returns : Gives(returns[i], Return(i))
                    /\ request.circuit = op
  BY DEF NamedAsRequested
<1>1. Responded
  BY DEF NamingInv, Misread
<1>2. /\ op \in Operations /\ request.circuit \in Operations
      /\ Kept(pinned, request.circuit) /\ Count(request.circuit) = Count(op)
      /\ DOMAIN answer.outputs = ToSet(names)
      /\ \A i \in 1..Len(pinned.public) :
           i \in 1..Count(op) /\ answer.outputs[names[i]] = ValueOf(toml, pinned.public[i])
      /\ \A i \in 1..pinned.returns :
           /\ Len(pinned.public) + i \in 1..Count(op)
           /\ answer.outputs[names[Len(pinned.public) + i]] = Return(i)
  BY <1>1, ResponseSays
<1>3. /\ Readable(toml)
      /\ ToSet(pinned.public) \cup ToSet(pinned.private)
           \subseteq ToSet(public) \cup ToSet(Expectations[op].private)
  BY <1>1, <1>2, LinesAre, SolvableIs DEF Responded
<1>4. request.circuit = op
  <2>1. pinned.private = Mains[request.circuit].private
    BY <1>2, TablesAgree DEF Kept
  <2>. QED
    BY <1>2, <1>3, <2>1, NoOtherCircuit
<1>5. /\ public \in Seq(PublicOnes) /\ returns \in Seq(Returned)
      /\ DOMAIN public = 1..p /\ DOMAIN returns = 1..Len(returns)
      /\ Distinct(public)
  BY <1>2, PublicLists, ReturnLists, LenProperties, NamesDiffer
<1>6. /\ Len(pinned.public) = p /\ pinned.returns = Len(returns)
      /\ pinned.public \in Seq(PublicOnes \cup {Fresh})
  BY <1>2, <1>4 DEF Kept
<1>7. /\ names \in Seq(PublicOnes \cup Returned)
      /\ DOMAIN names = 1..Count(op)
      /\ \A i \in 1..p : names[i] = public[i]
      /\ \A i \in 1..Len(returns) : names[p + i] = returns[i]
  BY <1>2, NamesAre, LenProperties
<1>8. \A i \in DOMAIN returns : Gives(returns[i], Return(i))
  <2> SUFFICES ASSUME NEW i \in 1..Len(returns)
               PROVE  Gives(returns[i], Return(i))
    BY <1>5
  <2>1. p + i \in 1..Count(op) /\ answer.outputs[names[p + i]] = Return(i)
    BY <1>2, <1>6
  <2>2. names[p + i] = returns[i]
    BY <1>7
  <2>3. returns[i] \in ToSet(names)
    BY <1>7, <2>1, <2>2 DEF ToSet
  <2>. QED
    BY <1>2, <2>1, <2>2, <2>3
\* What is given under a public name is the value of the parameter at its place.
<1>9. \A i \in 1..p : Gives(public[i], Public(pinned.public[i]))
  <2> SUFFICES ASSUME NEW i \in 1..p
               PROVE  Gives(public[i], Public(pinned.public[i]))
    OBVIOUS
  <2>1. i \in 1..Count(op) /\ answer.outputs[public[i]] = ValueOf(toml, pinned.public[i])
    BY <1>2, <1>6, <1>7
  <2>2. public[i] \in DOMAIN answer.outputs
    BY <1>2, <1>7, <2>1 DEF ToSet
  <2>3. pinned.public[i] \in ToSet(public)
    <3>1. pinned.public[i] \in ToSet(pinned.public)
      BY <1>6, LenProperties DEF ToSet
    <3>2. pinned.public[i] \notin ToSet(Expectations[op].private)
      <4>1. pinned.public[i] \in PublicOnes \cup {Fresh}
        BY <1>6, ElementOfSeq
      <4>2. ToSet(Expectations[op].private) \subseteq PrivateOnes
        BY <1>2, ListsHaveNames
      <4>3. Fresh \notin ToSet(Expectations[op].private)
        BY <1>2, NamingAssumption
      <4>. QED
        BY <4>1, <4>2, <4>3, SidesApart
    <3>. QED
      BY <1>3, <3>1, <3>2
  <2>4. ValueOf(toml, pinned.public[i]) = Public(pinned.public[i])
    BY <1>3, <2>3, LinesAre
  <2>. QED
    BY <2>1, <2>2, <2>4
<1>10. CASE pinned.public = public
  <2>1. Wrong = {}
    BY <1>5, <1>9, <1>10 DEF ToSet
  <2>. QED
    BY <1>4, <1>8, <2>1
<1>11. ASSUME NEW i \in 1..p, pinned.public[i] = Fresh
       PROVE  FALSE
  <2>1. Fresh \in ToSet(pinned.public)
    BY <1>6, <1>11, LenProperties DEF ToSet
  <2>. QED
    BY <1>2, <1>3, <2>1, NamingAssumption
<1>12. ASSUME NEW i \in 1..p, NEW j \in 1..p, pinned.public = Swapped(public, i, j),
              pinned.public # public
       PROVE  /\ Reordered(pinned, Mains[request.circuit])
              /\ \E n, k \in Wrong :
                   Wrong = {n, k} /\ Gives(n, Public(k)) /\ Gives(k, Public(n))
  <2>1. /\ pinned.public[i] = public[j] /\ pinned.public[j] = public[i]
        /\ \A k \in 1..p \ {i, j} : pinned.public[k] = public[k]
        /\ ToSet(pinned.public) = ToSet(public)
    BY <1>5, <1>12, SwappedIs
  <2>2. Reordered(pinned, Mains[request.circuit])
    BY <1>2, <1>4, <1>6, <1>12, <2>1, TablesAgree DEF Reordered
  <2>3. public[i] # public[j]
    <3>1. ASSUME public[i] = public[j]
          PROVE  pinned.public = public
      <4>1. \A k \in 1..p : pinned.public[k] = public[k]
        BY <2>1, <3>1
      <4>2. DOMAIN pinned.public = 1..p
        BY <1>6, LenProperties
      <4>. QED
        BY <1>5, <1>6, <4>1, <4>2, SeqEqual
    <3>. QED
      BY <1>12, <3>1
  <2>4. Gives(public[i], Public(public[j])) /\ Gives(public[j], Public(public[i]))
    BY <1>9, <2>1
  <2>5. public[i] \in Wrong /\ public[j] \in Wrong
    BY <1>5, <2>3, <2>4, ValuesApart DEF ToSet
  <2>6. \A n \in Wrong : n \in {public[i], public[j]}
    <3> SUFFICES ASSUME NEW k \in 1..p, k \notin {i, j}
                 PROVE  public[k] \notin Wrong
      BY <1>5 DEF ToSet
    <3>. QED
      BY <1>9, <2>1
  <2>. QED
    BY <2>2, <2>4, <2>5, <2>6
<1>13. \/ pinned.public = public
       \/ \E i \in 1..p : pinned.public[i] = Fresh
       \/ \E i, j \in 1..p : pinned.public = Swapped(public, i, j)
  BY <1>2, <1>4 DEF Kept
<1>. QED
  BY <1>4, <1>8, <1>10, <1>11, <1>12, <1>13

-----------------------------------------------------------------------------
(* Vectors *)

LEMMA SoundVectorsAre ==
  ASSUME NEW op \in Operations
  PROVE  SoundVector(op) \in Vectors
<1>1. ToSet(Expectations[op].public) \subseteq Names /\ ToSet(Expectations[op].private) \subseteq Names
  BY ListsHaveNames DEF Names
<1>2. "valid" \in KnownCategories
  BY DEF KnownCategories
<1>3. (Expectations[op].returns # <<>>) \in BOOLEAN
  OBVIOUS
<1>4. (IF op \in StateBound THEN "agrees" ELSE "none") \in {"none", "agrees", "differs"}
  OBVIOUS
<1>. QED
  BY <1>1, <1>2, <1>3, <1>4 DEF SoundVector, Vectors

\* A vector with a mistake is still a vector: the author keeps to the schema.
LEMMA SlipsAre ==
  ASSUME NEW v \in Vectors, NEW w \in Slips(v)
  PROVE  w \in Vectors
<1>1. CASE w \in {[v EXCEPT !.category = c] : c \in {"invalid", "commitment", "unheard-of"}}
  <2>1. {"invalid", "commitment", "unheard-of"} \subseteq KnownCategories \cup {"unheard-of"}
    BY DEF KnownCategories, RejectCategories
  <2>2. PICK c \in KnownCategories \cup {"unheard-of"} : w = [v EXCEPT !.category = c]
    BY <1>1, <2>1
  <2>. QED
    BY <2>2 DEF Vectors
<1>2. CASE w \in {[v EXCEPT !.circuit = op] : op \in Operations}
  BY <1>2 DEF Vectors
<1>3. CASE w \in {[v EXCEPT !.witnessOperation = op] : op \in Operations}
  BY <1>3 DEF Vectors
<1>4. CASE w \in {[v EXCEPT !.expect = ~@], [v EXCEPT !.canonical = FALSE],
                   [v EXCEPT !.outputs = ~@]}
  BY <1>4 DEF Vectors
<1>5. ASSUME NEW names \in SUBSET Names, w = [v EXCEPT !.private = names]
      PROVE  w \in Vectors
  BY <1>5 DEF Vectors
<1>6. ASSUME NEW names \in SUBSET Names, w = [v EXCEPT !.public = names]
      PROVE  w \in Vectors
  BY <1>6 DEF Vectors
<1>7. CASE w \in {[v EXCEPT !.state = s] : s \in {"none", "agrees", "differs"}}
  BY <1>7 DEF Vectors
<1>8. v.private \in SUBSET Names /\ v.public \in SUBSET Names
  BY DEF Vectors
<1>9. Extras \cup {Illegal} \cup {"root_hi", "root_lo"} \subseteq Names
  BY DEF Names, PublicOnes
<1>10. CASE w \in {[v EXCEPT !.private = names] :
                     names \in {{}} \cup {v.private \ {n} : n \in v.private}
                                   \cup {v.private \cup {n} : n \in Extras \cup {Illegal}}}
  <2>1. PICK names \in {{}} \cup {v.private \ {n} : n \in v.private}
                           \cup {v.private \cup {n} : n \in Extras \cup {Illegal}} :
          w = [v EXCEPT !.private = names]
    BY <1>10
  <2>2. names \in SUBSET Names
    BY <1>8, <1>9, <2>1
  <2>. QED
    BY <1>5, <2>1, <2>2
<1>11. CASE w \in {[v EXCEPT !.public = names] :
                     names \in {{}} \cup {v.public \ {n} : n \in v.public}
                                   \cup {v.public \cup {n} : n \in Extras}
                                   \cup {v.public \cup {"root_hi", "root_lo"}}}
  <2>1. PICK names \in {{}} \cup {v.public \ {n} : n \in v.public}
                           \cup {v.public \cup {n} : n \in Extras}
                           \cup {v.public \cup {"root_hi", "root_lo"}} :
          w = [v EXCEPT !.public = names]
    BY <1>11
  <2>2. names \in SUBSET Names
    BY <1>8, <1>9, <2>1
  <2>. QED
    BY <1>6, <2>1, <2>2
<1>. QED
  BY <1>1, <1>2, <1>3, <1>4, <1>7, <1>10, <1>11 DEF Slips

LEMMA RequestsAre ==
  ASSUME NEW v \in Vectors
  PROVE  /\ ToRequest(v) \in RequestType
         /\ ToRequest(v).circuit = v.circuit /\ v.circuit \in Operations
<1>1. 0 \in 0..MaxExtra
  BY NamingAssumption
<1>. QED
  BY <1>1 DEF ToRequest, Vectors, RequestType

LEMMA VectorInitially ==
  ASSUME VectorInit
  PROVE  VectorInv
<1>1. NamingInv /\ answer = NoAnswer
  BY NamingInit DEF VectorInit
<1>2. request.operation \in Operations
  BY <1>1 DEF NamingInv, RequestType
<1>3. CASE vector = NoVector /\ stage = "request"
  BY <1>1, <1>3 DEF VectorInv
<1>4. CASE vector = SoundVector(request.operation) /\ stage = "file"
  BY <1>1, <1>2, <1>4, SoundVectorsAre DEF VectorInv
<1>. QED
  BY <1>3, <1>4 DEF VectorInit

\* The stages at which nothing is known of the vector.
LEMMA EndsKeep ==
  ASSUME VectorInv, stage = "file",
         NEW how \in {"unloadable", "otherOperation", "panicked", "nothingSelected", "failed",
                     "othersGreen", "rejecting"},
         End(how)
  PROVE  VectorInv'
<1>1. stage' = how /\ UNCHANGED <<request, target, pinned, answer, vector>>
  BY DEF End
<1>2. NamingInv'
  BY <1>1 DEF VectorInv, NamingInv, Responded, Misread
<1>3. vector' \in Vectors \cup {NoVector}
  BY <1>1 DEF VectorInv
<1>. QED
  BY <1>1, <1>2, <1>3 DEF VectorInv

\* A command that goes on with the vector's request.
LEMMA RequestsKeep ==
  ASSUME VectorInv, stage = "file", Loads(vector),
         NEW how \in {"malformed", "built", "green", "mockProven", "request"},
         how = "malformed" => ~RequestValidates(vector),
         how \in {"built", "green", "mockProven"} => RequestValidates(vector),
         how \in {"green", "mockProven"} => Green(vector),
         Requests(how)
  PROVE  VectorInv'
<1>1. vector \in Vectors /\ answer = NoAnswer
  BY DEF VectorInv
<1>2. /\ stage' = how /\ request' = ToRequest(vector)
      /\ target' = Mains[vector.circuit] /\ pinned' = Mains[vector.circuit]
      /\ answer' = answer /\ vector' = vector
  BY DEF Requests
<1>3. NamingInv'
  <2>1. /\ request' \in RequestType
        /\ target' \in Interfaces(request'.circuit) /\ pinned' \in Interfaces(request'.circuit)
    BY <1>1, <1>2, RequestsAre DEF Interfaces
  <2>2. answer'.outcome = "none" /\ answer'.outputs = <<>>
    BY <1>1, <1>2 DEF NoAnswer
  <2>. QED
    BY <2>1, <2>2 DEF NamingInv
<1>4. /\ Loads(vector') /\ (how = "malformed" => ~RequestValidates(vector'))
      /\ (how \in {"built", "green", "mockProven"} => RequestValidates(vector'))
      /\ (how \in {"green", "mockProven"} => Green(vector'))
  BY <1>2
<1>. QED
  BY <1>1, <1>2, <1>3, <1>4 DEF VectorInv

LEMMA VectorStep ==
  ASSUME VectorInv, VectorNext
  PROVE  VectorInv'
<1>1. CASE Slip
  <2>1. stage = "file" /\ stage' = stage /\ UNCHANGED <<request, target, pinned, answer>>
    BY <1>1 DEF Slip
  <2>2. vector' \in Vectors /\ answer' = NoAnswer
    BY <1>1, <2>1, SlipsAre DEF Slip, VectorInv
  <2>3. NamingInv'
    BY <2>1 DEF VectorInv, NamingInv, Responded, Misread
  <2>. QED
    BY <2>1, <2>2, <2>3 DEF VectorInv
<1>2. CASE Commands
  <2>1. CASE Unloadable
    BY <2>1, EndsKeep DEF Unloadable
  <2>2. CASE OtherOperation
    BY <2>2, EndsKeep DEF OtherOperation
  <2>3. CASE ToRequestPanics
    BY <2>3, EndsKeep DEF ToRequestPanics
  <2>4. CASE Malformed
    BY <2>4, RequestsKeep DEF Malformed, Begins
  <2>5. CASE BuildWitness
    BY <2>5, RequestsKeep DEF BuildWitness, Begins
  <2>6. ASSUME NEW others \in Catalogs, Judge(others)
        PROVE  VectorInv'
    <3>1. stage = "file"
      BY <2>6 DEF Judge
    <3>2. \/ \E how \in {"unloadable", "nothingSelected", "panicked", "othersGreen", "failed"} :
                End(how)
          \/ /\ Loads(vector) /\ Green(vector)
             /\ Requests("green")
      BY <2>6 DEF Judge
    <3>3. Green(vector) => RequestValidates(vector)
      BY DEF Green
    <3>. QED
      BY <3>1, <3>2, <3>3, EndsKeep, RequestsKeep
  <2>7. CASE Rejecting
    BY <2>7, EndsKeep DEF Rejecting
  <2>8. CASE ProveMock
    <3>1. CASE Green(vector)
      BY <2>8, <3>1, RequestsKeep DEF ProveMock, Begins, Green
    <3>2. CASE ~Green(vector)
      BY <2>8, <3>2, EndsKeep DEF ProveMock, Begins
    <3>. QED
      BY <3>1, <3>2
  <2>9. CASE ProveUltraHonk
    <3>1. CASE RequestValidates(vector)
      BY <2>9, <3>1, RequestsKeep DEF ProveUltraHonk, Begins
    <3>2. CASE ~RequestValidates(vector)
      BY <2>9, <3>2, EndsKeep DEF ProveUltraHonk, Begins
    <3>. QED
      BY <3>1, <3>2
  <2>. QED
    BY <1>2, <2>1, <2>2, <2>3, <2>4, <2>5, <2>6, <2>7, <2>8, <2>9 DEF Commands
<1>3. CASE Request
  <2>1. stage = "request" /\ UNCHANGED <<vector, stage>>
    BY <1>3 DEF Request
  <2>2. NamingInv'
    BY <1>3, NamingStep DEF Request, VectorInv
  <2>. QED
    BY <2>1, <2>2 DEF VectorInv
<1>. QED
  BY <1>1, <1>2, <1>3 DEF VectorNext

\* What the loader checks leaves two reasons for the request itself to be refused,
\* both of operations that no state is needed for.  The first of them is a missing
\* name, and what else the preflight asks for is that no name is missing.
LEMMA LoadedFollows ==
  ASSUME VectorInv
  PROVE  LoadedVectorsRun
<1> DEFINE Unbound(v) ==
             /\ v.operation \notin StateBound
             /\ v.state = "differs" /\ {"root_hi", "root_lo"} \subseteq v.public
<1>1. ASSUME NEW v \in Vectors, Loads(v), ~RequestValidates(v)
      PROVE  v.operation \notin StateBound /\ (v.public = {} \/ Unbound(v))
  <2>1. v.state \in {"none", "agrees", "differs"}
    BY DEF Vectors
  <2>2. v.private # {}
    BY <1>1 DEF Loads, ValidatesStructure
  <2>3. v.operation \in StateBound => v.state = "agrees" /\ {"root_hi", "root_lo"} \subseteq v.public
    BY <1>1 DEF Loads, ValidatesStructure
  <2>. QED
    BY <1>1, <2>1, <2>2, <2>3 DEF RequestValidates
<1>2. vector # NoVector => vector \in Vectors
  BY DEF VectorInv
<1>3. ASSUME NEW v \in Vectors, Loads(v), HasNames(v), ~Unbound(v)
      PROVE  Green(v)
  <2>1. v.operation \in Operations
    BY DEF Vectors
  <2>2. v.public # {} /\ v.private # {}
    BY <1>3, <2>1, ListsHaveNames DEF HasNames
  <2>3. RequestValidates(v)
    BY <1>1, <1>3, <2>2
  <2>4. Accepted(ToRequest(v))
    BY <1>3, <2>2 DEF HasNames, Accepted, ToRequest
  <2>. QED
    BY <2>3, <2>4 DEF Green
<1>4. ASSUME stage = "malformed"
      PROVE  vector.operation \notin StateBound /\ (vector.public = {} \/ Unbound(vector))
  BY <1>1, <1>4 DEF VectorInv
<1>5. ASSUME stage = "built"
      PROVE  /\ Readable(Encode(request))
             /\ vector.operation \in StateBound =>
                  {"root_hi", "root_lo"} \subseteq request.public /\ vector.state = "agrees"
  <2>1. Loads(vector) /\ request = ToRequest(vector)
    BY <1>5 DEF VectorInv
  <2>2. request.public = vector.public /\ request.private = vector.private
    BY <2>1 DEF ToRequest
  <2>3. vector.public \cap vector.private = {}
    BY <2>1 DEF Loads, ValidatesStructure
  <2>4. Readable(Encode(request))
    BY <2>2, <2>3, LinesAre
  <2>. QED
    BY <2>1, <2>2, <2>4 DEF Loads, ValidatesStructure
<1>. QED
  BY <1>2, <1>3, <1>4, <1>5 DEF LoadedVectorsRun

\* The mock asks for the names of the operation, the loader that no name is on both
\* sides and that the circuit is the operation's.
LEMMA GreenFollows ==
  ASSUME VectorInv
  PROVE  GreenVectorsSolve
<1> SUFFICES ASSUME stage \in {"green", "mockProven"}
             PROVE  /\ Solvable(target, Encode(request))
                    /\ Len(Words(pinned, Encode(request))) = Len(PublicNames(request.operation))
  BY DEF GreenVectorsSolve
<1>1. /\ Loads(vector) /\ Green(vector) /\ request = ToRequest(vector)
      /\ target = Mains[vector.circuit] /\ pinned = Mains[vector.circuit]
  BY DEF VectorInv
<1>2. Accepted(request)
  BY <1>1 DEF Green
<1>3. /\ vector.circuit = vector.operation /\ vector.public \cap vector.private = {}
  BY <1>1 DEF Loads, ValidatesStructure
<1>4. /\ request.public \cap request.private = {} 
      /\ target = Mains[request.operation] /\ pinned = Mains[request.operation]
  BY <1>1, <1>3 DEF ToRequest
<1>5. request \in RequestType
  BY DEF VectorInv, NamingInv
<1>. QED
  BY <1>2, <1>4, <1>5, NamesSolve

-----------------------------------------------------------------------------
(* Theorems *)

\* The inductive invariant holds of every behaviour.
LEMMA VectorInvariant == VectorSpec => []VectorInv
<1>1. VectorInit => VectorInv
  BY VectorInitially
<1>2. VectorInv /\ [VectorNext]_vectorVars => VectorInv'
  <2>1. VectorInv /\ VectorNext => VectorInv'
    BY VectorStep
  <2>2. VectorInv /\ UNCHANGED vectorVars => VectorInv'
    BY DEF VectorInv, NamingInv, Responded, Misread, vectorVars
  <2>. QED
    BY <2>1, <2>2
<1>. QED
  BY <1>1, <1>2, PTL DEF VectorSpec

\* The variables keep their types, and a response has outputs for all the names of
\* its operation or for none, for requests from callers and from vectors.
THEOREM NamingTypes == VectorSpec => []TypeOK
<1>1. VectorInv => TypeOK
  BY TypesFollow DEF VectorInv
<1>. QED
  BY <1>1, VectorInvariant, PTL

\* A verified response to a request with exactly its operation's names names the
\* words as the request named the values, but for two public parameters that an
\* edit of the circuit exchanged.
THEOREM OutputsNamedAsRequested == VectorSpec => []NamedAsRequested
<1>1. VectorInv => NamedAsRequested
  BY NamesFollow DEF VectorInv
<1>. QED
  BY <1>1, VectorInvariant, PTL

\* No private value that the operation asks for is among the outputs of a released
\* response, or of any that a circuit was solved and proven for as it is pinned,
\* whatever names the caller adds to either side, whichever circuit it asks for,
\* and whichever one edit the circuit's source underwent.
THEOREM PrivateValuesStayPrivate == VectorSpec => []SecretsStayPrivate
<1>1. VectorInv => SecretsStayPrivate
  BY SecretsFollow DEF VectorInv
<1>. QED
  BY <1>1, VectorInvariant, PTL

\* A request that the witness crate or the service has prepared lacks no name of an
\* unedited circuit, and one that is refused for its names could not be solved
\* unless a name is on the wrong side.
THEOREM PreparedRequestsSolve == VectorSpec => []PreparedSolves
<1>1. VectorInv => PreparedSolves
  BY PreparedFollows DEF VectorInv
<1>. QED
  BY <1>1, VectorInvariant, PTL

\* Whatever and however many mistakes its author makes, a loaded vector is green
\* unless it has a private name that bags refuse, lacks a name of its operation, or
\* has a state that it needs not have and other roots; and a Prover.toml that is
\* written from a vector can be read.
THEOREM LoadedVectorsBecomeRequests == VectorSpec => []LoadedVectorsRun
<1>1. VectorInv => LoadedVectorsRun
  BY LoadedFollows
<1>. QED
  BY <1>1, VectorInvariant, PTL

\* A vector that is green in the mock tier has every name that its circuit asks
\* for, none of them twice.
THEOREM GreenVectorsAreSolvable == VectorSpec => []GreenVectorsSolve
<1>1. VectorInv => GreenVectorsSolve
  BY GreenFollows
<1>. QED
  BY <1>1, VectorInvariant, PTL

=============================================================================
