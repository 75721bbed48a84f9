---------------------- MODULE ConfidentialLedgerProofs ----------------------
(***************************************************************************)
(* Proofs about ConfidentialLedger, for any accounts, tokens, widths and   *)
(* any number of proofs and snapshots.                                     *)
(***************************************************************************)
EXTENDS ConfidentialLedger, DataTheorems

Notes == [token : Tokens, owner : Accounts, commitment : [amount : Fields, blinding : Nat \ {0}]]

\* A proof names what it consumes and the nullifiers of it, one by one.
Shaped(proof) ==
  /\ Consumed(proof) # {}
  /\ Consumed(proof) \subseteq Notes
  /\ DOMAIN proof.nullifiers = DOMAIN proof.consumed
  /\ \A i \in DOMAIN proof.consumed :
       proof.nullifiers[i] = Nullifier(proof.account, proof.consumed[i], proof.token, proof.root)
  /\ proof.created \subseteq Notes

\* It pays to addresses that the ledger has recorded.
Owned(proof) == \A n \in proof.created : n.owner \in registered

\* What the circuits constrain of its amounts.
Bounded(proof) ==
  /\ \A n \in Consumed(proof) : InBits(n.commitment.amount, AmountBits)
  /\ \A n \in proof.created :
       /\ ~InBits(n.commitment.amount, AmountBits) =>
            Cardinality(proof.created) = 1 /\ proof.outflow = 0
       /\ n.commitment.amount >= 2^WordBits => Cardinality(proof.created) = 2

\* What some notes are worth.
Value(some) == SumFunctionOnSet([n \in some |-> Worth(n)], some)

\* What some notes are worth to one account.
Share(some, a) == Value({n \in some : n.owner = a})

\* What one order may move.
Amounts == 0 .. 2^AmountBits - 1

\* A proof that consumes no note twice makes and destroys nothing: it creates what
\* it consumes and what enters with it, less what leaves.
Balanced(proof) ==
  /\ proof.inflow \in Fields
  /\ proof.outflow \in Fields
  /\ IsFiniteSet(Consumed(proof))
  /\ IsFiniteSet(proof.created)
  /\ \A n \in proof.created : n.token = proof.token
  /\ IsInjective(proof.consumed) =>
       Value(proof.created) + Word(proof.outflow) = Value(Consumed(proof)) + Word(proof.inflow)

\* To one account it gives what it pays, from its own account it takes that and what
\* leaves, and nobody else has more or less for it: it deposits, withdraws or pays.
Moves(proof) ==
  /\ 1 \in DOMAIN proof.consumed
  /\ Word(proof.inflow) \in Amounts
  /\ Word(proof.outflow) \in Amounts
  /\ IsInjective(proof.consumed) =>
       \E recipient \in registered, paid \in Amounts :
         /\ \/ paid = 0 /\ Word(proof.outflow) = 0
            \/ paid = 0 /\ Word(proof.inflow) = 0
            \/ Word(proof.inflow) = 0 /\ Word(proof.outflow) = 0
         /\ paid + Word(proof.outflow) <= Value(Consumed(proof))
         /\ \A a \in Accounts :
              Share(proof.created, a) + (IF a = proof.account THEN paid + Word(proof.outflow) ELSE 0)
                = (IF a = proof.account THEN Value(Consumed(proof)) + Word(proof.inflow) ELSE 0)
                    + (IF a = recipient THEN paid ELSE 0)

Typed ==
  /\ registered \subseteq Accounts
  /\ notes \subseteq Notes
  /\ \A n \in notes : n.owner \in registered
  /\ drawn \in Nat
  /\ history \in Seq(proofs)
  /\ \A proof \in proofs : Shaped(proof) /\ Owned(proof)

\* Blindings are drawn in order, so that those to come are in no note yet.
Drawn ==
  /\ \A n \in notes : n.commitment.blinding <= drawn
  /\ \A proof \in proofs : \A n \in Consumed(proof) \cup proof.created :
       n.commitment.blinding <= drawn

\* No two proofs create the same note.
CreatedApart ==
  \A p, q \in proofs : p # q => p.created \cap q.created = {}

\* What a proof creates that was not accepted is nowhere yet.
PendingIsFresh ==
  \A p \in proofs \ Range(history) : \A n \in p.created :
    n \notin notes /\ \A i \in DOMAIN history : n \notin Consumed(history[i])

\* A consumed note is gone.
SpentIsGone == \A i \in DOMAIN history : Consumed(history[i]) \cap notes = {}

\* A recorded nullifier is one of an accepted proof.
NullifiersHaveASource ==
  \A x \in nullifiers : \E i \in DOMAIN history : x \in Range(history[i].nullifiers)

SpendingInv ==
  /\ Typed
  /\ Drawn
  /\ CreatedApart
  /\ PendingIsFresh
  /\ SpentIsGone
  /\ NullifiersHaveASource
  /\ SpentOnce

AmountsInv ==
  /\ Typed
  /\ \A proof \in proofs : Bounded(proof)

\* Everything that the circuits do is to make one proof, of notes that are there,
\* with new blindings and amounts within their bounds.
Makes(proof) ==
  /\ Cardinality(proofs) < MaxProofs
  /\ proofs' = proofs \cup {proof}
  /\ UNCHANGED <<registered, notes, nullifiers, root, history>>
  /\ drawn' \in Nat
  /\ drawn < drawn'
  /\ Shaped(proof)
  /\ Owned(proof)
  /\ Bounded(proof)
  /\ Balanced(proof)
  /\ Moves(proof)
  /\ Consumed(proof) \subseteq notes
  /\ proof.created # {}
  /\ \A n \in proof.created : drawn < n.commitment.blinding /\ n.commitment.blinding <= drawn'

\* Field elements are numbers, and the bounds of amounts and words are powers of two.
LEMMA Widths ==
  /\ 2^AmountBits \in Nat \ {0}
  /\ 2^WordBits \in Nat \ {0}
  /\ 2^WordBits = 2 * 2^AmountBits
  /\ Fields \subseteq Nat
  /\ 0 \in Fields
  /\ 0 \in Amounts
  /\ Amounts \subseteq Nat
  /\ Inputs \subseteq Fields
<1>1. AmountBits \in Nat /\ WordBits = AmountBits + 1 /\ WordBits \in Nat
  BY LedgerAssumption
<1>2. 2^AmountBits \in Nat \ {0} /\ 2^(AmountBits + 1) = 2 * 2^AmountBits
  BY <1>1, PowersOfTwo
<1>3. 2^WordBits \in Nat \ {0} /\ 2^WordBits = 2 * 2^AmountBits
  BY <1>1, <1>2
<1>4. Modulus \in Nat /\ 2^WordBits <= Modulus /\ Inputs \subseteq 0 .. Modulus - 1
  BY LedgerAssumption
<1>5. 0 \in Fields /\ Fields \subseteq Nat /\ Inputs \subseteq Fields
  BY <1>3, <1>4 DEF Fields
<1>6. 0 \in Amounts /\ Amounts \subseteq Nat
  BY <1>2 DEF Amounts
<1>. QED
  BY <1>2, <1>3, <1>5, <1>6

\* A cast keeps what fits a word, and what it keeps fits.
LEMMA Words ==
  ASSUME NEW x \in Nat
  PROVE  /\ Word(x) \in Nat
         /\ x < 2^WordBits => Word(x) = x
         /\ InBits(x, AmountBits) => Word(x) \in Amounts
<1> DEFINE w == 2^WordBits
           a == 2^AmountBits
<1>1. w \in Nat \ {0} /\ a \in Nat
  BY Widths
<1>2. Word(x) = x % w /\ (InBits(x, AmountBits) <=> x % w < a) /\ Amounts = 0 .. a - 1
  BY DEF Word, InBits, Amounts
<1> HIDE DEF w, a
<1>3. x % w \in Nat /\ (x < w => x % w = x)
  BY <1>1
<1>. QED
  BY <1>1, <1>2, <1>3 DEF w

LEMMA NothingIsNothing == Word(0) = 0
<1>1. 0 \in Nat /\ 0 < 2^WordBits
  BY Widths
<1>. QED
  BY <1>1, Words

\* What a note is worth is a number.
LEMMA WorthIs ==
  ASSUME NEW n \in Notes
  PROVE  n.commitment.amount \in Nat /\ Worth(n) \in Nat /\ Worth(n) = Word(n.commitment.amount)
<1>1. n.commitment.amount \in Nat
  BY Widths DEF Notes
<1>. QED
  BY <1>1, Words DEF Worth

\* What one note is worth, and two, and those of two sets that share nothing.
LEMMA ValueOfOne ==
  ASSUME NEW n, Worth(n) \in Nat
  PROVE  IsFiniteSet({n}) /\ Value({n}) = Worth(n)
<1> DEFINE f == [x \in {n} |-> Worth(x)]
<1>1. f[n] = Worth(n) /\ f[n] \in Nat
  OBVIOUS
<1> HIDE DEF f
<1>2. SumFunctionOnSet(f, {n}) = f[n]
  <2>1. IsFiniteSet({n}) /\ \A x \in {n} : f[x] \in Nat
    BY <1>1, FS_Singleton
  <2>2. SumFunctionOnSet(f, {n}) = f[n] + SumFunctionOnSet(f, {n} \ {n})
    BY <2>1, SumWithout
  <2>3. SumFunctionOnSet(f, {}) = 0
    BY SumRound, FS_EmptySet
  <2>4. {n} \ {n} = {}
    OBVIOUS
  <2>5. SumFunctionOnSet(f, {n}) = f[n] + 0
    BY <2>2, <2>3, <2>4
  <2>. QED
    BY <1>1, <2>5
<1>. QED
  BY <1>1, <1>2, FS_Singleton DEF Value, f

LEMMA ValueType ==
  ASSUME NEW some, IsFiniteSet(some), \A n \in some : Worth(n) \in Nat
  PROVE  Value(some) \in Nat
<1> DEFINE f == [n \in some |-> Worth(n)]
<1>1. \A n \in some : f[n] \in Nat
  OBVIOUS
<1> HIDE DEF f
<1>2. SumFunctionOnSet(f, some) \in Nat
  BY <1>1, SumType
<1>. QED
  BY <1>2 DEF Value, f

\* What is worth more of is worth as much more.
LEMMA ValueOfBoth ==
  ASSUME NEW some, NEW others, IsFiniteSet(some), IsFiniteSet(others), some \cap others = {},
         \A n \in some \cup others : Worth(n) \in Nat
  PROVE  Value(some \cup others) = Value(some) + Value(others)
<1> DEFINE f == [n \in some \cup others |-> Worth(n)]
           g == [n \in some |-> Worth(n)]
           h == [n \in others |-> Worth(n)]
<1>1. /\ \A n \in some \cup others : f[n] \in Nat
      /\ \A n \in some : g[n] = f[n]
      /\ \A n \in others : h[n] = f[n]
  OBVIOUS
<1>2. /\ Value(some \cup others) = SumFunctionOnSet(f, some \cup others)
      /\ Value(some) = SumFunctionOnSet(g, some)
      /\ Value(others) = SumFunctionOnSet(h, others)
  BY DEF Value
<1> HIDE DEF f, g, h
<1>3. SumFunctionOnSet(f, some \cup others) = SumFunctionOnSet(f, some) + SumFunctionOnSet(f, others)
  BY <1>1, SumUnion
<1>4. SumFunctionOnSet(g, some) = SumFunctionOnSet(f, some)
  BY <1>1, SumSame
<1>5. SumFunctionOnSet(h, others) = SumFunctionOnSet(f, others)
  BY <1>1, SumSame
<1>. QED
  BY <1>2, <1>3, <1>4, <1>5

LEMMA ValueOfTwo ==
  ASSUME NEW n, NEW m, n # m, Worth(n) \in Nat, Worth(m) \in Nat
  PROVE  /\ IsFiniteSet({n, m})
         /\ Value({n, m}) = Worth(n) + Worth(m)
<1>1. {n, m} = {n} \cup {m} /\ {n} \cap {m} = {}
  OBVIOUS
<1>2. IsFiniteSet({n}) /\ IsFiniteSet({m}) /\ IsFiniteSet({n} \cup {m})
  BY FS_Singleton, FS_AddElement
<1>3. Value({n} \cup {m}) = Value({n}) + Value({m})
  BY <1>1, <1>2, ValueOfBoth
<1>. QED
  BY <1>1, <1>2, <1>3, ValueOfOne

\* Each note is worth what it says to its owner, and nothing to anybody else.
LEMMA ShareOfOne ==
  ASSUME NEW n, Worth(n) \in Nat, NEW a
  PROVE  Share({n}, a) = IF n.owner = a THEN Worth(n) ELSE 0
<1>1. CASE n.owner = a
  <2>1. {x \in {n} : x.owner = a} = {n}
    BY <1>1
  <2>. QED
    BY <1>1, <2>1, ValueOfOne DEF Share
<1>2. CASE n.owner # a
  <2>1. {x \in {n} : x.owner = a} = {}
    BY <1>2
  <2>2. Value({}) = 0
    BY SumRound, FS_EmptySet DEF Value
  <2>. QED
    BY <1>2, <2>1, <2>2 DEF Share
<1>. QED
  BY <1>1, <1>2

LEMMA ShareOfTwo ==
  ASSUME NEW n, NEW m, n # m, Worth(n) \in Nat, Worth(m) \in Nat, NEW a
  PROVE  Share({n, m}, a) = (IF n.owner = a THEN Worth(n) ELSE 0)
                              + (IF m.owner = a THEN Worth(m) ELSE 0)
<1> DEFINE N == {x \in {n} : x.owner = a}
           M == {x \in {m} : x.owner = a}
<1>1. {x \in {n, m} : x.owner = a} = N \cup M /\ N \cap M = {}
  OBVIOUS
<1>2. IsFiniteSet(N) /\ IsFiniteSet(M)
  BY FS_Singleton, FS_Subset
<1>3. \A x \in N \cup M : Worth(x) \in Nat
  OBVIOUS
<1> HIDE DEF N, M
<1>4. Value(N \cup M) = Value(N) + Value(M)
  BY <1>1, <1>2, <1>3, ValueOfBoth
<1>5. Share({n, m}, a) = Share({n}, a) + Share({m}, a)
  BY <1>1, <1>4 DEF Share, N, M
<1>. QED
  BY <1>5, ShareOfOne

\* The proofs that consume one note and create one.
LEMMA OneToOne ==
  ASSUME Typed, NEW n \in notes, NEW atRoot, NEW amount \in Fields,
         NEW inflow \in Fields, NEW outflow \in Fields,
         Word(inflow) \in Amounts, Word(outflow) \in Amounts,
         Word(inflow) = 0 \/ Word(outflow) = 0,
         amount < 2^WordBits,
         amount + Word(outflow) = Worth(n) + Word(inflow),
         InBits(n.commitment.amount, AmountBits),
         InBits(amount, AmountBits) \/ outflow = 0,
         Publish(Proof(n.token, n.owner, atRoot, <<n.commitment>>, n.owner,
                       {Note(n.token, n.owner, Commit(amount, drawn + 1))}, inflow, outflow))
  PROVE  \E proof : Makes(proof)
<1> DEFINE new == Note(n.token, n.owner, Commit(amount, drawn + 1))
           p   == Proof(n.token, n.owner, atRoot, <<n.commitment>>, n.owner, {new}, inflow, outflow)
<1>1. n = Note(n.token, n.owner, n.commitment) /\ n \in Notes /\ drawn \in Nat
  BY DEF Typed, Notes, Note
<1>2. /\ new \in Notes /\ new.commitment = Commit(amount, drawn + 1)
      /\ new.token = n.token /\ new.owner = n.owner /\ new.owner \in registered
  BY <1>1 DEF Typed, Notes, Note, Commit
<1>3. /\ p.token = n.token /\ p.account = n.owner /\ p.root = atRoot
      /\ p.consumed = <<n.commitment>> /\ p.created = {new}
      /\ p.inflow = inflow /\ p.outflow = outflow
      /\ p.nullifiers = [i \in DOMAIN p.consumed |-> Nullifier(n.owner, p.consumed[i], n.token, atRoot)]
  BY DEF Proof
<1>4. Publish(p)
  OBVIOUS
<1> HIDE DEF p, new
<1>5. Consumed(p) = {n}
  BY <1>1, <1>3 DEF Consumed
<1>6. Cardinality(p.created) = 1
  BY <1>3, FS_Singleton
<1>7. /\ proofs' = proofs \cup {p}
      /\ drawn' = drawn + 1
      /\ UNCHANGED <<registered, notes, nullifiers, root, history>>
  BY <1>4, <1>6 DEF Publish
<1>8. Shaped(p)
  BY <1>1, <1>2, <1>3, <1>5 DEF Shaped
<1>9. Bounded(p)
  <2>1. \A x \in p.created : x.commitment.amount = amount
    BY <1>2, <1>3 DEF Commit
  <2>2. amount \in Nat /\ 2^WordBits \in Nat /\ ~(amount >= 2^WordBits)
    BY Widths
  <2>. QED
    BY <1>3, <1>5, <1>6, <2>1, <2>2 DEF Bounded
<1>w. Worth(n) \in Nat /\ Worth(new) = amount /\ amount \in Nat
  <2>1. Worth(new) = Word(amount)
    BY <1>2 DEF Worth, Commit
  <2>. QED
    BY <1>1, <2>1, Widths, Words, WorthIs
<1>10. Balanced(p)
  <2>2. /\ IsFiniteSet({n}) /\ IsFiniteSet({new})
        /\ Value({n}) = Worth(n) /\ Value({new}) = amount
    BY <1>w, ValueOfOne
  <2>. QED
    BY <1>2, <1>3, <1>5, <2>2 DEF Balanced
<1>11. Moves(p)
  <2>1. Worth(n) \in Nat /\ Worth(new) = amount /\ amount \in Nat /\ new.owner = n.owner
    BY <1>2, <1>w
  <2>2. Value({n}) = Worth(n)
    BY <2>1, ValueOfOne
  <2>3. \A a : Share({new}, a) = IF n.owner = a THEN amount ELSE 0
    BY <2>1, ShareOfOne
  <2>4. 1 \in DOMAIN p.consumed /\ 0 \in Amounts /\ Word(inflow) \in Nat /\ Word(outflow) \in Nat
    <3>1. Word(inflow) \in Amounts /\ Word(outflow) \in Amounts
      OBVIOUS
    <3>2. Amounts \subseteq Nat /\ 0 \in Amounts
      BY Widths
    <3>3. 1 \in DOMAIN p.consumed
      BY <1>3
    <3>. QED
      BY <3>1, <3>2, <3>3
  <2>5. ASSUME NEW a \in Accounts
        PROVE  Share(p.created, a) + (IF a = p.account THEN 0 + Word(p.outflow) ELSE 0)
                 = (IF a = p.account THEN Value(Consumed(p)) + Word(p.inflow) ELSE 0)
                     + (IF a = n.owner THEN 0 ELSE 0)
    <3>1. Share(p.created, a) = IF n.owner = a THEN amount ELSE 0
      BY <1>3, <2>3
    <3>2. Value(Consumed(p)) = Worth(n)
      BY <1>5, <2>2
    <3>. QED
      BY <1>3, <2>1, <2>4, <3>1, <3>2
  <2>6. n.owner \in registered
    BY DEF Typed
  <2>7. 0 + Word(p.outflow) <= Value(Consumed(p))
    BY <1>3, <1>5, <2>1, <2>2, <2>4
  <2>. QED
    BY <1>3, <2>4, <2>5, <2>6, <2>7 DEF Moves
<1>12. Makes(p)
  <2>1. drawn < new.commitment.blinding /\ new.commitment.blinding <= drawn'
    BY <1>1, <1>2, <1>7 DEF Commit
  <2>2. Cardinality(proofs) < MaxProofs
    BY <1>4 DEF Publish
  <2>. QED
    BY <1>1, <1>2, <1>3, <1>5, <1>7, <1>8, <1>9, <1>10, <1>11, <2>1, <2>2 DEF Makes, Owned
<1>. QED
  BY <1>12

\* A sum of two amounts within their bound fits its word.
LEMMA DepositMakes ==
  ASSUME Typed, NEW secret \in Accounts, NEW n \in notes, NEW old \in Fields, NEW amount \in Fields,
         ProveDeposit(secret, n, old, amount)
  PROVE  \E proof : Makes(proof)
<1>1. PICK sum \in Fields :
        /\ AddBounded(old, amount, sum)
        /\ Publish(Proof(n.token, n.owner, NoRoot, <<n.commitment>>, secret,
                         {Note(n.token, n.owner, Commit(sum, drawn + 1))}, amount, 0))
  BY DEF ProveDeposit
<1>2. secret = n.owner /\ n.commitment.amount = old /\ old \in Nat /\ amount \in Nat
  BY Widths DEF ProveDeposit, OwnedBy, Opens, Commit
<1>3. /\ InBits(old, AmountBits) /\ InBits(amount, AmountBits)
      /\ sum = Word(old) + Word(amount) /\ Worth(n) = Word(old)
  BY <1>1, <1>2 DEF AddBounded, Worth
<1>4. /\ Word(old) \in Amounts /\ Word(amount) \in Amounts /\ 0 \in Amounts /\ 0 \in Fields
      /\ Word(old) \in Nat /\ Word(amount) \in Nat
  BY <1>2, <1>3, Words, Widths
<1>5. sum < 2^WordBits
  BY <1>3, <1>4, Widths DEF Amounts
<1>6. sum + Word(0) = Worth(n) + Word(amount) /\ Word(0) = 0
  BY <1>3, <1>4, NothingIsNothing
<1>7. InBits(n.commitment.amount, AmountBits) /\ Word(0) \in Amounts
  BY <1>2, <1>3, <1>4, <1>6
<1>. QED
  BY <1>1, <1>2, <1>4, <1>5, <1>6, <1>7, OneToOne

\* A withdrawal splits the amount it consumes.
LEMMA WithdrawMakes ==
  ASSUME Typed, NEW secret \in Accounts, NEW n \in notes, NEW old \in Fields, NEW amount \in Fields,
         ProveWithdraw(secret, n, old, amount)
  PROVE  \E proof : Makes(proof)
<1>1. PICK change \in Fields :
        /\ SubtractBounded(old, amount, change)
        /\ Publish(Proof(n.token, n.owner, root, <<n.commitment>>, secret,
                         {Note(n.token, n.owner, Commit(change, drawn + 1))}, 0, amount))
  BY DEF ProveWithdraw
<1>2. /\ secret = n.owner /\ n.commitment.amount = old
      /\ change \in Nat /\ old \in Nat /\ amount \in Nat
  BY Widths DEF ProveWithdraw, OwnedBy, Opens, Commit
<1>3. /\ InBits(old, AmountBits) /\ InBits(amount, AmountBits) /\ Word(amount) <= Word(old)
      /\ change = Word(old) - Word(amount) /\ Worth(n) = Word(old)
  BY <1>1, <1>2 DEF SubtractBounded, Worth
<1>4. /\ Word(old) \in Amounts /\ Word(amount) \in Amounts /\ 0 \in Amounts /\ 0 \in Fields
      /\ Word(old) \in Nat /\ Word(amount) \in Nat
  BY <1>2, <1>3, Words, Widths
<1>5. change < 2^AmountBits /\ change < 2^WordBits
  BY <1>2, <1>3, <1>4, Widths DEF Amounts
<1>6. change + Word(amount) = Worth(n) + Word(0) /\ Word(0) = 0
  BY <1>2, <1>3, <1>4, NothingIsNothing
<1>7. /\ InBits(n.commitment.amount, AmountBits) /\ Word(0) \in Amounts
      /\ InBits(change, AmountBits)
  BY <1>2, <1>3, <1>4, <1>5, <1>6, Words DEF InBits
<1>. QED
  BY <1>1, <1>2, <1>4, <1>5, <1>6, <1>7, OneToOne

\* Two notes, or one named twice, into one.
LEMMA MergeMakes ==
  ASSUME Typed, NEW secret \in Accounts, NEW n \in notes, NEW m \in notes,
         NEW a \in Fields, NEW b \in Fields,
         ProveMerge(secret, n, m, a, b)
  PROVE  \E proof : Makes(proof)
<1>1. PICK sum \in Fields :
        /\ AddBounded(a, b, sum)
        /\ Publish(Proof(n.token, n.owner, root, <<n.commitment, m.commitment>>, secret,
                         {Note(n.token, n.owner, Commit(sum, drawn + 1))}, 0, 0))
  BY DEF ProveMerge
<1> DEFINE new == Note(n.token, n.owner, Commit(sum, drawn + 1))
           p   == Proof(n.token, n.owner, root, <<n.commitment, m.commitment>>, secret, {new}, 0, 0)
<1>2. /\ secret = n.owner /\ m.owner = n.owner /\ m.token = n.token
      /\ n.commitment.amount = a /\ m.commitment.amount = b
      /\ sum \in Nat /\ a \in Nat /\ b \in Nat
  BY Widths DEF ProveMerge, OwnedBy, Opens, Commit
<1>3. /\ n = Note(n.token, n.owner, n.commitment) /\ n \in Notes /\ drawn \in Nat
      /\ m = Note(n.token, n.owner, m.commitment) /\ m \in Notes
  BY <1>2 DEF Typed, Notes, Note
<1>4. /\ new \in Notes /\ new.commitment = Commit(sum, drawn + 1)
      /\ new.token = n.token /\ new.owner = n.owner /\ new.owner \in registered
  BY <1>2, <1>3 DEF Typed, Notes, Note, Commit
<1>5. /\ p.token = n.token /\ p.account = n.owner /\ p.root = root
      /\ p.consumed = <<n.commitment, m.commitment>> /\ p.created = {new}
      /\ p.inflow = 0 /\ p.outflow = 0
      /\ p.nullifiers = [i \in DOMAIN p.consumed |-> Nullifier(n.owner, p.consumed[i], n.token, root)]
  BY <1>2 DEF Proof
<1>6. Publish(p)
  BY <1>1
<1> HIDE DEF p, new
<1>7. Consumed(p) = {n, m}
  <2>1. DOMAIN p.consumed = {1, 2} /\ p.consumed[1] = n.commitment /\ p.consumed[2] = m.commitment
    BY <1>5
  <2>. QED
    BY <2>1, <1>3, <1>5 DEF Consumed
<1>8. Cardinality(p.created) = 1
  BY <1>5, FS_Singleton
<1>9. /\ proofs' = proofs \cup {p}
      /\ drawn' = drawn + 1
      /\ UNCHANGED <<registered, notes, nullifiers, root, history>>
  BY <1>6, <1>8 DEF Publish
<1>10. Shaped(p)
  BY <1>3, <1>4, <1>5, <1>7 DEF Shaped
<1>w. /\ InBits(a, AmountBits) /\ InBits(b, AmountBits)
      /\ sum = Word(a) + Word(b) /\ Word(a) \in Nat /\ Word(b) \in Nat
      /\ Worth(n) = Word(a) /\ Worth(m) = Word(b)
      /\ Worth(new) = sum /\ sum < 2^WordBits
  <2>1. InBits(a, AmountBits) /\ InBits(b, AmountBits) /\ sum = Word(a) + Word(b)
    BY <1>1 DEF AddBounded
  <2>2. Word(a) \in Nat /\ Word(b) \in Nat /\ Word(a) \in Amounts /\ Word(b) \in Amounts
    BY <1>2, <2>1, Words
  <2>3. sum < 2^WordBits
    BY <2>1, <2>2, Widths DEF Amounts
  <2>4. Worth(n) = Word(a) /\ Worth(m) = Word(b) /\ Worth(new) = Word(sum)
    BY <1>2, <1>4 DEF Worth, Commit
  <2>. QED
    BY <1>2, <2>1, <2>2, <2>3, <2>4, Words
<1>11. Bounded(p)
  <2>1. \A x \in p.created : x.commitment.amount = sum
    BY <1>4, <1>5 DEF Commit
  <2>2. ~(sum >= 2^WordBits)
    BY <1>2, <1>w, Widths
  <2>. QED
    BY <1>2, <1>5, <1>7, <1>8, <1>w, <2>1, <2>2 DEF Bounded
<1>12. ASSUME IsInjective(p.consumed) PROVE Value({n, m}) = sum
  <2>1. p.consumed[1] = n.commitment /\ p.consumed[2] = m.commitment /\ {1, 2} \subseteq DOMAIN p.consumed
    BY <1>5
  <2>2. n # m
    BY <1>12, <2>1 DEF IsInjective
  <2>. QED
    BY <1>w, <2>2, ValueOfTwo
<1>13. Balanced(p)
  <2>1. IsFiniteSet({new}) /\ Value({new}) = sum
    <3>1. Worth(new) = sum /\ sum \in Nat
      BY <1>2, <1>w
    <3>. QED
      BY <3>1, ValueOfOne
  <2>2. IsFiniteSet({n, m})
    <3>1. {n, m} = {n} \cup {m}
      OBVIOUS
    <3>2. IsFiniteSet({n} \cup {m})
      BY FS_Singleton, FS_AddElement
    <3>. QED
      BY <3>1, <3>2
  <2>3. 0 \in Fields /\ Word(0) = 0
    BY Widths, NothingIsNothing
  <2>. QED
    BY <1>2, <1>4, <1>5, <1>7, <1>12, <2>1, <2>2, <2>3 DEF Balanced
<1>14. Moves(p)
  <2>1. /\ 1 \in DOMAIN p.consumed /\ Word(p.inflow) = 0 /\ Word(p.outflow) = 0
        /\ 0 \in Amounts /\ n.owner \in registered
    BY <1>4, <1>5, Widths, NothingIsNothing
  <2>2. \A x : Share({new}, x) = IF n.owner = x THEN sum ELSE 0
    BY <1>2, <1>4, <1>w, ShareOfOne
  <2>3. ASSUME IsInjective(p.consumed), NEW x \in Accounts
        PROVE  Share(p.created, x) + (IF x = p.account THEN 0 + Word(p.outflow) ELSE 0)
                 = (IF x = p.account THEN Value(Consumed(p)) + Word(p.inflow) ELSE 0)
                     + (IF x = n.owner THEN 0 ELSE 0)
    <3>1. Share(p.created, x) = IF n.owner = x THEN sum ELSE 0
      BY <1>5, <2>2
    <3>2. Value(Consumed(p)) = sum
      BY <1>7, <1>12, <2>3
    <3>. QED
      BY <1>2, <1>5, <2>1, <3>1, <3>2
  <2>4. ASSUME IsInjective(p.consumed) PROVE 0 + Word(p.outflow) <= Value(Consumed(p))
    BY <1>2, <1>7, <1>12, <2>1, <2>4
  <2>. QED
    BY <1>5, <2>1, <2>3, <2>4 DEF Moves
<1>15. Makes(p)
  <2>1. drawn < new.commitment.blinding /\ new.commitment.blinding <= drawn'
    BY <1>3, <1>4, <1>9 DEF Commit
  <2>2. Cardinality(proofs) < MaxProofs
    BY <1>6 DEF Publish
  <2>. QED
    BY <1>3, <1>4, <1>5, <1>7, <1>9, <1>10, <1>11, <1>13, <1>14, <2>1, <2>2 DEF Makes, Owned
<1>. QED
  BY <1>15

\* A transfer splits it between two addresses.
LEMMA TransferMakes ==
  ASSUME Typed, NEW secret \in Accounts, NEW n \in notes, NEW old \in Fields, NEW amount \in Fields,
         NEW recipient \in registered,
         ProveTransfer(secret, n, old, amount, recipient)
  PROVE  \E proof : Makes(proof)
<1>1. PICK change \in Fields :
        /\ SubtractBounded(old, amount, change)
        /\ Publish(Proof(n.token, n.owner, root, <<n.commitment>>, secret,
                         {Note(n.token, recipient, Commit(amount, drawn + 1)),
                          Note(n.token, n.owner, Commit(change, drawn + 2))}, 0, 0))
  BY DEF ProveTransfer
<1> DEFINE paid == Note(n.token, recipient, Commit(amount, drawn + 1))
           rest == Note(n.token, n.owner, Commit(change, drawn + 2))
           p    == Proof(n.token, n.owner, root, <<n.commitment>>, secret, {paid, rest}, 0, 0)
<1>2. /\ secret = n.owner /\ n.commitment.amount = old
      /\ change \in Nat /\ old \in Nat /\ amount \in Nat
  BY Widths DEF ProveTransfer, OwnedBy, Opens, Commit
<1>3. n = Note(n.token, n.owner, n.commitment) /\ n \in Notes /\ drawn \in Nat
  BY DEF Typed, Notes, Note
<1>4. /\ paid \in Notes /\ paid.commitment = Commit(amount, drawn + 1)
      /\ rest \in Notes /\ rest.commitment = Commit(change, drawn + 2)
      /\ paid.token = n.token /\ rest.token = n.token
      /\ paid.owner = recipient /\ rest.owner = n.owner
      /\ paid.owner \in registered /\ rest.owner \in registered
  BY <1>2, <1>3 DEF Typed, Notes, Note, Commit
<1>5. /\ p.token = n.token /\ p.account = n.owner /\ p.root = root
      /\ p.consumed = <<n.commitment>> /\ p.created = {paid, rest}
      /\ p.inflow = 0 /\ p.outflow = 0
      /\ p.nullifiers = [i \in DOMAIN p.consumed |-> Nullifier(n.owner, p.consumed[i], n.token, root)]
  BY <1>2 DEF Proof
<1>6. Publish(p)
  BY <1>1
<1> HIDE DEF p, paid, rest
<1>7. Consumed(p) = {n}
  BY <1>3, <1>5 DEF Consumed
<1>8. Cardinality(p.created) = 2
  <2>1. IsFiniteSet({paid}) /\ Cardinality({paid}) = 1
    BY FS_Singleton
  <2>2. p.created = {paid} \cup {rest}
    BY <1>5
  <2>3. rest \notin {paid}
    BY <1>3, <1>4 DEF Commit
  <2>4. Cardinality({paid} \cup {rest}) = Cardinality({paid}) + 1
    BY <2>1, <2>3, FS_AddElement
  <2>. QED
    BY <2>1, <2>2, <2>4
<1>9. /\ proofs' = proofs \cup {p}
      /\ drawn' = drawn + 2
      /\ UNCHANGED <<registered, notes, nullifiers, root, history>>
  BY <1>6, <1>8 DEF Publish
<1>10. Shaped(p)
  BY <1>3, <1>4, <1>5, <1>7 DEF Shaped
<1>w. /\ InBits(old, AmountBits) /\ InBits(amount, AmountBits)
      /\ Word(amount) \in Amounts /\ Word(amount) \in Nat
      /\ Worth(n) = Word(amount) + change /\ Worth(n) \in Nat
      /\ Worth(paid) = Word(amount) /\ Worth(rest) = change
      /\ change < 2^AmountBits /\ change < 2^WordBits /\ Word(change) = change
  <2>1. /\ InBits(old, AmountBits) /\ InBits(amount, AmountBits)
        /\ Word(amount) <= Word(old) /\ change = Word(old) - Word(amount)
    BY <1>1 DEF SubtractBounded
  <2>2. Word(old) \in Amounts /\ Word(amount) \in Amounts /\ Word(old) \in Nat /\ Word(amount) \in Nat
    BY <1>2, <2>1, Words
  <2>3. change < 2^AmountBits /\ change < 2^WordBits
    BY <1>2, <2>1, <2>2, Widths DEF Amounts
  <2>4. Word(change) = change
    BY <1>2, <2>3, Words
  <2>5. Worth(n) = Word(old) /\ Worth(paid) = Word(amount) /\ Worth(rest) = Word(change)
    BY <1>2, <1>4 DEF Worth, Commit
  <2>. QED
    BY <1>2, <2>1, <2>2, <2>3, <2>4, <2>5
<1>11. Bounded(p)
  <2>1. InBits(change, AmountBits)
    BY <1>w DEF InBits
  <2>2. \A x \in p.created : x.commitment.amount \in {amount, change}
    BY <1>4, <1>5 DEF Commit
  <2>. QED
    BY <1>2, <1>7, <1>8, <1>w, <2>1, <2>2 DEF Bounded
<1>12. \A x \in p.created : drawn < x.commitment.blinding /\ x.commitment.blinding <= drawn + 2
  BY <1>3, <1>4, <1>5 DEF Commit
<1>d. paid # rest /\ Worth(paid) \in Nat /\ Worth(rest) \in Nat
  BY <1>2, <1>3, <1>4, <1>w DEF Commit
<1>z. 0 \in Fields /\ Word(0) = 0 /\ 0 \in Amounts
  BY Widths, NothingIsNothing
<1>13. Balanced(p)
  <2>1. IsFiniteSet({paid, rest}) /\ Value({paid, rest}) = Word(amount) + change
    BY <1>w, <1>d, ValueOfTwo
  <2>2. IsFiniteSet({n}) /\ Value({n}) = Word(amount) + change
    BY <1>2, <1>w, ValueOfOne
  <2>. QED
    BY <1>2, <1>4, <1>5, <1>7, <1>w, <1>z, <2>1, <2>2 DEF Balanced
<1>14. Moves(p)
  <2>1. 1 \in DOMAIN p.consumed /\ Word(p.inflow) = 0 /\ Word(p.outflow) = 0
    BY <1>5, <1>z
  <2>4. \A x : Share({paid, rest}, x) =
                 (IF recipient = x THEN Word(amount) ELSE 0) + (IF n.owner = x THEN change ELSE 0)
    <3>1. ASSUME NEW x
          PROVE  Share({paid, rest}, x) = (IF paid.owner = x THEN Worth(paid) ELSE 0)
                                            + (IF rest.owner = x THEN Worth(rest) ELSE 0)
      BY <1>d, ShareOfTwo
    <3>. QED
      BY <3>1, <1>4, <1>w
  <2>5. Value({n}) = Word(amount) + change
    BY <1>2, <1>w, ValueOfOne
  <2>6. ASSUME NEW x \in Accounts
        PROVE  Share(p.created, x) + (IF x = p.account THEN Word(amount) + Word(p.outflow) ELSE 0)
                 = (IF x = p.account THEN Value(Consumed(p)) + Word(p.inflow) ELSE 0)
                     + (IF x = recipient THEN Word(amount) ELSE 0)
    <3>1. Share(p.created, x) =
            (IF recipient = x THEN Word(amount) ELSE 0) + (IF n.owner = x THEN change ELSE 0)
      BY <1>5, <2>4
    <3>2. Value(Consumed(p)) = Word(amount) + change
      BY <1>7, <2>5
    <3>. QED
      BY <1>2, <1>5, <1>w, <2>1, <3>1, <3>2
  <2>7. Word(amount) + Word(p.outflow) <= Value(Consumed(p))
    BY <1>2, <1>7, <1>w, <2>1, <2>5
  <2>. QED
    BY <1>5, <1>w, <1>z, <2>1, <2>6, <2>7 DEF Moves
<1>15. Makes(p)
  <2>1. Cardinality(proofs) < MaxProofs
    BY <1>6 DEF Publish
  <2>. QED
    BY <1>3, <1>4, <1>5, <1>7, <1>9, <1>10, <1>11, <1>12, <1>13, <1>14, <2>1 DEF Makes, Owned
<1>. QED
  BY <1>15

\* Every circuit makes such a proof.
LEMMA MakeProofMakes ==
  ASSUME Typed, MakeProof
  PROVE  \E proof : Makes(proof)
<1>1. PICK secret \in Accounts, n \in notes, old \in Fields :
        \/ \E m \in notes, b \in Fields : ProveMerge(secret, n, m, old, b)
        \/ \E amount \in Inputs :
             \/ ProveDeposit(secret, n, old, amount)
             \/ \E recipient \in registered : ProveTransfer(secret, n, old, amount, recipient)
             \/ ProveWithdraw(secret, n, old, amount)
  BY DEF MakeProof
<1>2. CASE \E m \in notes, b \in Fields : ProveMerge(secret, n, m, old, b)
  BY <1>2, MergeMakes
<1>3. CASE \E amount \in Inputs :
             \/ ProveDeposit(secret, n, old, amount)
             \/ \E recipient \in registered : ProveTransfer(secret, n, old, amount, recipient)
             \/ ProveWithdraw(secret, n, old, amount)
  <2>1. PICK amount \in Fields :
             \/ ProveDeposit(secret, n, old, amount)
             \/ \E recipient \in registered : ProveTransfer(secret, n, old, amount, recipient)
             \/ ProveWithdraw(secret, n, old, amount)
    BY <1>3, Widths
  <2>. QED
    BY <2>1, DepositMakes, TransferMakes, WithdrawMakes
<1>. QED
  BY <1>1, <1>2, <1>3

-----------------------------------------------------------------------------
(* Types *)

\* A new account has a new note for each token.
LEMMA RegisterTyped ==
  ASSUME Typed, NEW secret \in Accounts, NEW account \in Accounts, Register(secret, account)
  PROVE  /\ Typed'
         /\ \A n \in notes' \ notes : n.commitment = Commit(0, drawn + 1)
<1> DEFINE opened == {Note(t, account, Commit(0, drawn + 1)) : t \in Tokens}
<1>1. /\ registered' = registered \cup {account} /\ notes' = notes \cup opened
      /\ drawn' = drawn + 1 /\ drawn \in Nat /\ proofs' = proofs /\ history' = history
  BY DEF Register, Typed
<1>2. /\ opened \subseteq Notes
      /\ \A n \in opened : n.commitment = Commit(0, drawn + 1) /\ n.owner = account
  <2>1. Commit(0, drawn + 1) \in [amount : Fields, blinding : Nat \ {0}]
    BY <1>1, Widths DEF Commit
  <2>. QED
    BY <2>1 DEF Notes, Note
<1> HIDE DEF opened
<1>. QED
  BY <1>1, <1>2 DEF Typed, Shaped, Owned, Consumed

\* Whatever proof is made keeps the types.
LEMMA MakingTyped ==
  ASSUME Typed, NEW proof, Makes(proof)
  PROVE  Typed'
<1>1. /\ proofs' = proofs \cup {proof} /\ drawn' \in Nat /\ Shaped(proof) /\ Owned(proof)
      /\ registered' = registered /\ notes' = notes /\ history' = history
  BY DEF Makes
<1>2. history \in Seq(proofs')
  BY <1>1 DEF Typed
<1>. QED
  BY <1>1, <1>2 DEF Typed, Shaped, Owned, Consumed

\* So does a proof that is accepted.
LEMMA SubmitTyped ==
  ASSUME Typed, NEW proof \in proofs, Submit(proof)
  PROVE  Typed'
<1>1. /\ notes' \subseteq notes \cup proof.created
      /\ history' = Append(history, proof)
      /\ registered' = registered /\ proofs' = proofs /\ drawn' = drawn
  BY DEF Submit
<1>2. history' \in Seq(proofs) /\ Shaped(proof) /\ Owned(proof)
  BY <1>1 DEF Typed
<1>. QED
  BY <1>1, <1>2 DEF Typed, Shaped, Owned, Consumed

\* So does every step.
LEMMA TypedStep ==
  ASSUME Typed, [Next]_vars
  PROVE  Typed'
<1>1. CASE MakeProof
  BY <1>1, MakeProofMakes, MakingTyped
<1>2. CASE \E secret, account \in Accounts : Register(secret, account)
  BY <1>2, RegisterTyped
<1>3. CASE \E proof \in proofs : Submit(proof)
  BY <1>3, SubmitTyped
<1>4. CASE Snapshot \/ UNCHANGED vars
  BY <1>4 DEF Snapshot, vars, Typed, Shaped, Owned, Consumed
<1>. QED
  BY <1>1, <1>2, <1>3, <1>4 DEF Next

\* They hold at the start.
LEMMA TypedInit == Init => Typed
BY DEF Init, Typed, Notes

-----------------------------------------------------------------------------
(* Spending *)

\* No proof knows the notes of a new account.
LEMMA RegisterSpends ==
  ASSUME SpendingInv, NEW secret \in Accounts, NEW account \in Accounts, Register(secret, account)
  PROVE  SpendingInv'
<1> DEFINE opened == {Note(t, account, Commit(0, drawn + 1)) : t \in Tokens}
<1>1. /\ registered' = registered \cup {account} /\ notes' = notes \cup opened
      /\ drawn' = drawn + 1 /\ drawn \in Nat
      /\ nullifiers' = nullifiers /\ proofs' = proofs /\ history' = history
  BY DEF Register, SpendingInv, Typed
<1>2. \A n \in opened : n.commitment.blinding = drawn + 1
  BY <1>1 DEF Note, Commit
<1> HIDE DEF opened
<1>3. Typed'
  BY RegisterTyped DEF SpendingInv
<1>4. \A proof \in proofs : Consumed(proof)' = Consumed(proof)
  BY DEF Consumed
<1>5. \A n \in notes : n.commitment.blinding \in Nat
  BY DEF SpendingInv, Typed, Notes
<1>6. \A proof \in proofs : \A n \in Consumed(proof) \cup proof.created :
        n.commitment.blinding \in Nat /\ n.commitment.blinding <= drawn /\ n \notin opened
  BY <1>1, <1>2 DEF SpendingInv, Typed, Shaped, Notes, Drawn
<1>7. Drawn'
  BY <1>1, <1>2, <1>4, <1>5, <1>6 DEF SpendingInv, Drawn
<1>8. CreatedApart' /\ NullifiersHaveASource' /\ SpentOnce'
  BY <1>1 DEF SpendingInv, CreatedApart, NullifiersHaveASource, SpentOnce, Consumed
<1>9. \A i \in DOMAIN history : history[i] \in proofs
  BY DEF SpendingInv, Typed
<1>10. PendingIsFresh'
  BY <1>1, <1>6 DEF SpendingInv, PendingIsFresh, Consumed
<1>11. SpentIsGone'
  BY <1>1, <1>6, <1>9 DEF SpendingInv, SpentIsGone, Consumed
<1>. QED
  BY <1>3, <1>7, <1>8, <1>10, <1>11 DEF SpendingInv

\* A new proof creates what is nowhere yet.
LEMMA MakingSpends ==
  ASSUME SpendingInv, NEW proof, Makes(proof)
  PROVE  SpendingInv'
<1>1. /\ proofs' = proofs \cup {proof} /\ drawn' \in Nat /\ drawn \in Nat /\ drawn < drawn'
      /\ registered' = registered /\ notes' = notes /\ nullifiers' = nullifiers /\ history' = history
      /\ Shaped(proof) /\ Consumed(proof) \subseteq notes /\ proof.created # {}
  BY DEF SpendingInv, Typed, Makes
<1>2. \A n \in proof.created : /\ n.commitment.blinding \in Nat
                               /\ drawn < n.commitment.blinding /\ n.commitment.blinding <= drawn'
  BY <1>1 DEF Makes, Shaped, Notes
<1>3. \A p \in proofs : \A n \in Consumed(p) \cup p.created :
        n.commitment.blinding \in Nat /\ n.commitment.blinding <= drawn
  BY DEF SpendingInv, Typed, Shaped, Notes, Drawn
<1>4. \A n \in notes : n.commitment.blinding \in Nat /\ n.commitment.blinding <= drawn
  BY DEF SpendingInv, Typed, Notes, Drawn
<1>5. \A i \in DOMAIN history : history[i] \in proofs
  BY DEF SpendingInv, Typed
<1>7. Typed'
  BY MakingTyped DEF SpendingInv
<1>8. \A p : Consumed(p)' = Consumed(p)
  BY DEF Consumed
<1>9. Drawn'
  <2>1. \A n \in notes' : n.commitment.blinding <= drawn'
    BY <1>1, <1>4
  <2>2. ASSUME NEW p \in proofs', NEW n \in Consumed(p) \cup p.created
        PROVE  n.commitment.blinding <= drawn'
    BY <1>1, <1>2, <1>3, <1>4
  <2>. QED
    BY <2>1, <2>2, <1>8 DEF Drawn
<1>10. \A p \in proofs : p.created \cap proof.created = {}
  BY <1>1, <1>2, <1>3
<1>11. CreatedApart'
  BY <1>1, <1>10 DEF SpendingInv, CreatedApart
<1>12. PendingIsFresh'
  <2>1. \A n \in proof.created :
          n \notin notes /\ \A i \in DOMAIN history : n \notin Consumed(history[i])
    BY <1>1, <1>2, <1>3, <1>4, <1>5
  <2>. QED
    BY <2>1, <1>1, <1>8 DEF SpendingInv, PendingIsFresh
<1>13. SpentIsGone' /\ NullifiersHaveASource' /\ SpentOnce'
  BY <1>1 DEF SpendingInv, SpentIsGone, NullifiersHaveASource, SpentOnce, Consumed
<1>. QED
  BY <1>7, <1>9, <1>11, <1>12, <1>13 DEF SpendingInv

\* An accepted proof takes its notes away for good: nothing that was made before,
\* itself included, and nothing that will be made creates them again.
LEMMA SubmitSpends ==
  ASSUME SpendingInv, DropsSpent, NEW proof \in proofs, Submit(proof)
  PROVE  SpendingInv'
<1>1. /\ Consumed(proof) \subseteq notes /\ NullifiersFresh(proof)
      /\ nullifiers' = nullifiers \cup Range(proof.nullifiers)
      /\ notes' = (notes \ Consumed(proof)) \cup proof.created
      /\ history' = Append(history, proof)
      /\ registered' = registered /\ proofs' = proofs /\ drawn' = drawn
  BY DEF Submit
<1>2. /\ history \in Seq(proofs) /\ history' \in Seq(proofs)
      /\ DOMAIN history = 1..Len(history) /\ Len(history) \in Nat
      /\ DOMAIN history' = 1..Len(history) + 1
      /\ history'[Len(history) + 1] = proof
      /\ \A i \in DOMAIN history : history'[i] = history[i] /\ history[i] \in proofs
  BY <1>1 DEF SpendingInv, Typed
<1>3. Range(history') = Range(history) \cup {proof}
  BY <1>2 DEF Range
<1>4. Shaped(proof) /\ Consumed(proof) # {}
  BY DEF SpendingInv, Typed, Shaped
<1>5. proof \notin Range(history)
  BY <1>1, <1>4 DEF SpendingInv, SpentIsGone, Range
<1>6. \A n \in proof.created :
        n \notin notes /\ \A i \in DOMAIN history : n \notin Consumed(history[i])
  BY <1>5 DEF SpendingInv, PendingIsFresh
<1>7. \A p : Consumed(p)' = Consumed(p)
  BY DEF Consumed
<1>8. Typed'
  BY SubmitTyped DEF SpendingInv
<1>9. Drawn'
  BY <1>1, <1>7 DEF SpendingInv, Drawn
<1>10. CreatedApart'
  BY <1>1 DEF SpendingInv, CreatedApart
<1>11. PendingIsFresh'
  <2>1. ASSUME NEW p \in proofs, p \notin Range(history'), NEW n \in p.created
        PROVE  n \notin notes' /\ \A i \in DOMAIN history' : n \notin Consumed(history'[i])
    <3>1. p # proof /\ p \notin Range(history) /\ n \notin proof.created
      BY <2>1, <1>3 DEF SpendingInv, CreatedApart
    <3>2. n \notin notes /\ \A i \in DOMAIN history : n \notin Consumed(history[i])
      BY <3>1 DEF SpendingInv, PendingIsFresh
    <3>3. ASSUME NEW i \in DOMAIN history' PROVE n \notin Consumed(history'[i])
      <4>1. CASE i \in DOMAIN history
        BY <4>1, <3>2, <1>2
      <4>2. CASE i = Len(history) + 1
        BY <4>2, <3>2, <1>1, <1>2
      <4>. QED
        BY <4>1, <4>2, <1>2
    <3>. QED
      BY <3>1, <3>2, <3>3, <1>1
  <2>. QED
    BY <2>1, <1>1, <1>7 DEF PendingIsFresh
<1>12. SpentIsGone'
  <2>1. ASSUME NEW i \in DOMAIN history' PROVE Consumed(history'[i]) \cap notes' = {}
    <3>1. CASE i \in DOMAIN history
      BY <3>1, <1>1, <1>2, <1>6 DEF SpendingInv, SpentIsGone
    <3>2. CASE i = Len(history) + 1
      BY <3>2, <1>1, <1>2, <1>6
    <3>. QED
      BY <3>1, <3>2, <1>2
  <2>. QED
    BY <2>1, <1>7 DEF SpentIsGone
<1>13. NullifiersHaveASource'
  <2>1. ASSUME NEW x \in nullifiers' PROVE \E i \in DOMAIN history' : x \in Range(history'[i].nullifiers)
    <3>1. CASE x \in nullifiers
      BY <3>1, <1>2 DEF SpendingInv, NullifiersHaveASource
    <3>2. CASE x \in Range(proof.nullifiers)
      BY <3>2, <1>2
    <3>. QED
      BY <3>1, <3>2, <1>1
  <2>. QED
    BY <2>1 DEF NullifiersHaveASource
<1>14. SpentOnce'
  <2>1. IsInjective(proof.consumed)
    BY <1>1, <1>4 DEF NullifiersFresh, IsInjective, Shaped
  <2>2. \A i \in DOMAIN history : Consumed(history[i]) \cap Consumed(proof) = {}
    BY <1>1 DEF SpendingInv, SpentIsGone
  <2>3. ASSUME NEW i \in DOMAIN history', NEW j \in DOMAIN history', i # j
        PROVE  Consumed(history'[i]) \cap Consumed(history'[j]) = {}
    <3>1. CASE i \in DOMAIN history /\ j \in DOMAIN history
      BY <3>1, <2>3, <1>2 DEF SpendingInv, SpentOnce
    <3>2. CASE i = Len(history) + 1 /\ j \in DOMAIN history
      BY <3>2, <2>2, <1>2
    <3>3. CASE i \in DOMAIN history /\ j = Len(history) + 1
      BY <3>3, <2>2, <1>2
    <3>. QED
      BY <3>1, <3>2, <3>3, <2>3, <1>2
  <2>4. \A i \in DOMAIN history' : IsInjective(history'[i].consumed)
    BY <2>1, <1>2 DEF SpendingInv, SpentOnce
  <2>. QED
    BY <2>3, <2>4, <1>7 DEF SpentOnce
<1>. QED
  BY <1>8, <1>9, <1>10, <1>11, <1>12, <1>13, <1>14 DEF SpendingInv

\* Every step of a ledger that drops what is spent keeps the argument.
LEMMA SpendingStep ==
  ASSUME SpendingInv, DropsSpent, [Next]_vars
  PROVE  SpendingInv'
<1>1. CASE MakeProof
  BY <1>1, MakeProofMakes, MakingSpends DEF SpendingInv
<1>2. CASE \E secret, account \in Accounts : Register(secret, account)
  BY <1>2, RegisterSpends
<1>3. CASE \E proof \in proofs : Submit(proof)
  BY <1>3, SubmitSpends
<1>4. CASE Snapshot \/ UNCHANGED vars
  <2>1. /\ notes' = notes /\ nullifiers' = nullifiers /\ proofs' = proofs
        /\ history' = history /\ drawn' = drawn
    BY <1>4 DEF Snapshot, vars
  <2>2. Typed'
    BY TypedStep DEF SpendingInv
  <2>3. Drawn' /\ CreatedApart' /\ PendingIsFresh'
    BY <2>1 DEF SpendingInv, Drawn, CreatedApart, PendingIsFresh, Consumed
  <2>4. SpentIsGone' /\ NullifiersHaveASource' /\ SpentOnce'
    BY <2>1 DEF SpendingInv, SpentIsGone, NullifiersHaveASource, SpentOnce, Consumed
  <2>. QED
    BY <2>2, <2>3, <2>4 DEF SpendingInv
<1>. QED
  BY <1>1, <1>2, <1>3, <1>4 DEF Next

\* It holds at the start.
LEMMA SpendingInit == Init => SpendingInv
<1> SUFFICES ASSUME Init PROVE SpendingInv
  OBVIOUS
<1>1. proofs = {} /\ notes = {} /\ nullifiers = {} /\ DOMAIN history = {}
  BY DEF Init
<1>. QED
  BY <1>1, TypedInit DEF SpendingInv, Drawn, CreatedApart, PendingIsFresh, SpentIsGone,
                         NullifiersHaveASource, SpentOnce

\* "The same commitment can never be spent twice": of a ledger that forgets what
\* was consumed, whatever proofs the circuits let anyone make, and in whatever
\* order and however often they arrive.
THEOREM EachNoteIsSpentOnce == DropsSpent /\ Spec => []SpentOnce
<1> SUFFICES ASSUME DropsSpent PROVE Spec => []SpentOnce
  OBVIOUS
<1>1. SpendingInv /\ [Next]_vars => SpendingInv'
  BY SpendingStep
<1>2. SpendingInv => SpentOnce
  BY DEF SpendingInv
<1>. QED
  BY <1>1, <1>2, SpendingInit, PTL DEF Spec

\* No recorded nullifier stands in the way of the owner of a note that is there.
THEOREM OwnersAreNeverFrozen == DropsSpent /\ Spec => []NeverFrozen
<1> SUFFICES ASSUME DropsSpent PROVE Spec => []NeverFrozen
  OBVIOUS
<1>1. SpendingInv /\ [Next]_vars => SpendingInv'
  BY SpendingStep
<1>2. SpendingInv => NeverFrozen
  <2> SUFFICES ASSUME SpendingInv, NEW n \in notes, NEW r,
                      Nullifier(n.owner, n.commitment, n.token, r) \in nullifiers
               PROVE  FALSE
    BY DEF NeverFrozen
  <2>1. PICK i \in DOMAIN history :
          Nullifier(n.owner, n.commitment, n.token, r) \in Range(history[i].nullifiers)
    BY DEF SpendingInv, NullifiersHaveASource
  <2> DEFINE p == history[i]
  <2>2. p \in proofs /\ Shaped(p)
    BY DEF SpendingInv, Typed
  <2> HIDE DEF p
  <2>3. PICK j \in DOMAIN p.consumed :
          Nullifier(n.owner, n.commitment, n.token, r)
            = Nullifier(p.account, p.consumed[j], p.token, p.root)
    BY <2>1, <2>2 DEF p, Range, Shaped
  <2>4. n = Note(n.token, n.owner, n.commitment)
    BY DEF SpendingInv, Typed, Notes, Note
  <2>5. n \in Consumed(p)
    BY <2>3, <2>4 DEF Nullifier, Consumed
  <2>. QED
    BY <2>5 DEF p, SpendingInv, SpentIsGone
<1>. QED
  BY <1>1, <1>2, SpendingInit, PTL DEF Spec

-----------------------------------------------------------------------------
(* Amounts *)

\* Every step keeps amounts within what the circuits constrain.
LEMMA AmountsStep ==
  ASSUME AmountsInv, [Next]_vars
  PROVE  AmountsInv'
<1>1. Typed'
  BY TypedStep DEF AmountsInv
<1>2. \A p : Consumed(p)' = Consumed(p)
  BY DEF Consumed
<1>3. CASE MakeProof
  <2>1. PICK proof : Makes(proof)
    BY <1>3, MakeProofMakes DEF AmountsInv
  <2>2. proofs' = proofs \cup {proof} /\ Bounded(proof) /\ notes' = notes
    BY <2>1 DEF Makes
  <2>. QED
    BY <2>2, <1>1, <1>2 DEF AmountsInv, Bounded
<1>4. CASE \E secret, account \in Accounts : Register(secret, account)
  <2>1. proofs' = proofs
    BY <1>4 DEF Register
  <2>. QED
    BY <2>1, <1>1, <1>2 DEF AmountsInv, Bounded
<1>5. CASE \E proof \in proofs : Submit(proof)
  <2>1. proofs' = proofs
    BY <1>5 DEF Submit
  <2>. QED
    BY <2>1, <1>1, <1>2 DEF AmountsInv, Bounded
<1>6. CASE Snapshot \/ UNCHANGED vars
  BY <1>6, <1>1, <1>2 DEF Snapshot, vars, AmountsInv, Bounded
<1>. QED
  BY <1>3, <1>4, <1>5, <1>6 DEF Next

\* An amount whose low word is beyond the limit is one sum, and no proof consumes
\* it; one beyond its word was paid by a transfer.
THEOREM OverfullAmountsAreStuck == Spec => []OverfullIsStuck
<1>1. Init => AmountsInv
  BY TypedInit DEF Init, AmountsInv
<1>2. AmountsInv /\ [Next]_vars => AmountsInv'
  BY AmountsStep
<1>3. AmountsInv => OverfullIsStuck
  BY DEF AmountsInv, Bounded, OverfullIsStuck
<1>. QED
  BY <1>1, <1>2, <1>3, PTL DEF Spec

-----------------------------------------------------------------------------
(* Types, with the bounds *)

\* TypeOK needs that proofs are counted, and that blindings were drawn.
TypeInv ==
  /\ Typed
  /\ Drawn
  /\ root \in 0..MaxRoot
  /\ IsFiniteSet(proofs)
  /\ Cardinality(proofs) <= MaxProofs

\* Every step keeps these.
LEMMA TypeStep ==
  ASSUME TypeInv, [Next]_vars
  PROVE  TypeInv'
<1>1. Typed /\ Typed' /\ Drawn
  BY TypedStep DEF TypeInv
<1>2. \A p : Consumed(p)' = Consumed(p)
  BY DEF Consumed
<1>3. /\ root \in Nat /\ MaxRoot \in Nat /\ MaxProofs \in Nat /\ drawn \in Nat
      /\ IsFiniteSet(proofs) /\ Cardinality(proofs) \in Nat
  BY <1>1, LedgerAssumption, FS_CardinalityType DEF TypeInv, Typed
<1>4. /\ \A n \in notes : n.commitment.blinding \in Nat
      /\ \A p \in proofs : \A n \in Consumed(p) \cup p.created : n.commitment.blinding \in Nat
  BY <1>1 DEF Typed, Shaped, Notes
<1>5. CASE MakeProof
  <2>1. PICK proof : Makes(proof)
    BY <1>5, <1>1, MakeProofMakes
  <2>2. /\ proofs' = proofs \cup {proof} /\ notes' = notes /\ root' = root
        /\ drawn < drawn' /\ drawn' \in Nat
        /\ Consumed(proof) \subseteq notes /\ Cardinality(proofs) < MaxProofs
        /\ \A n \in proof.created : n.commitment.blinding <= drawn'
    BY <2>1 DEF Makes
  <2>3. IsFiniteSet(proofs') /\ Cardinality(proofs') <= MaxProofs
    BY <1>3, <2>2, FS_AddElement
  <2>4. \A n \in notes' : n.commitment.blinding <= drawn'
    BY <1>1, <1>3, <1>4, <2>2 DEF Drawn
  <2>5. \A p \in proofs' : \A n \in Consumed(p) \cup p.created : n.commitment.blinding <= drawn'
    BY <1>1, <1>3, <1>4, <2>2, <2>4 DEF Drawn
  <2>6. Drawn'
    BY <1>2, <2>4, <2>5 DEF Drawn
  <2>. QED
    BY <1>1, <2>2, <2>3, <2>6 DEF TypeInv
<1>6. CASE \E secret, account \in Accounts : Register(secret, account)
  <2>1. PICK secret \in Accounts, account \in Accounts : Register(secret, account)
    BY <1>6
  <2>2. proofs' = proofs /\ root' = root /\ drawn' = drawn + 1
    BY <2>1 DEF Register
  <2>3. \A n \in notes' \ notes : n.commitment = Commit(0, drawn + 1)
    BY <1>1, <2>1, RegisterTyped
  <2>4. Drawn'
    BY <1>1, <1>2, <1>3, <1>4, <2>2, <2>3 DEF Drawn, Commit
  <2>. QED
    BY <1>1, <2>2, <2>4 DEF TypeInv
<1>7. CASE \E proof \in proofs : Submit(proof)
  <2>1. PICK proof \in proofs : Submit(proof)
    BY <1>7
  <2>2. notes' \subseteq notes \cup proof.created /\ proofs' = proofs /\ root' = root /\ drawn' = drawn
    BY <2>1 DEF Submit
  <2>3. Drawn'
    BY <1>1, <1>2, <2>2 DEF Drawn
  <2>. QED
    BY <1>1, <2>2, <2>3 DEF TypeInv
<1>8. CASE Snapshot \/ UNCHANGED vars
  <2>1. /\ notes' = notes /\ proofs' = proofs /\ drawn' = drawn
        /\ root' = root \/ (root' = root + 1 /\ root < MaxRoot)
    BY <1>8 DEF Snapshot, vars
  <2>2. Drawn'
    BY <1>1, <1>2, <2>1 DEF Drawn
  <2>3. root' \in 0..MaxRoot
    BY <1>3, <2>1 DEF TypeInv
  <2>. QED
    BY <1>1, <2>1, <2>2, <2>3 DEF TypeInv
<1>. QED
  BY <1>5, <1>6, <1>7, <1>8 DEF Next

\* Notes belong to recorded addresses, their amounts are field elements and their
\* blindings were drawn, and what was accepted was made: whatever anyone submits.
THEOREM LedgerTypes == Spec => []TypeOK
<1>1. Init => TypeInv
  <2> SUFFICES ASSUME Init PROVE TypeInv
    OBVIOUS
  <2>1. proofs = {} /\ notes = {} /\ root = 0
    BY DEF Init
  <2>2. root \in 0..MaxRoot /\ IsFiniteSet(proofs) /\ Cardinality(proofs) <= MaxProofs
    BY <2>1, LedgerAssumption, FS_EmptySet
  <2>. QED
    BY <2>1, <2>2, TypedInit DEF TypeInv, Drawn
<1>2. TypeInv /\ [Next]_vars => TypeInv'
  BY TypeStep
<1>3. TypeInv => TypeOK
  <2> SUFFICES ASSUME TypeInv PROVE TypeOK
    OBVIOUS
  <2>1. Typed /\ drawn \in Nat
    BY DEF TypeInv, Typed
  <2>2. ASSUME NEW n \in notes
        PROVE  /\ n.token \in Tokens /\ n.owner \in registered
               /\ n.commitment.amount \in Fields /\ n.commitment.blinding \in 1..drawn
    <3>1. /\ n.token \in Tokens /\ n.owner \in registered
          /\ n.commitment.amount \in Fields /\ n.commitment.blinding \in Nat \ {0}
      BY <2>1 DEF Typed, Notes
    <3>2. n.commitment.blinding <= drawn
      BY DEF TypeInv, Drawn
    <3>. QED
      BY <2>1, <3>1, <3>2
  <2>3. Range(history) \subseteq proofs
    BY <2>1 DEF Typed, Range
  <2>. QED
    BY <2>1, <2>2, <2>3 DEF TypeOK, TypeInv, Typed
<1>. QED
  BY <1>1, <1>2, <1>3, PTL DEF Spec

-----------------------------------------------------------------------------
(* Conservation *)

Held(t) == {n \in notes : n.token = t}

\* The accepted proofs of a token, and what entered and left with them.
Taken(taken, t)   == {i \in DOMAIN taken : taken[i].token = t}
Outflow(taken, t) == SumFunctionOnSet([i \in Taken(taken, t) |-> Word(taken[i].outflow)], Taken(taken, t))
Inflow(taken, t)  == SumFunctionOnSet([i \in Taken(taken, t) |-> Word(taken[i].inflow)], Taken(taken, t))

\* The account of each token balances because each proof does, because what a
\* proof consumes is taken away and because what it creates was not there.
ConservingInv ==
  /\ SpendingInv
  /\ \A proof \in proofs : Balanced(proof)
  /\ \A t \in Tokens : IsFiniteSet(Held(t))
  /\ Conserved

\* Its words are numbers.
Flowing(proof) == Word(proof.inflow) \in Nat /\ Word(proof.outflow) \in Nat

\* One more accepted proof adds its amounts to those of its token.
LEMMA FlowsAdd ==
  ASSUME NEW taken \in Seq(proofs), NEW p \in proofs, NEW t,
         \A q \in proofs : Flowing(q)
  PROVE  /\ Outflow(taken, t) \in Nat
         /\ Inflow(taken, t) \in Nat
         /\ Outflow(Append(taken, p), t) =
              IF p.token = t THEN Outflow(taken, t) + Word(p.outflow) ELSE Outflow(taken, t)
         /\ Inflow(Append(taken, p), t) =
              IF p.token = t THEN Inflow(taken, t) + Word(p.inflow) ELSE Inflow(taken, t)
<1> DEFINE more == Append(taken, p)
           new  == Len(taken) + 1
           S    == Taken(taken, t)
           T    == Taken(more, t)
           f    == [i \in S |-> Word(taken[i].outflow)]
           g    == [i \in T |-> Word(more[i].outflow)]
           h    == [i \in S |-> Word(taken[i].inflow)]
           k    == [i \in T |-> Word(more[i].inflow)]
<1>1. /\ DOMAIN taken = 1..Len(taken) /\ Len(taken) \in Nat
      /\ DOMAIN more = 1..new /\ more[new] = p
      /\ \A i \in 1..Len(taken) : more[i] = taken[i] /\ taken[i] \in proofs
  OBVIOUS
<1>2. S \subseteq 1..Len(taken) /\ new \notin S /\ IsFiniteSet(S)
  <2>1. IsFiniteSet(1..Len(taken))
    <3>1. 1 \in Int /\ Len(taken) \in Int
      BY <1>1
    <3>. QED
      BY <3>1, FS_Interval
  <2>2. S \subseteq 1..Len(taken) /\ new \notin S
    BY <1>1 DEF Taken
  <2>. QED
    BY <2>1, <2>2, FS_Subset
<1>3. T = IF p.token = t THEN S \cup {new} ELSE S
  <2> HIDE DEF more
  <2>1. \A i \in 1..new : i \in 1..Len(taken) \/ i = new
    BY <1>1
  <2>. QED
    BY <1>1, <2>1 DEF Taken
<1>4. /\ \A i \in S : f[i] = g[i] /\ f[i] \in Nat /\ h[i] = k[i] /\ h[i] \in Nat
      /\ p.token = t => g[new] = Word(p.outflow) /\ k[new] = Word(p.inflow)
      /\ Word(p.inflow) \in Nat /\ Word(p.outflow) \in Nat
  <2> HIDE DEF more, S, T, new
  <2>. QED
    BY <1>1, <1>2, <1>3 DEF Flowing
<1>5. /\ Outflow(taken, t) = SumFunctionOnSet(f, S)
      /\ Outflow(more, t) = SumFunctionOnSet(g, T)
      /\ Inflow(taken, t) = SumFunctionOnSet(h, S)
      /\ Inflow(more, t) = SumFunctionOnSet(k, T)
  BY DEF Outflow, Inflow
<1> HIDE DEF f, g, h, k, S, T, new, more
<1>6. SumFunctionOnSet(f, S) \in Nat /\ SumFunctionOnSet(h, S) \in Nat
  BY <1>2, <1>4, SumType
<1>7. CASE p.token = t
  <2>0. g[new] \in Nat /\ k[new] \in Nat
    BY <1>4, <1>7
  <2>1. IsFiniteSet(T) /\ new \in T /\ T \ {new} = S /\ T = S \cup {new}
    BY <1>2, <1>3, <1>7, FS_AddElement
  <2>2. SumFunctionOnSet(g, T) = SumFunctionOnSet(f, S) + g[new]
    <3>1. \A y \in T : g[y] \in Nat
      BY <1>4, <2>0, <2>1
    <3>2. SumFunctionOnSet(g, T) = g[new] + SumFunctionOnSet(g, T \ {new})
      BY <2>1, <3>1, SumWithout
    <3>3. SumFunctionOnSet(g, T) = g[new] + SumFunctionOnSet(g, S)
      BY <2>1, <3>2, Zenon
    <3>4. SumFunctionOnSet(g, S) = SumFunctionOnSet(f, S)
      BY <1>2, <1>4, SumSame
    <3>. QED
      BY <1>6, <2>0, <3>3, <3>4
  <2>3. SumFunctionOnSet(k, T) = SumFunctionOnSet(h, S) + k[new]
    <3>1. \A y \in T : k[y] \in Nat
      BY <1>4, <2>0, <2>1
    <3>2. SumFunctionOnSet(k, T) = k[new] + SumFunctionOnSet(k, T \ {new})
      BY <2>1, <3>1, SumWithout
    <3>3. SumFunctionOnSet(k, T) = k[new] + SumFunctionOnSet(k, S)
      BY <2>1, <3>2, Zenon
    <3>4. SumFunctionOnSet(k, S) = SumFunctionOnSet(h, S)
      BY <1>2, <1>4, SumSame
    <3>. QED
      BY <1>6, <2>0, <3>3, <3>4
  <2>. QED
    BY <1>4, <1>5, <1>6, <1>7, <2>2, <2>3 DEF more
<1>8. CASE p.token # t
  <2>1. SumFunctionOnSet(g, S) = SumFunctionOnSet(f, S)
    BY <1>2, <1>4, SumSame
  <2>2. SumFunctionOnSet(k, S) = SumFunctionOnSet(h, S)
    BY <1>2, <1>4, SumSame
  <2>. QED
    BY <1>3, <1>5, <1>6, <1>8, <2>1, <2>2 DEF more
<1>. QED
  BY <1>7, <1>8

\* What is conserved, in these terms.
LEMMA ConservedIsBalance ==
  Conserved <=> \A t \in Tokens : Value(Held(t)) + Outflow(history, t) = Inflow(history, t)
BY DEF Conserved, Value, Held, Outflow, Inflow, Taken

\* An accepted proof moves value between notes, and in and out as it says.
LEMMA SubmitConserves ==
  ASSUME ConservingInv, DropsSpent, NEW proof \in proofs, Submit(proof)
  PROVE  ConservingInv'
<1>1. /\ Consumed(proof) \subseteq notes /\ NullifiersFresh(proof)
      /\ notes' = (notes \ Consumed(proof)) \cup proof.created
      /\ history' = Append(history, proof) /\ proofs' = proofs
  BY DEF Submit
<1>2. Shaped(proof) /\ Balanced(proof) /\ notes \subseteq Notes /\ history \in Seq(proofs)
  BY DEF ConservingInv, SpendingInv, Typed
<1>3. IsInjective(proof.consumed)
  BY <1>1, <1>2 DEF NullifiersFresh, IsInjective, Shaped
<1>4. \A n \in Consumed(proof) : n.token = proof.token
  BY DEF Consumed, Note
<1>5. proof.created \cap notes = {}
  <2>1. Consumed(proof) # {}
    BY <1>2 DEF Shaped
  <2>2. proof \notin Range(history)
    BY <1>1, <2>1 DEF ConservingInv, SpendingInv, SpentIsGone, Range
  <2>. QED
    BY <2>2 DEF ConservingInv, SpendingInv, PendingIsFresh
<1>6. SpendingInv'
  BY SubmitSpends DEF ConservingInv
<1>7. \A p : Balanced(p)' = Balanced(p)
  BY DEF Balanced, Consumed
<1>8. \A q \in proofs : Flowing(q)
  <2>1. \A q \in proofs : q.inflow \in Nat /\ q.outflow \in Nat
    BY Widths DEF ConservingInv, Balanced
  <2>. QED
    BY <2>1, Words DEF Flowing
<1>9. /\ \A n \in notes : Worth(n) \in Nat
      /\ \A n \in proof.created : Worth(n) \in Nat
  BY <1>2, WorthIs DEF Shaped
<1>10. ASSUME NEW t \in Tokens
       PROVE  /\ IsFiniteSet(Held(t)')
              /\ Value(Held(t)') + Outflow(history', t) = Inflow(history', t)
  <2>1. /\ IsFiniteSet(Held(t))
        /\ Value(Held(t)) + Outflow(history, t) = Inflow(history, t)
    BY ConservedIsBalance DEF ConservingInv
  <2>2. /\ Outflow(history, t) \in Nat /\ Inflow(history, t) \in Nat
        /\ Outflow(history', t) =
             IF proof.token = t THEN Outflow(history, t) + Word(proof.outflow) ELSE Outflow(history, t)
        /\ Inflow(history', t) =
             IF proof.token = t THEN Inflow(history, t) + Word(proof.inflow) ELSE Inflow(history, t)
    BY <1>1, <1>2, <1>8, FlowsAdd
  <2>3. CASE proof.token # t
    <3>1. Held(t)' = Held(t)
      BY <1>1, <1>2, <1>4, <2>3 DEF Held, Balanced
    <3>. QED
      BY <2>1, <2>2, <2>3, <3>1
  <2>4. CASE proof.token = t
    <3> DEFINE C == Consumed(proof)
               kept == Held(t) \ C
    <3>1. Held(t)' = kept \cup proof.created
      BY <1>1, <1>2, <2>4 DEF Held, Balanced
    <3>2. C \subseteq Held(t) /\ Held(t) = kept \cup C /\ kept \cap C = {}
      BY <1>1, <1>4, <2>4 DEF Held
    <3>3. IsFiniteSet(C) /\ IsFiniteSet(proof.created) /\ IsFiniteSet(kept)
      BY <1>2, <2>1, FS_Subset DEF Balanced
    <3>4. kept \cap proof.created = {}
      BY <1>5 DEF Held
    <3>5. /\ \A n \in kept \cup C : Worth(n) \in Nat
          /\ \A n \in kept \cup proof.created : Worth(n) \in Nat
      BY <1>1, <1>9 DEF Held
    <3>6. Value(proof.created) + Word(proof.outflow) = Value(C) + Word(proof.inflow)
      BY <1>2, <1>3 DEF Balanced
    <3> HIDE DEF C, kept
    <3>7. Value(kept \cup C) = Value(kept) + Value(C)
      BY <3>2, <3>3, <3>5, ValueOfBoth
    <3>8. Value(kept \cup proof.created) = Value(kept) + Value(proof.created)
      BY <3>3, <3>4, <3>5, ValueOfBoth
    <3>9. /\ Value(kept) \in Nat /\ Value(C) \in Nat /\ Value(proof.created) \in Nat
          /\ Word(proof.inflow) \in Nat /\ Word(proof.outflow) \in Nat
      <4>1. Word(proof.inflow) \in Nat /\ Word(proof.outflow) \in Nat
        BY <1>8 DEF Flowing
      <4>. QED
        BY <3>3, <3>5, <4>1, ValueType
    <3>10. IsFiniteSet(kept \cup proof.created)
      BY <3>3, FS_Union
    <3>11. Value(Held(t)) = Value(kept) + Value(C) /\ Value(Held(t)') = Value(kept) + Value(proof.created)
      BY <3>1, <3>2, <3>7, <3>8
    <3>12. Value(kept) + Value(C) + Outflow(history, t) = Inflow(history, t)
      BY <2>1, <3>11
    <3>13. Value(kept) + Value(proof.created) + (Outflow(history, t) + Word(proof.outflow))
            = Inflow(history, t) + Word(proof.inflow)
      BY <2>2, <3>6, <3>9, <3>12
    <3>. QED
      BY <2>2, <2>4, <3>1, <3>10, <3>11, <3>13
  <2>. QED
    BY <2>3, <2>4
<1>11. Conserved' <=>
         \A t \in Tokens : Value(Held(t)') + Outflow(history', t) = Inflow(history', t)
  BY DEF Conserved, Value, Held, Outflow, Inflow, Taken
<1>12. Conserved'
  BY <1>10, <1>11
<1>. QED
  BY <1>1, <1>6, <1>7, <1>10, <1>12 DEF ConservingInv

\* A new account is worth nothing.
LEMMA RegisterConserves ==
  ASSUME ConservingInv, NEW secret \in Accounts, NEW account \in Accounts, Register(secret, account)
  PROVE  ConservingInv'
<1> DEFINE opened == {Note(t, account, Commit(0, drawn + 1)) : t \in Tokens}
           new(t) == Note(t, account, Commit(0, drawn + 1))
<1>1. /\ notes' = notes \cup opened /\ drawn \in Nat
      /\ proofs' = proofs /\ history' = history
  BY DEF Register, ConservingInv, SpendingInv, Typed
<1>2. /\ \A t \in Tokens : new(t) \in opened /\ new(t).token = t /\ new(t).commitment = Commit(0, drawn + 1)
      /\ \A n \in opened : n = new(n.token) /\ n.commitment.blinding = drawn + 1
  BY DEF Note, Commit
<1>3. \A n \in notes : n.commitment.blinding <= drawn /\ n.commitment.blinding \in Nat /\ Worth(n) \in Nat
  <2>1. \A n \in notes : n \in Notes /\ n.commitment.blinding <= drawn
    BY DEF ConservingInv, SpendingInv, Drawn, Typed
  <2>2. \A n \in notes : n.commitment.blinding \in Nat
    BY <2>1 DEF Notes
  <2>. QED
    BY <2>1, <2>2, WorthIs
<1> HIDE DEF opened, new
<1>4. opened \cap notes = {}
  BY <1>1, <1>2, <1>3
<1>5. SpendingInv'
  BY RegisterSpends DEF ConservingInv
<1>6. \A p : Balanced(p)' = Balanced(p)
  BY DEF Balanced, Consumed
<1>7. ASSUME NEW t \in Tokens
      PROVE  /\ IsFiniteSet(Held(t)')
             /\ Value(Held(t)') = Value(Held(t))
  <2>1. Held(t)' = Held(t) \cup {new(t)}
    BY <1>1, <1>2 DEF Held
  <2>2. Worth(new(t)) = 0
    BY <1>2, NothingIsNothing DEF Commit, Worth
  <2>3. IsFiniteSet(Held(t)) /\ Held(t) \cap {new(t)} = {}
    BY <1>2, <1>4 DEF ConservingInv, Held
  <2>4. IsFiniteSet({new(t)}) /\ Value({new(t)}) = 0 /\ IsFiniteSet(Held(t) \cup {new(t)})
    BY <2>2, <2>3, ValueOfOne, FS_AddElement
  <2>5. \A n \in Held(t) \cup {new(t)} : Worth(n) \in Nat
    BY <1>3, <2>2 DEF Held
  <2>6. Value(Held(t) \cup {new(t)}) = Value(Held(t)) + Value({new(t)})
    BY <2>3, <2>4, <2>5, ValueOfBoth
  <2>7. Value(Held(t)) \in Nat
    BY <2>3, <2>5, ValueType
  <2>. QED
    BY <2>1, <2>4, <2>6, <2>7
<1>8. Conserved' <=>
        \A t \in Tokens : Value(Held(t)') + Outflow(history', t) = Inflow(history', t)
  BY DEF Conserved, Value, Held, Outflow, Inflow, Taken
<1>9. Conserved'
  BY <1>1, <1>7, <1>8, ConservedIsBalance DEF ConservingInv
<1>. QED
  BY <1>1, <1>5, <1>6, <1>7, <1>9 DEF ConservingInv

\* Every step conserves.
LEMMA ConservingStep ==
  ASSUME ConservingInv, DropsSpent, [Next]_vars
  PROVE  ConservingInv'
<1>1. \A p : Balanced(p)' = Balanced(p)
  BY DEF Balanced, Consumed
<1>2. CASE MakeProof
  <2>1. PICK proof : Makes(proof)
    BY <1>2, MakeProofMakes DEF ConservingInv, SpendingInv
  <2>2. /\ proofs' = proofs \cup {proof} /\ Balanced(proof)
        /\ notes' = notes /\ history' = history
    BY <2>1 DEF Makes
  <2>3. SpendingInv'
    BY <2>1, MakingSpends DEF ConservingInv
  <2>. QED
    BY <1>1, <2>2, <2>3 DEF ConservingInv, Conserved, Held
<1>3. CASE \E secret, account \in Accounts : Register(secret, account)
  BY <1>3, RegisterConserves
<1>4. CASE \E proof \in proofs : Submit(proof)
  BY <1>4, SubmitConserves
<1>5. CASE Snapshot \/ UNCHANGED vars
  <2>1. notes' = notes /\ proofs' = proofs /\ history' = history
    BY <1>5 DEF Snapshot, vars
  <2>2. SpendingInv'
    BY SpendingStep DEF ConservingInv
  <2>. QED
    BY <1>1, <2>1, <2>2 DEF ConservingInv, Conserved, Held
<1>. QED
  BY <1>2, <1>3, <1>4, <1>5 DEF Next

\* It holds at the start.
LEMMA ConservingInit == Init => ConservingInv
<1> SUFFICES ASSUME Init PROVE ConservingInv
  OBVIOUS
<1>1. proofs = {} /\ notes = {} /\ history = <<>>
  BY DEF Init
<1>2. \A t : Held(t) = {} /\ Taken(history, t) = {}
  BY <1>1 DEF Held, Taken
<1>3. \A f : SumFunctionOnSet(f, {}) = 0
  BY SumRound, FS_EmptySet
<1>4. \A t : Value(Held(t)) = 0 /\ Outflow(history, t) = 0 /\ Inflow(history, t) = 0
  BY <1>2, <1>3 DEF Value, Outflow, Inflow
<1>5. Conserved
  BY <1>4, ConservedIsBalance
<1>. QED
  BY <1>1, <1>2, <1>5, SpendingInit, FS_EmptySet DEF ConservingInv

\* "Value is conserved": what the addresses of a token hold, and what was withdrawn,
\* is what was deposited, for any amounts, widths, tokens and addresses, and any
\* number of proofs in whatever order they are made, accepted and repeated, as
\* long as the ledger forgets what was consumed.
THEOREM ValueIsConserved == DropsSpent /\ Spec => []Conserved
<1> SUFFICES ASSUME DropsSpent PROVE Spec => []Conserved
  OBVIOUS
<1>1. Init => ConservingInv
  BY ConservingInit
<1>2. ConservingInv /\ [Next]_vars => ConservingInv'
  BY ConservingStep
<1>3. ConservingInv => Conserved
  BY DEF ConservingInv
<1>. QED
  BY <1>1, <1>2, <1>3, PTL DEF Spec

-----------------------------------------------------------------------------
(* The sheet of balances *)

HeldBy(a, t) == {n \in notes : n.owner = a /\ n.token = t}

\* Every proof that is around moves value as an order of its account does.
SheetInv ==
  /\ ConservingInv
  /\ \A proof \in proofs : Moves(proof)

LEMMA BalanceIsValue ==
  ASSUME NEW a, NEW t
  PROVE  Balance(a, t) = Value(HeldBy(a, t)) /\ Balance(a, t)' = Value(HeldBy(a, t)')
BY DEF Balance, Value, HeldBy

LEMMA HeldIsFinite ==
  ASSUME SheetInv, NEW a, NEW t \in Tokens
  PROVE  /\ IsFiniteSet(HeldBy(a, t))
         /\ \A n \in HeldBy(a, t) : Worth(n) \in Nat
         /\ Balance(a, t) \in Nat
<1>1. HeldBy(a, t) \subseteq Held(t) /\ IsFiniteSet(Held(t))
  BY DEF HeldBy, Held, SheetInv, ConservingInv
<1>2. IsFiniteSet(HeldBy(a, t))
  BY <1>1, FS_Subset
<1>3. \A n \in HeldBy(a, t) : Worth(n) \in Nat
  BY WorthIs DEF HeldBy, SheetInv, ConservingInv, SpendingInv, Typed
<1>. QED
  BY <1>2, <1>3, BalanceIsValue, ValueType

\* What an accepted proof does to the balances: what its account held of the token
\* covers what it pays.
LEMMA SubmitMoves ==
  ASSUME SheetInv, DropsSpent, NEW proof \in proofs, Submit(proof)
  PROVE  /\ proof.account \in registered /\ proof.token \in Tokens
         /\ \A a \in Accounts, t \in Tokens \ {proof.token} : Balance(a, t)' = Balance(a, t)
         /\ \A a \in Accounts : Balance(a, proof.token)' \in Nat
         /\ \E recipient \in registered, paid \in Amounts :
              /\ \/ paid = 0 /\ Word(proof.outflow) = 0
                 \/ paid = 0 /\ Word(proof.inflow) = 0
                 \/ Word(proof.inflow) = 0 /\ Word(proof.outflow) = 0
              /\ paid + Word(proof.outflow) <= Balance(proof.account, proof.token)
              /\ \A a \in Accounts :
                   Balance(a, proof.token)' + (IF a = proof.account THEN paid + Word(proof.outflow) ELSE 0)
                     = Balance(a, proof.token) + (IF a = proof.account THEN Word(proof.inflow) ELSE 0)
                         + (IF a = recipient THEN paid ELSE 0)
<1> DEFINE C == Consumed(proof)
           token == proof.token
           kept(a) == HeldBy(a, token) \ C
           new(a) == {n \in proof.created : n.owner = a}
<1>1. /\ C \subseteq notes /\ NullifiersFresh(proof)
      /\ notes' = (notes \ C) \cup proof.created
  BY DEF Submit
<1>2. /\ Shaped(proof) /\ Balanced(proof) /\ Moves(proof)
      /\ notes \subseteq Notes /\ \A n \in notes : n.owner \in registered
  BY DEF SheetInv, ConservingInv, SpendingInv, Typed
<1>3. IsInjective(proof.consumed)
  BY <1>1, <1>2 DEF NullifiersFresh, IsInjective, Shaped
<1>4. \A n \in C : n.token = token /\ n.owner = proof.account
  BY DEF Consumed, Note
<1>5. proof.created \cap notes = {}
  <2>1. C # {}
    BY <1>2 DEF Shaped
  <2>2. proof \notin Range(history)
    BY <1>1, <2>1 DEF SheetInv, ConservingInv, SpendingInv, SpentIsGone, Range
  <2>. QED
    BY <2>2 DEF SheetInv, ConservingInv, SpendingInv, PendingIsFresh
<1>6. /\ \A n \in notes : Worth(n) \in Nat
      /\ \A n \in proof.created : Worth(n) \in Nat /\ n.token = token
      /\ IsFiniteSet(C) /\ IsFiniteSet(proof.created)
  <2>1. \A n \in notes \cup proof.created : Worth(n) \in Nat
    BY <1>2, WorthIs DEF Shaped
  <2>. QED
    BY <1>2, <2>1 DEF Balanced
<1>7. proof.account \in registered /\ token \in Tokens
  <2>1. PICK n : n \in C
    BY <1>2 DEF Shaped
  <2>. QED
    BY <2>1, <1>1, <1>2, <1>4 DEF Notes
<1>8. ASSUME NEW a \in Accounts, NEW t \in Tokens \ {token}
      PROVE  Balance(a, t)' = Balance(a, t)
  <2>1. HeldBy(a, t)' = HeldBy(a, t)
    BY <1>1, <1>4, <1>6 DEF HeldBy
  <2>. QED
    BY <2>1, BalanceIsValue
<1>9. ASSUME NEW a \in Accounts
      PROVE  /\ Value(kept(a)) \in Nat /\ Share(proof.created, a) \in Nat /\ Value(C) \in Nat
             /\ Balance(a, token)' = Value(kept(a)) + Share(proof.created, a)
             /\ Balance(a, token) = Value(kept(a)) + (IF a = proof.account THEN Value(C) ELSE 0)
  <2>1. IsFiniteSet(HeldBy(a, token)) /\ \A n \in HeldBy(a, token) : Worth(n) \in Nat
    BY <1>7, HeldIsFinite
  <2>2. /\ IsFiniteSet(kept(a)) /\ \A n \in kept(a) : Worth(n) \in Nat
        /\ IsFiniteSet(new(a)) /\ \A n \in new(a) : Worth(n) \in Nat
        /\ \A n \in C : Worth(n) \in Nat
    BY <2>1, <1>1, <1>6, FS_Subset
  <2>3. HeldBy(a, token)' = kept(a) \cup new(a) /\ kept(a) \cap new(a) = {}
    BY <1>1, <1>5, <1>6 DEF HeldBy
  <2>4. Value(kept(a) \cup new(a)) = Value(kept(a)) + Value(new(a))
    <3> HIDE DEF kept, new
    <3>. QED
      BY <2>2, <2>3, ValueOfBoth
  <2>5. Share(proof.created, a) = Value(new(a))
    BY DEF Share
  <2>6. Value(kept(a)) \in Nat /\ Value(new(a)) \in Nat /\ Value(C) \in Nat
    <3> HIDE DEF kept, new, C
    <3>. QED
      BY <2>2, <1>6, ValueType
  <2>. /\ Balance(a, token) = Value(HeldBy(a, token))
       /\ Balance(a, token)' = Value(HeldBy(a, token)')
    BY BalanceIsValue
  <2>7. CASE a = proof.account
    <3>1. HeldBy(a, token) = kept(a) \cup C /\ kept(a) \cap C = {}
      BY <1>1, <1>4, <2>7 DEF HeldBy
    <3>2. Value(kept(a) \cup C) = Value(kept(a)) + Value(C)
      <4> HIDE DEF kept, C
      <4>. QED
        BY <2>2, <3>1, <1>6, ValueOfBoth
    <3>. QED
      BY <2>3, <2>4, <2>5, <2>6, <2>7, <3>1, <3>2
  <2>8. CASE a # proof.account
    <3>1. HeldBy(a, token) = kept(a)
      BY <1>4, <2>8 DEF HeldBy
    <3> HIDE DEF kept, new, C, token
    <3>. QED
      BY <2>3, <2>4, <2>5, <2>6, <2>8, <3>1
  <2>. QED
    BY <2>7, <2>8
<1>10. PICK recipient \in registered, paid \in Amounts :
         /\ \/ paid = 0 /\ Word(proof.outflow) = 0
            \/ paid = 0 /\ Word(proof.inflow) = 0
            \/ Word(proof.inflow) = 0 /\ Word(proof.outflow) = 0
         /\ paid + Word(proof.outflow) <= Value(C)
         /\ \A a \in Accounts :
              Share(proof.created, a) + (IF a = proof.account THEN paid + Word(proof.outflow) ELSE 0)
                = (IF a = proof.account THEN Value(C) + Word(proof.inflow) ELSE 0)
                    + (IF a = recipient THEN paid ELSE 0)
  BY <1>2, <1>3 DEF Moves
<1>11. paid \in Nat /\ Word(proof.inflow) \in Nat /\ Word(proof.outflow) \in Nat /\ proof.account \in Accounts
  <2>1. Amounts \subseteq Nat /\ Word(proof.inflow) \in Amounts /\ Word(proof.outflow) \in Amounts
    BY <1>2, Widths DEF Moves
  <2>2. proof.account \in Accounts
    BY <1>7 DEF SheetInv, ConservingInv, SpendingInv, Typed
  <2>. QED
    BY <1>10, <2>1, <2>2
<1> HIDE DEF C, kept, token
<1>12. paid + Word(proof.outflow) <= Balance(proof.account, token)
  BY <1>9, <1>10, <1>11
<1>13. ASSUME NEW a \in Accounts
       PROVE  Balance(a, token)' + (IF a = proof.account THEN paid + Word(proof.outflow) ELSE 0)
                = Balance(a, token) + (IF a = proof.account THEN Word(proof.inflow) ELSE 0)
                    + (IF a = recipient THEN paid ELSE 0)
  <2>1. Share(proof.created, a) + (IF a = proof.account THEN paid + Word(proof.outflow) ELSE 0)
          = (IF a = proof.account THEN Value(C) + Word(proof.inflow) ELSE 0)
              + (IF a = recipient THEN paid ELSE 0)
    BY <1>10
  <2>. QED
    BY <1>9, <1>11, <2>1
<1>14. \A a \in Accounts : Balance(a, token)' \in Nat
  BY <1>9
<1>. QED
  BY <1>7, <1>8, <1>10, <1>12, <1>13, <1>14 DEF token

\* One more accepted proof is one more order.
LEMMA OrdersAdd ==
  ASSUME NEW taken \in Seq(proofs), NEW p \in proofs
  PROVE  [i \in DOMAIN Append(taken, p) |-> Order(Append(taken, p)[i])]
           = Append([i \in DOMAIN taken |-> Order(taken[i])], Order(p))
<1> DEFINE X    == {Order(x) : x \in proofs}
           more == Append(taken, p)
           S    == [i \in DOMAIN taken |-> Order(taken[i])]
           T    == [i \in DOMAIN more |-> Order(more[i])]
<1>1. /\ DOMAIN taken = 1..Len(taken) /\ Len(taken) \in Nat
      /\ DOMAIN more = 1..Len(taken) + 1 /\ more[Len(taken) + 1] = p
      /\ \A i \in 1..Len(taken) : more[i] = taken[i] /\ taken[i] \in proofs
  OBVIOUS
<1> HIDE DEF more
<1>2. \A i \in 1..Len(taken) + 1 : more[i] \in proofs
  <2>1. \A i \in 1..Len(taken) + 1 : i \in 1..Len(taken) \/ i = Len(taken) + 1
    BY <1>1
  <2>. QED
    BY <1>1, <2>1
<1>3. S \in [1..Len(taken) -> X] /\ T \in [1..Len(taken) + 1 -> X] /\ Order(p) \in X
  BY <1>1, <1>2
<1>4. /\ \A i \in 1..Len(taken) : T[i] = S[i]
      /\ T[Len(taken) + 1] = Order(p)
  BY <1>1
<1> HIDE DEF S, T, X
<1>5. S \in Seq(X) /\ Len(S) = Len(taken) /\ T \in Seq(X) /\ Len(T) = Len(taken) + 1
  BY <1>1, <1>3
<1>6. /\ Append(S, Order(p)) \in Seq(X) /\ Len(Append(S, Order(p))) = Len(taken) + 1
      /\ \A i \in 1..Len(taken) : Append(S, Order(p))[i] = S[i]
      /\ Append(S, Order(p))[Len(taken) + 1] = Order(p)
  BY <1>3, <1>5, AppendProperties
<1>7. ASSUME NEW i \in 1..Len(taken) + 1 PROVE T[i] = Append(S, Order(p))[i]
  <2>1. CASE i \in 1..Len(taken)
    BY <1>4, <1>6, <2>1
  <2>2. CASE i = Len(taken) + 1
    BY <1>4, <1>6, <2>2
  <2>3. i \in 1..Len(taken) \/ i = Len(taken) + 1
    BY <1>1
  <2>. QED
    BY <2>1, <2>2, <2>3
<1>8. T = Append(S, Order(p))
  BY <1>5, <1>6, <1>7, SeqEqual
<1>. QED
  BY <1>8 DEF T, S, more

\* An order's account is the one whose secret was used: its own.
LEMMA OrderIs ==
  ASSUME SheetInv, NEW proof \in proofs
  PROVE  Order(proof) = [account |-> proof.account, token |-> proof.token,
                         inflow |-> Word(proof.inflow), outflow |-> Word(proof.outflow)]
<1>1. Shaped(proof) /\ 1 \in DOMAIN proof.consumed
  BY DEF SheetInv, Moves, ConservingInv, SpendingInv, Typed
<1>2. proof.nullifiers[1][1] = proof.account
  BY <1>1 DEF Shaped, Nullifier
<1>. QED
  BY <1>2 DEF Order

\* The sheet as the refinement maps it.
Balances == [a \in Accounts |-> [t \in Tokens |-> Balance(a, t)]]

\* A sheet has a row for each account, with a cell for each token.
IsSheet(sheet) == sheet = [a \in Accounts |-> [t \in Tokens |-> sheet[a][t]]]

\* It is its cells.
LEMMA SheetsAgree ==
  ASSUME NEW f, NEW g, IsSheet(f), IsSheet(g),
         \A a \in Accounts, t \in Tokens : f[a][t] = g[a][t]
  PROVE  f = g
<1>1. ASSUME NEW a \in Accounts
      PROVE  [t \in Tokens |-> f[a][t]] = [t \in Tokens |-> g[a][t]]
  OBVIOUS
<1>2. [a \in Accounts |-> [t \in Tokens |-> f[a][t]]] = [a \in Accounts |-> [t \in Tokens |-> g[a][t]]]
  BY <1>1
<1>. QED
  BY <1>2 DEF IsSheet

\* One of them filled anew.
Filled(sheet, p, k, v) == [sheet EXCEPT ![p][k] = v]

LEMMA FilledIs ==
  ASSUME NEW sheet, IsSheet(sheet), NEW p \in Accounts, NEW k \in Tokens, NEW v
  PROVE  /\ IsSheet(Filled(sheet, p, k, v))
         /\ \A a \in Accounts, t \in Tokens :
              Filled(sheet, p, k, v)[a][t] = IF a = p /\ t = k THEN v ELSE sheet[a][t]
<1> DEFINE row == [sheet[p] EXCEPT ![k] = v]
           new == Filled(sheet, p, k, v)
<1>1. \A a \in Accounts : sheet[a] = [t \in Tokens |-> sheet[a][t]]
  BY DEF IsSheet
<1>2. row = [t \in Tokens |-> row[t]] /\ \A t \in Tokens : row[t] = IF t = k THEN v ELSE sheet[p][t]
  <2>1. DOMAIN sheet[p] = Tokens
    BY <1>1
  <2>. QED
    BY <2>1
<1>3. new = [a \in Accounts |-> IF a = p THEN row ELSE sheet[a]]
  <2>1. new = [sheet EXCEPT ![p] = row] /\ DOMAIN sheet = Accounts
    BY DEF Filled, IsSheet
  <2> HIDE DEF row, new
  <2>. QED
    BY <2>1
<1>4. /\ new = [a \in Accounts |-> new[a]]
      /\ \A a \in Accounts : new[a] = IF a = p THEN row ELSE sheet[a]
  <2> HIDE DEF new, row
  <2>. QED
    BY <1>3
<1> HIDE DEF new, row
<1>5. \A a \in Accounts : new[a] = [t \in Tokens |-> new[a][t]]
  BY <1>1, <1>2, <1>4
<1>6. \A a \in Accounts, t \in Tokens : new[a][t] = IF a = p /\ t = k THEN v ELSE sheet[a][t]
  BY <1>2, <1>4
<1>. QED
  BY <1>4, <1>5, <1>6 DEF new, IsSheet

\* An accepted proof is a deposit, a withdrawal or a transfer.
LEMMA SubmitOrders ==
  ASSUME SheetInv, DropsSpent, NEW proof \in proofs, Submit(proof)
  PROVE  Sheet!Next
<1> DEFINE payer == proof.account
           token == proof.token
           orders == [i \in DOMAIN history |-> Order(history[i])]
<1>1. /\ history' = Append(history, proof) /\ registered' = registered
      /\ history \in Seq(proofs) /\ registered \subseteq Accounts
  BY DEF Submit, SheetInv, ConservingInv, SpendingInv, Typed
<1>2. orders' = Append(orders, [account |-> payer, token |-> token,
                                inflow |-> Word(proof.inflow), outflow |-> Word(proof.outflow)])
  BY <1>1, OrdersAdd, OrderIs
<1>3. /\ payer \in registered /\ payer \in Accounts /\ token \in Tokens
      /\ \A a \in Accounts, t \in Tokens \ {token} : Balance(a, t)' = Balance(a, t)
  BY <1>1, SubmitMoves
<1>4. PICK recipient \in registered, paid \in Amounts :
        /\ \/ paid = 0 /\ Word(proof.outflow) = 0
           \/ paid = 0 /\ Word(proof.inflow) = 0
           \/ Word(proof.inflow) = 0 /\ Word(proof.outflow) = 0
        /\ paid + Word(proof.outflow) <= Balance(payer, token)
        /\ \A a \in Accounts :
             Balance(a, token)' + (IF a = payer THEN paid + Word(proof.outflow) ELSE 0)
               = Balance(a, token) + (IF a = payer THEN Word(proof.inflow) ELSE 0)
                   + (IF a = recipient THEN paid ELSE 0)
  BY SubmitMoves
<1>5. /\ Word(proof.inflow) \in Amounts /\ Word(proof.outflow) \in Amounts
      /\ Word(proof.inflow) \in Nat /\ Word(proof.outflow) \in Nat /\ paid \in Nat
      /\ recipient \in Accounts
  BY <1>1, <1>4, Widths DEF SheetInv, Moves, Amounts
<1>6. \A a \in Accounts, t \in Tokens : Balance(a, t) \in Nat
  BY HeldIsFinite
<1>7. \A a \in Accounts : Balance(a, token)' \in Nat
  BY SubmitMoves
<1> DEFINE after == Balances'
<1>8. /\ \A a \in Accounts, t \in Tokens : Balances[a][t] = Balance(a, t)
      /\ IsSheet(Balances)
      /\ \A a \in Accounts, t \in Tokens : after[a][t] = Balance(a, t)'
      /\ IsSheet(after)
  BY DEF Balances, IsSheet
<1> DEFINE Ordered == Sheet!Ordered(payer, token, Word(proof.inflow), Word(proof.outflow))
<1>9. Ordered
  BY <1>1, <1>2, <1>3 DEF Sheet!Ordered
<1> HIDE DEF Ordered, after
<1>10. \A a \in Accounts, t \in Tokens : t # token => after[a][t] = Balances[a][t]
  BY <1>3, <1>8
<1>11. \A a \in Accounts :
         /\ Balances[a][token] \in Nat /\ after[a][token] \in Nat
         /\ after[a][token] + (IF a = payer THEN paid + Word(proof.outflow) ELSE 0)
              = Balances[a][token] + (IF a = payer THEN Word(proof.inflow) ELSE 0)
                  + (IF a = recipient THEN paid ELSE 0)
  BY <1>3, <1>4, <1>6, <1>7, <1>8
<1>12. paid + Word(proof.outflow) <= Balances[payer][token]
  BY <1>3, <1>4, <1>8
<1>13. CASE paid = 0 /\ Word(proof.outflow) = 0
  <2>1. \A a \in Accounts, t \in Tokens :
          after[a][t] = IF a = payer /\ t = token THEN Balances[payer][token] + Word(proof.inflow)
                        ELSE Balances[a][t]
    BY <1>5, <1>10, <1>11, <1>13
  <2>2. after = Filled(Balances, payer, token, Balances[payer][token] + Word(proof.inflow))
    BY <1>3, <1>8, <2>1, FilledIs, SheetsAgree
  <2>3. Sheet!Deposit(payer, token, Word(proof.inflow))
    BY <1>9, <1>13, <2>2 DEF Ordered, after, Filled, Sheet!Deposit, Balances
  <2>. QED
    BY <1>3, <1>5, <2>3 DEF Sheet!Next, Amounts
<1>14. CASE paid = 0 /\ Word(proof.inflow) = 0
  <2>1. \A a \in Accounts, t \in Tokens :
          after[a][t] = IF a = payer /\ t = token THEN Balances[payer][token] - Word(proof.outflow)
                        ELSE Balances[a][t]
    BY <1>5, <1>10, <1>11, <1>14
  <2>2. after = Filled(Balances, payer, token, Balances[payer][token] - Word(proof.outflow))
    BY <1>3, <1>8, <2>1, FilledIs, SheetsAgree
  <2>3. Word(proof.outflow) <= Balances[payer][token]
    BY <1>5, <1>12, <1>14
  <2>4. Sheet!Withdraw(payer, token, Word(proof.outflow))
    BY <1>9, <1>14, <2>2, <2>3 DEF Ordered, after, Filled, Sheet!Withdraw, Balances
  <2>. QED
    BY <1>3, <1>5, <2>4 DEF Sheet!Next, Amounts
<1>15. CASE Word(proof.inflow) = 0 /\ Word(proof.outflow) = 0
  <2> DEFINE rest == Filled(Balances, payer, token, Balances[payer][token] - paid)
  <2>1. /\ IsSheet(rest)
        /\ \A a \in Accounts, t \in Tokens :
             rest[a][t] = IF a = payer /\ t = token THEN Balances[payer][token] - paid
                          ELSE Balances[a][t]
    BY <1>3, <1>8, FilledIs
  <2> HIDE DEF rest
  <2>2. ASSUME NEW a \in Accounts, NEW t \in Tokens
        PROVE  after[a][t] = IF a = recipient /\ t = token THEN rest[recipient][token] + paid
                             ELSE rest[a][t]
    <3>1. CASE t # token
      BY <1>10, <2>1, <3>1
    <3>2. CASE t = token
      <4>1. /\ rest[a][token] = IF a = payer THEN Balances[a][token] - paid ELSE Balances[a][token]
            /\ rest[recipient][token] = IF recipient = payer THEN Balances[recipient][token] - paid
                                        ELSE Balances[recipient][token]
        BY <1>3, <1>5, <2>1
      <4>2. after[a][token] + (IF a = payer THEN paid ELSE 0)
              = Balances[a][token] + (IF a = recipient THEN paid ELSE 0)
        BY <1>5, <1>11, <1>15
      <4>3. Balances[a][token] \in Nat /\ after[a][token] \in Nat
        BY <1>11
      <4>. QED
        BY <1>5, <3>2, <4>1, <4>2, <4>3
    <3>. QED
      BY <3>1, <3>2
  <2>4. after = Filled(rest, recipient, token, rest[recipient][token] + paid)
    BY <1>3, <1>5, <1>8, <2>1, <2>2, FilledIs, SheetsAgree
  <2>5. paid <= Balances[payer][token]
    BY <1>5, <1>12, <1>15
  <2>6. Sheet!Transfer(payer, recipient, token, paid)
    BY <1>4, <1>9, <1>15, <2>4, <2>5 DEF Ordered, after, rest, Filled, Sheet!Transfer, Balances
  <2>. QED
    BY <1>3, <1>4, <1>5, <2>6 DEF Sheet!Next, Amounts
<1>. QED
  BY <1>4, <1>13, <1>14, <1>15

\* A new account holds nothing, and nobody else has more for it.
LEMMA RegisterOpens ==
  ASSUME SheetInv, NEW secret \in Accounts, NEW account \in Accounts, Register(secret, account)
  PROVE  Sheet!Next
<1> DEFINE new(t) == Note(t, account, Commit(0, drawn + 1))
           orders == [i \in DOMAIN history |-> Order(history[i])]
<1>1. /\ notes' = notes \cup {new(t) : t \in Tokens} /\ drawn \in Nat
      /\ registered' = registered \cup {account} /\ history' = history
  BY DEF Register, SheetInv, ConservingInv, SpendingInv, Typed
<1>2. \A t \in Tokens : /\ new(t).token = t /\ new(t).owner = account
                        /\ new(t).commitment = Commit(0, drawn + 1)
                        /\ Worth(new(t)) = 0 /\ new(t).commitment.blinding = drawn + 1
  BY NothingIsNothing DEF Note, Commit, Worth
<1>3. \A n \in notes : n.commitment.blinding <= drawn /\ n.commitment.blinding \in Nat
  BY DEF SheetInv, ConservingInv, SpendingInv, Drawn, Typed, Notes
<1> HIDE DEF new
<1>4. ASSUME NEW a \in Accounts, NEW t \in Tokens
      PROVE  Balance(a, t)' = Balance(a, t)
  <2>1. CASE a = account
    <3>1. HeldBy(a, t)' = HeldBy(a, t) \cup {new(t)} /\ HeldBy(a, t) \cap {new(t)} = {}
      BY <1>1, <1>2, <1>3, <2>1 DEF HeldBy
    <3>2. /\ IsFiniteSet(HeldBy(a, t)) /\ \A n \in HeldBy(a, t) : Worth(n) \in Nat
          /\ Balance(a, t) \in Nat
      BY HeldIsFinite
    <3>3. IsFiniteSet({new(t)}) /\ Value({new(t)}) = 0
      BY <1>2, ValueOfOne
    <3>4. Value(HeldBy(a, t) \cup {new(t)}) = Value(HeldBy(a, t)) + Value({new(t)})
      BY <1>2, <3>1, <3>2, <3>3, ValueOfBoth
    <3>5. Balance(a, t) = Value(HeldBy(a, t)) /\ Balance(a, t)' = Value(HeldBy(a, t)')
      BY BalanceIsValue
    <3>. QED
      BY <3>1, <3>2, <3>3, <3>4, <3>5
  <2>2. CASE a # account
    <3>1. HeldBy(a, t)' = HeldBy(a, t)
      BY <1>1, <1>2, <2>2 DEF HeldBy
    <3>. QED
      BY <3>1, BalanceIsValue
  <2>. QED
    BY <2>1, <2>2
<1>5. Balances' = Balances
  BY <1>4 DEF Balances
<1>6. orders' = orders
  BY <1>1 DEF Order
<1>7. Sheet!Open(account)
  BY <1>1, <1>5, <1>6 DEF Sheet!Open, Balances
<1>. QED
  BY <1>7 DEF Sheet!Next

\* Whatever a proof moves, it moves it still when there are more addresses; and a
\* new one moves value like the others.
LEMMA SheetInvStep ==
  ASSUME SheetInv, DropsSpent, [Next]_vars
  PROVE  SheetInv'
<1>1. ConservingInv' /\ \A p : Consumed(p)' = Consumed(p)
  BY ConservingStep DEF SheetInv, Consumed
<1>2. registered \subseteq registered'
  <2>1. CASE MakeProof
    BY <2>1, MakeProofMakes DEF SheetInv, ConservingInv, SpendingInv, Makes
  <2>2. CASE \E secret, account \in Accounts : Register(secret, account)
    BY <2>2 DEF Register
  <2>3. CASE \E proof \in proofs : Submit(proof)
    BY <2>3 DEF Submit
  <2>4. CASE Snapshot \/ UNCHANGED vars
    BY <2>4 DEF Snapshot, vars
  <2>. QED
    BY <2>1, <2>2, <2>3, <2>4 DEF Next
<1>3. ASSUME NEW p, Moves(p) PROVE Moves(p)'
  BY <1>1, <1>2, <1>3 DEF Moves
<1>4. \A p \in proofs' : p \in proofs \/ Moves(p)
  <2>1. CASE MakeProof
    BY <2>1, MakeProofMakes DEF SheetInv, ConservingInv, SpendingInv, Makes
  <2>2. CASE \E secret, account \in Accounts : Register(secret, account)
    BY <2>2 DEF Register
  <2>3. CASE \E proof \in proofs : Submit(proof)
    BY <2>3 DEF Submit
  <2>4. CASE Snapshot \/ UNCHANGED vars
    BY <2>4 DEF Snapshot, vars
  <2>. QED
    BY <2>1, <2>2, <2>3, <2>4 DEF Next
<1>. QED
  BY <1>1, <1>3, <1>4 DEF SheetInv

\* Every other step leaves the sheet alone.
LEMMA SheetStep ==
  ASSUME SheetInv, DropsSpent, [Next]_vars
  PROVE  [Sheet!Next]_(Sheet!vars)
<1>1. CASE \E secret, account \in Accounts : Register(secret, account)
  BY <1>1, RegisterOpens
<1>2. CASE \E proof \in proofs : Submit(proof)
  BY <1>2, SubmitOrders
<1>3. CASE MakeProof \/ Snapshot \/ UNCHANGED vars
  <2>1. registered' = registered /\ notes' = notes /\ history' = history
    <3>1. CASE MakeProof
      BY <3>1, MakeProofMakes DEF SheetInv, ConservingInv, SpendingInv, Makes
    <3>2. CASE Snapshot \/ UNCHANGED vars
      BY <3>2 DEF Snapshot, vars
    <3>. QED
      BY <1>3, <3>1, <3>2
  <2>. QED
    BY <2>1 DEF Sheet!vars, Balance, Order
<1>. QED
  BY <1>1, <1>2, <1>3 DEF Next

\* The confidential ledger implements a plain sheet of balances, for any accounts,
\* tokens and widths: whatever proofs the circuits let anyone make, each one that is
\* accepted is a deposit, a withdrawal or a transfer of one bounded amount by the
\* account that pays, out of what it holds, and no balance changes but so.
THEOREM LedgerIsASheet == DropsSpent /\ Spec => ImplementsBalances
<1> SUFFICES ASSUME DropsSpent PROVE Spec => ImplementsBalances
  OBVIOUS
<1>1. Init => SheetInv /\ Sheet!Init
  <2> SUFFICES ASSUME Init PROVE SheetInv /\ Sheet!Init
    OBVIOUS
  <2>1. proofs = {} /\ notes = {} /\ history = <<>> /\ registered = {}
    BY DEF Init
  <2>2. \A f : SumFunctionOnSet(f, {}) = 0
    BY SumRound, FS_EmptySet
  <2>3. \A a, t : Balance(a, t) = 0
    <3>1. \A a, t : HeldBy(a, t) = {}
      BY <2>1 DEF HeldBy
    <3>. QED
      BY <2>2, <3>1, BalanceIsValue DEF Value
  <2>4. [i \in DOMAIN history |-> Order(history[i])] = <<>>
    BY <2>1
  <2>5. ConservingInv
    BY ConservingInit
  <2>. QED
    BY <2>1, <2>3, <2>4, <2>5 DEF SheetInv, Sheet!Init
<1>2. SheetInv /\ [Next]_vars => SheetInv'
  BY SheetInvStep
<1>3. SheetInv /\ [Next]_vars => [Sheet!Next]_(Sheet!vars)
  BY SheetStep
<1>. QED
  BY <1>1, <1>2, <1>3, PTL DEF Spec, ImplementsBalances, Sheet!Spec

=============================================================================
