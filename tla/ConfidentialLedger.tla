------------------------ MODULE ConfidentialLedger ------------------------
(***************************************************************************)
(* The five operation circuits, composed with the ledger they are written  *)
(* for.  A circuit decides which proofs exist: the constraints of its main *)
(* are the guards of the action that makes the proof.  Proofs are made     *)
(* against the ledger as it is then, stay in circulation, and may be       *)
(* submitted in any order, late, or more than once.                        *)
(*                                                                         *)
(* The ledger is not part of the repository: it is what the circuits say   *)
(* of it.  It attaches commitments to addresses, records nullifiers, takes *)
(* each nullifier once, and wants state-bound proofs to name its current   *)
(* root.  Whether it also forgets a commitment that was consumed, the      *)
(* circuits leave open: DropsSpent.                                        *)
(*                                                                         *)
(* Hashes and commitments are their preimages, an address is its secret,   *)
(* and blindings are drawn fresh.  A field element is a natural number     *)
(* below the modulus, and wider than a word: a cast to u64 keeps its low   *)
(* word and drops the rest.                                                *)
(***************************************************************************)
EXTENDS Naturals, Sequences, FiniteSets, SequencesExt

CONSTANTS
  Accounts,     \* addresses, and the secrets they are derived from
  Tokens,
  AmountBits,   \* AMOUNT_BITS: 63 in the code
  WordBits,     \* the width of u64: 64 in the code
  Modulus,      \* of the field that amounts are elements of
  Inputs,       \* bound: the amounts that someone asks a circuit to move
  NoRoot,       \* the root of a proof that is not bound to one
  DropsSpent,   \* does the ledger forget a consumed commitment?
  MaxProofs,    \* bound: proofs made in one behaviour
  MaxRoot       \* bound: state snapshots

ASSUME LedgerAssumption ==
  /\ AmountBits \in Nat
  /\ WordBits = AmountBits + 1
  /\ Modulus \in Nat /\ 2^WordBits <= Modulus
  /\ Inputs \subseteq 0 .. Modulus - 1
  /\ NoRoot \notin Nat
  /\ DropsSpent \in BOOLEAN
  /\ MaxProofs \in Nat
  /\ MaxRoot \in Nat

VARIABLES
  registered,   \* addresses the ledger has recorded
  notes,        \* commitments attached to an address and a token
  nullifiers,   \* nullifiers recorded as spent
  root,         \* number of the current state snapshot, standing for its root
  proofs,       \* proofs made so far, submitted or not
  history,      \* accepted proofs, in the order the ledger took them
  drawn         \* blindings drawn so far

vars == <<registered, notes, nullifiers, root, proofs, history, drawn>>

-----------------------------------------------------------------------------
(* The circuit library *)

\* Everything a witness could name as an amount, the ill-sized included.
Fields == 0 .. Modulus - 1

\* `value as u64`.
Word(value) == value % 2^WordBits

\* commit(amount, blinding); a note is the ledger's record of one.
Commit(amount, blinding) == [amount |-> amount, blinding |-> blinding]
Note(token, owner, commitment) ==
  [token |-> token, owner |-> owner, commitment |-> commitment]

\* Commitment::assert_opens_to: the blinding is the commitment's own.
Opens(commitment, amount) == commitment = Commit(amount, commitment.blinding)

\* Mutant: ownership is not asserted.
OwnedByAnyone(account, secret) == TRUE

\* Address::assert_owned_by.
OwnedBy(account, secret) == account = secret

\* nullifier_for_token and, with a root, nullifier_for_token_state.
Nullifier(secret, commitment, token, atRoot) == <<secret, commitment, token, atRoot>>

\* assert_in_bits looks at the word that the cast leaves of the value.
InBits(value, bits) == Word(value) < 2^bits

\* Mutant: the sum is held to its word, its terms to nothing.
AddUnbounded(balance, added, sum) ==
  /\ sum = Word(balance) + Word(added)
  /\ sum < 2^WordBits

AddBounded(balance, added, sum) ==
  /\ InBits(balance, AmountBits)
  /\ InBits(added, AmountBits)
  /\ sum = Word(balance) + Word(added)

\* Mutant: no overdraw guard, the subtraction wraps.
SubtractWrapping(balance, spend, remainder) ==
  /\ InBits(balance, AmountBits)
  /\ InBits(spend, AmountBits)
  /\ remainder = Word(Word(balance) + 2^WordBits - Word(spend))

SubtractBounded(balance, spend, remainder) ==
  /\ InBits(balance, AmountBits)
  /\ InBits(spend, AmountBits)
  /\ Word(spend) <= Word(balance)
  /\ remainder = Word(balance) - Word(spend)

-----------------------------------------------------------------------------
(* Making proofs *)

\* A proof consumes commitments of one account and creates notes; the amounts
\* that enter and leave the confidential domain are private to it.
Proof(token, account, atRoot, consumed, secret, created, inflow, outflow) ==
  [token |-> token, account |-> account, root |-> atRoot, consumed |-> consumed,
   nullifiers |-> [i \in DOMAIN consumed |-> Nullifier(secret, consumed[i], token, atRoot)],
   created |-> created, inflow |-> inflow, outflow |-> outflow]

\* Mutant: blindings are not drawn afresh.
PublishReusing(proof) ==
  /\ Cardinality(proofs) < MaxProofs
  /\ proofs' = proofs \cup {proof}
  /\ UNCHANGED <<registered, notes, nullifiers, root, history, drawn>>

Publish(proof) ==
  /\ Cardinality(proofs) < MaxProofs
  /\ proofs' = proofs \cup {proof}
  /\ drawn' = drawn + Cardinality(proof.created)
  /\ UNCHANGED <<registered, notes, nullifiers, root, history>>

ProveDeposit(secret, n, old, amount) ==
  /\ OwnedBy(n.owner, secret)
  /\ Opens(n.commitment, old)
  /\ \E sum \in Fields :
       /\ AddBounded(old, amount, sum)
       /\ Publish(Proof(n.token, n.owner, NoRoot, <<n.commitment>>, secret,
                        {Note(n.token, n.owner, Commit(sum, drawn + 1))}, amount, 0))

\* Nothing in the circuit keeps the two commitments apart.
ProveMerge(secret, n, m, a, b) ==
  /\ OwnedBy(n.owner, secret)
  /\ m.owner = n.owner /\ m.token = n.token
  /\ Opens(n.commitment, a)
  /\ Opens(m.commitment, b)
  /\ \E sum \in Fields :
       /\ AddBounded(a, b, sum)
       /\ Publish(Proof(n.token, n.owner, root, <<n.commitment, m.commitment>>, secret,
                        {Note(n.token, n.owner, Commit(sum, drawn + 1))}, 0, 0))

\* The ledger attaches the recipient's commitment to the address that is public.
\* It commits to the amount itself, the change to what is left of its low word.
ProveTransfer(secret, n, old, amount, recipient) ==
  /\ OwnedBy(n.owner, secret)
  /\ Opens(n.commitment, old)
  /\ \E change \in Fields :
       /\ SubtractBounded(old, amount, change)
       /\ Publish(Proof(n.token, n.owner, root, <<n.commitment>>, secret,
                        {Note(n.token, recipient, Commit(amount, drawn + 1)),
                         Note(n.token, n.owner, Commit(change, drawn + 2))}, 0, 0))

ProveWithdraw(secret, n, old, amount) ==
  /\ OwnedBy(n.owner, secret)
  /\ Opens(n.commitment, old)
  /\ \E change \in Fields :
       /\ SubtractBounded(old, amount, change)
       /\ Publish(Proof(n.token, n.owner, root, <<n.commitment>>, secret,
                        {Note(n.token, n.owner, Commit(change, drawn + 1))}, 0, amount))

-----------------------------------------------------------------------------
(* The ledger (external) *)

\* Mutant: the address is not recorded.
RegisterUnrecorded(secret, account) ==
  /\ OwnedBy(account, secret)
  /\ account \notin registered
  /\ notes' = notes \cup {Note(t, account, Commit(0, drawn + 1)) : t \in Tokens}
  /\ drawn' = drawn + 1
  /\ UNCHANGED <<registered, nullifiers, root, proofs, history>>

\* The ledger refuses a second registration; the first one opens an account
\* with a commitment to zero for each token.
Register(secret, account) ==
  /\ OwnedBy(account, secret)
  /\ account \notin registered
  /\ registered' = registered \cup {account}
  /\ notes' = notes \cup {Note(t, account, Commit(0, drawn + 1)) : t \in Tokens}
  /\ drawn' = drawn + 1
  /\ UNCHANGED <<nullifiers, root, proofs, history>>

\* Mutant: nullifiers are compared with the recorded ones only.
NullifiersUnrecorded(proof) ==
  \A i \in DOMAIN proof.nullifiers : proof.nullifiers[i] \notin nullifiers

\* The nullifiers of a proof are taken one after the other.
NullifiersFresh(proof) ==
  /\ \A i \in DOMAIN proof.nullifiers : proof.nullifiers[i] \notin nullifiers
  /\ IsInjective(proof.nullifiers)

Consumed(proof) ==
  {Note(proof.token, proof.account, proof.consumed[i]) : i \in DOMAIN proof.consumed}

Submit(proof) ==
  /\ proof.root \in {NoRoot, root}
  /\ Consumed(proof) \subseteq notes
  /\ NullifiersFresh(proof)
  /\ nullifiers' = nullifiers \cup Range(proof.nullifiers)
  /\ notes' = (IF DropsSpent THEN notes \ Consumed(proof) ELSE notes) \cup proof.created
  /\ history' = Append(history, proof)
  /\ UNCHANGED <<registered, root, proofs, drawn>>

\* The next state snapshot; proofs against the last one are stale from now on.
Snapshot ==
  /\ root < MaxRoot
  /\ root' = root + 1
  /\ UNCHANGED <<registered, notes, nullifiers, proofs, history, drawn>>

Init ==
  /\ registered = {}
  /\ notes = {}
  /\ nullifiers = {}
  /\ root = 0
  /\ proofs = {}
  /\ history = <<>>
  /\ drawn = 0

\* Openings are not secret to their owner alone: whoever paid a note knows its.
MakeProof ==
  \E secret \in Accounts, n \in notes, old \in Fields :
    \/ \E m \in notes, b \in Fields : ProveMerge(secret, n, m, old, b)
    \/ \E amount \in Inputs :
         \/ ProveDeposit(secret, n, old, amount)
         \/ \E recipient \in registered : ProveTransfer(secret, n, old, amount, recipient)
         \/ ProveWithdraw(secret, n, old, amount)

Next ==
  \/ MakeProof
  \/ \E secret, account \in Accounts : Register(secret, account)
  \/ \E proof \in proofs : Submit(proof)
  \/ Snapshot

Spec == Init /\ [][Next]_vars

-----------------------------------------------------------------------------
(* Properties *)

TypeOK ==
  /\ registered \subseteq Accounts
  /\ \A n \in notes : n.token \in Tokens /\ n.owner \in registered
                        /\ n.commitment.amount \in Fields /\ n.commitment.blinding \in 1..drawn
  /\ root \in 0..MaxRoot
  /\ Range(history) \subseteq proofs
  /\ Cardinality(proofs) <= MaxProofs

\* What the circuits can tell of a note: the low word of its amount.
Worth(n) == Word(n.commitment.amount)

\* "Value is conserved", in low words: however proofs are interleaved, delayed and
\* repeated, the low words of what is attached to the addresses of a token, and of
\* what was withdrawn, add up to those of what was deposited; no sum of words wraps
\* and no spend overdraws.  Every circuit reads a note by its low word, so nobody
\* gets more out than came in, not even by a transfer of more than a word.
Conserved ==
  \A t \in Tokens :
    LET held  == {n \in notes : n.token = t}
        taken == {i \in DOMAIN history : history[i].token = t}
    IN  SumFunctionOnSet([n \in held |-> Worth(n)], held)
          + SumFunctionOnSet([i \in taken |-> Word(history[i].outflow)], taken)
        = SumFunctionOnSet([i \in taken |-> Word(history[i].inflow)], taken)

\* "The sum of amounts entering the new commitments equals the sum that left the old
\* ones": of every accepted transfer and merge, for the amounts that are committed.
\* What the code does: a transfer commits to an amount of which only the low word
\* left the old commitment.
CommittedConserved ==
  \A i \in DOMAIN history :
    LET amounts(some) == SumFunctionOnSet([n \in some |-> n.commitment.amount], some)
    IN  history[i].inflow = 0 /\ history[i].outflow = 0 =>
          amounts(history[i].created) = amounts(Consumed(history[i]))

\* "The same commitment can never be spent twice": no two accepted proofs, and no
\* accepted proof with itself, consume the same note.
SpentOnce ==
  /\ \A i, j \in DOMAIN history :
       i # j => Consumed(history[i]) \cap Consumed(history[j]) = {}
  /\ \A i \in DOMAIN history : IsInjective(history[i].consumed)

\* Recording spent nullifiers never gets in the way of an honest owner: no note
\* that is still attached has its nullifier recorded, be it the state-bound one
\* for the current root or the one a deposit would use.
NeverFrozen ==
  \A n \in notes : \A r \in {NoRoot, root} :
    Nullifier(n.owner, n.commitment, n.token, r) \notin nullifiers

\* "Upper bound on confidential amounts: values must fit in this many bits": the
\* circuits hold the low words of what they take to that bound, and nothing else.  A
\* low word beyond it is a sum that one deposit or merge made, and no circuit takes
\* it, so it is stuck: no proof ever consumes such a note.  An amount beyond a word
\* is the recipient's of a transfer, and its low word is within the bound.
OverfullIsStuck ==
  \A proof \in proofs :
    /\ \A n \in Consumed(proof) : InBits(n.commitment.amount, AmountBits)
    /\ \A n \in proof.created :
         /\ ~InBits(n.commitment.amount, AmountBits) =>
              Cardinality(proof.created) = 1 /\ proof.outflow = 0
         /\ n.commitment.amount >= 2^WordBits => Cardinality(proof.created) = 2

\* The account whose secret a proof was made with, and what is public of it.
Order(proof) ==
  [account |-> proof.nullifiers[1][1], token |-> proof.token,
   inflow |-> Word(proof.inflow), outflow |-> Word(proof.outflow)]

\* What the notes of an account are worth.
Balance(a, t) ==
  LET held == {n \in notes : n.owner = a /\ n.token = t}
  IN  SumFunctionOnSet([n \in held |-> Worth(n)], held)

Sheet ==
  INSTANCE BalanceSheet WITH
    Amounts <- 0 .. 2^AmountBits - 1,
    opened  <- registered,
    balance <- [a \in Accounts |-> [t \in Tokens |-> Balance(a, t)]],
    orders  <- [i \in DOMAIN history |-> Order(history[i])]

\* "A confidential balance belongs to exactly one token", and to one address: behind
\* the commitments is a plain sheet of balances, the low words of what they commit to.
\* An accepted proof deposits, withdraws or transfers one amount within the bound, by
\* the secret of the account it takes from and out of what that account holds; it
\* leaves everybody else what they have, and every other step leaves it to all.
ImplementsBalances == Sheet!Spec

=============================================================================
