---------------------------- MODULE DataTheorems ----------------------------
(***************************************************************************)
(* Lemmas about the data that the models share: sums over finite sets,     *)
(* powers of two, and what is kept of a sequence.  Where a definition is   *)
(* recursive, the argument is by the least counterexample: the natural     *)
(* numbers have no set without a least element, and finite sets none       *)
(* without a smallest one.                                                 *)
(***************************************************************************)
EXTENDS Integers, FiniteSetTheorems, SequenceTheorems, Functions, Folds, Subsequences, TLAPS

-----------------------------------------------------------------------------
(* Least counterexamples *)

\* Every non-empty set of natural numbers has a least element.
LEMMA LeastNatural ==
  ASSUME NEW T \in SUBSET Nat, T # {}
  PROVE  \E n \in T : \A m \in T : n <= m
<1> DEFINE R == {ss \in Nat \X Nat : ss[1] < ss[2]}
<1>1. IsWellFoundedOn(R, Nat)
  BY NatLessThanWellFounded DEF OpToRel
<1>2. \A m, n \in Nat : m < n => <<m, n>> \in R
  OBVIOUS
<1> HIDE DEF R
<1>3. PICK n \in T : \A m \in T : <<m, n>> \notin R
  BY <1>1, WFMin
<1>4. ASSUME NEW m \in T PROVE n <= m
  <2>1. m \in Nat /\ n \in Nat /\ ~(m < n)
    BY <1>2, <1>3
  <2>. QED
    BY <2>1
<1>. QED
  BY <1>4

\* Every non-empty set of finite sets has a member of which no part is in it.
LEMMA SmallestSet ==
  ASSUME NEW B, B # {}, \A S \in B : IsFiniteSet(S)
  PROVE  \E S \in B : \A T \in B : T \subseteq S => T = S
<1> DEFINE N == {Cardinality(S) : S \in B}
<1>1. N \in SUBSET Nat /\ N # {}
  BY FS_CardinalityType
<1>2. PICK n \in N : \A m \in N : n <= m
  BY <1>1, LeastNatural
<1>3. PICK S \in B : n = Cardinality(S)
  OBVIOUS
<1>4. ASSUME NEW T \in B, T \subseteq S PROVE T = S
  <2>1. IsFiniteSet(S) /\ T \in SUBSET S
    BY <1>4
  <2>2. Cardinality(T) <= Cardinality(S) /\ (Cardinality(S) = Cardinality(T) => S = T)
    BY <2>1, FS_Subset
  <2>3. Cardinality(S) <= Cardinality(T)
    BY <1>2, <1>3
  <2>4. Cardinality(S) \in Nat /\ Cardinality(T) \in Nat
    BY <2>1, FS_CardinalityType
  <2>. QED
    BY <2>2, <2>3, <2>4
<1>. QED
  BY <1>4


-----------------------------------------------------------------------------
(* Sums *)

\* The element that a round of a fold takes.
Chosen(S) == CHOOSE x \in S : TRUE

\* What one round of SumFunctionOnSet makes of the sums g of smaller sets.
Round(f, g, s) == IF s = {} THEN 0 ELSE f[Chosen(s)] + g[s \ {Chosen(s)}]

\* g has the sums of f over the subsets of S.
SumsOf(f, S, g) == g = [s \in SUBSET S |-> Round(f, g, s)]

\* The sum is read off such a function.
LEMMA SumIsChosen ==
  ASSUME NEW f, NEW S
  PROVE  SumFunctionOnSet(f, S) = (CHOOSE g : SumsOf(f, S, g))[S]
BY DEF SumFunctionOnSet, FoldFunctionOnSet, MapThenFoldSet, SumsOf, Round, Chosen

\* The element a round takes is one of the set.
LEMMA ChosenIsMember ==
  ASSUME NEW S, S # {}
  PROVE  Chosen(S) \in S
BY DEF Chosen

\* Two such functions agree wherever both are defined.
LEMMA SumsAgree ==
  ASSUME NEW f, NEW S, NEW T, NEW g, NEW h, SumsOf(f, S, g), SumsOf(f, T, h),
         NEW U, IsFiniteSet(U), U \subseteq S, U \subseteq T
  PROVE  g[U] = h[U]
<1> SUFFICES ASSUME g[U] # h[U] PROVE FALSE
  OBVIOUS
<1> DEFINE B == {s \in SUBSET U : g[s] # h[s]}
<1>1. B # {} /\ \A s \in B : IsFiniteSet(s)
  BY FS_Subset
<1> HIDE DEF B
<1>2. PICK s \in B : \A t \in B : t \subseteq s => t = s
  BY <1>1, SmallestSet
<1> USE DEF B
<1>3. g[s] = Round(f, g, s) /\ h[s] = Round(f, h, s)
  BY DEF SumsOf
<1>4. s # {}
  BY <1>3 DEF Round
<1>5. Chosen(s) \in s
  BY <1>4, ChosenIsMember
<1>6. g[s \ {Chosen(s)}] = h[s \ {Chosen(s)}]
  BY <1>2, <1>5
<1>. QED
  BY <1>3, <1>6 DEF Round

\* There is one for every finite set.
LEMMA SumsExist ==
  ASSUME NEW f, NEW S, IsFiniteSet(S)
  PROVE  \E g : SumsOf(f, S, g)
<1> SUFFICES ASSUME ~ \E g : SumsOf(f, S, g) PROVE FALSE
  OBVIOUS
<1> DEFINE B == {s \in SUBSET S : ~ \E g : SumsOf(f, s, g)}
<1>1. B # {} /\ \A s \in B : IsFiniteSet(s)
  BY FS_Subset
<1> HIDE DEF B
<1>2. PICK s \in B : \A t \in B : t \subseteq s => t = s
  BY <1>1, SmallestSet
<1> USE DEF B
<1> DEFINE At(t) == CHOOSE g : SumsOf(f, t, g)
           Less(t) == t \ {Chosen(t)}
           h == [t \in SUBSET s |-> IF t = {} THEN 0 ELSE f[Chosen(t)] + At(Less(t))[Less(t)]]
<1>3. ASSUME NEW t \in SUBSET s, t # s PROVE SumsOf(f, t, At(t))
  BY <1>2, <1>3
<1>4. ASSUME NEW t \in SUBSET s, t # {} PROVE At(Less(t))[Less(t)] = h[Less(t)]
  <2>1. Less(t) \in SUBSET s /\ Less(t) # s
    BY <1>4, ChosenIsMember
  <2>2. SumsOf(f, Less(t), At(Less(t)))
    BY <2>1, <1>3
  <2>3. At(Less(t))[Less(t)] = Round(f, At(Less(t)), Less(t))
    BY <2>2 DEF SumsOf
  <2>4. CASE Less(t) = {}
    BY <2>1, <2>3, <2>4 DEF Round
  <2>5. CASE Less(t) # {}
    <3> DEFINE u == Less(t)
               v == Less(u)
    <3>1. u \in SUBSET s /\ v \subseteq u /\ v \in SUBSET s /\ v # s
      BY <2>1, <2>5, ChosenIsMember
    <3>2. SumsOf(f, v, At(v)) /\ SumsOf(f, u, At(u))
      BY <3>1, <1>3, <2>2
    <3>3. IsFiniteSet(v)
      BY <3>1, <1>1, FS_Subset
    <3>4. At(v)[v] = At(u)[v]
      BY <3>1, <3>2, <3>3, SumsAgree
    <3>5. At(u)[u] = f[Chosen(u)] + At(u)[v]
      BY <2>3, <2>5 DEF Round
    <3>6. h[u] = f[Chosen(u)] + At(v)[v]
      BY <3>1, <2>5
    <3>. QED
      BY <3>4, <3>5, <3>6
  <2>. QED
    BY <2>4, <2>5
<1>5. ASSUME NEW t \in SUBSET s PROVE h[t] = Round(f, h, t)
  <2>1. h[t] = IF t = {} THEN 0 ELSE f[Chosen(t)] + At(Less(t))[Less(t)]
    OBVIOUS
  <2>2. t # {} => At(Less(t))[Less(t)] = h[Less(t)]
    BY <1>4
  <2> HIDE DEF h, At
  <2>. QED
    BY <2>1, <2>2 DEF Round
<1>6. SumsOf(f, s, h)
  <2> DEFINE k == [t \in SUBSET s |-> Round(f, h, t)]
  <2>1. h = k
    BY <1>5
  <2>. QED
    BY <2>1 DEF SumsOf
<1>. QED
  BY <1>2, <1>6

\* The sum over a finite set, one element at a time.
LEMMA SumRound ==
  ASSUME NEW f, NEW S, IsFiniteSet(S)
  PROVE  SumFunctionOnSet(f, S) =
           IF S = {} THEN 0
           ELSE f[Chosen(S)] + SumFunctionOnSet(f, S \ {Chosen(S)})
<1> DEFINE T == S \ {Chosen(S)}
           g == CHOOSE g : SumsOf(f, S, g)
           h == CHOOSE h : SumsOf(f, T, h)
<1>1. IsFiniteSet(T)
  BY FS_Subset
<1>2. SumsOf(f, S, g) /\ SumsOf(f, T, h)
  BY <1>1, SumsExist
<1>3. g[T] = h[T]
  BY <1>1, <1>2, SumsAgree
<1>4. g[S] = Round(f, g, S)
  BY <1>2 DEF SumsOf
<1>5. SumFunctionOnSet(f, S) = g[S] /\ SumFunctionOnSet(f, T) = h[T]
  BY SumIsChosen
<1>. QED
  BY <1>3, <1>4, <1>5 DEF Round

\* A sum of natural numbers is one.
LEMMA SumType ==
  ASSUME NEW f, NEW S, IsFiniteSet(S), \A x \in S : f[x] \in Nat
  PROVE  SumFunctionOnSet(f, S) \in Nat
<1> SUFFICES ASSUME SumFunctionOnSet(f, S) \notin Nat PROVE FALSE
  OBVIOUS
<1> DEFINE B == {s \in SUBSET S : SumFunctionOnSet(f, s) \notin Nat}
<1>1. B # {} /\ \A s \in B : IsFiniteSet(s)
  BY FS_Subset
<1> HIDE DEF B
<1>2. PICK s \in B : \A t \in B : t \subseteq s => t = s
  BY <1>1, SmallestSet
<1> USE DEF B
<1>3. s # {}
  <2>1. SumFunctionOnSet(f, {}) = 0
    BY SumRound, FS_EmptySet
  <2>. QED
    BY <2>1
<1>4. Chosen(s) \in s
  BY <1>3, ChosenIsMember
<1>5. s \ {Chosen(s)} \notin B
  BY <1>2, <1>4
<1>. QED
  BY <1>1, <1>3, <1>4, <1>5, SumRound

\* It does not matter in which order it is taken.
LEMMA SumWithout ==
  ASSUME NEW f, NEW S, IsFiniteSet(S), \A x \in S : f[x] \in Nat, NEW a \in S
  PROVE  SumFunctionOnSet(f, S) = f[a] + SumFunctionOnSet(f, S \ {a})
<1> SUFFICES ASSUME SumFunctionOnSet(f, S) # f[a] + SumFunctionOnSet(f, S \ {a}) PROVE FALSE
  OBVIOUS
<1> DEFINE Wrong(s, x) == SumFunctionOnSet(f, s) # f[x] + SumFunctionOnSet(f, s \ {x})
           B == {s \in SUBSET S : \E x \in s : Wrong(s, x)}
<1>1. B # {} /\ \A s \in B : IsFiniteSet(s)
  BY FS_Subset
<1> HIDE DEF B
<1>2. PICK s \in B : \A t \in B : t \subseteq s => t = s
  BY <1>1, SmallestSet
<1> USE DEF B
<1>3. PICK x \in s : Wrong(s, x)
  OBVIOUS
<1> DEFINE c == Chosen(s)
           d == SumFunctionOnSet(f, (s \ {c}) \ {x})
<1>4. c \in s
  BY ChosenIsMember
<1> HIDE DEF c
<1>5. SumFunctionOnSet(f, s) = f[c] + SumFunctionOnSet(f, s \ {c})
  BY <1>1, SumRound DEF c
<1>6. x # c
  BY <1>3, <1>5
<1>7. s \ {c} \notin B /\ s \ {x} \notin B
  BY <1>2, <1>4
<1>8. SumFunctionOnSet(f, s \ {c}) = f[x] + d
  BY <1>4, <1>6, <1>7
<1>9. (s \ {x}) \ {c} = (s \ {c}) \ {x}
  OBVIOUS
<1>10. SumFunctionOnSet(f, s \ {x}) = f[c] + d
  BY <1>4, <1>6, <1>7, <1>9
<1>11. d \in Nat /\ f[x] \in Nat /\ f[c] \in Nat
  <2>1. IsFiniteSet((s \ {c}) \ {x})
    BY <1>1, FS_Subset
  <2>. QED
    BY <1>4, <2>1, SumType
<1> HIDE DEF d
<1>. QED
  BY <1>3, <1>5, <1>8, <1>10, <1>11

\* The sums over two sets that share nothing are the sum over both.
LEMMA SumUnion ==
  ASSUME NEW f, NEW S, NEW T, IsFiniteSet(S), IsFiniteSet(T), S \cap T = {},
         \A x \in S \cup T : f[x] \in Nat
  PROVE  SumFunctionOnSet(f, S \cup T) = SumFunctionOnSet(f, S) + SumFunctionOnSet(f, T)
<1> DEFINE Fits(t) == SumFunctionOnSet(f, S \cup t) = SumFunctionOnSet(f, S) + SumFunctionOnSet(f, t)
           B == {t \in SUBSET T : ~Fits(t)}
<1> SUFFICES ASSUME ~Fits(T) PROVE FALSE
  OBVIOUS
<1>1. B # {} /\ \A s \in B : IsFiniteSet(s)
  BY FS_Subset
<1> HIDE DEF B
<1>2. PICK t \in B : \A u \in B : u \subseteq t => u = t
  BY <1>1, SmallestSet
<1> USE DEF B
<1> HIDE DEF Fits
<1>3. CASE t = {}
  <2>1. SumFunctionOnSet(f, {}) = 0
    BY SumRound, FS_EmptySet
  <2>2. SumFunctionOnSet(f, S) \in Nat /\ S \cup {} = S
    BY SumType
  <2>3. Fits({})
    BY <2>1, <2>2 DEF Fits
  <2>. QED
    BY <1>3, <2>3
<1>4. CASE t # {}
  <2>1. PICK x \in t : TRUE
    BY <1>4
  <2> DEFINE u == t \ {x}
  <2>2. Fits(u)
    BY <1>2
  <2>3. SumFunctionOnSet(f, t) = f[x] + SumFunctionOnSet(f, u)
    BY <1>1, SumWithout
  <2>4. IsFiniteSet(S \cup t) /\ IsFiniteSet(u)
    BY <1>1, FS_Union, FS_Subset
  <2>5. (S \cup t) \ {x} = S \cup u
    OBVIOUS
  <2>6. SumFunctionOnSet(f, S \cup t) = f[x] + SumFunctionOnSet(f, S \cup u)
    <3>1. \A y \in S \cup t : f[y] \in Nat
      OBVIOUS
    <3>. QED
      BY <2>4, <2>5, <3>1, SumWithout
  <2>7. f[x] \in Nat /\ SumFunctionOnSet(f, u) \in Nat /\ SumFunctionOnSet(f, S) \in Nat
    BY <2>4, SumType
  <2> HIDE DEF u
  <2>8. Fits(t)
    BY <2>2, <2>3, <2>6, <2>7 DEF Fits
  <2>. QED
    BY <2>8
<1>. QED
  BY <1>3, <1>4

\* What a function does elsewhere does not matter.
LEMMA SumSame ==
  ASSUME NEW f, NEW g, NEW S, IsFiniteSet(S), \A x \in S : f[x] = g[x]
  PROVE  SumFunctionOnSet(f, S) = SumFunctionOnSet(g, S)
<1> SUFFICES ASSUME SumFunctionOnSet(f, S) # SumFunctionOnSet(g, S) PROVE FALSE
  OBVIOUS
<1> DEFINE B == {s \in SUBSET S : SumFunctionOnSet(f, s) # SumFunctionOnSet(g, s)}
<1>1. B # {} /\ \A s \in B : IsFiniteSet(s)
  BY FS_Subset
<1> HIDE DEF B
<1>2. PICK s \in B : \A t \in B : t \subseteq s => t = s
  BY <1>1, SmallestSet
<1> USE DEF B
<1>3. s # {} /\ Chosen(s) \in S /\ s \ {Chosen(s)} \notin B
  BY <1>1, <1>2, SumRound, ChosenIsMember
<1>. QED
  BY <1>1, <1>2, <1>3, SumRound

\* One element more adds its value.
LEMMA SumOneMore ==
  ASSUME NEW f, NEW g, NEW S, NEW T, NEW x, IsFiniteSet(S), x \notin S, T = S \cup {x},
         \A y \in S : f[y] = g[y] /\ f[y] \in Nat, g[x] \in Nat
  PROVE  SumFunctionOnSet(g, T) = SumFunctionOnSet(f, S) + g[x]
<1>1. IsFiniteSet(T) /\ x \in T /\ T \ {x} = S /\ \A y \in T : g[y] \in Nat
  <2>1. IsFiniteSet(S \cup {x})
    BY FS_AddElement
  <2>. QED
    BY <2>1
<1>2. SumFunctionOnSet(g, T) = g[x] + SumFunctionOnSet(g, S)
  BY <1>1, SumWithout
<1>3. SumFunctionOnSet(f, S) = SumFunctionOnSet(g, S)
  BY SumSame
<1>4. SumFunctionOnSet(f, S) \in Nat
  BY SumType
<1>. QED
  BY <1>2, <1>3, <1>4

\* The sum over one element, and over two.
LEMMA SumFew ==
  ASSUME NEW f, NEW x, NEW y, f[x] \in Nat, f[y] \in Nat, x # y
  PROVE  /\ SumFunctionOnSet(f, {}) = 0
         /\ SumFunctionOnSet(f, {x}) = f[x]
         /\ SumFunctionOnSet(f, {x, y}) = f[x] + f[y]
<1>1. IsFiniteSet({}) /\ IsFiniteSet({x}) /\ IsFiniteSet({x, y})
  <2>1. {x, y} = {x} \cup {y}
    OBVIOUS
  <2>2. IsFiniteSet({x}) /\ IsFiniteSet({x} \cup {y})
    BY FS_Singleton, FS_AddElement
  <2>. QED
    BY <2>1, <2>2, FS_EmptySet
<1>2. SumFunctionOnSet(f, {}) = 0
  BY <1>1, SumRound
<1>3. {x} \ {x} = {} /\ {x, y} \ {y} = {x}
  OBVIOUS
<1>4. SumFunctionOnSet(f, {x}) = f[x] + SumFunctionOnSet(f, {})
  BY <1>1, <1>3, SumWithout
<1>5. SumFunctionOnSet(f, {x, y}) = f[y] + SumFunctionOnSet(f, {x})
  BY <1>1, <1>3, SumWithout
<1>. QED
  BY <1>2, <1>4, <1>5

-----------------------------------------------------------------------------
(* Powers of two *)

\* A power of two counts the subsets of a set.
LEMMA PowerIsCount ==
  ASSUME NEW n \in Nat
  PROVE  IsFiniteSet(SUBSET (1..n)) /\ Cardinality(SUBSET (1..n)) = 2^n
<1>1. IsFiniteSet(1..n) /\ Cardinality(1..n) = n
  BY FS_Interval
<1>. QED
  BY <1>1, FS_SUBSET

\* The powers of two are positive and double from one to the next.
LEMMA PowersOfTwo ==
  ASSUME NEW n \in Nat
  PROVE  /\ 2^n \in Nat \ {0}
         /\ 2^(n + 1) = 2 * 2^n
<1> DEFINE A == SUBSET (1..n)
           More(t) == t \cup {n + 1}
           B == {More(t) : t \in A}
           C == SUBSET (1..(n + 1))
<1>1. IsFiniteSet(A) /\ Cardinality(A) = 2^n /\ Cardinality(C) = 2^(n + 1)
  <2>1. IsFiniteSet(A) /\ Cardinality(A) = 2^n
    BY PowerIsCount
  <2>2. n + 1 \in Nat
    OBVIOUS
  <2>3. Cardinality(C) = 2^(n + 1)
    BY <2>2, PowerIsCount, Zenon
  <2>. QED
    BY <2>1, <2>3
<1>2. Cardinality(A) \in Nat /\ Cardinality(A) # 0
  <2>1. A # {}
    OBVIOUS
  <2>. QED
    BY <1>1, <2>1, FS_CardinalityType, FS_EmptySet
<1>3. C = A \cup B
  <2>1. ASSUME NEW t \in C, t \notin A PROVE t \in B
    <3>1. n + 1 \in t
      BY <2>1
    <3>2. t \ {n + 1} \in A /\ t = More(t \ {n + 1})
      BY <2>1, <3>1
    <3>. QED
      BY <3>2
  <2>2. ASSUME NEW t \in A PROVE t \in C /\ More(t) \in C
    OBVIOUS
  <2> HIDE DEF A, C, More
  <2>. QED
    BY <2>1, <2>2
<1>4. A \cap B = {}
  OBVIOUS
<1>5. IsFiniteSet(B) /\ Cardinality(B) = Cardinality(A)
  <2> DEFINE f == [t \in A |-> More(t)]
  <2>1. f \in Bijection(A, B)
    <3>1. f \in [A -> B] /\ \A b \in B : \E a \in A : f[a] = b
      OBVIOUS
    <3>2. \A s, t \in A : f[s] = f[t] => s = t
      <4>1. \A s \in A : s = f[s] \ {n + 1}
        OBVIOUS
      <4>. QED
        BY <4>1
    <3> HIDE DEF f, B
    <3>. QED
      BY <3>1, <3>2 DEF Bijection, Injection, Surjection, IsInjective
  <2> HIDE DEF A, B, f
  <2>. QED
    BY <1>1, <2>1, FS_Bijection DEF ExistsBijection
<1>6. Cardinality(C) = Cardinality(A) + Cardinality(B)
  <2> HIDE DEF A, B, C
  <2>1. Cardinality(A \cap B) = 0
    BY <1>4, FS_EmptySet
  <2>2. Cardinality(A \cup B) = Cardinality(A) + Cardinality(B) - Cardinality(A \cap B)
    BY <1>1, <1>5, FS_Union
  <2>. QED
    BY <1>2, <1>3, <1>5, <2>1, <2>2
<1> HIDE DEF A, B, C
<1>. QED
  BY <1>1, <1>2, <1>5, <1>6

-----------------------------------------------------------------------------
(* What is kept of a sequence *)

\* What `Only` has made of the first n elements.
KeptUpTo(seq, set, m, f) ==
  f = [n \in 0..m |-> IF n = 0 THEN <<>>
                      ELSE IF seq[n] \in set THEN Append(f[n - 1], seq[n])
                      ELSE f[n - 1]]

\* `Only` is the last of them.
LEMMA OnlyIsChosen ==
  ASSUME NEW seq, NEW set
  PROVE  Only(seq, set) = (CHOOSE f : KeptUpTo(seq, set, Len(seq), f))[Len(seq)]
BY DEF Only, KeptUpTo

\* What is kept is defined for every length.
LEMMA KeptExist ==
  ASSUME NEW seq, NEW set, NEW m \in Nat
  PROVE  \E f : KeptUpTo(seq, set, m, f)
<1> SUFFICES ASSUME ~ \E f : KeptUpTo(seq, set, m, f) PROVE FALSE
  OBVIOUS
<1> DEFINE B == {n \in Nat : ~ \E f : KeptUpTo(seq, set, n, f)}
<1>1. B \in SUBSET Nat /\ B # {}
  OBVIOUS
<1> HIDE DEF B
<1>2. PICK n \in B : \A k \in B : n <= k
  BY <1>1, LeastNatural
<1> USE DEF B
<1>3. n # 0
  <2> DEFINE f == [k \in 0..0 |-> <<>>]
  <2>1. KeptUpTo(seq, set, 0, f)
    BY DEF KeptUpTo
  <2>. QED
    BY <2>1
<1>4. n - 1 \in Nat /\ n - 1 \notin B
  BY <1>2, <1>3
<1>5. PICK f : KeptUpTo(seq, set, n - 1, f)
  BY <1>4
<1> DEFINE last == IF seq[n] \in set THEN Append(f[n - 1], seq[n]) ELSE f[n - 1]
           g == [k \in 0..n |-> IF k = n THEN last ELSE f[k]]
           Step(h, k) == IF k = 0 THEN <<>>
                         ELSE IF seq[k] \in set THEN Append(h[k - 1], seq[k])
                         ELSE h[k - 1]
<1>6. ASSUME NEW k \in 0..n PROVE g[k] = Step(g, k)
  <2>1. k > 0 => g[k - 1] = f[k - 1]
    OBVIOUS
  <2>2. CASE k = n
    BY <1>3, <2>1, <2>2
  <2>3. CASE k # n
    <3>1. k \in 0..n - 1 /\ g[k] = f[k]
      BY <2>3
    <3>2. f[k] = Step(f, k)
      BY <1>5, <3>1 DEF KeptUpTo
    <3>. QED
      BY <2>1, <3>1, <3>2
  <2>. QED
    BY <2>2, <2>3
<1>7. KeptUpTo(seq, set, n, g)
  <2>1. g = [k \in 0..n |-> Step(g, k)]
    BY <1>6
  <2>. QED
    BY <2>1 DEF KeptUpTo
<1>. QED
  BY <1>7

\* The results for two sequences agree as far as the sequences do.
LEMMA KeptAgree ==
  ASSUME NEW seq, NEW other, NEW set, NEW m \in Nat, NEW f, NEW g,
         KeptUpTo(seq, set, m, f), KeptUpTo(other, set, m + 1, g),
         \A i \in 1..m : seq[i] = other[i]
  PROVE  f[m] = g[m]
<1> SUFFICES ASSUME f[m] # g[m] PROVE FALSE
  OBVIOUS
<1> DEFINE B == {i \in 0..m : f[i] # g[i]}
<1>1. B \in SUBSET Nat /\ B # {}
  OBVIOUS
<1> HIDE DEF B
<1>2. PICK i \in B : \A j \in B : i <= j
  BY <1>1, LeastNatural
<1>3. i \in 0..m /\ i \in 0..m + 1 /\ f[i] # g[i]
  BY DEF B
<1>4. /\ f[i] = IF i = 0 THEN <<>> ELSE IF seq[i] \in set THEN Append(f[i - 1], seq[i]) ELSE f[i - 1]
      /\ g[i] = IF i = 0 THEN <<>> ELSE IF other[i] \in set THEN Append(g[i - 1], other[i]) ELSE g[i - 1]
  BY <1>3 DEF KeptUpTo
<1>5. i # 0
  BY <1>3, <1>4
<1>6. f[i - 1] = g[i - 1]
  BY <1>2, <1>3, <1>5 DEF B
<1>7. seq[i] = other[i]
  BY <1>3, <1>5
<1>. QED
  BY <1>3, <1>4, <1>5, <1>6, <1>7

\* Nothing is kept of nothing.
LEMMA OnlyEmpty ==
  ASSUME NEW set
  PROVE  Only(<<>>, set) = <<>>
<1>1. PICK f : KeptUpTo(<<>>, set, 0, f)
  BY KeptExist
<1>2. KeptUpTo(<<>>, set, 0, CHOOSE g : KeptUpTo(<<>>, set, 0, g))
  BY <1>1
<1>3. Len(<<>>) = 0
  OBVIOUS
<1>. QED
  BY <1>2, <1>3, OnlyIsChosen DEF KeptUpTo

\* `Only` of a sequence that grows.
LEMMA OnlyAppend ==
  ASSUME NEW S, NEW seq \in Seq(S), NEW e \in S, NEW set
  PROVE  Only(Append(seq, e), set) =
           IF e \in set THEN Append(Only(seq, set), e) ELSE Only(seq, set)
<1> DEFINE n == Len(seq)
           more == Append(seq, e)
           f == CHOOSE h : KeptUpTo(seq, set, Len(seq), h)
           g == CHOOSE h : KeptUpTo(more, set, Len(more), h)
<1>1. n \in Nat /\ Len(more) = n + 1 /\ more[n + 1] = e /\ \A i \in 1..n : seq[i] = more[i]
  OBVIOUS
<1>2. KeptUpTo(seq, set, n, f)
  BY <1>1, KeptExist
<1>3. KeptUpTo(more, set, n + 1, g)
  BY <1>1, KeptExist
<1>4. Only(seq, set) = f[n] /\ Only(more, set) = g[n + 1]
  BY <1>1, OnlyIsChosen
<1> HIDE DEF f, g, more, n
<1>5. f[n] = g[n]
  BY <1>1, <1>2, <1>3, KeptAgree
<1>6. g[n + 1] = IF more[n + 1] \in set THEN Append(g[n], more[n + 1]) ELSE g[n]
  <2>1. n + 1 \in 0..n + 1 /\ n + 1 # 0 /\ (n + 1) - 1 = n
    BY <1>1
  <2>. QED
    BY <1>3, <2>1 DEF KeptUpTo
<1>. QED
  BY <1>1, <1>4, <1>5, <1>6 DEF more

\* It has the elements in `set` and no others.
LEMMA OnlyType ==
  ASSUME NEW S, NEW seq \in Seq(S), NEW set
  PROVE  Only(seq, set) \in Seq(S \cap set) /\ Only(seq, set) \in Seq(S)
<1>0. Seq(S \cap set) \subseteq Seq(S)
  BY SeqMonotonic
<1> SUFFICES ASSUME Only(seq, set) \notin Seq(S \cap set) PROVE FALSE
  BY <1>0
<1> DEFINE B == {n \in Nat : \E s \in Seq(S) : Len(s) = n /\ Only(s, set) \notin Seq(S \cap set)}
<1>1. B \in SUBSET Nat /\ B # {}
  OBVIOUS
<1> HIDE DEF B
<1>2. PICK n \in B : \A k \in B : n <= k
  BY <1>1, LeastNatural
<1> USE DEF B
<1>3. PICK s \in Seq(S) : Len(s) = n /\ Only(s, set) \notin Seq(S \cap set)
  OBVIOUS
<1>4. s # <<>>
  BY <1>3, OnlyEmpty
<1>5. PICK t \in Seq(S), e \in S : s = Append(t, e)
  BY <1>4, SequenceEmptyOrAppend
<1>6. Len(t) \in Nat /\ Len(t) < n
  BY <1>3, <1>5
<1>7. Only(t, set) \in Seq(S \cap set)
  BY <1>2, <1>6
<1>8. Only(s, set) = IF e \in set THEN Append(Only(t, set), e) ELSE Only(t, set)
  BY <1>5, OnlyAppend
<1>. QED
  BY <1>3, <1>7, <1>8

\* Appending to both is appending to the second.
AppendsLast(a, b, e) == Append(a \o b, e) = a \o Append(b, e)

\* An element appended to two sequences is appended to the second.
LEMMA AppendLast ==
  ASSUME NEW S, NEW a \in Seq(S), NEW b \in Seq(S), NEW e \in S
  PROVE  AppendsLast(a, b, e)
<1>1. Append(a \o b, e) \in Seq(S) /\ a \o Append(b, e) \in Seq(S)
  OBVIOUS
<1>2. Len(Append(a \o b, e)) = Len(a \o Append(b, e))
  OBVIOUS
<1>3. ASSUME NEW i \in 1..Len(Append(a \o b, e))
      PROVE  Append(a \o b, e)[i] = (a \o Append(b, e))[i]
  OBVIOUS
<1>. QED
  BY <1>1, <1>2, <1>3, SeqEqual DEF AppendsLast

\* `Only` of two sequences is that of one after that of the other.
LEMMA OnlyConcat ==
  ASSUME NEW S, NEW seq \in Seq(S), NEW other \in Seq(S), NEW set
  PROVE  Only(seq \o other, set) = Only(seq, set) \o Only(other, set)
<1> DEFINE Fits(t) == Only(seq \o t, set) = Only(seq, set) \o Only(t, set)
           B == {n \in Nat : \E t \in Seq(S) : Len(t) = n /\ ~Fits(t)}
<1> SUFFICES ASSUME ~Fits(other) PROVE FALSE
  OBVIOUS
<1> HIDE DEF Fits
<1>1. B \in SUBSET Nat /\ B # {}
  OBVIOUS
<1> HIDE DEF B
<1>2. PICK n \in B : \A k \in B : n <= k
  BY <1>1, LeastNatural
<1> USE DEF B
<1>3. PICK s \in Seq(S) : Len(s) = n /\ ~Fits(s)
  OBVIOUS
<1>4. s # <<>>
  <2>1. seq \o <<>> = seq /\ Only(seq, set) \o <<>> = Only(seq, set)
    BY OnlyType, ConcatEmptySeq
  <2>2. Fits(<<>>)
    BY <2>1, OnlyEmpty DEF Fits
  <2>. QED
    BY <1>3, <2>2
<1>5. PICK t \in Seq(S), e \in S : s = Append(t, e)
  BY <1>4, SequenceEmptyOrAppend
<1>6. Len(t) \in Nat /\ Len(t) < n
  BY <1>3, <1>5
<1>7. Fits(t)
  BY <1>2, <1>6
<1>8. seq \o s = Append(seq \o t, e) /\ seq \o t \in Seq(S)
  BY <1>5
<1>9. /\ Only(s, set) = IF e \in set THEN Append(Only(t, set), e) ELSE Only(t, set)
      /\ Only(seq \o s, set) = IF e \in set THEN Append(Only(seq \o t, set), e) ELSE Only(seq \o t, set)
  <2>1. Only(Append(t, e), set) = IF e \in set THEN Append(Only(t, set), e) ELSE Only(t, set)
    BY OnlyAppend
  <2>2. Only(Append(seq \o t, e), set) =
          IF e \in set THEN Append(Only(seq \o t, set), e) ELSE Only(seq \o t, set)
    BY <1>8, OnlyAppend
  <2>. QED
    BY <1>5, <1>8, <2>1, <2>2
<1>10. Only(seq, set) \in Seq(S) /\ Only(t, set) \in Seq(S)
  BY OnlyType
<1>11. PICK a \in Seq(S), b \in Seq(S) : a = Only(seq, set) /\ b = Only(t, set)
  BY <1>10
<1>12. AppendsLast(a, b, e)
  BY AppendLast
<1>13. Fits(s)
  BY <1>7, <1>9, <1>11, <1>12, Zenon DEF Fits, AppendsLast
<1>. QED
  BY <1>3, <1>13

\* A way to number what is kept: all of it, in its order.
Numbering(seq, set, at) ==
  /\ at \in [1..Len(Only(seq, set)) -> {i \in 1..Len(seq) : seq[i] \in set}]
  /\ \A n \in 1..Len(Only(seq, set)) : Only(seq, set)[n] = seq[at[n]]
  /\ \A n, k \in 1..Len(Only(seq, set)) : n < k => at[n] < at[k]
  /\ \A i \in 1..Len(seq) : seq[i] \in set => \E n \in 1..Len(Only(seq, set)) : at[n] = i

\* There is one.
LEMMA OnlyNumbers ==
  ASSUME NEW S, NEW seq \in Seq(S), NEW set
  PROVE  \E at : Numbering(seq, set, at)
<1> DEFINE B == {n \in Nat : \E t \in Seq(S) : Len(t) = n /\ ~ \E at : Numbering(t, set, at)}
<1> SUFFICES ASSUME ~ \E at : Numbering(seq, set, at) PROVE FALSE
  OBVIOUS
<1>1. B \in SUBSET Nat /\ B # {}
  OBVIOUS
<1> HIDE DEF B
<1>2. PICK n \in B : \A k \in B : n <= k
  BY <1>1, LeastNatural
<1> USE DEF B
<1>3. PICK s \in Seq(S) : Len(s) = n /\ ~ \E at : Numbering(s, set, at)
  OBVIOUS
<1>4. s # <<>>
  <2>1. Numbering(<<>>, set, <<>>)
    BY OnlyEmpty DEF Numbering
  <2>. QED
    BY <1>3, <2>1
<1>5. PICK t \in Seq(S), e \in S : s = Append(t, e)
  BY <1>4, SequenceEmptyOrAppend
<1>6. Len(t) \in Nat /\ Len(t) < n
  BY <1>3, <1>5
<1>7. PICK at : Numbering(t, set, at)
  BY <1>2, <1>6
<1>8. Only(s, set) = IF e \in set THEN Append(Only(t, set), e) ELSE Only(t, set)
  BY <1>5, OnlyAppend
<1>9. Only(t, set) \in Seq(S)
  BY OnlyType
<1>10. Len(s) = Len(t) + 1 /\ s[Len(s)] = e /\ \A i \in 1..Len(t) : s[i] = t[i]
  BY <1>5
<1> DEFINE m == Len(Only(t, set))
<1>11. m \in Nat
  BY <1>9
<1>12. /\ at \in [1..m -> Nat]
       /\ \A k \in 1..m : at[k] \in 1..Len(t) /\ t[at[k]] \in set /\ Only(t, set)[k] = t[at[k]]
       /\ \A k, l \in 1..m : k < l => at[k] < at[l]
       /\ \A i \in 1..Len(t) : t[i] \in set => \E k \in 1..m : at[k] = i
  <2>1. /\ at \in [1..m -> {i \in 1..Len(t) : t[i] \in set}]
        /\ \A k \in 1..m : Only(t, set)[k] = t[at[k]]
        /\ \A k, l \in 1..m : k < l => at[k] < at[l]
        /\ \A i \in 1..Len(t) : t[i] \in set => \E k \in 1..m : at[k] = i
    BY <1>7 DEF Numbering
  <2> HIDE DEF m
  <2>2. \A k \in 1..m : at[k] \in 1..Len(t) /\ t[at[k]] \in set /\ at[k] \in Nat
    BY <1>6, <2>1
  <2>3. at \in [1..m -> Nat]
    BY <2>1, <2>2
  <2>. QED
    BY <2>1, <2>2, <2>3
<1>13. CASE e \notin set
  <2>1. Only(s, set) = Only(t, set)
    BY <1>8, <1>13
  <2> HIDE DEF m
  <2>2. \A k \in 1..m : at[k] \in 1..Len(s) /\ s[at[k]] = t[at[k]]
    BY <1>6, <1>10, <1>12
  <2>3. \A i \in 1..Len(s) : s[i] \in set => i \in 1..Len(t) /\ t[i] \in set
    BY <1>6, <1>10, <1>13
  <2>4. at \in [1..m -> {i \in 1..Len(s) : s[i] \in set}]
    BY <1>12, <2>2
  <2>5. Numbering(s, set, at)
    BY <1>12, <2>1, <2>2, <2>3, <2>4 DEF Numbering, m
  <2>. QED
    BY <1>3, <2>5
<1>14. CASE e \in set
  <2> DEFINE more == [k \in 1..m + 1 |-> IF k = m + 1 THEN Len(s) ELSE at[k]]
  <2>1. /\ Len(Only(s, set)) = m + 1 /\ Only(s, set)[m + 1] = e
        /\ \A k \in 1..m : Only(s, set)[k] = Only(t, set)[k]
    BY <1>8, <1>9, <1>14
  <2> HIDE DEF m
  <2>2. more[m + 1] = Len(s) /\ \A k \in 1..m : more[k] = at[k]
    BY <1>11
  <2>3. \A k \in 1..m + 1 : more[k] \in 1..Len(s) /\ s[more[k]] \in set /\ Only(s, set)[k] = s[more[k]]
    <3> HIDE DEF more
    <3> SUFFICES ASSUME NEW k \in 1..m + 1
                 PROVE  more[k] \in 1..Len(s) /\ s[more[k]] \in set /\ Only(s, set)[k] = s[more[k]]
      OBVIOUS
    <3>1. CASE k = m + 1
      BY <3>1, <1>6, <1>10, <1>14, <2>1, <2>2
    <3>2. CASE k \in 1..m
      BY <3>2, <1>6, <1>10, <1>12, <2>1, <2>2
    <3>. QED
      BY <3>1, <3>2, <1>11
  <2>4. more \in [1..m + 1 -> {i \in 1..Len(s) : s[i] \in set}]
    BY <2>3
  <2> HIDE DEF more
  <2>5. ASSUME NEW k \in 1..m + 1, NEW l \in 1..m + 1, k < l PROVE more[k] < more[l]
    <3>1. k \in 1..m /\ more[k] = at[k] /\ at[k] \in 1..Len(t)
      BY <2>5, <1>11, <1>12, <2>2
    <3>2. CASE l = m + 1
      BY <3>1, <3>2, <1>6, <1>10, <2>2
    <3>3. CASE l \in 1..m
      BY <3>1, <3>3, <2>5, <1>12, <2>2
    <3>. QED
      BY <3>2, <3>3, <1>11
  <2>6. ASSUME NEW i \in 1..Len(s), s[i] \in set PROVE \E k \in 1..m + 1 : more[k] = i
    <3>1. CASE i = Len(s)
      <4>1. m + 1 \in 1..m + 1
        BY <1>11
      <4>. QED
        BY <3>1, <4>1, <2>2
    <3>2. CASE i \in 1..Len(t)
      <4>1. PICK k \in 1..m : at[k] = i
        BY <3>2, <2>6, <1>10, <1>12
      <4>2. k \in 1..m + 1
        BY <1>11
      <4>. QED
        BY <4>1, <4>2, <2>2
    <3>. QED
      BY <3>1, <3>2, <1>6, <1>10
  <2>7. Numbering(s, set, more)
    BY <2>1, <2>3, <2>4, <2>5, <2>6 DEF Numbering
  <2>. QED
    BY <1>3, <2>7
<1>. QED
  BY <1>13, <1>14

-----------------------------------------------------------------------------
(* A sequence in two parts *)

\* Cut anywhere, the parts of a sequence make it up.
LEMMA PartsOf ==
  ASSUME NEW S, NEW s \in Seq(S), NEW k \in 0..Len(s)
  PROVE  /\ SubSeq(s, 1, k) \in Seq(S) /\ Len(SubSeq(s, 1, k)) = k
         /\ SubSeq(s, k + 1, Len(s)) \in Seq(S) /\ Len(SubSeq(s, k + 1, Len(s))) = Len(s) - k
         /\ SubSeq(s, 1, k) \o SubSeq(s, k + 1, Len(s)) = s
<1>1. /\ k \in Int /\ k + 1 \in Int /\ Len(s) \in Int /\ Len(s) \in Nat
      /\ 1 \in 1..Len(s) + 1 /\ k \in (1 - 1)..Len(s) /\ Len(s) \in k..Len(s)
  OBVIOUS
<1>2. \A i \in 1..Len(s) : s[i] \in S
  OBVIOUS
<1>3. SubSeq(s, 1, k) \in Seq(S) /\ Len(SubSeq(s, 1, k)) = k
  <2>1. \A i \in 1..k : s[i] \in S
    BY <1>1, <1>2
  <2>. QED
    BY <1>1, <2>1, SubSeqProperties
<1>4. SubSeq(s, k + 1, Len(s)) \in Seq(S) /\ Len(SubSeq(s, k + 1, Len(s))) = Len(s) - k
  <2>1. \A i \in (k + 1)..Len(s) : s[i] \in S
    BY <1>1, <1>2
  <2>. QED
    BY <1>1, <2>1, SubSeqProperties
<1>5. SubSeq(s, 1, k) \o SubSeq(s, k + 1, Len(s)) = SubSeq(s, 1, Len(s))
  BY <1>1, ConcatAdjacentSubSeq
<1>. QED
  BY <1>3, <1>4, <1>5, SubSeqFull

\* Cut where they meet, two sequences are the parts.
LEMMA PartsAre ==
  ASSUME NEW S, NEW a \in Seq(S), NEW b \in Seq(S)
  PROVE  /\ SubSeq(a \o b, 1, Len(a)) = a
         /\ SubSeq(a \o b, Len(a) + 1, Len(a \o b)) = b
<1>1. a \o b \in Seq(S) /\ Len(a) \in 0..Len(a \o b) /\ Len(a \o b) = Len(a) + Len(b)
  OBVIOUS
<1>2. /\ SubSeq(a \o b, 1, Len(a)) \in Seq(S) /\ Len(SubSeq(a \o b, 1, Len(a))) = Len(a)
      /\ SubSeq(a \o b, Len(a) + 1, Len(a \o b)) \in Seq(S)
      /\ Len(SubSeq(a \o b, Len(a) + 1, Len(a \o b))) = Len(b)
  BY <1>1, PartsOf
<1>3. ASSUME NEW i \in 1..Len(a) PROVE SubSeq(a \o b, 1, Len(a))[i] = a[i]
  OBVIOUS
<1>4. ASSUME NEW i \in 1..Len(b) PROVE SubSeq(a \o b, Len(a) + 1, Len(a \o b))[i] = b[i]
  OBVIOUS
<1>. QED
  BY <1>2, <1>3, <1>4, SeqEqual

\* Three sequences make the same whichever two are joined first.
Associates(a, b, c) == (a \o b) \o c = a \o (b \o c)

\* They always do.
LEMMA ConcatInTurn ==
  ASSUME NEW S, NEW a \in Seq(S), NEW b \in Seq(S), NEW c \in Seq(S)
  PROVE  Associates(a, b, c)
<1>1. (a \o b) \o c \in Seq(S) /\ a \o (b \o c) \in Seq(S)
  OBVIOUS
<1>2. Len((a \o b) \o c) = Len(a \o (b \o c))
  OBVIOUS
<1>3. ASSUME NEW i \in 1..Len((a \o b) \o c)
      PROVE  ((a \o b) \o c)[i] = (a \o (b \o c))[i]
  OBVIOUS
<1>. QED
  BY <1>1, <1>2, <1>3, SeqEqual DEF Associates

=============================================================================
