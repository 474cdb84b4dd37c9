------------------------------ MODULE FieldFacts ------------------------------
(***************************************************************************)
(* What the proofs about encodings have in common, in three parts.         *)
(*                                                                         *)
(* Numbers and finite sets: quotients and remainders by a symbolic         *)
(* divisor, powers of two, induction, and recursion over numbers and over  *)
(* the subsets of a finite set.  The library states induction for a        *)
(* predicate P(_), which no prover installed can be given; here it is      *)
(* stated for a set.                                                       *)
(*                                                                         *)
(* VarInt, for every size of the groups and of the integers: the length    *)
(* that varint_len gives, and that what write_varint writes read_varint    *)
(* reads back.  encode is a recursive function: that it satisfies its own  *)
(* definition, and what it returns, is proved by induction.                *)
(*                                                                         *)
(* PacketFields, for every width of the fixed types:                       *)
(*   - a loop that takes bytes has at every turn the state that the bytes  *)
(*     so far give it (Turns, Reads, Loads);                               *)
(*   - where fields are written one after another, each stands where the   *)
(*     one before it ends (Joined), and from there its reader takes it     *)
(*     back (VarIntBack, FieldBack, StringBack, RowBack);                  *)
(*   - what can be read from the front of a body is what would be read     *)
(*     from all of it (SameField, SameString, SameFields), and the loop    *)
(*     over a file takes its rows up to the first that is not all there    *)
(*     (FileLoads).                                                        *)
(***************************************************************************)
EXTENDS PacketFields, FiniteSetTheorems, SequenceTheorems, WellFoundedInduction, TLAPS

-----------------------------------------------------------------------------
(***************************************************************************)
(* Numbers and finite sets.                                                *)
(***************************************************************************)
\* Division by a positive number, as the solver knows it.
LEMMA DivModFacts ==
  ASSUME NEW a \in Int, NEW n \in Nat \ {0}
  PROVE  /\ a \div n \in Int /\ a % n \in 0 .. n - 1
         /\ a = n * (a \div n) + (a % n)
  OBVIOUS

\* A multiple of a positive number is no less than it.
LEMMA MulPositive ==
  ASSUME NEW n \in Nat \ {0}, NEW k \in Int, k >= 1
  PROVE  n * k >= n
  OBVIOUS

\* The equation between them determines quotient and remainder; the solver does
\* not find this by itself when the divisor is a symbol.
LEMMA DivModUnique ==
  ASSUME NEW n \in Nat \ {0}, NEW q \in Int, NEW r \in 0 .. n - 1
  PROVE  (q * n + r) \div n = q /\ (q * n + r) % n = r
<1> DEFINE a == q * n + r
           d == a \div n
           m == a % n
<1>1. a \in Int OBVIOUS
<1>2. d \in Int /\ m \in 0 .. n - 1 /\ a = n * d + m
  BY <1>1, DivModFacts
<1>3. n * (d - q) = r - m
  BY <1>2
<1>4. d - q < 1
  <2>1. SUFFICES ASSUME d - q >= 1 PROVE FALSE
    BY <1>2
  <2>2. n * (d - q) >= n
    BY <1>2, <2>1, MulPositive
  <2> QED BY <1>2, <1>3, <2>2
<1>5. q - d < 1
  <2>1. SUFFICES ASSUME q - d >= 1 PROVE FALSE
    BY <1>2
  <2>2. n * (q - d) >= n
    BY <1>2, <2>1, MulPositive
  <2>3. n * (q - d) = m - r
    BY <1>2, <1>3
  <2> QED BY <1>2, <2>2, <2>3
<1>6. d = q
  BY <1>2, <1>4, <1>5
<1> QED BY <1>2, <1>6

\* Of a number below k times n, the quotient by n is below k.
LEMMA QuotientBelow ==
  ASSUME NEW n \in Nat \ {0}, NEW k \in Nat, NEW v \in 0 .. k * n - 1
  PROVE  v \div n \in 0 .. k - 1
<1> DEFINE d == v \div n
           m == v % n
<1>1. v \in Int /\ v >= 0 /\ v < k * n
  BY k * n \in Int
<1>2. d \in Int /\ m \in 0 .. n - 1 /\ v = n * d + m
  BY <1>1, DivModFacts
<1> HIDE DEF d, m
<1>3. d > -1
  <2> SUFFICES ASSUME -d >= 1 PROVE FALSE
    BY <1>2
  <2>1. n * (-d) >= n
    BY <1>2, MulPositive
  <2>2. n * (-d) = -(n * d)
    BY <1>2
  <2>3. n * d \in Int
    BY <1>2
  <2> QED BY <1>1, <1>2, <2>1, <2>2, <2>3
<1>4. d < k
  <2> SUFFICES ASSUME d - k + 1 >= 1 PROVE FALSE
    BY <1>2
  <2>1. n * (d - k + 1) >= n
    BY <1>2, MulPositive
  <2>2. n * (d - k + 1) = n * d - k * n + n
    BY <1>2
  <2>3. n * d \in Int /\ k * n \in Int
    BY <1>2
  <2> QED BY <1>1, <1>2, <2>1, <2>2, <2>3
<1> QED BY <1>2, <1>3, <1>4 DEF d

\* Dividing twice is dividing by the product.
LEMMA DivDiv ==
  ASSUME NEW v \in Nat, NEW a \in Nat \ {0}, NEW c \in Nat \ {0}
  PROVE  (v \div a) \div c = v \div (a * c)
<1> DEFINE q == v \div a
           r == v % a
           d == q \div c
           m == q % c
<1>1. q \in Int /\ r \in 0 .. a - 1 /\ v = a * q + r
  BY DivModFacts
<1> HIDE DEF q, r
<1>2. d \in Int /\ m \in 0 .. c - 1 /\ q = c * d + m
  BY <1>1, DivModFacts
<1> HIDE DEF d, m
<1>3. a * c \in Nat \ {0}
  OBVIOUS
<1>4. v = d * (a * c) + (a * m + r)
  BY <1>1, <1>2
<1>5. a * m + r \in 0 .. a * c - 1
  <2>1. a * m \in Nat /\ a * c \in Nat
    BY <1>2
  <2>2. a * (c - m) >= a
    <3>1. c - m >= 1 /\ c - m \in Int
      BY <1>2
    <3> QED BY <3>1, MulPositive
  <2>3. a * (c - m) = a * c - a * m
    BY <1>2
  <2> QED BY <1>1, <2>1, <2>2, <2>3
<1> DEFINE x == a * c
           y == a * m + r
<1>6. (d * x + y) \div x = d
  <2>1. x \in Nat \ {0} /\ y \in 0 .. x - 1
    BY <1>3, <1>5
  <2> HIDE DEF x, y
  <2> QED BY <1>2, <2>1, DivModUnique
<1> QED BY <1>4, <1>6 DEF d, q

-----------------------------------------------------------------------------
\* The least-number principle, for a set.
LEMMA LeastNatural ==
  ASSUME NEW T \in SUBSET Nat, T # {}
  PROVE  \E n \in T : \A m \in T : n <= m
<1> DEFINE R == {ss \in Nat \X Nat : ss[1] < ss[2]}
<1>1. IsWellFoundedOn(R, Nat)
  <2>1. OpToRel(<, Nat) = R
    BY DEF OpToRel
  <2> QED BY <2>1, NatLessThanWellFounded
<1>2. PICK n \in T : \A m \in T : ~ (<<m, n>> \in R)
  <2> HIDE DEF R
  <2> QED BY <1>1, WFMin
<1>3. ASSUME NEW m \in T PROVE n <= m
  <2>1. ~ (m < n)
    BY <1>2
  <2> HIDE DEF R
  <2> QED BY <2>1
<1> QED BY <1>3

\* Induction up to n: a set that holds 0 and goes up by one is all of 0 .. n.
LEMMA UpTo ==
  ASSUME NEW n \in Nat, NEW T, 0 \in T, \A k \in 0 .. n - 1 : k \in T => k + 1 \in T
  PROVE  0 .. n \subseteq T
<1> DEFINE Bad == {k \in 0 .. n : k \notin T}
<1>1. SUFFICES ASSUME Bad # {} PROVE FALSE
  OBVIOUS
<1>2. PICK k \in Bad : \A m \in Bad : k <= m
  <2>1. Bad \in SUBSET Nat
    OBVIOUS
  <2> HIDE DEF Bad
  <2> QED BY <1>1, <2>1, LeastNatural
<1>3. k \in Nat /\ k # 0 /\ k - 1 \in 0 .. n - 1
  OBVIOUS
<1>4. k - 1 \notin Bad
  <2> HIDE DEF Bad
  <2> QED BY <1>2, <1>3
<1> QED BY <1>3, <1>4

\* The same for all naturals.
LEMMA ForAllNaturals ==
  ASSUME NEW T, 0 \in T, \A k \in Nat : k \in T => k + 1 \in T
  PROVE  \A n \in Nat : n \in T
<1> SUFFICES ASSUME NEW n \in Nat PROVE n \in T
  OBVIOUS
<1>1. \A k \in 0 .. n - 1 : k \in T => k + 1 \in T
  OBVIOUS
<1>2. 0 .. n \subseteq T
  BY <1>1, UpTo
<1> QED BY <1>2

\* And for the subsets of a finite set, an element at a time.
LEMMA ForAllSubsets ==
  ASSUME NEW S, IsFiniteSet(S), NEW F,
         \A s \in SUBSET S : (\A x \in s : s \ {x} \in F) => s \in F
  PROVE  \A s \in SUBSET S : s \in F
<1> DEFINE T == {n \in Nat : \A s \in SUBSET S : Cardinality(s) = n => s \in F}
<1>1. \A s \in SUBSET S : IsFiniteSet(s) /\ Cardinality(s) \in Nat
  BY FS_Subset, FS_CardinalityType
<1>2. 0 \in T
  <2> SUFFICES ASSUME NEW s \in SUBSET S, Cardinality(s) = 0 PROVE s \in F
    OBVIOUS
  <2>1. s = {}
    BY <1>1, FS_EmptySet
  <2> QED BY <2>1
<1>3. ASSUME NEW k \in Nat, k \in T PROVE k + 1 \in T
  <2> SUFFICES ASSUME NEW s \in SUBSET S, Cardinality(s) = k + 1 PROVE s \in F
    OBVIOUS
  <2>1. ASSUME NEW x \in s PROVE s \ {x} \in F
    <3>1. IsFiniteSet(s)
      BY <1>1
    <3>2. Cardinality(s \ {x}) = Cardinality(s) - 1
      BY <3>1, FS_RemoveElement
    <3>3. s \ {x} \in SUBSET S /\ Cardinality(s \ {x}) = k
      BY <3>2
    <3> QED BY <1>3, <3>3
  <2> QED BY <2>1
<1>4. \A n \in Nat : n \in T
  <2> HIDE DEF T
  <2> QED BY <1>2, <1>3, ForAllNaturals
<1> QED BY <1>1, <1>4

\* g starts with base and makes every value up to N from the one before it.
Counted(g, N, A, base, step) ==
  /\ g \in [0 .. N -> A] /\ g[0] = base
  /\ \A n \in 1 .. N : g[n] = step[<<n, g[n - 1]>>]

\* There is such a function.
LEMMA CountedRecursion ==
  ASSUME NEW N \in Nat, NEW A, NEW base \in A,
         NEW step \in [(1 .. N) \X A -> A]
  PROVE  \E g : Counted(g, N, A, base, step)
<1> DEFINE Good(g, k) == /\ g \in [0 .. N -> A] /\ g[0] = base
                         /\ \A n \in 1 .. k : g[n] = step[<<n, g[n - 1]>>]
           T == {k \in 0 .. N : \E g : Good(g, k)}
<1>1. 0 \in T
  <2>1. Good([n \in 0 .. N |-> base], 0)
    OBVIOUS
  <2>2. \E g : Good(g, 0)
    <3> HIDE DEF Good
    <3> QED BY <2>1
  <2> HIDE DEF Good
  <2> QED BY <2>2
<1>2. ASSUME NEW k \in 0 .. N - 1, k \in T PROVE k + 1 \in T
  <2>1. PICK g : Good(g, k)
    BY <1>2
  <2> DEFINE h == [g EXCEPT ![k + 1] = step[<<k + 1, g[k]>>]]
  <2>2. step[<<k + 1, g[k]>>] \in A
    BY <2>1
  <2>3. h \in [0 .. N -> A] /\ h[k + 1] = step[<<k + 1, g[k]>>]
    BY <2>1, <2>2
  <2>4. \A n \in 0 .. k : h[n] = g[n]
    BY <2>1
  <2>5. ASSUME NEW n \in 1 .. k + 1 PROVE h[n] = step[<<n, h[n - 1]>>]
    <3>1. h[n - 1] = g[n - 1]
      BY <2>4
    <3>2. CASE n = k + 1
      <4>1. n - 1 = k
        BY <3>2
      <4> HIDE DEF h
      <4> QED BY <2>3, <3>1, <3>2, <4>1
    <3>3. CASE n # k + 1
      <4>1. n \in 1 .. k /\ n \in 0 .. k
        BY <3>3
      <4> HIDE DEF h
      <4> QED BY <2>1, <2>4, <3>1, <4>1
    <3> QED BY <3>2, <3>3
  <2>6. h[0] = base
    <3>1. h[0] = g[0]
      BY <2>4
    <3> HIDE DEF h
    <3> QED BY <2>1, <3>1
  <2> HIDE DEF h
  <2>7. Good(h, k + 1)
    BY <2>3, <2>5, <2>6
  <2>8. \E j : Good(j, k + 1)
    <3> HIDE DEF Good
    <3> QED BY <2>7
  <2> HIDE DEF Good
  <2> QED BY <2>8
<1>3. N \in T
  <2>1. 0 .. N \subseteq T
    <3> HIDE DEF T
    <3> QED BY <1>1, <1>2, UpTo
  <2> HIDE DEF T
  <2> QED BY <2>1
<1> QED BY <1>3 DEF Counted

\* And so it is for all naturals.
CountedOn(g, A, base, step) ==
  /\ g \in [Nat -> A] /\ g[0] = base
  /\ \A n \in Nat : g[n + 1] = step[<<n + 1, g[n]>>]

LEMMA NaturalRecursion ==
  ASSUME NEW A, NEW base \in A, NEW step \in [Nat \X A -> A]
  PROVE  \E g : CountedOn(g, A, base, step)
<1> DEFINE Upto(g, n) == Counted(g, n, A, base, step)
           best(n) == CHOOSE g : Upto(g, n)
           G == [n \in Nat |-> best(n)[n]]
<1>1. ASSUME NEW n \in Nat PROVE Upto(best(n), n)
  <2> DEFINE part == [x \in (1 .. n) \X A |-> step[x]]
  <2>1. part \in [(1 .. n) \X A -> A]
    OBVIOUS
  <2>2. PICK g : Counted(g, n, A, base, part)
    <3> HIDE DEF part
    <3> QED BY <2>1, CountedRecursion
  <2>3. Upto(g, n)
    <3>1. ASSUME NEW k \in 1 .. n PROVE g[k] = step[<<k, g[k - 1]>>]
      <4>1. k - 1 \in 0 .. n
        OBVIOUS
      <4>2. g[k - 1] \in A
        BY <2>2, <4>1 DEF Counted
      <4>3. g[k] = part[<<k, g[k - 1]>>]
        <5> HIDE DEF part
        <5> QED BY <2>2 DEF Counted
      <4> QED BY <4>2, <4>3
    <3> HIDE DEF part
    <3> QED BY <2>2, <3>1 DEF Counted
  <2>4. \E h : Upto(h, n)
    BY <2>3
  <2> HIDE DEF Upto
  <2> QED BY <2>4
<1>2. ASSUME NEW m \in Nat, NEW n \in Nat, NEW g, NEW h, Upto(g, m), Upto(h, n), m <= n
      PROVE  g[m] = h[m]
  <2> DEFINE T == {k \in 0 .. m : g[k] = h[k]}
  <2>1. 0 \in T
    BY <1>2 DEF Counted
  <2>2. ASSUME NEW k \in 0 .. m - 1, k \in T PROVE k + 1 \in T
    <3>1. k + 1 \in 1 .. m /\ k + 1 \in 1 .. n /\ (k + 1) - 1 = k /\ k + 1 \in 0 .. m
      BY <1>2
    <3>2. g[k + 1] = step[<<k + 1, g[k]>>] /\ h[k + 1] = step[<<k + 1, h[k]>>]
      BY <1>2, <3>1 DEF Counted
    <3> QED BY <2>2, <3>1, <3>2
  <2>3. 0 .. m \subseteq T
    <3> HIDE DEF T
    <3> QED BY <2>1, <2>2, UpTo
  <2> QED BY <2>3
<1>3. ASSUME NEW n \in Nat
      PROVE  /\ best(n)[n] \in A
             /\ best(n + 1)[n + 1] = step[<<n + 1, best(n)[n]>>]
  <2>1. n + 1 \in Nat /\ n \in 0 .. n /\ n + 1 \in 1 .. n + 1 /\ (n + 1) - 1 = n /\ n <= n + 1
    OBVIOUS
  <2>2. Upto(best(n), n) /\ Upto(best(n + 1), n + 1)
    BY <1>1, <2>1
  <2> HIDE DEF best
  <2>3. best(n)[n] = best(n + 1)[n]
    <3> HIDE DEF Upto
    <3> QED BY <1>2, <2>1, <2>2
  <2>4. best(n)[n] \in A
    BY <2>1, <2>2 DEF Counted
  <2>5. best(n + 1)[n + 1] = step[<<n + 1, best(n + 1)[n]>>]
    BY <2>1, <2>2 DEF Counted
  <2> QED BY <2>3, <2>4, <2>5
<1>4. best(0)[0] = base
  <2>1. Upto(best(0), 0)
    BY <1>1
  <2> HIDE DEF best
  <2> QED BY <2>1 DEF Counted
<1> HIDE DEF best
<1>5. G \in [Nat -> A] /\ G[0] = base
  BY <1>3, <1>4
<1>6. \A n \in Nat : G[n + 1] = step[<<n + 1, G[n]>>]
  BY <1>3
<1> HIDE DEF G
<1> QED BY <1>5, <1>6 DEF CountedOn

(***************************************************************************)
(* Recursion over the subsets of a finite set, as the folds of the         *)
(* library have it: take an element of the set and combine it with the     *)
(* result for the others.                                                  *)
(***************************************************************************)
Next1(g, s, base, pick, combine) ==
  IF s = {} THEN base ELSE combine[pick[s]][g[s \ {pick[s]}]]

Recursive1(g, S, base, pick, combine) ==
  \A s \in SUBSET S : g[s] = Next1(g, s, base, pick, combine)

\* There is a function with that recursion.
LEMMA SubsetRecursion ==
  ASSUME NEW S, IsFiniteSet(S), NEW A, NEW base \in A,
         NEW pick, \A s \in SUBSET S : s # {} => pick[s] \in s,
         NEW combine, \A x \in S, a \in A : combine[x][a] \in A
  PROVE  \E g : g \in [SUBSET S -> A] /\ Recursive1(g, S, base, pick, combine)
<1> DEFINE Good(g, n) == /\ g \in [SUBSET S -> A]
                         /\ \A s \in SUBSET S : Cardinality(s) <= n
                              => g[s] = Next1(g, s, base, pick, combine)
           T == {n \in Nat : \E g : Good(g, n)}
<1>1. \A s \in SUBSET S : IsFiniteSet(s) /\ Cardinality(s) \in Nat
  BY FS_Subset, FS_CardinalityType
<1>2. 0 \in T
  <2> DEFINE g == [s \in SUBSET S |-> base]
  <2>1. ASSUME NEW s \in SUBSET S, Cardinality(s) <= 0
        PROVE  g[s] = Next1(g, s, base, pick, combine)
    <3>1. s = {}
      <4>1. IsFiniteSet(s) /\ Cardinality(s) = 0
        BY <1>1, <2>1
      <4> QED BY <4>1, FS_EmptySet
    <3> QED BY <3>1 DEF Next1
  <2>2. Good(g, 0)
    BY <2>1
  <2> QED BY <2>2
<1>3. ASSUME NEW k \in Nat, k \in T PROVE k + 1 \in T
  <2>1. PICK g : Good(g, k)
    BY <1>3
  <2> DEFINE h == [s \in SUBSET S |-> Next1(g, s, base, pick, combine)]
  <2>2. ASSUME NEW s \in SUBSET S PROVE h[s] \in A
    <3>1. CASE s = {}
      BY <3>1 DEF Next1
    <3>2. CASE s # {}
      <4>1. pick[s] \in S /\ s \ {pick[s]} \in SUBSET S
        BY <3>2
      <4>2. g[s \ {pick[s]}] \in A
        BY <2>1, <4>1
      <4> QED BY <3>2, <4>1, <4>2 DEF Next1
    <3> QED BY <3>1, <3>2
  <2>3. ASSUME NEW s \in SUBSET S, Cardinality(s) <= k + 1
        PROVE  h[s] = Next1(h, s, base, pick, combine)
    <3>1. CASE s = {}
      BY <3>1 DEF Next1
    <3>2. CASE s # {}
      <4> DEFINE r == s \ {pick[s]}
      <4>1. IsFiniteSet(s) /\ Cardinality(s) \in Nat /\ pick[s] \in s
        BY <1>1, <3>2
      <4>2. r \in SUBSET S /\ Cardinality(r) = Cardinality(s) - 1
        BY <4>1, FS_RemoveElement
      <4>3. Cardinality(r) <= k
        <5> HIDE DEF r
        <5> QED BY <2>3, <4>1, <4>2
      <4> HIDE DEF r
      <4>4. h[r] = g[r]
        BY <2>1, <4>2, <4>3
      <4>5. h[s] = combine[pick[s]][g[r]]
        BY <3>2 DEF Next1, r
      <4> HIDE DEF h
      <4> QED BY <3>2, <4>4, <4>5 DEF Next1, r
    <3> QED BY <3>1, <3>2
  <2>4. h \in [SUBSET S -> A]
    BY <2>2
  <2> HIDE DEF h
  <2>5. Good(h, k + 1)
    BY <2>3, <2>4
  <2>6. \E j : Good(j, k + 1)
    <3> HIDE DEF Good
    <3> QED BY <2>5
  <2> HIDE DEF Good
  <2> QED BY <2>6
<1>4. Cardinality(S) \in T
  <2>1. Cardinality(S) \in Nat
    BY FS_CardinalityType
  <2>2. \A n \in Nat : n \in T
    <3> HIDE DEF T
    <3> QED BY <1>2, <1>3, ForAllNaturals
  <2> QED BY <2>1, <2>2
<1>5. PICK g : Good(g, Cardinality(S))
  BY <1>4
<1>6. \A s \in SUBSET S : Cardinality(s) <= Cardinality(S)
  BY FS_Subset
<1>7. Recursive1(g, S, base, pick, combine)
  BY <1>5, <1>6 DEF Recursive1
<1> QED BY <1>5, <1>7

-----------------------------------------------------------------------------
(***************************************************************************)
(* Powers of two.  The provers know nothing of an exponent that is not a   *)
(* number; what they need comes from the number of subsets of 1 .. n.      *)
(***************************************************************************)
\* 2 ^ n counts the subsets of 1 .. n.
LEMMA PowerCounts ==
  ASSUME NEW n \in Nat
  PROVE  /\ IsFiniteSet(SUBSET (1 .. n)) /\ Cardinality(SUBSET (1 .. n)) = 2 ^ n
         /\ 2 ^ n \in Nat
<1>1. IsFiniteSet(1 .. n) /\ Cardinality(1 .. n) = n
  BY FS_Interval
<1>2. IsFiniteSet(SUBSET (1 .. n)) /\ Cardinality(SUBSET (1 .. n)) = 2 ^ Cardinality(1 .. n)
  BY <1>1, FS_SUBSET
<1> QED BY <1>1, <1>2, FS_CardinalityType

\* The empty set has one subset.
LEMMA PowerZero == 2 ^ 0 = 1
<1>1. 1 .. 0 = {} /\ SUBSET {} = {{}}
  OBVIOUS
<1>2. Cardinality(SUBSET (1 .. 0)) = 1
  BY <1>1, FS_Singleton
<1>3. Cardinality(SUBSET (1 .. 0)) = 2 ^ 0
  BY PowerCounts
<1> QED BY <1>2, <1>3

\* Half of the subsets have the last element.
LEMMA PowerNext ==
  ASSUME NEW n \in Nat
  PROVE  2 ^ (n + 1) = 2 * 2 ^ n
<1> DEFINE P == SUBSET (1 .. n)
           Q == {t \cup {n + 1} : t \in P}
           f == [t \in P |-> t \cup {n + 1}]
<1>1. \A t \in P : n + 1 \notin t
  OBVIOUS
<1>2. P \cap Q = {}
  BY <1>1
<1>3. P \cup Q = SUBSET (1 .. n + 1)
  <2>1. ASSUME NEW t \in SUBSET (1 .. n + 1), n + 1 \notin t PROVE t \in P
    BY <2>1
  <2>2. ASSUME NEW t \in SUBSET (1 .. n + 1), n + 1 \in t PROVE t \in Q
    <3>1. t \ {n + 1} \in P
      OBVIOUS
    <3>2. t = (t \ {n + 1}) \cup {n + 1}
      BY <2>2
    <3> QED BY <3>1, <3>2
  <2>3. ASSUME NEW t \in P PROVE t \subseteq 1 .. n + 1 /\ t \cup {n + 1} \subseteq 1 .. n + 1
    <3>1. n + 1 \in 1 .. n + 1 /\ \A i \in 1 .. n : i \in 1 .. n + 1
      OBVIOUS
    <3> QED BY <3>1
  <2>4. \A t \in Q : t \in SUBSET (1 .. n + 1)
    BY <2>3
  <2>5. \A t \in P : t \in SUBSET (1 .. n + 1)
    BY <2>3
  <2>6. \A t \in SUBSET (1 .. n + 1) : t \in P \cup Q
    <3> HIDE DEF P, Q
    <3> QED BY <2>1, <2>2
  <2> HIDE DEF P, Q
  <2> QED BY <2>4, <2>5, <2>6
<1>4. f \in Bijection(P, Q)
  <2>1. f \in [P -> Q]
    OBVIOUS
  <2>2. ASSUME NEW a \in P, NEW b \in P, f[a] = f[b] PROVE a = b
    <3>1. a = f[a] \ {n + 1} /\ b = f[b] \ {n + 1}
      BY <1>1
    <3> QED BY <2>2, <3>1
  <2>3. \A q \in Q : \E t \in P : f[t] = q
    OBVIOUS
  <2> HIDE DEF f, P, Q
  <2> QED BY <2>1, <2>2, <2>3 DEF Bijection, Injection, Surjection, IsInjective
<1>5. IsFiniteSet(P) /\ Cardinality(P) = 2 ^ n /\ 2 ^ n \in Nat
  BY PowerCounts
<1>6. Cardinality(SUBSET (1 .. n + 1)) = 2 ^ (n + 1)
  BY PowerCounts
<1> HIDE DEF P, Q, f
<1>7. IsFiniteSet(Q) /\ Cardinality(Q) = Cardinality(P)
  BY <1>4, <1>5, FS_Bijection DEF ExistsBijection
<1>8. Cardinality(P \cup Q) = Cardinality(P) + Cardinality(Q) - Cardinality(P \cap Q)
  BY <1>5, <1>7, FS_Union
<1>9. Cardinality(P \cap Q) = 0
  BY <1>2, FS_EmptySet
<1> DEFINE a == 2 ^ n
           b == 2 ^ (n + 1)
           c == Cardinality(P \cup Q)
<1>10. a \in Nat /\ b = c /\ c = a + a - 0
  <2>1. c = Cardinality(P) + Cardinality(Q) - 0
    BY <1>8, <1>9
  <2> QED BY <1>3, <1>5, <1>6, <1>7, <2>1
<1>11. b = 2 * a
  <2> HIDE DEF a, b, c
  <2> QED BY <1>10
<1> QED BY <1>11

\* A power of two is a positive number.
LEMMA PowerPositive ==
  ASSUME NEW n \in Nat
  PROVE  2 ^ n \in Nat \ {0}
<1> DEFINE T == {k \in Nat : 2 ^ k \in Nat \ {0}}
<1>1. 0 \in T
  BY PowerZero
<1>2. ASSUME NEW k \in Nat, k \in T PROVE k + 1 \in T
  BY <1>2, PowerNext
<1>3. \A k \in Nat : k \in T
  <2> HIDE DEF T
  <2> QED BY <1>1, <1>2, ForAllNaturals
<1> QED BY <1>3

\* Exponents add up.
LEMMA PowerSum ==
  ASSUME NEW m \in Nat, NEW n \in Nat
  PROVE  2 ^ (m + n) = 2 ^ m * 2 ^ n
<1> DEFINE T == {k \in Nat : 2 ^ (m + k) = 2 ^ m * 2 ^ k}
<1>1. 0 \in T
  BY PowerZero, PowerPositive
<1>2. ASSUME NEW k \in Nat, k \in T PROVE k + 1 \in T
  <2> DEFINE a == 2 ^ m
             b == 2 ^ k
             c == 2 ^ (m + k)
  <2>1. m + k \in Nat /\ m + (k + 1) = (m + k) + 1
    OBVIOUS
  <2>2. 2 ^ (m + (k + 1)) = 2 * c /\ 2 ^ (k + 1) = 2 * b
    BY <2>1, PowerNext
  <2>3. a \in Nat /\ b \in Nat /\ c = a * b
    BY <1>2, PowerPositive
  <2> HIDE DEF a, b, c
  <2>4. 2 * c = a * (2 * b)
    BY <2>3
  <2>5. 2 ^ (m + (k + 1)) = 2 ^ m * 2 ^ (k + 1)
    BY <2>2, <2>4 DEF a
  <2> QED BY <2>5
<1>3. \A k \in Nat : k \in T
  <2> HIDE DEF T
  <2> QED BY <1>1, <1>2, ForAllNaturals
<1> QED BY <1>3

\* A greater exponent gives no less.
LEMMA PowerGrows ==
  ASSUME NEW m \in Nat, NEW n \in Nat, m <= n
  PROVE  2 ^ m <= 2 ^ n
<1> DEFINE d == n - m
           a == 2 ^ m
           b == 2 ^ d
<1>1. d \in Nat /\ n = m + d
  OBVIOUS
<1>2. 2 ^ n = a * b /\ a \in Nat \ {0} /\ b \in Nat \ {0}
  BY <1>1, PowerSum, PowerPositive
<1> HIDE DEF a, b
<1>3. a * b >= a
  BY <1>2, MulPositive
<1> QED BY <1>2, <1>3 DEF a

-----------------------------------------------------------------------------
(***************************************************************************)
(* Digits.  Digit(n, w, b, d) says that n written to the base b has the    *)
(* digit d where the weight is w: below it is a rest less than w, above it *)
(* a multiple of the next weight.                                          *)
(***************************************************************************)
Digit(n, w, b, d) ==
  \E low \in Nat, high \in Nat : low < w /\ n = low + d * w + high * (w * b)

\* Dividing by the weight and by the base leaves the digit.
LEMMA DigitRead ==
  ASSUME NEW n, NEW w \in Nat \ {0}, NEW b \in Nat \ {0}, NEW d \in 0 .. b - 1,
         Digit(n, w, b, d)
  PROVE  (n \div w) % b = d
<1>1. PICK low \in Nat, high \in Nat : low < w /\ n = low + d * w + high * (w * b)
  BY DEF Digit
<1> DEFINE q == high * b + d
<1>2. q \in Int /\ low \in 0 .. w - 1
  BY <1>1
<1>3. n = q * w + low
  BY <1>1
<1>4. n \div w = q
  <2> HIDE DEF q
  <2> QED BY ONLY <1>2, <1>3, w \in Nat \ {0}, DivModUnique
<1>5. q % b = d
  BY DivModUnique
<1> QED BY <1>4, <1>5

\* All digits of zero are zero.
LEMMA DigitZero ==
  ASSUME NEW w \in Nat \ {0}, NEW b \in Nat \ {0}
  PROVE  Digit(0, w, b, 0)
<1>1. 0 \in Nat /\ 0 < w /\ 0 = 0 + 0 * w + 0 * (w * b)
  OBVIOUS
<1> QED BY <1>1 DEF Digit

\* Adding at the weight of a digit that is zero sets it.
LEMMA DigitSet ==
  ASSUME NEW n \in Nat, NEW w \in Nat \ {0}, NEW b \in Nat \ {0}, NEW v \in Nat,
         Digit(n, w, b, 0)
  PROVE  Digit(v * w + n, w, b, v)
<1>1. PICK low \in Nat, high \in Nat : low < w /\ n = low + 0 * w + high * (w * b)
  BY DEF Digit
<1>2. v * w + n = low + v * w + high * (w * b)
  BY <1>1
<1> QED BY <1>1, <1>2 DEF Digit

\* Adding at a higher weight leaves it.
LEMMA DigitAbove ==
  ASSUME NEW n \in Nat, NEW w \in Nat \ {0}, NEW b \in Nat \ {0}, NEW d \in Nat,
         NEW v \in Nat, NEW c \in Nat, Digit(n, w, b, d)
  PROVE  Digit(v * ((w * b) * c) + n, w, b, d)
<1>1. PICK low \in Nat, high \in Nat : low < w /\ n = low + d * w + high * (w * b)
  BY DEF Digit
<1> DEFINE x == w * b
<1>2. x \in Nat /\ d * w \in Nat
  OBVIOUS
<1>3. n = low + d * w + high * x
  BY <1>1
<1> HIDE DEF x
<1>4. v * (x * c) + n = low + d * w + (high + v * c) * x
  <2>1. (high + v * c) * x = high * x + v * (x * c)
    BY <1>2
  <2>2. high * x \in Nat /\ v * (x * c) \in Nat
    BY <1>2
  <2> QED BY <1>2, <1>3, <2>1, <2>2
<1>5. high + v * c \in Nat
  OBVIOUS
<1> QED BY <1>1, <1>4, <1>5 DEF Digit, x

\* Adding at a lower weight, where the digit is zero, carries nothing over.
LEMMA DigitBelow ==
  ASSUME NEW n \in Nat, NEW a \in Nat \ {0}, NEW b \in Nat \ {0}, NEW c \in Nat \ {0},
         NEW d \in Nat, NEW v \in 0 .. b - 1,
         Digit(n, (a * b) * c, b, d), Digit(n, a, b, 0)
  PROVE  Digit(v * a + n, (a * b) * c, b, d)
<1> DEFINE x == a * b
           w == x * c
<1>1. PICK low \in Nat, high \in Nat : low < w /\ n = low + d * w + high * (w * b)
  BY DEF Digit
<1>2. PICK l2 \in Nat, h2 \in Nat : l2 < a /\ n = l2 + 0 * a + h2 * (a * b)
  BY DEF Digit
<1> DEFINE r == d + high * b
           h == h2 - r * c
<1>3. x \in Nat \ {0} /\ r \in Nat
  OBVIOUS
<1>4. n = low + r * w
  BY <1>1, <1>3
<1>5. n = l2 + h2 * x
  BY <1>2
<1>6. w \in Nat \ {0} /\ h \in Int
  BY <1>3
<1>7. low = l2 + h * x
  <2> HIDE DEF r, x
  <2>1. h * x = h2 * x - r * (x * c)
    BY <1>3
  <2>2. h2 * x \in Int /\ r * (x * c) \in Int /\ w = x * c
    BY <1>3
  <2> HIDE DEF w, h
  <2>3. h * x \in Int
    BY <1>3, <1>6
  <2> QED BY <1>4, <1>5, <2>1, <2>2, <2>3
<1>8. a <= x
  BY MulPositive DEF x
<1>9. h < c
  <2> SUFFICES ASSUME h - c + 1 >= 1 PROVE FALSE
    BY <1>6
  <2> HIDE DEF h, r, x
  <2>1. x * (h - c + 1) >= x
    BY <1>3, <1>6, MulPositive
  <2>2. x * (h - c + 1) = h * x - x * c + x
    BY <1>3, <1>6
  <2>3. h * x \in Int /\ x * c \in Int
    BY <1>3, <1>6
  <2> QED BY <1>1, <1>3, <1>7, <2>1, <2>2, <2>3
<1>10. low + v * a < w
  <2>1. v * a <= (b - 1) * a /\ (b - 1) * a = x - a /\ v * a \in Int
    BY DEF x
  <2> HIDE DEF h, r, x
  <2>2. h * x <= (c - 1) * x
    <3>1. c - 1 - h \in Nat
      BY <1>6, <1>9
    <3>2. (c - 1 - h) * x >= 0
      BY <1>3, <3>1
    <3>3. (c - 1 - h) * x = (c - 1) * x - h * x
      BY <1>3, <1>6
    <3>4. (c - 1) * x \in Int /\ h * x \in Int
      BY <1>3, <1>6
    <3> QED BY <3>2, <3>3, <3>4
  <2>3. (c - 1) * x = x * c - x
    BY <1>3
  <2>4. x * c \in Int /\ h * x \in Int
    BY <1>3, <1>6
  <2> QED BY <1>2, <1>3, <1>7, <2>1, <2>2, <2>3, <2>4
<1>11. v * a + n = (low + v * a) + d * w + high * (w * b)
  <2>1. v * a \in Int /\ d * w \in Int /\ high * (w * b) \in Int
    BY <1>6
  <2> HIDE DEF w
  <2> QED BY <1>1, <2>1
<1>12. low + v * a \in Nat
  OBVIOUS
<1> HIDE DEF w
<1>13. Digit(v * a + n, w, b, d)
  BY <1>1, <1>10, <1>11, <1>12 DEF Digit
<1> QED BY <1>13 DEF w

\* The weights of two slots of the same width.
LEMMA SlotWeights ==
  ASSUME NEW bits \in Nat, NEW i \in Nat, NEW j \in Nat, i < j
  PROVE  /\ 2 ^ (i * bits) \in Nat \ {0}
         /\ \E c \in Nat \ {0} : 2 ^ (j * bits) = (2 ^ (i * bits) * 2 ^ bits) * c
<1> DEFINE k == (j - i - 1) * bits
           m == i * bits
<1>1. k \in Nat /\ m \in Nat /\ j * bits = (m + bits) + k
  <2>1. j - i - 1 \in Nat
    OBVIOUS
  <2> QED BY <2>1
<1>2. m + bits \in Nat
  BY <1>1
<1> HIDE DEF k, m
<1>3. 2 ^ ((m + bits) + k) = 2 ^ (m + bits) * 2 ^ k /\ 2 ^ (m + bits) = 2 ^ m * 2 ^ bits
  BY <1>1, <1>2, PowerSum
<1>4. 2 ^ k \in Nat \ {0} /\ 2 ^ m \in Nat \ {0}
  BY <1>1, PowerPositive
<1>5. 2 ^ (j * bits) = (2 ^ m * 2 ^ bits) * 2 ^ k
  BY <1>1, <1>3
<1> QED BY <1>4, <1>5 DEF m

\* g sums the digits v of every subset of S, each shifted to its slot, taking the
\* elements as pick does.
PackedBy(S, bits, slot, v, g, pick) ==
  /\ IsFiniteSet(S) /\ bits \in Nat
  /\ slot \in [S -> Nat] /\ \A x, y \in S : slot[x] = slot[y] => x = y
  /\ v \in [S -> 0 .. 2 ^ bits - 1]
  /\ g \in [SUBSET S -> Nat] /\ g[{}] = 0
  /\ \A s \in SUBSET S : s # {} => pick[s] \in s
  /\ \A s \in SUBSET S : s # {} =>
       g[s] = v[pick[s]] * 2 ^ (slot[pick[s]] * bits) + g[s \ {pick[s]}]

DigitAt(x, place, bits) == (x \div 2 ^ (place * bits)) % 2 ^ bits


(***************************************************************************)
(* Values that fit bits, each added at a slot of its own, are all found in *)
(* their slots, in whatever order they were added.                         *)
(***************************************************************************)
LEMMA PackedDigits ==
  ASSUME NEW S, NEW bits, NEW slot, NEW v, NEW g, NEW pick,
         PackedBy(S, bits, slot, v, g, pick)
  PROVE  \A j \in S : DigitAt(g[S], slot[j], bits) = v[j]
<1>0. /\ IsFiniteSet(S) /\ bits \in Nat
      /\ slot \in [S -> Nat] /\ \A x, y \in S : slot[x] = slot[y] => x = y
      /\ v \in [S -> 0 .. 2 ^ bits - 1]
      /\ g \in [SUBSET S -> Nat] /\ g[{}] = 0
      /\ \A s \in SUBSET S : s # {} => pick[s] \in s
      /\ \A s \in SUBSET S : s # {} =>
           g[s] = v[pick[s]] * 2 ^ (slot[pick[s]] * bits) + g[s \ {pick[s]}]
  BY Zenon DEF PackedBy
<1> USE <1>0
<1> DEFINE B == 2 ^ bits
           W(j) == 2 ^ (slot[j] * bits)
           D(s, j) == IF j \in s THEN v[j] ELSE 0
           F == {s \in SUBSET S : \A j \in S : Digit(g[s], W(j), B, D(s, j))}
<1>1. B \in Nat \ {0}
  BY PowerPositive
<1>2. \A j \in S : W(j) \in Nat \ {0}
  <2> SUFFICES ASSUME NEW j \in S PROVE W(j) \in Nat \ {0}
    OBVIOUS
  <2>1. slot[j] * bits \in Nat
    OBVIOUS
  <2> QED BY <2>1, PowerPositive
<1>3. ASSUME NEW i \in S, NEW j \in S, slot[i] < slot[j]
      PROVE  \E c \in Nat \ {0} : W(j) = (W(i) * B) * c
  <2> DEFINE m == slot[i]
             n == slot[j]
  <2>1. m \in Nat /\ n \in Nat /\ m < n /\ bits \in Nat
    BY <1>3
  <2> HIDE DEF m, n
  <2>2. \E c \in Nat \ {0} : 2 ^ (n * bits) = (2 ^ (m * bits) * 2 ^ bits) * c
    BY ONLY <2>1, SlotWeights
  <2> QED BY <2>2 DEF m, n
<1>4. ASSUME NEW s \in SUBSET S, \A x \in s : s \ {x} \in F
      PROVE  s \in F
  <2> SUFFICES ASSUME NEW j \in S PROVE Digit(g[s], W(j), B, D(s, j))
    OBVIOUS
  <2>1. CASE s = {}
    <3>1. g[s] = 0 /\ D(s, j) = 0
      BY <2>1
    <3> HIDE DEF B, W, D
    <3> QED BY <1>1, <1>2, <3>1, DigitZero
  <2>2. CASE s # {}
    <3> DEFINE x == pick[s]
               r == s \ {x}
               u == v[x]
    <3>1. x \in s /\ x \in S /\ r \in SUBSET S
      BY <2>2
    <3>2. /\ \A i \in S : Digit(g[r], W(i), B, D(r, i))
          /\ g[s] = u * W(x) + g[r]
      BY <1>4, <2>2, <3>1
    <3>3. g[r] \in Nat /\ u \in 0 .. B - 1 /\ u \in Nat /\ D(s, j) \in Nat
      BY <1>1, <3>1
    <3>4. D(r, x) = 0 /\ (j # x => D(r, j) = D(s, j)) /\ D(s, x) = u
      BY <3>1
    <3>5. slot[x] \in Nat /\ slot[j] \in Nat
      BY <3>1
    <3>6. slot[j] < slot[x] => \E c \in Nat \ {0} : W(x) = (W(j) * B) * c
      BY <1>3, <3>1
    <3>7. slot[x] < slot[j] => \E c \in Nat \ {0} : W(j) = (W(x) * B) * c
      BY <1>3, <3>1
    <3>8. j = x \/ slot[j] < slot[x] \/ slot[x] < slot[j]
      <4>1. j = x \/ slot[j] # slot[x]
        BY <3>1
      <4> QED BY <3>5, <4>1
    <3> HIDE DEF x, r, u, B, W, D, F
    <3>9. CASE j = x
      <4>1. Digit(g[r], W(x), B, 0)
        BY <3>1, <3>2, <3>4
      <4>2. Digit(u * W(x) + g[r], W(x), B, u)
        BY <1>1, <1>2, <3>1, <3>3, <4>1, DigitSet
      <4> QED BY <3>2, <3>4, <3>9, <4>2
    <3>10. CASE slot[j] < slot[x]
      <4>1. PICK c \in Nat \ {0} : W(x) = (W(j) * B) * c
        BY <3>6, <3>10
      <4>2. j # x
        BY <3>5, <3>10
      <4>3. Digit(g[r], W(j), B, D(s, j))
        BY <3>2, <3>4, <4>2
      <4>4. Digit(u * ((W(j) * B) * c) + g[r], W(j), B, D(s, j))
        BY <1>1, <1>2, <3>3, <4>3, DigitAbove
      <4> QED BY <3>2, <4>1, <4>4
    <3>11. CASE slot[x] < slot[j]
      <4>1. PICK c \in Nat \ {0} : W(j) = (W(x) * B) * c
        BY <3>7, <3>11
      <4>2. j # x
        BY <3>5, <3>11
      <4>3. Digit(g[r], (W(x) * B) * c, B, D(s, j)) /\ Digit(g[r], W(x), B, 0)
        BY <3>1, <3>2, <3>4, <4>1, <4>2
      <4>4. Digit(u * W(x) + g[r], (W(x) * B) * c, B, D(s, j))
        <5>1. W(x) \in Nat \ {0}
          BY <1>2, <3>1
        <5> QED BY <1>1, <3>3, <4>3, <5>1, DigitBelow
      <4> QED BY <3>2, <4>1, <4>4
    <3> QED BY <3>8, <3>9, <3>10, <3>11
  <2> QED BY <2>1, <2>2
<1>5. S \in F
  <2>1. S \in SUBSET S
    OBVIOUS
  <2>2. \A s \in SUBSET S : s \in F
    <3> HIDE DEF F
    <3> QED BY <1>4, ForAllSubsets
  <2> HIDE DEF F
  <2> QED BY <2>1, <2>2
<1>6. ASSUME NEW j \in S PROVE (g[S] \div W(j)) % B = v[j]
  <2>1. Digit(g[S], W(j), B, v[j]) /\ v[j] \in 0 .. B - 1
    BY <1>5
  <2>2. W(j) \in Nat \ {0}
    BY <1>2
  <2> HIDE DEF W, B, F, D
  <2> QED BY ONLY <1>1, <2>1, <2>2, DigitRead
<1> QED BY <1>6, Zenon DEF DigitAt

-----------------------------------------------------------------------------
(***************************************************************************)
(* VarInt.                                                                 *)
(***************************************************************************)
\* What the provers need to be told of the sizes.
LEMMA IntSizes ==
  /\ SEGMENT \in Nat /\ SEGMENT > 1 /\ RANGE \in Nat /\ RANGE > 1
  /\ RANGE \div 2 \in Nat /\ RANGE \div 2 < RANGE
  BY SegmentAssumption, RangeAssumption

\* Dropping the lowest group of a value that has several makes it smaller.
LEMMA Groups ==
  ASSUME NEW u \in Unsigned
  PROVE  /\ u \in Nat /\ u < RANGE
         /\ u \div SEGMENT \in Nat /\ u % SEGMENT \in 0 .. SEGMENT - 1
         /\ u = SEGMENT * (u \div SEGMENT) + (u % SEGMENT)
         /\ u >= SEGMENT => u \div SEGMENT \in Unsigned
         /\ u >= SEGMENT => u \div SEGMENT < u /\ u \div SEGMENT >= 1
<1> DEFINE q == u \div SEGMENT
           r == u % SEGMENT
<1>1. u \in Nat /\ u < RANGE /\ RANGE \in Nat
  BY RangeAssumption DEF Unsigned
<1>2. SEGMENT \in Nat /\ SEGMENT > 1
  BY SegmentAssumption
<1>3. q \in Int /\ r \in 0 .. SEGMENT - 1 /\ u = SEGMENT * q + r
  BY <1>1, <1>2
<1> HIDE DEF q, r
<1>4. q >= 0
  <2> SUFFICES ASSUME -q >= 1 PROVE FALSE
    BY <1>3
  <2>1. SEGMENT * (-q) >= SEGMENT
    BY <1>2, <1>3
  <2>2. SEGMENT * (-q) = -(SEGMENT * q)
    BY <1>2, <1>3
  <2> QED BY <1>1, <1>2, <1>3, <2>1, <2>2
<1>5. ASSUME u >= SEGMENT PROVE q \in Unsigned /\ q < u /\ q >= 1
  <2>1. q >= 1
    <3> SUFFICES ASSUME q = 0 PROVE FALSE
      BY <1>3, <1>4
    <3> QED BY <1>2, <1>3, <1>5
  <2>2. SEGMENT * q >= 2 * q
    BY <1>2, <1>3, <1>4
  <2>3. SEGMENT * q \in Int
    BY <1>2, <1>3
  <2> QED BY <1>1, <1>2, <1>3, <2>1, <2>2, <2>3 DEF Unsigned
<1> QED BY <1>1, <1>3, <1>4, <1>5 DEF q, r

\* Induction over the groups of a value.
LEMMA GroupInduction ==
  ASSUME NEW T,
         \A u \in Unsigned : (u >= SEGMENT => u \div SEGMENT \in T) => u \in T
  PROVE  Unsigned \subseteq T
<1> DEFINE Bad == {u \in Unsigned : u \notin T}
<1>1. SUFFICES ASSUME Bad # {} PROVE FALSE
  OBVIOUS
<1>2. PICK u \in Bad : \A m \in Bad : u <= m
  <2>1. Bad \in SUBSET Nat
    BY RangeAssumption DEF Unsigned
  <2> HIDE DEF Bad
  <2> QED BY <1>1, <2>1, LeastNatural
<1>3. u \in Unsigned /\ u \notin T
  OBVIOUS
<1>4. u >= SEGMENT /\ u \div SEGMENT \notin T
  BY <1>3
<1>5. u \div SEGMENT \in Unsigned /\ ~ (u <= u \div SEGMENT)
  BY <1>3, <1>4, Groups
<1>6. u \div SEGMENT \in Bad
  BY <1>4, <1>5
<1> HIDE DEF Bad
<1> QED BY <1>2, <1>5, <1>6

\* g is defined by recursion over the groups of a value.
DefinedBy(g, V, base, more) ==
  /\ g \in [Unsigned -> V]
  /\ \A u \in Unsigned :
       g[u] = IF u < SEGMENT THEN base[u] ELSE more[<<u, g[u \div SEGMENT]>>]

\* There is such a function.
LEMMA GroupRecursion ==
  ASSUME NEW V, NEW base \in [Unsigned -> V], NEW more \in [Unsigned \X V -> V]
  PROVE  \E g : DefinedBy(g, V, base, more)
<1> DEFINE step(g, u) == IF u < SEGMENT THEN base[u] ELSE more[<<u, g[u \div SEGMENT]>>]
           Holds(n) == \E g \in [0 .. n -> V] : \A u \in 0 .. n : g[u] = step(g, u)
           T == {n \in 0 .. RANGE - 1 : Holds(n)}
<1>1. RANGE - 1 \in Nat /\ Unsigned = 0 .. RANGE - 1 /\ SEGMENT \in Nat /\ SEGMENT > 1
  BY RangeAssumption, SegmentAssumption DEF Unsigned
<1>2. 0 \in T
  <2> DEFINE g == [u \in 0 .. 0 |-> base[u]]
  <2>1. g \in [0 .. 0 -> V] /\ \A u \in 0 .. 0 : g[u] = step(g, u)
    BY <1>1
  <2>2. Holds(0)
    <3> HIDE DEF step, g
    <3> QED BY <2>1
  <2>3. 0 \in 0 .. RANGE - 1
    BY <1>1
  <2> HIDE DEF Holds
  <2> QED BY <2>2, <2>3
<1>3. ASSUME NEW n \in 0 .. (RANGE - 1) - 1, n \in T PROVE n + 1 \in T
  <2>1. PICK g \in [0 .. n -> V] : \A u \in 0 .. n : g[u] = step(g, u)
    BY <1>3
  <2> DEFINE h == [u \in 0 .. n + 1 |-> step(g, u)]
  <2>2. ASSUME NEW u \in 0 .. n + 1 PROVE step(g, u) = step(h, u) /\ step(g, u) \in V
    <3>1. u \in Unsigned
      BY <1>1
    <3>2. CASE u < SEGMENT
      BY <3>1, <3>2
    <3>3. CASE ~ (u < SEGMENT)
      <4>1. u \div SEGMENT \in 0 .. n
        <5>1. u >= SEGMENT
          BY <1>1, <3>3
        <5> QED BY <1>1, <3>1, <5>1, Groups
      <4>2. ASSUME NEW q \in 0 .. n PROVE h[q] = g[q] /\ g[q] \in V
        <5>1. q \in 0 .. n + 1
          OBVIOUS
        <5> HIDE DEF step
        <5> QED BY <2>1, <5>1
      <4> HIDE DEF h
      <4> QED BY <3>1, <3>3, <4>1, <4>2
    <3> QED BY <3>2, <3>3
  <2>3. Holds(n + 1)
    <3>1. h \in [0 .. n + 1 -> V] /\ \A u \in 0 .. n + 1 : h[u] = step(h, u)
      <4> HIDE DEF step
      <4> QED BY <2>2
    <3> HIDE DEF step, h
    <3> QED BY <3>1
  <2>4. n + 1 \in 0 .. RANGE - 1
    BY <1>1
  <2> HIDE DEF Holds
  <2> QED BY <2>3, <2>4
<1>4. RANGE - 1 \in T
  <2>1. 0 .. RANGE - 1 \subseteq T
    <3> HIDE DEF T
    <3> QED BY <1>1, <1>2, <1>3, UpTo
  <2> HIDE DEF T
  <2> QED BY <1>1, <2>1
<1>5. PICK g \in [Unsigned -> V] : \A u \in Unsigned : g[u] = step(g, u)
  <2> HIDE DEF step
  <2> QED BY <1>1, <1>4
<1>6. DefinedBy(g, V, base, more)
  BY <1>5 DEF DefinedBy
<1> QED BY <1>6

\* write_varint's loop ends for every value: encode satisfies its definition.
LEMMA EncodeDef ==
  \A u \in Unsigned :
    encode[u] = IF u < SEGMENT THEN <<u>>
                ELSE <<(u % SEGMENT) + SEGMENT>> \o encode[u \div SEGMENT]
<1> DEFINE step(g, u) == IF u < SEGMENT THEN <<u>>
                         ELSE <<(u % SEGMENT) + SEGMENT>> \o g[u \div SEGMENT]
           base == [u \in Unsigned |-> <<u>>]
           more == [w \in Unsigned \X Seq(Nat) |-> <<(w[1] % SEGMENT) + SEGMENT>> \o w[2]]
<1>1. base \in [Unsigned -> Seq(Nat)]
  BY RangeAssumption DEF Unsigned
<1>2. more \in [Unsigned \X Seq(Nat) -> Seq(Nat)]
  <2> SUFFICES ASSUME NEW u \in Unsigned, NEW s \in Seq(Nat)
               PROVE  <<(u % SEGMENT) + SEGMENT>> \o s \in Seq(Nat)
    OBVIOUS
  <2>1. (u % SEGMENT) + SEGMENT \in Nat
    BY SegmentAssumption, Groups
  <2>2. <<(u % SEGMENT) + SEGMENT>> \in Seq(Nat)
    BY <2>1
  <2> QED BY <2>2, ConcatProperties
<1>3. PICK g : DefinedBy(g, Seq(Nat), base, more)
  <2> HIDE DEF base, more
  <2> QED BY <1>1, <1>2, GroupRecursion
<1>4. ASSUME NEW u \in Unsigned PROVE g[u] = step(g, u)
  <2>1. CASE u < SEGMENT
    BY <1>3, <2>1 DEF DefinedBy
  <2>2. CASE ~ (u < SEGMENT)
    <3>1. g[u \div SEGMENT] \in Seq(Nat)
      <4>1. u >= SEGMENT
        BY <2>2, SegmentAssumption, Groups
      <4> QED BY <1>3, <4>1, Groups DEF DefinedBy
    <3>2. <<u, g[u \div SEGMENT]>> \in Unsigned \X Seq(Nat)
      BY <3>1
    <3>3. g[u] = more[<<u, g[u \div SEGMENT]>>]
      BY <1>3, <2>2 DEF DefinedBy
    <3> QED BY <2>2, <3>2, <3>3
  <2> QED BY <2>1, <2>2
<1>5. \E f : f = [u \in Unsigned |-> step(f, u)]
  <2>1. g = [u \in Unsigned |-> step(g, u)]
    <3>1. g \in [Unsigned -> Seq(Nat)]
      BY <1>3 DEF DefinedBy
    <3> HIDE DEF step
    <3> QED BY <1>4, <3>1
  <2> HIDE DEF step
  <2> QED BY <2>1
<1>6. encode = [u \in Unsigned |-> step(encode, u)]
  <2>1. encode = CHOOSE f : f = [u \in Unsigned |-> step(f, u)]
    BY DEF encode
  <2> HIDE DEF step
  <2> QED BY <1>5, <2>1
<1> QED BY <1>6

\* What it returns are bytes, at least one.
LEMMA EncodeType ==
  ASSUME NEW u \in Unsigned
  PROVE  encode[u] \in Seq(Byte) /\ Len(encode[u]) \in Nat \ {0}
<1> DEFINE T == {v \in Unsigned : encode[v] \in Seq(Byte) /\ Len(encode[v]) \in Nat \ {0}}
<1>1. ASSUME NEW v \in Unsigned, v >= SEGMENT => v \div SEGMENT \in T PROVE v \in T
  <2>1. v \in Nat /\ SEGMENT \in Nat /\ SEGMENT > 1 /\ v % SEGMENT \in 0 .. SEGMENT - 1
    BY SegmentAssumption, Groups
  <2>2. encode[v] \in Seq(Byte) /\ Len(encode[v]) \in Nat \ {0}
    <3>1. CASE v < SEGMENT
      <4>1. encode[v] = <<v>>
        BY <3>1, EncodeDef, Zenon
      <4>2. v \in Byte
        BY <2>1, <3>1 DEF Byte
      <4> QED BY <4>1, <4>2
    <3>2. CASE ~ (v < SEGMENT)
      <4> DEFINE a == <<(v % SEGMENT) + SEGMENT>>
                 b == encode[v \div SEGMENT]
      <4>1. encode[v] = a \o b
        BY <3>2, EncodeDef, Zenon
      <4>2. (v % SEGMENT) + SEGMENT \in Byte
        BY <2>1 DEF Byte
      <4>3. a \in Seq(Byte) /\ Len(a) = 1
        BY <4>2
      <4>4. v >= SEGMENT
        BY <2>1, <3>2
      <4>5. b \in Seq(Byte) /\ Len(b) \in Nat
        BY <1>1, <4>4
      <4> HIDE DEF a, b
      <4>6. a \o b \in Seq(Byte) /\ Len(a \o b) = Len(a) + Len(b)
        BY <4>3, <4>5, ConcatProperties
      <4> QED BY <4>1, <4>3, <4>5, <4>6
    <3> QED BY <3>1, <3>2
  <2> QED BY <2>2
<1>2. Unsigned \subseteq T
  <2> HIDE DEF T
  <2> QED BY <1>1, GroupInduction
<1> QED BY <1>2

\* varint_len's loop ends for every value as well.
LEMMA LenDef ==
  \A u \in Unsigned : len[u] = IF u < SEGMENT THEN 1 ELSE 1 + len[u \div SEGMENT]
<1> DEFINE step(g, u) == IF u < SEGMENT THEN 1 ELSE 1 + g[u \div SEGMENT]
           base == [u \in Unsigned |-> 1]
           more == [w \in Unsigned \X Nat |-> 1 + w[2]]
<1>1. base \in [Unsigned -> Nat] /\ more \in [Unsigned \X Nat -> Nat]
  OBVIOUS
<1>2. PICK g : DefinedBy(g, Nat, base, more)
  <2> HIDE DEF base, more
  <2> QED BY <1>1, GroupRecursion
<1>3. ASSUME NEW u \in Unsigned PROVE g[u] = step(g, u)
  <2>1. CASE u < SEGMENT
    BY <1>2, <2>1 DEF DefinedBy
  <2>2. CASE ~ (u < SEGMENT)
    <3>1. g[u \div SEGMENT] \in Nat
      <4>1. u >= SEGMENT
        BY <2>2, SegmentAssumption, Groups
      <4> QED BY <1>2, <4>1, Groups DEF DefinedBy
    <3>2. g[u] = more[<<u, g[u \div SEGMENT]>>]
      BY <1>2, <2>2 DEF DefinedBy
    <3> QED BY <2>2, <3>1, <3>2
  <2> QED BY <2>1, <2>2
<1>4. \E f : f = [u \in Unsigned |-> step(f, u)]
  <2>1. g = [u \in Unsigned |-> step(g, u)]
    <3>1. g \in [Unsigned -> Nat]
      BY <1>2 DEF DefinedBy
    <3> HIDE DEF step
    <3> QED BY <1>3, <3>1
  <2> HIDE DEF step
  <2> QED BY <2>1
<1>5. len = [u \in Unsigned |-> step(len, u)]
  <2>1. len = CHOOSE f : f = [u \in Unsigned |-> step(f, u)]
    BY DEF len
  <2> HIDE DEF step
  <2> QED BY <1>4, <2>1
<1> QED BY <1>5

\* The cast from i32 to u32 gives a value that the loops handle.
LEMMA AsUnsigned ==
  ASSUME NEW v \in Int
  PROVE  as_unsigned(v) \in Unsigned
BY RangeAssumption DEF as_unsigned, Unsigned

\* The shape of an encoding, in the two cases of write_varint's loop.
LEMMA EncodeCases ==
  ASSUME NEW u \in Unsigned
  PROVE  /\ u < SEGMENT => encode[u] = <<u>> /\ len[u] = 1
         /\ u >= SEGMENT => /\ encode[u] = <<(u % SEGMENT) + SEGMENT>> \o encode[u \div SEGMENT]
                            /\ len[u] = 1 + len[u \div SEGMENT]
<1>1. ASSUME u >= SEGMENT PROVE ~ (u < SEGMENT)
  BY <1>1, SegmentAssumption, Groups
<1> QED BY <1>1, EncodeDef, LenDef, Zenon

(***************************************************************************)
(* varint.rs: varint_len returns as many bytes as write_varint writes,     *)
(* whatever the value, negative ones included.                             *)
(***************************************************************************)
THEOREM VarIntLength == \A v \in Int : varint_len(v) = Len(write_varint(v))
<1> DEFINE T == {u \in Unsigned : len[u] = Len(encode[u])}
<1>1. ASSUME NEW u \in Unsigned, u >= SEGMENT => u \div SEGMENT \in T PROVE u \in T
  <2>1. CASE u < SEGMENT
    <3>1. encode[u] = <<u>> /\ len[u] = 1
      BY <2>1, EncodeCases, Zenon
    <3>2. Len(<<u>>) = 1
      OBVIOUS
    <3> QED BY <3>1, <3>2
  <2>2. CASE ~ (u < SEGMENT)
    <3> DEFINE b == (u % SEGMENT) + SEGMENT
               w == u \div SEGMENT
    <3>1. u >= SEGMENT
      BY <2>2, SegmentAssumption, Groups
    <3>2. w \in Unsigned /\ len[w] = Len(encode[w])
      BY <1>1, <3>1
    <3>3. encode[w] \in Seq(Byte) /\ Len(encode[w]) \in Nat
      BY <3>2, EncodeType
    <3>4. b \in Byte
      BY SegmentAssumption, Groups DEF Byte
    <3>5. encode[u] = <<b>> \o encode[w] /\ len[u] = 1 + len[w]
      BY <3>1, EncodeCases
    <3> HIDE DEF b, w
    <3>6. Len(<<b>> \o encode[w]) = 1 + Len(encode[w])
      <4>1. <<b>> \in Seq(Byte) /\ Len(<<b>>) = 1
        BY <3>4
      <4> QED BY <3>3, <4>1, ConcatProperties
    <3> QED BY <3>2, <3>5, <3>6
  <2> QED BY <2>1, <2>2
<1>2. Unsigned \subseteq T
  <2> HIDE DEF T
  <2> QED BY <1>1, GroupInduction
<1> QED BY <1>2, AsUnsigned DEF varint_len, write_varint

\* Every encoding has a byte.
LEMMA LenNat ==
  ASSUME NEW u \in Unsigned
  PROVE  len[u] \in Nat /\ len[u] >= 1
<1> DEFINE T == {v \in Unsigned : len[v] \in Nat /\ len[v] >= 1}
<1>1. ASSUME NEW v \in Unsigned, v >= SEGMENT => v \div SEGMENT \in T PROVE v \in T
  <2>1. CASE v < SEGMENT
    BY <2>1, LenDef
  <2>2. CASE ~ (v < SEGMENT)
    <3>1. v >= SEGMENT
      BY <2>2, IntSizes, Groups
    <3>2. len[v] = 1 + len[v \div SEGMENT]
      BY <2>2, LenDef
    <3> QED BY <1>1, <3>1, <3>2
  <2> QED BY <2>1, <2>2
<1>2. Unsigned \subseteq T
  <2> HIDE DEF T
  <2> QED BY <1>1, GroupInduction
<1> QED BY <1>2

-----------------------------------------------------------------------------
Reader == [value : Unsigned, weight : Nat \ {0}]

\* What the value comes to if the groups of u are still to be read.
Total(r, u) == r.value + r.weight * u

\* The first byte that write_varint makes of u.
Low(u) == IF u < SEGMENT THEN u ELSE (u % SEGMENT) + SEGMENT

\* Products of the reader's weight keep within the value they are part of.
LEMMA TotalInt ==
  ASSUME NEW r \in Reader, NEW u \in Unsigned
  PROVE  /\ r.value \in Nat /\ r.value < RANGE /\ r.weight \in Nat /\ r.weight >= 1
         /\ r.weight * u \in Nat /\ Total(r, u) \in Nat
  BY RangeAssumption DEF Reader, Unsigned, Total

\* read_varint on the last group: it has all of the value.
LEMMA TakeLast ==
  ASSUME NEW r \in Reader, NEW u \in Unsigned, Total(r, u) < RANGE, u < SEGMENT
  PROVE  /\ Low(u) = u /\ Low(u) \in Byte /\ ~ continues(Low(u))
         /\ take_byte(r, Low(u)).value = Total(r, u)
<1>1. SEGMENT \in Nat /\ SEGMENT > 1 /\ u \in Nat /\ RANGE \in Nat
  BY SegmentAssumption, RangeAssumption DEF Unsigned
<1>2. Low(u) = u /\ u \in Byte /\ ~ continues(u) /\ payload(u) = u
  BY <1>1 DEF Low, Byte, continues, payload
<1>3. Total(r, u) \in Nat /\ u * r.weight = r.weight * u
  BY <1>1, TotalInt
<1>4. (r.value + u * r.weight) % RANGE = Total(r, u)
  <2>1. r.value + u * r.weight = Total(r, u)
    BY <1>3 DEF Total
  <2>2. Total(r, u) % RANGE = Total(r, u)
    BY <1>1, <1>3
  <2> QED BY <2>1, <2>2
<1> QED BY <1>2, <1>4 DEF take_byte

\* On a group that is not the last: the byte says so, the integer has room for
\* the next one, and what was read and what is to be read still make the value.
LEMMA TakeMore ==
  ASSUME NEW r \in Reader, NEW u \in Unsigned, Total(r, u) < RANGE, u >= SEGMENT
  PROVE  /\ Low(u) \in Byte /\ continues(Low(u)) /\ ~ too_big(r)
         /\ take_byte(r, Low(u)) \in Reader
         /\ Total(take_byte(r, Low(u)), u \div SEGMENT) = Total(r, u)
<1> DEFINE q == u \div SEGMENT
           m == u % SEGMENT
           w == r.weight
           t == Total(r, u)
<1>1. SEGMENT \in Nat /\ SEGMENT > 1 /\ RANGE \in Nat /\ RANGE > 1
  BY SegmentAssumption, RangeAssumption
<1>2. u \in Nat /\ q \in Nat /\ m \in 0 .. SEGMENT - 1 /\ u = SEGMENT * q + m
  BY Groups
<1>3. r.value \in Nat /\ w \in Nat /\ w >= 1 /\ w * u \in Nat /\ t \in Nat /\ t = r.value + w * u
  BY TotalInt DEF Total
<1>4. Low(u) = m + SEGMENT
  BY <1>1, <1>2 DEF Low
<1> HIDE DEF q, m, w, t
<1>5. m + SEGMENT \in Byte /\ continues(m + SEGMENT)
  BY <1>1, <1>2 DEF Byte, continues
<1>6. payload(m + SEGMENT) = m
  BY <1>1, <1>2 DEF payload
<1>7. ~ (w * SEGMENT >= RANGE)
  <2>1. w * SEGMENT <= w * u
    <3>1. w * (u - SEGMENT) \in Nat
      BY <1>1, <1>2, <1>3
    <3>2. w * (u - SEGMENT) = w * u - w * SEGMENT
      BY <1>1, <1>2, <1>3
    <3>3. w * SEGMENT \in Nat
      BY <1>1, <1>3
    <3> QED BY <1>3, <3>1, <3>2, <3>3
  <2>2. w * SEGMENT \in Nat
    BY <1>1, <1>3
  <2> QED BY <1>1, <1>3, <2>1, <2>2 DEF t
<1>8. w * u = w * (SEGMENT * q) + m * w
  BY <1>1, <1>2, <1>3
<1>9. m * w \in Nat /\ w * (SEGMENT * q) \in Nat /\ w * (SEGMENT * q) = (w * SEGMENT) * q
  BY <1>1, <1>2, <1>3
<1>10. (r.value + m * w) % RANGE = r.value + m * w /\ r.value + m * w \in Unsigned
  <2>1. r.value + m * w \in Nat /\ r.value + m * w < RANGE
    BY <1>1, <1>3, <1>8, <1>9 DEF t
  <2> QED BY <1>1, <2>1 DEF Unsigned
<1>11. take_byte(r, Low(u)) = [value |-> r.value + m * w, weight |-> w * SEGMENT]
  BY <1>4, <1>6, <1>10 DEF take_byte, w
<1>12. take_byte(r, Low(u)) \in Reader
  <2>1. w * SEGMENT \in Nat \ {0}
    BY <1>1, <1>3
  <2> QED BY <1>10, <1>11, <2>1 DEF Reader
<1>13. Total(take_byte(r, Low(u)), q) = t
  <2>1. Total(take_byte(r, Low(u)), q) = (r.value + m * w) + (w * SEGMENT) * q
    BY <1>11 DEF Total
  <2> QED BY <1>3, <1>8, <1>9, <2>1
<1> QED BY <1>4, <1>5, <1>7, <1>12, <1>13 DEF too_big, w, q, t

\* An encoding is its first byte and the encoding of the other groups, if any.
LEMMA EncodeFirst ==
  ASSUME NEW u \in Unsigned
  PROVE  /\ u < SEGMENT => encode[u] = <<Low(u)>>
         /\ u >= SEGMENT => encode[u] = <<Low(u)>> \o encode[u \div SEGMENT]
<1>1. ASSUME u >= SEGMENT PROVE Low(u) = (u % SEGMENT) + SEGMENT
  <2>1. ~ (u < SEGMENT)
    BY <1>1, SegmentAssumption, Groups
  <2> QED BY <2>1 DEF Low
<1>2. ASSUME u < SEGMENT PROVE Low(u) = u
  BY <1>2 DEF Low
<1> QED BY <1>1, <1>2, EncodeCases, Zenon

\* A byte before a sequence of bytes.
LEMMA OneBefore ==
  ASSUME NEW S, NEW x \in S, NEW s \in Seq(S)
  PROVE  /\ <<x>> \o s \in Seq(S) /\ Len(<<x>> \o s) = 1 + Len(s)
         /\ (<<x>> \o s)[1] = x
         /\ \A i \in 1 .. Len(s) : (<<x>> \o s)[i + 1] = s[i]
<1>1. <<x>> \in Seq(S) /\ Len(<<x>>) = 1 /\ <<x>>[1] = x /\ Len(s) \in Nat
  OBVIOUS
<1> DEFINE a == <<x>>
<1> HIDE DEF a
<1>2. /\ a \o s \in Seq(S) /\ Len(a \o s) = Len(a) + Len(s)
      /\ \A i \in 1 .. Len(a) + Len(s) : (a \o s)[i] = IF i <= Len(a) THEN a[i] ELSE s[i - Len(a)]
  <2>1. a \in Seq(S)
    BY <1>1 DEF a
  <2> QED BY <2>1, ConcatProperties
<1>3. Len(a) = 1 /\ a[1] = x
  BY <1>1 DEF a
<1>4. ASSUME NEW i \in 1 .. Len(s) PROVE (a \o s)[i + 1] = s[i]
  BY <1>1, <1>2, <1>3
<1>5. (a \o s)[1] = x
  BY <1>1, <1>2, <1>3
<1> QED BY <1>2, <1>3, <1>4, <1>5 DEF a

\* r is the run of read_varint on the bytes e that starts at r0: every byte but
\* the last announces another one and leaves room for it, the last does not, and
\* the value read is v.
IsReading(r, e, r0, v) ==
  /\ r[0] = r0 /\ r[Len(e)].value = v
  /\ \A i \in 1 .. Len(e) : r[i] = take_byte(r[i - 1], e[i])
  /\ \A i \in 1 .. Len(e) - 1 : continues(e[i]) /\ ~ too_big(r[i - 1])
  /\ ~ continues(e[Len(e)])

\* From whatever has been read, the bytes of u's encoding add what u stands for.
LEMMA ReadsBack ==
  ASSUME NEW u \in Unsigned
  PROVE  \A r0 \in Reader :
           Total(r0, u) < RANGE => \E r : IsReading(r, encode[u], r0, Total(r0, u))
<1> DEFINE Good(v) == \A r0 \in Reader :
             Total(r0, v) < RANGE => \E r : IsReading(r, encode[v], r0, Total(r0, v))
           T == {v \in Unsigned : Good(v)}
<1>1. ASSUME NEW v \in Unsigned, v >= SEGMENT => v \div SEGMENT \in T PROVE v \in T
  <2> SUFFICES ASSUME NEW r0 \in Reader, Total(r0, v) < RANGE
               PROVE  \E r : IsReading(r, encode[v], r0, Total(r0, v))
    OBVIOUS
  <2> DEFINE b == Low(v)
             r1 == take_byte(r0, b)
             e == encode[v]
  <2>1. CASE v < SEGMENT
    <3>1. e = <<b>>
      BY <2>1, EncodeFirst, Zenon
    <3>2. Len(e) = 1 /\ e[1] = b
      BY <3>1
    <3>3. ~ continues(b) /\ r1.value = Total(r0, v)
      BY <2>1, TakeLast
    <3> DEFINE r == [i \in 0 .. 1 |-> IF i = 0 THEN r0 ELSE r1]
    <3>4. r[0] = r0 /\ r[1] = r1
      OBVIOUS
    <3> HIDE DEF r, e, b, r1
    <3>5. IsReading(r, e, r0, Total(r0, v))
      <4>1. \A i \in 1 .. Len(e) : i = 1
        BY <3>2
      <4>2. \A i \in 1 .. Len(e) - 1 : FALSE
        BY <3>2
      <4>3. r1 = take_byte(r0, b)
        BY DEF r1
      <4>4. \A i \in 1 .. Len(e) : r[i] = take_byte(r[i - 1], e[i])
        BY <3>2, <3>4, <4>1, <4>3
      <4> QED BY <3>2, <3>3, <3>4, <4>2, <4>4 DEF IsReading
    <3> QED BY <3>5 DEF e
  <2>2. CASE v >= SEGMENT
    <3> DEFINE w == v \div SEGMENT
               f == encode[w]
    <3>1. w \in Unsigned
      BY <2>2, Groups
    <3>2. /\ b \in Byte /\ continues(b) /\ ~ too_big(r0)
          /\ r1 \in Reader /\ Total(r1, w) = Total(r0, v)
      BY <2>2, TakeMore
    <3>3. e = <<b>> \o f /\ f \in Seq(Byte) /\ Len(f) \in Nat \ {0}
      BY <2>2, <3>1, EncodeFirst, EncodeType
    <3>4. w \in T
      BY <1>1, <2>2
    <3>5. PICK s : IsReading(s, f, r1, Total(r1, w))
      BY <3>2, <3>4
    <3> DEFINE n == Len(f)
               r == [i \in 0 .. n + 1 |-> IF i = 0 THEN r0 ELSE s[i - 1]]
    <3>6. n \in Nat /\ n > 0
      BY <3>3
    <3>7. r[0] = r0 /\ \A i \in 0 .. n : r[i + 1] = s[i]
      <4> HIDE DEF n
      <4>1. r[0] = r0
        BY <3>6
      <4>2. ASSUME NEW i \in 0 .. n PROVE r[i + 1] = s[i]
        <5>1. i + 1 \in 0 .. n + 1 /\ i + 1 # 0 /\ (i + 1) - 1 = i
          BY <3>6
        <5> QED BY <5>1
      <4> HIDE DEF r
      <4> QED BY <4>1, <4>2
    <3>8. Len(e) = n + 1 /\ e[1] = b /\ \A i \in 1 .. n : e[i + 1] = f[i]
      <4> HIDE DEF b, f, e
      <4>1. /\ Len(<<b>> \o f) = 1 + Len(f) /\ (<<b>> \o f)[1] = b
            /\ \A i \in 1 .. Len(f) : (<<b>> \o f)[i + 1] = f[i]
        BY <3>2, <3>3, OneBefore
      <4> QED BY <3>3, <3>6, <4>1
    <3>9. r1 = take_byte(r0, b)
      OBVIOUS
    <3> HIDE DEF b, r1, e, w, f, n, r
    <3>10. /\ s[0] = r1 /\ s[n].value = Total(r1, w)
           /\ \A i \in 1 .. n : s[i] = take_byte(s[i - 1], f[i])
           /\ \A i \in 1 .. n - 1 : continues(f[i]) /\ ~ too_big(s[i - 1])
           /\ ~ continues(f[n])
      BY <3>5 DEF IsReading, n
    <3>11. \A i \in 1 .. Len(e) : r[i] = take_byte(r[i - 1], e[i])
      <4> SUFFICES ASSUME NEW i \in 1 .. n + 1
                   PROVE  r[i] = take_byte(r[i - 1], e[i])
        BY <3>8
      <4>1. CASE i = 1
        <5>1. r[0 + 1] = s[0] /\ r[1 - 1] = r0
          BY <3>6, <3>7
        <5> QED BY <3>8, <3>9, <3>10, <4>1, <5>1
      <4>2. CASE i # 1
        <5> DEFINE k == i - 1
        <5>1. k \in 1 .. n /\ k - 1 \in 0 .. n /\ i = k + 1
          BY <3>6, <4>2
        <5> HIDE DEF k
        <5>2. r[k + 1] = s[k] /\ e[k + 1] = f[k] /\ s[k] = take_byte(s[k - 1], f[k])
          BY <3>6, <3>7, <3>8, <3>10, <5>1
        <5>3. r[(k - 1) + 1] = s[k - 1] /\ (k - 1) + 1 = k
          BY <3>7, <5>1
        <5>4. r[k] = s[k - 1] /\ i - 1 = k
          BY <5>1, <5>3
        <5> QED BY <5>1, <5>2, <5>4
      <4> QED BY <4>1, <4>2
    <3>12. \A i \in 1 .. Len(e) - 1 : continues(e[i]) /\ ~ too_big(r[i - 1])
      <4> SUFFICES ASSUME NEW i \in 1 .. n
                   PROVE  continues(e[i]) /\ ~ too_big(r[i - 1])
        BY <3>6, <3>8
      <4>1. CASE i = 1
        BY <3>2, <3>7, <3>8, <4>1
      <4>2. CASE i # 1
        <5> DEFINE k == i - 1
        <5>1. k \in 1 .. n - 1 /\ k - 1 \in 0 .. n /\ k \in 1 .. n /\ i = k + 1
          BY <3>6, <4>2
        <5> HIDE DEF k
        <5>2. e[k + 1] = f[k] /\ continues(f[k]) /\ ~ too_big(s[k - 1])
          BY <3>8, <3>10, <5>1
        <5>3. r[(k - 1) + 1] = s[k - 1] /\ (k - 1) + 1 = k
          BY <3>7, <5>1
        <5>4. r[k] = s[k - 1] /\ i - 1 = k
          BY <5>1, <5>3
        <5> QED BY <5>1, <5>2, <5>4
      <4> QED BY <4>1, <4>2
    <3>13. r[Len(e)].value = Total(r0, v) /\ ~ continues(e[Len(e)])
      <4>1. n \in 0 .. n /\ n \in 1 .. n
        BY <3>6
      <4>2. r[n + 1] = s[n] /\ e[n + 1] = f[n]
        BY <3>7, <3>8, <4>1
      <4> QED BY <3>2, <3>8, <3>10, <4>2
    <3>14. IsReading(r, e, r0, Total(r0, v))
      BY <3>7, <3>11, <3>12, <3>13 DEF IsReading
    <3> QED BY <3>14 DEF e
  <2> QED BY <2>1, <2>2, SegmentAssumption, Groups
<1>2. Unsigned \subseteq T
  <2> HIDE DEF T
  <2> QED BY <1>1, GroupInduction
<1> QED BY <1>2

\* The two casts between i32 and u32 undo each other.
LEMMA SignedRoundTrip ==
  ASSUME NEW v \in Signed
  PROVE  as_signed(as_unsigned(v)) = v
<1> DEFINE h == RANGE \div 2
<1>1. h \in Nat /\ RANGE = 2 * h /\ h >= 1 /\ v \in Int /\ -h <= v /\ v < h
  BY RangeAssumption DEF Signed
<1> HIDE DEF h
<1>2. CASE v >= 0
  <2>1. v % RANGE = v
    BY <1>1, <1>2
  <2> QED BY <1>1, <1>2, <2>1 DEF as_signed, as_unsigned, h
<1>3. CASE v < 0
  <2>1. v % RANGE = v + RANGE
    BY <1>1, <1>3
  <2> QED BY <1>1, <1>3, <2>1 DEF as_signed, as_unsigned, h
<1> QED BY <1>1, <1>2, <1>3

(***************************************************************************)
(* varint.rs: read_varint takes back every i32 that write_varint wrote: it *)
(* stops at the last byte and not before, never refuses a byte as one too  *)
(* many, and has the value, sign included.                                 *)
(***************************************************************************)
THEOREM VarIntRoundTrip ==
  ASSUME NEW v \in Signed
  PROVE  \E r : /\ IsReading(r, write_varint(v), ReadStart, as_unsigned(v))
                /\ as_signed(r[Len(write_varint(v))].value) = v
<1> DEFINE u == as_unsigned(v)
<1>1. v \in Int /\ u \in Unsigned
  BY RangeAssumption, AsUnsigned DEF Signed
<1>2. ReadStart \in Reader /\ Total(ReadStart, u) = u /\ u < RANGE
  BY <1>1, RangeAssumption DEF ReadStart, Reader, Unsigned, Total
<1> HIDE DEF u
<1>3. PICK r : IsReading(r, encode[u], ReadStart, u)
  BY <1>1, <1>2, ReadsBack
<1>4. r[Len(encode[u])].value = u
  BY <1>3 DEF IsReading
<1> QED BY <1>3, <1>4, SignedRoundTrip DEF u, write_varint

\* Taking a byte keeps the reader's locals in their ranges.
LEMMA TakeByteType ==
  ASSUME NEW r \in Reader, NEW b \in Byte
  PROVE  take_byte(r, b) \in Reader
<1>1. r.value \in Nat /\ r.weight \in Nat \ {0}
  BY IntSizes DEF Reader, Unsigned
<1>2. payload(b) \in Nat
  BY IntSizes DEF payload, Byte
<1>3. payload(b) * r.weight \in Nat
  BY <1>1, <1>2
<1>4. (r.value + payload(b) * r.weight) % RANGE \in Unsigned
  <2> DEFINE n == r.value + payload(b) * r.weight
  <2>1. n \in Int /\ RANGE \in Nat \ {0}
    BY <1>1, <1>3, IntSizes
  <2> HIDE DEF n
  <2>2. n % RANGE \in 0 .. RANGE - 1
    BY <2>1, DivModFacts
  <2> QED BY <2>2 DEF n, Unsigned
<1>5. r.weight * SEGMENT \in Nat \ {0}
  <2> DEFINE w == r.weight
  <2>1. w \in Nat \ {0} /\ SEGMENT \in Nat \ {0}
    BY <1>1, IntSizes
  <2> HIDE DEF w
  <2>2. w * SEGMENT >= w
    BY <2>1, MulPositive
  <2> QED BY <2>1, <2>2 DEF w
<1> QED BY <1>4, <1>5 DEF take_byte, Reader

\* read_varint starts with legal locals.
LEMMA ReadStartType == ReadStart \in Reader
  BY IntSizes DEF ReadStart, Reader, Unsigned

-----------------------------------------------------------------------------
(***************************************************************************)
(* read_varint's loop: its states, and what its turns keep.                *)
(***************************************************************************)
Turn == [r : Reader, next : {"more", "value", "too_big"}, n : Nat]

\* t are the states of the loop on the bytes of b after pos.
Turns(t, b, pos) ==
  /\ t \in [0 .. Len(b) - pos -> Turn] /\ t[0] = ReadVarInt
  /\ \A n \in 1 .. Len(b) - pos : t[n] = read_turn(t[n - 1], b[pos + n])

Stopped(s, pos) ==
  [ok |-> s.next = "value", val |-> as_signed(s.r.value), pos |-> pos + s.n]

LEMMA TurnType ==
  ASSUME NEW s \in Turn, NEW x \in Byte
  PROVE  read_turn(s, x) \in Turn
<1>1. take_byte(s.r, x) \in Reader
  BY TakeByteType DEF Turn
<1>2. CASE s.next # "more"
  <2>1. read_turn(s, x) = s
    BY <1>2 DEF read_turn
  <2> QED BY <2>1
<1>3. CASE s.next = "more"
  <2> DEFINE next == IF ~continues(x) THEN "value"
                     ELSE IF too_big(s.r) THEN "too_big" ELSE "more"
  <2>1. read_turn(s, x) = [r |-> take_byte(s.r, x), n |-> s.n + 1, next |-> next]
    BY <1>3 DEF read_turn
  <2>2. s.n + 1 \in Nat
    BY DEF Turn
  <2>3. next \in {"more", "value", "too_big"}
    OBVIOUS
  <2> HIDE DEF next
  <2> QED BY <1>1, <2>1, <2>2, <2>3 DEF Turn
<1> QED BY <1>2, <1>3

\* The loop is run byte by byte.
LEMMA ReadTurns ==
  ASSUME NEW b \in Seq(Byte), NEW pos \in 0 .. Len(b)
  PROVE  \E t : Turns(t, b, pos) /\ read_varint(b, pos) = Stopped(t[Len(b) - pos], pos)
<1> DEFINE N == Len(b) - pos
           eq(f) == f = [n \in 0 .. N |->
                           IF n = 0 THEN ReadVarInt ELSE read_turn(f[n - 1], b[pos + n])]
           step == [x \in (1 .. N) \X Turn |-> read_turn(x[2], b[pos + x[1]])]
           t == CHOOSE f : eq(f)
<1>1. N \in Nat /\ ReadVarInt \in Turn
  BY ReadStartType DEF ReadVarInt, Turn
<1>2. ASSUME NEW n \in 1 .. N, NEW s \in Turn
      PROVE  step[<<n, s>>] = read_turn(s, b[pos + n]) /\ read_turn(s, b[pos + n]) \in Turn
  <2>1. b[pos + n] \in Byte
    BY ElementOfSeq
  <2> QED BY <2>1, TurnType
<1>3. PICK g : Counted(g, N, Turn, ReadVarInt, step)
  <2>1. step \in [(1 .. N) \X Turn -> Turn]
    BY <1>2
  <2> HIDE DEF step, N
  <2> QED BY <1>1, <2>1, CountedRecursion
<1>4. eq(g)
  <2>1. ASSUME NEW n \in 1 .. N PROVE g[n] = read_turn(g[n - 1], b[pos + n])
    <3>1. g[n - 1] \in Turn
      BY <1>1, <1>3 DEF Counted
    <3> HIDE DEF step, N
    <3> QED BY <1>2, <1>3, <3>1 DEF Counted
  <2> HIDE DEF step, N
  <2> QED BY <1>1, <1>3, <2>1 DEF Counted
<1>5. eq(t)
  <2>1. \E f : eq(f)
    <3> HIDE DEF eq
    <3> QED BY <1>4
  <2> HIDE DEF eq
  <2> QED BY <2>1
<1>6. read_varint(b, pos) = Stopped(t[N], pos)
  BY Zenon DEF read_varint, Stopped
<1> HIDE DEF t
<1>7. t[0] = ReadVarInt /\ \A n \in 1 .. N : t[n] = read_turn(t[n - 1], b[pos + n])
  <2> HIDE DEF N
  <2> QED BY <1>1, <1>5
<1>8. t \in [0 .. N -> Turn]
  <2> DEFINE T == {n \in 0 .. N : t[n] \in Turn}
  <2>1. 0 \in T
    BY <1>1, <1>7
  <2>2. ASSUME NEW k \in 0 .. N - 1, k \in T PROVE k + 1 \in T
    <3>1. k + 1 \in 1 .. N /\ (k + 1) - 1 = k /\ k + 1 \in 0 .. N
      OBVIOUS
    <3> HIDE DEF N, step
    <3> QED BY <1>2, <1>7, <2>2, <3>1
  <2>3. 0 .. N \subseteq T
    <3> HIDE DEF T, N
    <3> QED BY <1>1, <2>1, <2>2, UpTo
  <2> HIDE DEF N
  <2> QED BY <1>5, <2>3
<1>9. Turns(t, b, pos)
  BY <1>7, <1>8 DEF Turns
<1> QED BY <1>6, <1>9

\* The largest value still to be read once the payloads weigh w: a byte that
\* continues is one too many just when it fills that byte, and otherwise the rest
\* is for the bytes after it.
LEMMA Room ==
  ASSUME NEW w \in Nat \ {0}, w < RANGE
  PROVE  /\ (RANGE - 1) \div w \in Unsigned
         /\ w * SEGMENT >= RANGE => (RANGE - 1) \div w < SEGMENT
         /\ ~ (w * SEGMENT >= RANGE) =>
              /\ w * SEGMENT \in Nat \ {0} /\ w * SEGMENT < RANGE
              /\ (RANGE - 1) \div w >= SEGMENT
              /\ ((RANGE - 1) \div w) \div SEGMENT = (RANGE - 1) \div (w * SEGMENT)
<1> DEFINE v == RANGE - 1
           u == v \div w
           x == w * SEGMENT
<1>1. /\ v \in Nat /\ v >= w /\ RANGE \in Nat /\ SEGMENT \in Nat \ {0} /\ SEGMENT > 1
      /\ RANGE = v + 1
  BY IntSizes
<1>2. x \in Nat \ {0} /\ x >= w
  BY <1>1, MulPositive
<1> HIDE DEF v, x
<1>3. u \in Int /\ v % w \in 0 .. w - 1 /\ v = w * u + (v % w)
  BY <1>1, DivModFacts
<1> HIDE DEF u
<1>4. u >= 1
  <2> SUFFICES ASSUME u <= 0 PROVE FALSE
    BY <1>3
  <2>1. w * u <= 0
    BY <1>3
  <2>2. w * u \in Int
    BY <1>3
  <2> QED BY <1>1, <1>3, <2>1, <2>2
<1>5. u <= v
  <2>1. w * u >= u /\ w * u \in Int
    BY <1>3, <1>4
  <2> QED BY <1>1, <1>3, <2>1
<1>6. ASSUME x >= RANGE PROVE u < SEGMENT
  <2> SUFFICES ASSUME u >= SEGMENT PROVE FALSE
    BY <1>1, <1>3
  <2>1. w * u >= x
    <3>1. w * (u - SEGMENT) >= 0
      BY <1>1, <1>3
    <3>2. w * (u - SEGMENT) = w * u - x
      BY <1>1, <1>3 DEF x
    <3> QED BY <1>2, <1>3, <3>1, <3>2
  <2>2. w * u \in Int
    BY <1>3
  <2> QED BY <1>1, <1>2, <1>3, <1>6, <2>1, <2>2
<1>7. ASSUME ~ (x >= RANGE) PROVE x < RANGE /\ u >= SEGMENT /\ u \div SEGMENT = v \div x
  <2>1. x < RANGE
    BY <1>1, <1>2, <1>7
  <2>2. u >= SEGMENT
    <3> SUFFICES ASSUME SEGMENT - u >= 1 PROVE FALSE
      BY <1>1, <1>3
    <3>1. w * (SEGMENT - u) >= w
      BY <1>1, <1>3, MulPositive
    <3>2. w * (SEGMENT - u) = x - w * u
      BY <1>1, <1>3 DEF x
    <3>3. w * u \in Int
      BY <1>3
    <3> QED BY <1>1, <1>2, <1>3, <2>1, <3>1, <3>2, <3>3
  <2>3. u \div SEGMENT = v \div x
    BY <1>1, DivDiv DEF u, x
  <2> QED BY <2>1, <2>2, <2>3
<1>8. u \in Unsigned
  BY <1>1, <1>3, <1>4, <1>5 DEF Unsigned
<1> QED BY <1>2, <1>6, <1>7, <1>8 DEF u, v, x

\* What the loop knows in state s.
InLoop(s, b, pos) ==
  /\ s.next = "more" =>
       /\ s.r.weight < RANGE /\ s.n + len[(RANGE - 1) \div s.r.weight] = MaxBytes
       /\ \A i \in 1 .. s.n : continues(b[pos + i])
  /\ s.next = "value" => s.n >= 1 /\ s.n <= MaxBytes
  /\ s.next = "too_big" => s.n = MaxBytes /\ \A i \in 1 .. s.n : continues(b[pos + i])

LEMMA LoopStarts ==
  ASSUME NEW b, NEW pos PROVE InLoop(ReadVarInt, b, pos)
<1>1. (RANGE - 1) \div 1 = RANGE - 1 /\ RANGE - 1 \in Unsigned
  BY IntSizes DEF Unsigned
<1>2. MaxBytes = len[RANGE - 1]
  <2>1. as_unsigned(-1) = RANGE - 1
    BY IntSizes DEF as_unsigned
  <2> QED BY <2>1 DEF MaxBytes, varint_len
<1>3. len[RANGE - 1] \in Int
  BY <1>1, LenNat
<1> QED BY <1>1, <1>2, <1>3, IntSizes DEF InLoop, ReadVarInt, ReadStart

LEMMA LoopTurns ==
  ASSUME NEW b, NEW pos \in Nat, NEW s \in Turn, s.next = "more", InLoop(s, b, pos)
  PROVE  InLoop(read_turn(s, b[pos + s.n + 1]), b, pos)
<1> DEFINE x == b[pos + s.n + 1]
           z == read_turn(s, x)
           w == s.r.weight
           u == (RANGE - 1) \div w
<1>1. w \in Nat \ {0} /\ s.n \in Nat
  BY DEF Turn, Reader
<1>2. w < RANGE /\ s.n + len[u] = MaxBytes /\ \A i \in 1 .. s.n : continues(b[pos + i])
  BY DEF InLoop
<1>3. /\ z.n = s.n + 1 /\ z.r.weight = w * SEGMENT
      /\ z.next = IF ~continues(x) THEN "value" ELSE IF too_big(s.r) THEN "too_big" ELSE "more"
  BY DEF read_turn, take_byte
<1>4. too_big(s.r) <=> w * SEGMENT >= RANGE
  BY DEF too_big
<1>5. /\ u \in Unsigned
      /\ too_big(s.r) => u < SEGMENT
      /\ ~ too_big(s.r) => /\ w * SEGMENT \in Nat \ {0} /\ w * SEGMENT < RANGE
                           /\ u >= SEGMENT /\ u \div SEGMENT = (RANGE - 1) \div (w * SEGMENT)
  BY <1>1, <1>2, <1>4, Room
<1>6. len[u] \in Nat /\ len[u] >= 1
  BY <1>5, LenNat
<1>7. ASSUME continues(x) PROVE \A i \in 1 .. z.n : continues(b[pos + i])
  <2>1. \A i \in 1 .. s.n + 1 : i \in 1 .. s.n \/ i = s.n + 1
    BY <1>1
  <2>2. continues(b[pos + (s.n + 1)])
    <3>1. pos + s.n + 1 = pos + (s.n + 1)
      BY <1>1
    <3> QED BY <1>7, <3>1
  <2> QED BY <1>2, <1>3, <2>1, <2>2
<1>8. CASE ~continues(x)
  <2>1. z.next = "value" /\ z.n >= 1 /\ z.n <= MaxBytes
    BY <1>1, <1>2, <1>3, <1>6, <1>8
  <2> HIDE DEF z
  <2> QED BY <2>1 DEF InLoop, z
<1>9. CASE continues(x) /\ too_big(s.r)
  <2>1. len[u] = 1
    BY <1>5, <1>9, EncodeCases
  <2>2. z.next = "too_big" /\ z.n = MaxBytes
    BY <1>1, <1>2, <1>3, <1>9, <2>1
  <2> HIDE DEF z
  <2> QED BY <1>7, <1>9, <2>2 DEF InLoop, z
<1>10. CASE continues(x) /\ ~ too_big(s.r)
  <2>1. len[u] = 1 + len[u \div SEGMENT] /\ u \div SEGMENT \in Unsigned
    BY <1>5, <1>10, EncodeCases, Groups
  <2>2. len[u \div SEGMENT] \in Nat
    BY <2>1, LenNat
  <2>3. z.n + len[(RANGE - 1) \div z.r.weight] = MaxBytes
    BY <1>1, <1>2, <1>3, <1>5, <1>10, <2>1, <2>2
  <2>4. z.next = "more" /\ z.r.weight < RANGE
    BY <1>3, <1>5, <1>10
  <2> HIDE DEF z
  <2> QED BY <1>7, <1>10, <2>3, <2>4 DEF InLoop, z
<1> QED BY <1>8, <1>9, <1>10

\* After k bytes.
LEMMA LoopRuns ==
  ASSUME NEW b \in Seq(Byte), NEW pos \in 0 .. Len(b), NEW t, Turns(t, b, pos)
  PROVE  \A k \in 0 .. Len(b) - pos :
           /\ t[k] \in Turn /\ t[k].n <= k /\ (t[k].next = "more" => t[k].n = k)
           /\ InLoop(t[k], b, pos)
<1> DEFINE N == Len(b) - pos
           Good(k) == /\ t[k] \in Turn /\ t[k].n <= k /\ (t[k].next = "more" => t[k].n = k)
                      /\ InLoop(t[k], b, pos)
           T == {k \in 0 .. N : Good(k)}
<1>1. N \in Nat /\ pos \in Nat
  OBVIOUS
<1> HIDE DEF N
<1>2. /\ t \in [0 .. N -> Turn] /\ t[0] = ReadVarInt
      /\ \A n \in 1 .. N : t[n] = read_turn(t[n - 1], b[pos + n])
  BY DEF Turns, N
<1>3. 0 \in T
  <2>1. t[0] \in Turn /\ t[0].n = 0 /\ InLoop(t[0], b, pos)
    <3>1. ReadVarInt.n = 0
      BY DEF ReadVarInt
    <3> QED BY <1>1, <1>2, <3>1, LoopStarts
  <2> QED BY <1>1, <2>1
<1>4. ASSUME NEW k \in 0 .. N - 1, k \in T PROVE k + 1 \in T
  <2> DEFINE s == t[k]
  <2>1. s \in Turn /\ s.n \in Nat /\ s.n <= k /\ (s.next = "more" => s.n = k) /\ InLoop(s, b, pos)
    BY <1>4 DEF Turn
  <2>2. k + 1 \in 0 .. N /\ t[k + 1] \in Turn /\ t[k + 1] = read_turn(s, b[pos + (k + 1)])
    BY <1>1, <1>2
  <2> HIDE DEF s
  <2>3. CASE s.next # "more"
    <3>1. t[k + 1] = s
      BY <2>2, <2>3 DEF read_turn
    <3> QED BY <2>1, <2>2, <2>3, <3>1
  <2>4. CASE s.next = "more"
    <3>1. pos + (k + 1) = pos + s.n + 1
      BY <1>1, <2>1, <2>4
    <3>2. InLoop(t[k + 1], b, pos)
      BY <1>1, <2>1, <2>2, <2>4, <3>1, LoopTurns
    <3>3. t[k + 1].n = k + 1
      BY <2>1, <2>2, <2>4 DEF read_turn
    <3> QED BY <2>2, <3>2, <3>3
  <2> QED BY <2>3, <2>4
<1>5. 0 .. N \subseteq T
  <2> HIDE DEF T
  <2> QED BY <1>1, <1>3, <1>4, UpTo
<1> QED BY <1>5 DEF N

\* A value of the loop as an i32.
LEMMA AsSigned ==
  ASSUME NEW u \in Unsigned PROVE as_signed(u) \in Signed
<1> DEFINE h == RANGE \div 2
<1>1. h \in Nat /\ RANGE = 2 * h /\ u \in Nat /\ u < RANGE
  BY RangeAssumption DEF Unsigned
<1> HIDE DEF h
<1> QED BY <1>1 DEF as_signed, Signed, h

\* Whatever the bytes, read_varint stops in time, with an integer or an error.
Within(r, b, pos) ==
  /\ r.pos \in pos .. Len(b) /\ r.pos - pos <= MaxBytes
  /\ r.val \in Signed /\ r.ok \in BOOLEAN
  /\ r.ok => r.pos > pos
  /\ ~r.ok => /\ \A i \in 1 .. r.pos - pos : continues(b[pos + i])
              /\ r.pos = Len(b) \/ r.pos - pos = MaxBytes

LEMMA ReadVarIntWithin ==
  ASSUME NEW b \in Seq(Byte), NEW pos \in 0 .. Len(b)
  PROVE  Within(read_varint(b, pos), b, pos)
<1> DEFINE N == Len(b) - pos
<1>1. N \in Nat /\ pos \in Nat /\ Len(b) = pos + N
  OBVIOUS
<1>2. PICK t : Turns(t, b, pos) /\ read_varint(b, pos) = Stopped(t[N], pos)
  BY ReadTurns
<1> DEFINE s == t[N]
           r == read_varint(b, pos)
<1>3. /\ s \in Turn /\ s.n <= N /\ (s.next = "more" => s.n = N)
      /\ InLoop(s, b, pos)
  <2>1. N \in 0 .. Len(b) - pos
    OBVIOUS
  <2> HIDE DEF N
  <2> QED BY <1>2, <2>1, LoopRuns
<1> HIDE DEF s, N
<1>4. /\ r.pos = pos + s.n /\ r.val = as_signed(s.r.value) /\ r.ok = (s.next = "value")
  BY <1>2 DEF Stopped, s
<1>5. s.n \in Nat /\ s.r.value \in Unsigned /\ s.next \in {"more", "value", "too_big"}
      /\ s.r.weight \in Nat \ {0}
  BY <1>3 DEF Turn, Reader
<1>6. r.val \in Signed
  BY <1>4, <1>5, AsSigned
<1> SUFFICES Within(r, b, pos)
  OBVIOUS
<1> HIDE DEF r
<1>7. r.pos - pos = s.n
  BY <1>1, <1>4, <1>5
<1>11. r.ok \in BOOLEAN /\ (r.ok <=> s.next = "value")
  BY <1>4
<1>12. r.pos \in pos .. Len(b) /\ (s.n = N => r.pos = Len(b))
  BY <1>1, <1>3, <1>4, <1>5
<1>8. CASE s.next = "more"
  <2>1. len[(RANGE - 1) \div s.r.weight] \in Nat /\ s.n + len[(RANGE - 1) \div s.r.weight] = MaxBytes
    <3>1. s.r.weight < RANGE /\ s.n + len[(RANGE - 1) \div s.r.weight] = MaxBytes
      BY <1>3, <1>8 DEF InLoop
    <3> QED BY <1>5, <3>1, Room, LenNat
  <2>2. s.n <= MaxBytes
    BY <1>5, <2>1
  <2>3. \A i \in 1 .. s.n : continues(b[pos + i])
    BY <1>3, <1>8 DEF InLoop
  <2> QED BY <1>1, <1>3, <1>5, <1>6, <1>7, <1>11, <1>12, <1>8, <2>2, <2>3 DEF Within
<1>9. CASE s.next = "value"
  <2>1. s.n >= 1 /\ s.n <= MaxBytes
    BY <1>3, <1>9 DEF InLoop
  <2> QED BY <1>1, <1>3, <1>5, <1>6, <1>7, <1>11, <1>12, <1>9, <2>1 DEF Within
<1>10. CASE s.next = "too_big"
  <2>1. s.n = MaxBytes /\ \A i \in 1 .. s.n : continues(b[pos + i])
    BY <1>3, <1>10 DEF InLoop
  <2> QED BY <1>1, <1>3, <1>5, <1>6, <1>7, <1>11, <1>12, <1>10, <2>1 DEF Within
<1> QED BY <1>5, <1>8, <1>9, <1>10

-----------------------------------------------------------------------------
(***************************************************************************)
(* Words: what from_be_bytes makes of the bytes of to_be_bytes.            *)
(***************************************************************************)
\* words counts the values of a word, whatever its width.
LEMMA WordsDef ==
  /\ words[0] = 1
  /\ \A n \in Nat : words[n] \in Nat \ {0} /\ words[n + 1] = BASE * words[n]
<1> DEFINE A == Nat \ {0}
           step == [x \in Nat \X A |-> BASE * x[2]]
           eq(f) == f = [n \in Nat |-> IF n = 0 THEN 1 ELSE BASE * f[n - 1]]
<1>1. BASE \in Nat \ {0}
  BY IntSizes DEF BASE
<1>2. step \in [Nat \X A -> A] /\ 1 \in A
  BY <1>1
<1>3. PICK g : CountedOn(g, A, 1, step)
  <2> HIDE DEF A, step
  <2> QED BY <1>2, NaturalRecursion
<1>4. ASSUME NEW n \in Nat PROVE g[n + 1] = BASE * g[n]
  <2>1. n + 1 \in Nat /\ g[n] \in A
    BY <1>3 DEF CountedOn
  <2>2. g[n + 1] = step[<<n + 1, g[n]>>]
    BY <1>3 DEF CountedOn
  <2> HIDE DEF A
  <2> QED BY <2>1, <2>2
<1>5. eq(g)
  <2>1. g \in [Nat -> A] /\ g[0] = 1
    BY <1>3 DEF CountedOn
  <2>2. ASSUME NEW n \in Nat, n # 0 PROVE g[n] = BASE * g[n - 1]
    <3>1. n - 1 \in Nat /\ (n - 1) + 1 = n
      BY <2>2
    <3> QED BY <1>4, <3>1
  <2> HIDE DEF A
  <2> QED BY <2>1, <2>2
<1>6. eq(words)
  <2>1. \E f : eq(f)
    <3> HIDE DEF eq
    <3> QED BY <1>5
  <2>2. words = CHOOSE f : eq(f)
    BY DEF words
  <2> HIDE DEF eq
  <2> QED BY <2>1, <2>2
<1>7. words[0] = 1
  BY <1>6
<1>8. ASSUME NEW n \in Nat PROVE words[n + 1] = BASE * words[n]
  <2>1. n + 1 \in Nat /\ n + 1 # 0 /\ (n + 1) - 1 = n
    OBVIOUS
  <2> QED BY <1>6, <2>1
<1> DEFINE T == {n \in Nat : words[n] \in A}
<1>9. \A n \in Nat : n \in T
  <2>1. 0 \in T
    BY <1>7
  <2>2. ASSUME NEW k \in Nat, k \in T PROVE k + 1 \in T
    BY <1>1, <1>8, <2>2
  <2> HIDE DEF T
  <2> QED BY <2>1, <2>2, ForAllNaturals
<1> QED BY <1>7, <1>8, <1>9

\* word reads a byte at a time.
ReadsWord(f, x) ==
  /\ f \in [0 .. Len(x) -> Nat] /\ f[0] = 0
  /\ \A n \in 1 .. Len(x) : f[n] = f[n - 1] * BASE + x[n]
  /\ word(x) = f[Len(x)]

LEMMA WordDef ==
  ASSUME NEW x \in Seq(Byte)
  PROVE  \E f : ReadsWord(f, x)
<1> DEFINE N == Len(x)
           eq(f) == f = [n \in 0 .. N |-> IF n = 0 THEN 0 ELSE f[n - 1] * BASE + x[n]]
           step == [y \in (1 .. N) \X Nat |-> y[2] * BASE + x[y[1]]]
           f == CHOOSE h : eq(h)
<1>1. N \in Nat /\ BASE \in Nat /\ 0 \in Nat
  BY IntSizes DEF BASE
<1>2. ASSUME NEW n \in 1 .. N, NEW v \in Nat
      PROVE  step[<<n, v>>] = v * BASE + x[n] /\ v * BASE + x[n] \in Nat
  <2>1. x[n] \in Nat
    BY ElementOfSeq, IntSizes DEF Byte
  <2> HIDE DEF N
  <2>2. v * BASE \in Nat
    BY <1>1
  <2> QED BY <2>1, <2>2
<1>3. PICK g : Counted(g, N, Nat, 0, step)
  <2>1. step \in [(1 .. N) \X Nat -> Nat]
    <3> HIDE DEF N
    <3> QED BY <1>2
  <2> HIDE DEF step, N
  <2> QED BY <1>1, <2>1, CountedRecursion
<1>4. eq(g)
  <2>1. ASSUME NEW n \in 1 .. N PROVE g[n] = g[n - 1] * BASE + x[n]
    <3>1. g[n - 1] \in Nat
      BY <1>1, <1>3 DEF Counted
    <3> HIDE DEF step, N
    <3> QED BY <1>2, <1>3, <3>1 DEF Counted
  <2> HIDE DEF step, N
  <2> QED BY <1>1, <1>3, <2>1 DEF Counted
<1>5. eq(f)
  <2>1. \E h : eq(h)
    <3> HIDE DEF eq
    <3> QED BY <1>4
  <2> HIDE DEF eq
  <2> QED BY <2>1
<1>6. word(x) = f[N]
  BY Zenon DEF word
<1> HIDE DEF f
<1>7. f[0] = 0 /\ \A n \in 1 .. N : f[n] = f[n - 1] * BASE + x[n]
  <2> HIDE DEF N
  <2> QED BY <1>1, <1>5
<1> DEFINE T == {n \in 0 .. N : f[n] \in Nat}
<1>8. 0 .. N \subseteq T
  <2>1. 0 \in T
    BY <1>1, <1>7
  <2>2. ASSUME NEW k \in 0 .. N - 1, k \in T PROVE k + 1 \in T
    <3>1. k + 1 \in 1 .. N /\ (k + 1) - 1 = k /\ k + 1 \in 0 .. N
      OBVIOUS
    <3> HIDE DEF N, step
    <3>2. f[k] \in Nat
      BY <2>2
    <3>3. f[k + 1] = f[k] * BASE + x[k + 1]
      BY <1>7, <3>1
    <3>4. f[k] * BASE + x[k + 1] \in Nat
      BY <1>2, <3>1, <3>2
    <3> QED BY <3>1, <3>3, <3>4
  <2> HIDE DEF T, N
  <2> QED BY <1>1, <2>1, <2>2, UpTo
<1>9. f \in [0 .. N -> Nat]
  <2> HIDE DEF N
  <2> QED BY <1>5, <1>8
<1>10. ReadsWord(f, x)
  BY <1>6, <1>7, <1>9 DEF ReadsWord
<1> QED BY <1>10

\* A word is a value of its width.
LEMMA WordRange ==
  ASSUME NEW x \in Seq(Byte)
  PROVE  word(x) \in 0 .. words[Len(x)] - 1
<1>1. PICK f : ReadsWord(f, x)
  BY WordDef
<1> DEFINE N == Len(x)
           T == {k \in 0 .. N : f[k] < words[k]}
<1>2. /\ N \in Nat /\ f \in [0 .. N -> Nat] /\ f[0] = 0
      /\ \A k \in 1 .. N : f[k] = f[k - 1] * BASE + x[k]
  BY <1>1 DEF ReadsWord
<1>3. 0 \in T
  BY <1>2, WordsDef
<1>4. ASSUME NEW k \in 0 .. N - 1, k \in T PROVE k + 1 \in T
  <2>1. k \in Nat /\ k + 1 \in 1 .. N /\ (k + 1) - 1 = k /\ k \in 0 .. N
    BY <1>2
  <2>2. x[k + 1] \in 0 .. BASE - 1 /\ BASE \in Nat
    <3>1. x[k + 1] \in Byte
      BY <2>1, ElementOfSeq
    <3> QED BY <3>1, IntSizes DEF Byte, BASE
  <2> DEFINE a == f[k]
             b == x[k + 1]
             m == words[k]
  <2>3. a \in Nat /\ m \in Nat /\ a <= m - 1 /\ words[k + 1] = BASE * m
    <3>1. f[k] < words[k]
      BY <1>4
    <3>2. f[k] \in Nat
      BY <1>2, <2>1
    <3>3. words[k] \in Nat /\ words[k + 1] = BASE * words[k]
      BY <2>1, WordsDef
    <3> HIDE DEF T
    <3> QED BY <3>1, <3>2, <3>3
  <2>4. f[k + 1] = a * BASE + b /\ b \in 0 .. BASE - 1
    BY <1>2, <2>1, <2>2
  <2> HIDE DEF a, b, m
  <2>5. a * BASE + b < BASE * m
    <3>1. a * BASE <= (m - 1) * BASE
      BY <2>2, <2>3
    <3>2. (m - 1) * BASE = BASE * m - BASE
      BY <2>2, <2>3
    <3>3. a * BASE \in Nat /\ BASE * m \in Nat
      BY <2>2, <2>3
    <3> QED BY <2>2, <2>4, <3>1, <3>2, <3>3
  <2> QED BY <2>1, <2>3, <2>4, <2>5
<1>5. N \in T
  <2>1. 0 .. N \subseteq T
    <3> HIDE DEF T, N
    <3> QED BY <1>2, <1>3, <1>4, UpTo
  <2> HIDE DEF T
  <2> QED BY <1>2, <2>1
<1>6. f[N] \in Nat /\ f[N] < words[N] /\ word(x) = f[N] /\ words[N] \in Nat
  BY <1>1, <1>2, <1>5, WordsDef DEF ReadsWord
<1> QED BY <1>6

\* The bytes of a word.
LEMMA BeBytes ==
  ASSUME NEW v \in Nat, NEW w \in Nat
  PROVE  /\ be(v, w) \in Seq(Byte) /\ Len(be(v, w)) = w
         /\ \A i \in 1 .. w : be(v, w)[i] = (v \div words[w - i]) % BASE
<1>1. ASSUME NEW i \in 1 .. w PROVE (v \div words[w - i]) % BASE \in Byte
  <2> DEFINE d == words[w - i]
             q == v \div d
  <2>1. w - i \in Nat
    OBVIOUS
  <2>2. d \in Nat \ {0}
    BY <2>1, WordsDef
  <2> HIDE DEF d
  <2>3. q \in Int
    BY <2>2, DivModFacts
  <2>4. BASE \in Nat \ {0} /\ Byte = 0 .. BASE - 1
    BY IntSizes DEF BASE, Byte
  <2> HIDE DEF q
  <2> QED BY <2>3, <2>4, DivModFacts DEF q, d
<1> QED BY <1>1 DEF be

\* from_be_bytes takes to_be_bytes back, for a value that fits the width.
LEMMA WordRoundTrip ==
  ASSUME NEW w \in Nat, NEW v \in 0 .. words[w] - 1
  PROVE  word(be(v, w)) = v
<1> DEFINE x == be(v, w)
<1>1. v \in Nat /\ words[w] \in Nat \ {0} /\ v < words[w]
  BY WordsDef
<1>2. x \in Seq(Byte) /\ Len(x) = w /\ \A i \in 1 .. w : x[i] = (v \div words[w - i]) % BASE
  BY <1>1, BeBytes
<1> HIDE DEF x
<1>3. PICK f : ReadsWord(f, x)
  BY <1>2, WordDef
<1> DEFINE T == {k \in 0 .. w : f[k] = v \div words[w - k]}
<1>4. 0 \in T
  <2>1. v \div words[w] = 0
    <3> DEFINE n == words[w]
    <3>1. n \in Nat \ {0} /\ v < n
      BY <1>1
    <3> HIDE DEF n
    <3>2. v \in 0 .. n - 1 /\ 0 * n + v = v
      BY <1>1, <3>1
    <3>3. (0 * n + v) \div n = 0
      BY <3>1, <3>2, DivModUnique
    <3> QED BY <3>2, <3>3 DEF n
  <2>2. f[0] = 0 /\ w - 0 = w
    BY <1>3 DEF ReadsWord
  <2> QED BY <2>1, <2>2
<1>5. ASSUME NEW k \in 0 .. w - 1, k \in T PROVE k + 1 \in T
  <2> DEFINE d == words[w - (k + 1)]
             q == v \div d
  <2>1. k + 1 \in 1 .. w /\ (k + 1) - 1 = k /\ w - (k + 1) \in Nat /\ w - k = (w - (k + 1)) + 1
    OBVIOUS
  <2>2. d \in Nat \ {0} /\ words[w - k] = BASE * d
    BY <2>1, WordsDef
  <2>3. BASE \in Nat \ {0}
    BY IntSizes DEF BASE
  <2>4. f[k + 1] = f[k] * BASE + x[k + 1]
    BY <1>2, <1>3, <2>1 DEF ReadsWord
  <2>5. x[k + 1] = q % BASE
    BY <1>2, <2>1
  <2>6. f[k] = v \div (d * BASE)
    <3>1. BASE * d = d * BASE
      BY <2>2, <2>3
    <3> QED BY <1>5, <2>2, <3>1
  <2> HIDE DEF d
  <2>7. (v \div d) \div BASE = v \div (d * BASE)
    BY <1>1, <2>2, <2>3, DivDiv
  <2>8. q \in Int
    BY <1>1, <2>2, DivModFacts
  <2> HIDE DEF q
  <2>9. q \div BASE \in Int /\ q % BASE \in 0 .. BASE - 1 /\ q = BASE * (q \div BASE) + (q % BASE)
    BY <2>3, <2>8, DivModFacts
  <2>10. f[k] = q \div BASE
    BY <2>6, <2>7 DEF q
  <2>11. f[k + 1] = q
    <3> DEFINE a == q \div BASE
               m == q % BASE
    <3>1. a \in Int /\ m \in Int /\ q = BASE * a + m /\ f[k + 1] = a * BASE + m
      BY <2>4, <2>5, <2>9, <2>10
    <3> HIDE DEF a, m
    <3> QED BY <2>3, <3>1
  <2> QED BY <2>1, <2>11 DEF q, d
<1>6. w \in T
  <2>1. 0 .. w \subseteq T
    <3> HIDE DEF T
    <3> QED BY <1>4, <1>5, UpTo
  <2> HIDE DEF T
  <2> QED BY <2>1
<1>7. f[w] = v
  <2>1. w - w = 0 /\ v \div 1 = v
    BY <1>1
  <2> QED BY <1>6, <2>1, WordsDef
<1>8. word(x) = v
  BY <1>2, <1>3, <1>7 DEF ReadsWord
<1> QED BY <1>8 DEF x

-----------------------------------------------------------------------------
(***************************************************************************)
(* Reading back, and reading from a body cut short: the runs of            *)
(* read_varint on two bodies, and what take and the typed reads then       *)
(* return.                                                                 *)
(***************************************************************************)
\* The bytes x stand in b after pos.
At(b, pos, x) == pos + Len(x) <= Len(b) /\ \A i \in 1 .. Len(x) : b[pos + i] = x[i]

\* c is f, or f cut short.
FrontOf(c, f) ==
  /\ c \in Seq(Byte) /\ f \in Seq(Byte) /\ Len(c) <= Len(f)
  /\ \A i \in 1 .. Len(c) : c[i] = f[i]

\* Once it has a value or an error, the loop takes no other byte.
LEMMA LoopStays ==
  ASSUME NEW b \in Seq(Byte), NEW pos \in 0 .. Len(b), NEW t, Turns(t, b, pos),
         NEW k \in 0 .. Len(b) - pos, t[k].next # "more"
  PROVE  t[Len(b) - pos] = t[k]
<1> DEFINE N == Len(b) - pos
           T == {j \in 0 .. N - k : t[k + j] = t[k]}
<1>1. N \in Nat /\ k \in Nat /\ k <= N /\ N - k \in Nat
  OBVIOUS
<1>2. \A n \in 1 .. N : t[n] = read_turn(t[n - 1], b[pos + n])
  BY DEF Turns
<1> HIDE DEF N
<1>3. 0 \in T
  <2>1. k + 0 = k
    BY <1>1
  <2> QED BY <1>1, <2>1
<1>4. ASSUME NEW j \in 0 .. (N - k) - 1, j \in T PROVE j + 1 \in T
  <2> DEFINE n == k + (j + 1)
  <2>1. n \in 1 .. N /\ n - 1 = k + j /\ j + 1 \in 0 .. N - k
    BY <1>1
  <2> HIDE DEF n
  <2>2. t[n] = read_turn(t[k], b[pos + n])
    BY <1>2, <1>4, <2>1
  <2>3. t[n] = t[k]
    BY <2>2 DEF read_turn
  <2> QED BY <2>1, <2>3 DEF n
<1>5. N - k \in T
  <2>1. 0 .. N - k \subseteq T
    <3> HIDE DEF T
    <3> QED BY <1>1, <1>3, <1>4, UpTo
  <2> HIDE DEF T
  <2> QED BY <1>1, <2>1
<1>6. k + (N - k) = N
  BY <1>1
<1>7. t[k + (N - k)] = t[k]
  BY <1>5
<1> QED BY <1>6, <1>7 DEF N

\* A VarInt that could be read from the front of a body is the body's.
LEMMA SameVarInt ==
  ASSUME NEW c, NEW f, FrontOf(c, f), NEW pos \in 0 .. Len(c), read_varint(c, pos).ok
  PROVE  read_varint(f, pos) = read_varint(c, pos)
<1> DEFINE N == Len(c) - pos
           M == Len(f) - pos
<1>1. /\ c \in Seq(Byte) /\ f \in Seq(Byte) /\ pos \in Nat /\ pos \in 0 .. Len(f)
      /\ N \in Nat /\ M \in Nat /\ N <= M /\ N \in 0 .. Len(f) - pos
  <2>1. c \in Seq(Byte) /\ f \in Seq(Byte) /\ Len(c) <= Len(f)
    BY DEF FrontOf
  <2>2. Len(c) \in Nat /\ Len(f) \in Nat
    BY <2>1, LenProperties
  <2> QED BY <2>1, <2>2
<1>2. PICK t : Turns(t, c, pos) /\ read_varint(c, pos) = Stopped(t[N], pos)
  BY <1>1, ReadTurns
<1>3. PICK u : Turns(u, f, pos) /\ read_varint(f, pos) = Stopped(u[M], pos)
  BY <1>1, ReadTurns
<1>4. \A n \in 1 .. N : t[n] = read_turn(t[n - 1], c[pos + n])
  BY <1>2 DEF Turns
<1>5. \A n \in 1 .. M : u[n] = read_turn(u[n - 1], f[pos + n])
  BY <1>3 DEF Turns
<1>6. t[0] = ReadVarInt /\ u[0] = ReadVarInt
  BY <1>2, <1>3 DEF Turns
<1>7. \A n \in 1 .. N : c[pos + n] = f[pos + n]
  <2> SUFFICES ASSUME NEW n \in 1 .. N PROVE c[pos + n] = f[pos + n]
    OBVIOUS
  <2>1. Len(c) \in Nat
    BY <1>1, LenProperties
  <2>2. pos + n \in 1 .. Len(c)
    BY <1>1, <2>1
  <2> QED BY <2>2 DEF FrontOf
<1> DEFINE T == {k \in 0 .. N : t[k] = u[k]}
<1>8. N \in T
  <2> HIDE DEF N, M
  <2>1. 0 \in T
    BY <1>1, <1>6
  <2>2. ASSUME NEW k \in 0 .. N - 1, k \in T PROVE k + 1 \in T
    <3>1. k + 1 \in 1 .. N /\ k + 1 \in 1 .. M /\ (k + 1) - 1 = k /\ k + 1 \in 0 .. N
      BY <1>1
    <3>2. t[k + 1] = read_turn(t[k], c[pos + (k + 1)])
      BY <1>4, <3>1
    <3>3. u[k + 1] = read_turn(u[k], f[pos + (k + 1)])
      BY <1>5, <3>1
    <3>4. t[k] = u[k] /\ c[pos + (k + 1)] = f[pos + (k + 1)]
      BY <1>7, <2>2, <3>1
    <3> QED BY <3>1, <3>2, <3>3, <3>4
  <2>3. 0 .. N \subseteq T
    <3> HIDE DEF T
    <3> QED BY <1>1, <2>1, <2>2, UpTo
  <2> HIDE DEF T
  <2> QED BY <1>1, <2>3
<1>9. t[N].next = "value"
  <2>1. Stopped(t[N], pos).ok
    BY <1>2
  <2> HIDE DEF N
  <2> QED BY <2>1 DEF Stopped
<1>10. u[M] = u[N]
  <2>1. u[N].next # "more"
    BY <1>8, <1>9
  <2> HIDE DEF N
  <2> QED BY <1>1, <1>3, <2>1, LoopStays
<1> QED BY <1>2, <1>3, <1>8, <1>10

\* read_varint takes back what write_varint wrote, wherever it stands.
LEMMA VarIntBack ==
  ASSUME NEW v \in Signed, NEW b \in Seq(Byte), NEW pos \in 0 .. Len(b),
         At(b, pos, write_varint(v))
  PROVE  /\ read_varint(b, pos) = [ok |-> TRUE, val |-> v, pos |-> pos + Len(write_varint(v))]
         /\ Len(write_varint(v)) \in Nat \ {0}
<1> DEFINE e == write_varint(v)
           L == Len(e)
           N == Len(b) - pos
<1>1. v \in Int /\ as_unsigned(v) \in Unsigned
  BY RangeAssumption, AsUnsigned DEF Signed
<1>2. e \in Seq(Byte) /\ L \in Nat \ {0}
  BY <1>1, EncodeType DEF write_varint
<1>3. PICK r : /\ IsReading(r, e, ReadStart, as_unsigned(v))
               /\ as_signed(r[L].value) = v
  BY VarIntRoundTrip
<1>4. PICK t : Turns(t, b, pos) /\ read_varint(b, pos) = Stopped(t[N], pos)
  BY ReadTurns
<1> HIDE DEF e
<1>5. Len(b) \in Nat /\ pos \in Nat /\ N \in Nat /\ L <= N /\ \A i \in 1 .. L : b[pos + i] = e[i]
  <2>1. Len(b) \in Nat /\ pos + L <= Len(b) /\ \A i \in 1 .. L : b[pos + i] = e[i]
    BY LenProperties DEF At, e
  <2> QED BY <1>2, <2>1
<1>6. t[0] = ReadVarInt /\ \A n \in 1 .. N : t[n] = read_turn(t[n - 1], b[pos + n])
  BY <1>4 DEF Turns
<1>7. /\ r[0] = ReadStart
      /\ \A i \in 1 .. L : r[i] = take_byte(r[i - 1], e[i])
      /\ \A i \in 1 .. L - 1 : continues(e[i]) /\ ~ too_big(r[i - 1])
      /\ ~ continues(e[L])
  BY <1>3 DEF IsReading
<1> HIDE DEF L, N
<1> DEFINE T == {k \in 0 .. L - 1 : t[k].next = "more" /\ t[k].r = r[k] /\ t[k].n = k}
<1>8. L - 1 \in T
  <2>1. 0 \in T
    <3>1. t[0].next = "more" /\ t[0].r = r[0] /\ t[0].n = 0
      BY <1>6, <1>7 DEF ReadVarInt
    <3> QED BY <1>2, <3>1
  <2>2. ASSUME NEW k \in 0 .. (L - 1) - 1, k \in T PROVE k + 1 \in T
    <3> DEFINE x == b[pos + (k + 1)]
    <3>1. /\ k + 1 \in 1 .. N /\ k + 1 \in 1 .. L - 1 /\ k + 1 \in 1 .. L
          /\ (k + 1) - 1 = k /\ k + 1 \in 0 .. L - 1
      BY <1>2, <1>5
    <3>2. x = e[k + 1] /\ t[k + 1] = read_turn(t[k], x)
      BY <1>5, <1>6, <3>1
    <3>3. r[k + 1] = take_byte(r[k], x) /\ continues(x) /\ ~ too_big(r[k])
      BY <1>7, <3>1, <3>2
    <3>4. t[k].next = "more" /\ t[k].r = r[k] /\ t[k].n = k
      BY <2>2
    <3> HIDE DEF x
    <3>5. t[k + 1].next = "more" /\ t[k + 1].r = r[k + 1] /\ t[k + 1].n = k + 1
      BY <3>2, <3>3, <3>4 DEF read_turn
    <3> QED BY <3>1, <3>5
  <2>3. 0 .. L - 1 \subseteq T
    <3>1. L - 1 \in Nat
      BY <1>2
    <3> HIDE DEF T
    <3> QED BY <2>1, <2>2, <3>1, UpTo
  <2> HIDE DEF T
  <2> QED BY <1>2, <2>3
<1>9. t[L].next = "value" /\ t[L].r = r[L] /\ t[L].n = L
  <2> DEFINE k == L - 1
             x == b[pos + L]
  <2>1. L \in 1 .. N /\ L \in 1 .. L /\ L - 1 = k /\ k + 1 = L /\ k \in Nat
    BY <1>2, <1>5
  <2>2. x = e[L] /\ t[L] = read_turn(t[k], x)
    BY <1>5, <1>6, <2>1
  <2>3. r[L] = take_byte(r[k], x) /\ ~ continues(x)
    BY <1>7, <2>1, <2>2
  <2>4. t[k].next = "more" /\ t[k].r = r[k] /\ t[k].n = k
    BY <1>8
  <2> HIDE DEF x, k
  <2> QED BY <2>1, <2>2, <2>3, <2>4 DEF read_turn
<1>10. t[N] = t[L]
  <2>1. L \in 0 .. Len(b) - pos /\ t[L].next # "more"
    BY <1>2, <1>5, <1>9 DEF N
  <2> QED BY <1>4, <2>1, LoopStays DEF N
<1>11. read_varint(b, pos) = [ok |-> TRUE, val |-> v, pos |-> pos + L]
  <2>1. as_signed(t[L].r.value) = v
    BY <1>3, <1>9 DEF L
  <2> QED BY <1>4, <1>9, <1>10, <2>1 DEF Stopped, N
<1> QED BY <1>2, <1>11 DEF e, L

\* What take returns.
LEMMA TakeBytes ==
  ASSUME NEW b \in Seq(Byte), NEW pos \in 0 .. Len(b), NEW n \in Nat
  PROVE  /\ take(b, pos, n).ok \in BOOLEAN /\ (take(b, pos, n).ok <=> pos + n <= Len(b))
         /\ take(b, pos, n).pos \in pos .. Len(b)
         /\ take(b, pos, n).val \in Seq(Byte)
         /\ take(b, pos, n).ok =>
              /\ take(b, pos, n).pos = pos + n /\ Len(take(b, pos, n).val) = n
              /\ \A i \in 1 .. n : take(b, pos, n).val[i] = b[pos + i]
<1>1. Len(b) \in Nat /\ pos \in Nat /\ pos <= Len(b)
  BY LenProperties
<1>2. CASE pos + n > Len(b)
  <2>1. take(b, pos, n) = Failed(pos)
    BY <1>2 DEF take
  <2>2. Failed(pos).ok = FALSE /\ Failed(pos).val = <<>> /\ Failed(pos).pos = pos
    BY DEF Failed
  <2> DEFINE r == take(b, pos, n)
  <2>3. r.ok = FALSE /\ r.val = <<>> /\ r.pos = pos
    BY <2>1, <2>2
  <2> HIDE DEF r
  <2>4. r.val \in Seq(Byte)
    BY <2>3, EmptySeq
  <2>5. r.pos \in pos .. Len(b) /\ ~ (pos + n <= Len(b))
    BY <1>1, <1>2, <2>3
  <2> QED BY <2>3, <2>4, <2>5 DEF r
<1>3. CASE ~ (pos + n > Len(b))
  <2> DEFINE x == SubSeq(b, pos + 1, pos + n)
             k == pos + 1
             l == pos + n
  <2>1. k \in Int /\ l \in Int /\ l - k + 1 = n /\ \A i \in k .. l : b[i] \in Byte
    <3>1. \A i \in k .. l : i \in 1 .. Len(b)
      BY <1>1, <1>3
    <3>2. \A i \in 1 .. Len(b) : b[i] \in Byte
      BY ElementOfSeq
    <3> QED BY <1>1, <3>1, <3>2
  <2> HIDE DEF k, l
  <2>2. /\ x \in Seq(Byte) /\ Len(x) = (IF k <= l THEN l - k + 1 ELSE 0)
        /\ \A i \in 1 .. l - k + 1 : x[i] = b[k + i - 1]
    <3>1. /\ SubSeq(b, k, l) \in Seq(Byte)
          /\ Len(SubSeq(b, k, l)) = (IF k <= l THEN l - k + 1 ELSE 0)
          /\ \A i \in 1 .. l - k + 1 : SubSeq(b, k, l)[i] = b[k + i - 1]
      BY <2>1, SubSeqProperties
    <3> QED BY <3>1 DEF k, l
  <2> HIDE DEF x
  <2>3. Len(x) = n
    BY <2>1, <2>2 DEF k, l
  <2>4. \A i \in 1 .. n : x[i] = b[pos + i]
    <3> SUFFICES ASSUME NEW i \in 1 .. n PROVE x[i] = b[pos + i]
      OBVIOUS
    <3>1. k + i - 1 = pos + i
      BY <1>1 DEF k
    <3>2. x[i] = b[k + i - 1]
      BY <2>1, <2>2
    <3> QED BY <3>1, <3>2
  <2>5. take(b, pos, n) = [ok |-> TRUE, val |-> x, pos |-> pos + n]
    BY <1>3 DEF take, x
  <2>6. pos + n \in pos .. Len(b) /\ pos + n <= Len(b)
    BY <1>1, <1>3
  <2> QED BY <2>2, <2>3, <2>4, <2>5, <2>6
<1> QED BY <1>2, <1>3

\* A successful take, and nothing else, has this result.
LEMMA TakeIs ==
  ASSUME NEW b \in Seq(Byte), NEW pos \in 0 .. Len(b), NEW x \in Seq(Byte), At(b, pos, x)
  PROVE  take(b, pos, Len(x)) = [ok |-> TRUE, val |-> x, pos |-> pos + Len(x)]
<1> DEFINE n == Len(x)
           r == take(b, pos, n)
<1>1. n \in Nat /\ Len(b) \in Nat /\ pos + n <= Len(b) /\ \A i \in 1 .. n : b[pos + i] = x[i]
  BY LenProperties DEF At
<1>2. r.ok /\ r.val \in Seq(Byte) /\ Len(r.val) = n /\ \A i \in 1 .. n : r.val[i] = b[pos + i]
  <2> HIDE DEF n
  <2> QED BY <1>1, TakeBytes
<1>3. r.val = x
  <2> DEFINE y == r.val
  <2>1. y \in Seq(Byte) /\ Len(y) = Len(x) /\ \A i \in 1 .. Len(y) : y[i] = x[i]
    BY <1>1, <1>2
  <2> HIDE DEF y
  <2>2. y = x
    BY ONLY <2>1, x \in Seq(Byte), SeqEqual
  <2> QED BY <2>2 DEF y
<1>4. r = [ok |-> TRUE, val |-> r.val, pos |-> pos + n]
  <2>1. ~ (pos + n > Len(b))
    BY <1>1
  <2>2. r = [ok |-> TRUE, val |-> SubSeq(b, pos + 1, pos + n), pos |-> pos + n]
    <3> HIDE DEF n
    <3> QED BY <2>1, Zenon DEF take
  <2> HIDE DEF r, n
  <2> QED BY <2>2
<1> QED BY <1>3, <1>4

LEMMA SameTake ==
  ASSUME NEW c, NEW f, FrontOf(c, f), NEW pos \in 0 .. Len(c), NEW n \in Nat,
         take(c, pos, n).ok
  PROVE  take(f, pos, n) = take(c, pos, n)
<1> DEFINE x == take(c, pos, n).val
<1>1. c \in Seq(Byte) /\ f \in Seq(Byte) /\ Len(c) \in Nat /\ Len(f) \in Nat /\ Len(c) <= Len(f)
  BY LenProperties DEF FrontOf
<1>2. pos \in 0 .. Len(f)
  BY <1>1
<1>3. pos + n <= Len(c) /\ x \in Seq(Byte) /\ Len(x) = n /\ \A i \in 1 .. n : x[i] = c[pos + i]
  BY <1>1, TakeBytes
<1> HIDE DEF x
<1>4. At(c, pos, x)
  BY <1>3 DEF At
<1>5. At(f, pos, x)
  <2>1. \A i \in 1 .. n : f[pos + i] = x[i]
    <3> SUFFICES ASSUME NEW i \in 1 .. n PROVE f[pos + i] = x[i]
      OBVIOUS
    <3>1. pos + i \in 1 .. Len(c)
      BY <1>1, <1>3
    <3>2. c[pos + i] = f[pos + i]
      BY <3>1 DEF FrontOf
    <3> QED BY <1>3, <3>2
  <2> QED BY <1>1, <1>3, <2>1 DEF At
<1>6. take(c, pos, Len(x)) = [ok |-> TRUE, val |-> x, pos |-> pos + Len(x)]
  BY <1>1, <1>3, <1>4, TakeIs
<1>7. take(f, pos, Len(x)) = [ok |-> TRUE, val |-> x, pos |-> pos + Len(x)]
  BY <1>1, <1>2, <1>3, <1>5, TakeIs
<1> QED BY <1>3, <1>6, <1>7

\* The fields of a body that a tuple of reads takes.
IntTypes == FixedTypes \cup {"varint"}
Result(b) == [ok : BOOLEAN, val : Int, pos : 0 .. Len(b)]

LEMMA WidthFacts ==
  ASSUME NEW type \in FixedTypes
  PROVE  Width[type] \in Nat \ {0} /\ type # "varint" /\ type # "string"
<1>1. Width[type] \in Nat \ {0}
  BY WidthsAssumption
<1>2. type # "varint" /\ type # "string"
  BY DEF FixedTypes
<1> QED BY <1>1, <1>2

LEMMA ReadFixed ==
  ASSUME NEW type \in FixedTypes, NEW b, NEW pos
  PROVE  /\ read(type, b, pos).ok = take(b, pos, Width[type]).ok
         /\ read(type, b, pos).pos = take(b, pos, Width[type]).pos
         /\ read(type, b, pos).val = word(take(b, pos, Width[type]).val)
         /\ read(type, b, pos) = [take(b, pos, Width[type]) EXCEPT !.val = word(@)]
<1> DEFINE s == take(b, pos, Width[type])
<1>1. read(type, b, pos) = [s EXCEPT !.val = word(s.val)]
  BY WidthFacts, Zenon DEF read
<1>2. \E a1, a2, a3 : s = [ok |-> a1, val |-> a2, pos |-> a3]
  BY DEF take, Failed
<1> HIDE DEF s
<1>3. PICK a1, a2, a3 : s = [ok |-> a1, val |-> a2, pos |-> a3]
  BY <1>2
<1> QED BY <1>1, <1>3 DEF s

LEMMA ReadVarIntField ==
  ASSUME NEW b, NEW pos PROVE read("varint", b, pos) = read_varint(b, pos)
<1>1. "varint" \notin FixedTypes /\ "varint" # "string"
  BY DEF FixedTypes
<1> QED BY <1>1, Zenon DEF read

\* A read returns a number and moves forward within the body.
LEMMA FieldType ==
  ASSUME NEW type \in IntTypes, NEW b \in Seq(Byte), NEW pos \in 0 .. Len(b)
  PROVE  /\ read(type, b, pos) \in Result(b)
         /\ read(type, b, pos).pos \in pos .. Len(b)
         /\ read(type, b, pos).ok => read(type, b, pos).pos > pos
<1>0. Len(b) \in Nat /\ pos \in Nat
  BY LenProperties
<1>1. CASE type = "varint"
  <2> DEFINE r == read_varint(b, pos)
  <2>1. Within(r, b, pos)
    BY ReadVarIntWithin
  <2>2. \E a1, a2, a3 : r = [ok |-> a1, val |-> a2, pos |-> a3]
    BY ReadTurns DEF Stopped
  <2>3. read(type, b, pos) = r
    BY <1>1, ReadVarIntField
  <2> HIDE DEF r
  <2>4. r.pos \in pos .. Len(b) /\ r.val \in Signed /\ r.ok \in BOOLEAN /\ (r.ok => r.pos > pos)
    BY <2>1 DEF Within
  <2>5. r.val \in Int
    BY <2>4, IntSizes DEF Signed
  <2>6. r \in Result(b)
    <3>1. PICK a1, a2, a3 : r = [ok |-> a1, val |-> a2, pos |-> a3]
      BY <2>2
    <3> QED BY <1>0, <2>4, <2>5, <3>1 DEF Result
  <2> QED BY <2>3, <2>4, <2>6
<1>2. CASE type \in FixedTypes
  <2> DEFINE s == take(b, pos, Width[type])
             r == read(type, b, pos)
  <2>1. Width[type] \in Nat \ {0}
    BY <1>2, WidthFacts
  <2>2. /\ s.ok \in BOOLEAN /\ s.pos \in pos .. Len(b) /\ s.val \in Seq(Byte)
        /\ s.ok => s.pos = pos + Width[type]
    BY <2>1, TakeBytes
  <2>3. word(s.val) \in Int
    <3>1. PICK g : ReadsWord(g, s.val)
      BY <2>2, WordDef
    <3>2. Len(s.val) \in Nat
      BY <2>2, LenProperties
    <3> HIDE DEF s
    <3> QED BY <3>1, <3>2 DEF ReadsWord
  <2>4. r.ok = s.ok /\ r.pos = s.pos /\ r.val = word(s.val) /\ r = [s EXCEPT !.val = word(@)]
    BY <1>2, ReadFixed
  <2>5. \E a1, a2, a3 : s = [ok |-> a1, val |-> a2, pos |-> a3]
    BY DEF take, Failed
  <2> HIDE DEF s, r
  <2>6. r \in Result(b)
    <3>1. PICK a1, a2, a3 : s = [ok |-> a1, val |-> a2, pos |-> a3]
      BY <2>5
    <3> QED BY <1>0, <2>2, <2>3, <2>4, <3>1 DEF Result
  <2>7. r.ok => r.pos > pos
    BY <1>0, <2>1, <2>2, <2>4
  <2> QED BY <2>2, <2>4, <2>6, <2>7 DEF r
<1> QED BY <1>1, <1>2 DEF IntTypes

\* A field that could be read from the front of a body is the body's.
LEMMA SameField ==
  ASSUME NEW type \in IntTypes, NEW c, NEW f, FrontOf(c, f), NEW pos \in 0 .. Len(c),
         read(type, c, pos).ok
  PROVE  read(type, f, pos) = read(type, c, pos)
<1>1. CASE type = "varint"
  BY <1>1, ReadVarIntField, SameVarInt
<1>2. CASE type \in FixedTypes
  <2>1. Width[type] \in Nat
    BY <1>2, WidthFacts
  <2>2. take(c, pos, Width[type]).ok
    BY <1>2, ReadFixed
  <2>3. take(f, pos, Width[type]) = take(c, pos, Width[type])
    BY <2>1, <2>2, SameTake
  <2> QED BY <1>2, <2>3, ReadFixed
<1> QED BY <1>1, <1>2 DEF IntTypes

\* The value v can be said in a field of its type.
Fits(type, v) ==
  \/ type = "varint" /\ v \in Signed
  \/ type \in FixedTypes /\ v \in Words(type)

\* A field is read back, wherever it stands.
LEMMA FieldBack ==
  ASSUME NEW type \in IntTypes, NEW v, Fits(type, v), NEW b \in Seq(Byte), NEW pos \in 0 .. Len(b),
         At(b, pos, write(type, v))
  PROVE  read(type, b, pos) = [ok |-> TRUE, val |-> v, pos |-> pos + Len(write(type, v))]
<1>1. CASE type = "varint"
  <2>1. v \in Signed
    BY <1>1 DEF Fits, FixedTypes
  <2>2. write(type, v) = write_varint(v)
    <3>1. "varint" \notin FixedTypes /\ "varint" # "string" /\ "varint" # "bytes"
      BY DEF FixedTypes
    <3> QED BY <1>1, <3>1, Zenon DEF write
  <2> QED BY <1>1, <2>1, <2>2, VarIntBack, ReadVarIntField
<1>2. CASE type \in FixedTypes
  <2> DEFINE w == Width[type]
             x == be(v, w)
             s == take(b, pos, w)
  <2>1. w \in Nat \ {0} /\ type # "varint" /\ type # "string"
    BY <1>2, WidthFacts
  <2>2. v \in 0 .. words[w] - 1
    BY <1>2, <2>1 DEF Fits, Words
  <2>3. words[w] \in Nat
    BY <2>1, WordsDef
  <2>4. v \in Nat
    <3> HIDE DEF w
    <3> QED BY <2>2, <2>3
  <2>5. x \in Seq(Byte) /\ Len(x) = w /\ word(x) = v
    <3> HIDE DEF w
    <3> QED BY <2>1, <2>2, <2>4, BeBytes, WordRoundTrip
  <2>6. write(type, v) = x
    <3>1. type # "bytes"
      BY <1>2 DEF FixedTypes
    <3> QED BY <1>2, <2>1, <3>1, Zenon DEF write
  <2> HIDE DEF x, w
  <2>7. take(b, pos, Len(x)) = [ok |-> TRUE, val |-> x, pos |-> pos + Len(x)]
    BY <2>5, <2>6, TakeIs
  <2>8. s = [ok |-> TRUE, val |-> x, pos |-> pos + w]
    BY <2>5, <2>7
  <2>9. read(type, b, pos) = [s EXCEPT !.val = word(@)]
    BY <1>2, ReadFixed DEF w
  <2> HIDE DEF s
  <2>10. read(type, b, pos) = [ok |-> TRUE, val |-> word(x), pos |-> pos + w]
    BY <2>8, <2>9
  <2> QED BY <2>5, <2>6, <2>10
<1> QED BY <1>1, <1>2 DEF IntTypes

\* g are the results of reads of these types, each from where the one before it
\* left off.
From(g, i, pos) == IF i = 1 THEN pos ELSE g[i - 1].pos

Reads(g, types, b, pos) ==
  \A i \in 1 .. Len(types) :
    /\ g[i] = read(types[i], b, From(g, i, pos)) /\ g[i] \in Result(b)
    /\ From(g, i, pos) \in 0 .. Len(b) /\ g[i].pos \in From(g, i, pos) .. Len(b)

LEMMA ReadAllRuns ==
  ASSUME NEW types \in Seq(IntTypes), NEW b \in Seq(Byte), NEW pos \in 0 .. Len(b)
  PROVE  Reads(read_all(types, b, pos), types, b, pos)
<1> DEFINE N == Len(types)
           eq(f) == f = [i \in DOMAIN types |-> read(types[i], b, IF i = 1 THEN pos ELSE f[i - 1].pos)]
           step == [x \in (1 .. N) \X Result(b) |-> read(types[x[1]], b, x[2].pos)]
           base == [ok |-> FALSE, val |-> 0, pos |-> pos]
           f == CHOOSE h : eq(h)
<1>1. /\ N \in Nat /\ DOMAIN types = 1 .. N /\ \A i \in 1 .. N : types[i] \in IntTypes
      /\ base \in Result(b)
  BY LenProperties, ElementOfSeq DEF Result
<1>2. ASSUME NEW i \in 1 .. N, NEW s \in Result(b)
      PROVE  /\ step[<<i, s>>] = read(types[i], b, s.pos) /\ read(types[i], b, s.pos) \in Result(b)
             /\ s.pos \in 0 .. Len(b) /\ read(types[i], b, s.pos).pos \in s.pos .. Len(b)
  <2>1. s.pos \in 0 .. Len(b)
    BY DEF Result
  <2>2. types[i] \in IntTypes
    BY <1>1
  <2>3. read(types[i], b, s.pos) \in Result(b) /\ read(types[i], b, s.pos).pos \in s.pos .. Len(b)
    BY <2>1, <2>2, FieldType
  <2>4. <<i, s>> \in (1 .. N) \X Result(b)
    OBVIOUS
  <2>5. step[<<i, s>>] = read(types[i], b, s.pos)
    BY <2>4
  <2> QED BY <2>1, <2>3, <2>5
<1> HIDE DEF N
<1>3. PICK g : Counted(g, N, Result(b), base, step)
  <2>1. step \in [(1 .. N) \X Result(b) -> Result(b)]
    <3>1. ASSUME NEW x \in (1 .. N) \X Result(b) PROVE read(types[x[1]], b, x[2].pos) \in Result(b)
      <4>1. x[1] \in 1 .. N /\ x[2] \in Result(b)
        OBVIOUS
      <4> QED BY <1>2, <4>1
    <3> QED BY <3>1
  <2> HIDE DEF step, base
  <2> QED BY <1>1, <2>1, CountedRecursion
<1> DEFINE h == [i \in DOMAIN types |-> g[i]]
<1> HIDE DEF step
<1>4. ASSUME NEW i \in 1 .. N PROVE g[i] = read(types[i], b, g[i - 1].pos) /\ g[i - 1] \in Result(b)
  <2>1. i - 1 \in 0 .. N
    BY <1>1
  <2>2. g[i - 1] \in Result(b) /\ g[i] = step[<<i, g[i - 1]>>]
    BY <1>3, <2>1 DEF Counted
  <2> QED BY <1>2, <2>2
<1>5. g[0].pos = pos
  BY <1>3 DEF Counted
<1>6. ASSUME NEW i \in 1 .. N PROVE g[i - 1].pos = IF i = 1 THEN pos ELSE h[i - 1].pos
  <2>1. CASE i = 1
    BY <1>5, <2>1
  <2>2. CASE i # 1
    <3>1. i - 1 \in DOMAIN types
      BY <1>1, <2>2
    <3> QED BY <2>2, <3>1
  <2> QED BY <2>1, <2>2
<1>7. eq(h)
  <2>1. \A i \in DOMAIN types : g[i] = read(types[i], b, IF i = 1 THEN pos ELSE h[i - 1].pos)
    BY <1>1, <1>4, <1>6
  <2>2. h = [i \in DOMAIN types |-> g[i]]
    OBVIOUS
  <2> HIDE DEF h
  <2> QED BY <2>1, <2>2
<1>8. eq(f)
  <2>1. \E k : eq(k)
    <3> HIDE DEF eq, h
    <3> QED BY <1>7
  <2> HIDE DEF eq
  <2> QED BY <2>1
<1>9. read_all(types, b, pos) = f
  BY Zenon DEF read_all
<1> HIDE DEF f
<1>10. \A i \in 1 .. N : f[i] = read(types[i], b, From(f, i, pos))
  BY <1>1, <1>8 DEF From
<1> DEFINE T == {i \in 0 .. N : i = 0 \/ f[i] \in Result(b)}
<1>11. 0 .. N \subseteq T
  <2>1. 0 \in T
    BY <1>1
  <2>2. ASSUME NEW k \in 0 .. N - 1, k \in T PROVE k + 1 \in T
    <3>1. k + 1 \in 1 .. N /\ k + 1 \in 0 .. N /\ (k + 1) - 1 = k
      BY <1>1
    <3>2. From(f, k + 1, pos) \in 0 .. Len(b)
      <4>1. CASE k = 0
        BY <4>1 DEF From
      <4>2. CASE k # 0
        <5>1. f[k] \in Result(b) /\ k + 1 # 1
          BY <2>2, <4>2
        <5> QED BY <3>1, <5>1 DEF From, Result
      <4> QED BY <4>1, <4>2
    <3>3. types[k + 1] \in IntTypes
      BY <1>1, <3>1
    <3>4. f[k + 1] \in Result(b)
      BY <1>10, <3>1, <3>2, <3>3, FieldType
    <3> QED BY <3>1, <3>4
  <2> HIDE DEF T
  <2> QED BY <1>1, <2>1, <2>2, UpTo
<1>12. ASSUME NEW i \in 1 .. N
       PROVE  /\ f[i] \in Result(b) /\ From(f, i, pos) \in 0 .. Len(b)
              /\ f[i].pos \in From(f, i, pos) .. Len(b)
  <2>1. i \in T /\ i - 1 \in T /\ i # 0
    BY <1>1, <1>11
  <2>2. f[i] \in Result(b) /\ (i = 1 \/ f[i - 1] \in Result(b))
    BY <2>1
  <2>3. From(f, i, pos) \in 0 .. Len(b)
    BY <2>2 DEF From, Result
  <2>4. types[i] \in IntTypes
    BY <1>1
  <2> QED BY <1>10, <2>2, <2>3, <2>4, FieldType
<1>13. Reads(f, types, b, pos)
  BY <1>10, <1>12 DEF Reads, N
<1> QED BY <1>9, <1>13

\* Fields that could all be read from the front of a body are the body's.
LEMMA SameFields ==
  ASSUME NEW c, NEW f, FrontOf(c, f), NEW pos \in 0 .. Len(c), NEW types \in Seq(IntTypes),
         NEW k \in 0 .. Len(types), AllOk(read_all(types, c, pos), 1 .. k)
  PROVE  \A i \in 1 .. k : read_all(types, f, pos)[i] = read_all(types, c, pos)[i]
<1> DEFINE g == read_all(types, c, pos)
           h == read_all(types, f, pos)
           T == {n \in 0 .. k : \A i \in 1 .. n : h[i] = g[i]}
<1>1. c \in Seq(Byte) /\ f \in Seq(Byte) /\ pos \in 0 .. Len(f) /\ Len(types) \in Nat /\ k \in Nat
  <2>1. c \in Seq(Byte) /\ f \in Seq(Byte) /\ Len(c) <= Len(f) /\ Len(c) \in Nat /\ Len(f) \in Nat
    BY LenProperties DEF FrontOf
  <2> QED BY <2>1, LenProperties
<1>2. Reads(g, types, c, pos) /\ Reads(h, types, f, pos)
  BY <1>1, ReadAllRuns
<1>3. \A i \in 1 .. k : g[i].ok
  BY DEF AllOk
<1> HIDE DEF g, h
<1>4. 0 \in T
  BY <1>1
<1>5. ASSUME NEW n \in 0 .. k - 1, n \in T PROVE n + 1 \in T
  <2> DEFINE i == n + 1
  <2>1. i \in 1 .. k /\ i \in 1 .. Len(types) /\ i - 1 = n /\ n \in Nat
    BY <1>1
  <2>2. \A j \in 1 .. n : h[j] = g[j]
    BY <1>5
  <2>3. From(h, i, pos) = From(g, i, pos)
    <3>1. CASE n = 0
      BY <3>1 DEF From
    <3>2. CASE n # 0
      <4>1. h[n] = g[n]
        BY <2>1, <2>2, <3>2
      <4> QED BY <2>1, <4>1 DEF From
    <3> QED BY <3>1, <3>2
  <2> HIDE DEF i
  <2> DEFINE p == From(g, i, pos)
  <2>4. /\ g[i] = read(types[i], c, p) /\ p \in 0 .. Len(c) /\ h[i] = read(types[i], f, p)
        /\ types[i] \in IntTypes
    BY <1>2, <2>1, <2>3, ElementOfSeq DEF Reads
  <2>5. g[i].ok
    BY <1>3, <2>1
  <2> HIDE DEF p
  <2>6. h[i] = g[i]
    BY <2>4, <2>5, SameField
  <2>7. \A j \in 1 .. n + 1 : j \in 1 .. n \/ j = i
    BY <2>1 DEF i
  <2> QED BY <2>1, <2>2, <2>6, <2>7
<1>6. k \in T
  <2>1. 0 .. k \subseteq T
    <3> HIDE DEF T
    <3> QED BY <1>1, <1>4, <1>5, UpTo
  <2> HIDE DEF T
  <2> QED BY <1>1, <2>1
<1> QED BY <1>6 DEF g, h

\* Bytes that stand one after the other.
LEMMA AtBoth ==
  ASSUME NEW b \in Seq(Byte), NEW pos \in Nat, NEW x \in Seq(Byte), NEW y \in Seq(Byte),
         NEW z, z = x \o y, At(b, pos, z)
  PROVE  At(b, pos, x) /\ At(b, pos + Len(x), y)
<1>1. /\ z \in Seq(Byte) /\ Len(z) = Len(x) + Len(y)
      /\ \A i \in 1 .. Len(x) + Len(y) : z[i] = IF i <= Len(x) THEN x[i] ELSE y[i - Len(x)]
  BY ConcatProperties
<1> DEFINE m == Len(x)
           n == Len(y)
<1>2. m \in Nat /\ n \in Nat /\ Len(b) \in Nat
  BY LenProperties
<1>3. pos + (m + n) <= Len(b) /\ \A i \in 1 .. m + n : b[pos + i] = z[i]
  BY <1>1 DEF At
<1>4. \A i \in 1 .. m + n : z[i] = IF i <= m THEN x[i] ELSE y[i - m]
  BY <1>1
<1>5. pos + m <= Len(b) /\ (pos + m) + n <= Len(b)
  <2> HIDE DEF m, n
  <2> QED BY <1>2, <1>3
<1> HIDE DEF m, n
<1>6. ASSUME NEW i \in 1 .. m PROVE b[pos + i] = x[i]
  <2>1. i \in 1 .. m + n /\ i <= m
    BY <1>2
  <2>2. b[pos + i] = z[i] /\ z[i] = x[i]
    BY <1>3, <1>4, <2>1
  <2> QED BY <2>2
<1>7. ASSUME NEW i \in 1 .. n PROVE b[(pos + m) + i] = y[i]
  <2>1. m + i \in 1 .. m + n /\ ~ (m + i <= m) /\ (m + i) - m = i /\ (pos + m) + i = pos + (m + i)
    BY <1>2
  <2> QED BY <1>3, <1>4, <2>1
<1> QED BY <1>5, <1>6, <1>7 DEF At, m, n

\* A string is read back, wherever it stands.
LEMMA StringBack ==
  ASSUME NEW s \in Texts, NEW b \in Seq(Byte), NEW pos \in 0 .. Len(b),
         At(b, pos, write("string", s))
  PROVE  read_string(b, pos).ok /\ read_string(b, pos).val = s
<1> DEFINE x == write_varint(Len(s))
           z == x \o s
           p == pos + Len(x)
           size == read_varint(b, pos)
           r == take(b, size.pos, size.val)
<1>1. s \in Seq(Byte) /\ Utf8(s) /\ Len(s) \in Signed /\ Len(s) \in Nat
  BY LenProperties DEF Texts
<1>2. write("string", s) = z
  <2>1. "string" \notin FixedTypes /\ "string" # "varint" /\ "string" # "bytes"
    BY DEF FixedTypes
  <2> QED BY <2>1, Zenon DEF write
<1>3. x \in Seq(Byte)
  <2>1. Len(s) \in Int
    BY <1>1
  <2> QED BY <2>1, AsUnsigned, EncodeType DEF write_varint
<1>4. At(b, pos, x) /\ At(b, p, s)
  <2>1. At(b, pos, z)
    BY <1>2
  <2>2. z = x \o s
    OBVIOUS
  <2>3. pos \in Nat
    OBVIOUS
  <2> HIDE DEF z, x
  <2> QED BY <1>1, <1>3, <2>1, <2>2, <2>3, AtBoth
<1>5. size = [ok |-> TRUE, val |-> Len(s), pos |-> p]
  BY <1>1, <1>4, VarIntBack
<1>6. p \in 0 .. Len(b)
  <2>1. Len(x) \in Nat /\ p <= Len(b) /\ Len(b) \in Nat
    BY <1>3, <1>4, LenProperties DEF At
  <2> HIDE DEF x
  <2> QED BY <2>1
<1> HIDE DEF p, x, z
<1>7. r = [ok |-> TRUE, val |-> s, pos |-> p + Len(s)]
  <2>1. take(b, p, Len(s)) = [ok |-> TRUE, val |-> s, pos |-> p + Len(s)]
    BY <1>1, <1>4, <1>6, TakeIs
  <2> HIDE DEF size
  <2> QED BY <1>5, <2>1
<1>8. read_string(b, pos) = IF ~size.ok \/ size.val < 0 THEN Failed(size.pos)
                            ELSE [r EXCEPT !.ok = r.ok /\ Utf8(r.val)]
  BY Zenon DEF read_string
<1> HIDE DEF size, r
<1>9. read_string(b, pos) = [r EXCEPT !.ok = r.ok /\ Utf8(r.val)]
  <2>1. ~ (~size.ok \/ size.val < 0)
    BY <1>1, <1>5
  <2> QED BY <1>8, <2>1
<1> QED BY <1>1, <1>7, <1>9

\* A string that could be read from the front of a body is the body's.
LEMMA SameString ==
  ASSUME NEW c, NEW f, FrontOf(c, f), NEW pos \in 0 .. Len(c), read_string(c, pos).ok
  PROVE  read_string(f, pos) = read_string(c, pos)
<1> DEFINE size(b) == read_varint(b, pos)
           r(b) == take(b, size(b).pos, size(b).val)
<1>1. ASSUME NEW b
      PROVE  read_string(b, pos) = IF ~size(b).ok \/ size(b).val < 0 THEN Failed(size(b).pos)
                                   ELSE [r(b) EXCEPT !.ok = r(b).ok /\ Utf8(r(b).val)]
  BY Zenon DEF read_string
<1>2. c \in Seq(Byte)
  BY DEF FrontOf
<1>3. Within(size(c), c, pos)
  BY <1>2, ReadVarIntWithin
<1>4. size(c).ok /\ size(c).val \in Nat /\ size(c).pos \in 0 .. Len(c)
  <2>1. ~ (~size(c).ok \/ size(c).val < 0)
    <3> SUFFICES ASSUME ~size(c).ok \/ size(c).val < 0 PROVE FALSE
      OBVIOUS
    <3> HIDE DEF size
    <3>1. read_string(c, pos) = Failed(size(c).pos)
      BY <1>1
    <3> QED BY <3>1 DEF Failed
  <2> HIDE DEF size
  <2>2. size(c).val \in Int /\ size(c).pos \in pos .. Len(c)
    BY <1>3, IntSizes DEF Within, Signed
  <2> QED BY <2>1, <2>2
<1>5. size(f) = size(c)
  BY <1>4, SameVarInt
<1> HIDE DEF size
<1>6. read_string(c, pos) = [r(c) EXCEPT !.ok = r(c).ok /\ Utf8(r(c).val)]
  <2>1. ~ (~size(c).ok \/ size(c).val < 0)
    BY <1>4
  <2> HIDE DEF r
  <2> QED BY <1>1, <2>1
<1>7. r(c).ok
  <2>1. \E a1, a2, a3 : r(c) = [ok |-> a1, val |-> a2, pos |-> a3]
    BY DEF take, Failed
  <2> HIDE DEF r
  <2> QED BY <1>6, <2>1
<1>8. r(f) = r(c)
  BY <1>4, <1>5, <1>7, SameTake
<1>9. read_string(f, pos) = [r(f) EXCEPT !.ok = r(f).ok /\ Utf8(r(f).val)]
  <2>1. ~ (~size(f).ok \/ size(f).val < 0)
    BY <1>4, <1>5
  <2> HIDE DEF r
  <2> QED BY <1>1, <2>1
<1> HIDE DEF r
<1> QED BY <1>6, <1>8, <1>9

-----------------------------------------------------------------------------
(***************************************************************************)
(* Writing one piece after another, and where the pieces then stand.       *)
(***************************************************************************)
\* z is the pieces s joined; the i-th stands after P[i - 1].
Joined(s, z, P) ==
  /\ z \in Seq(Byte) /\ P \in [0 .. Len(s) -> Nat] /\ P[0] = 0 /\ P[Len(s)] = Len(z)
  /\ \A i \in 1 .. Len(s) : P[i] = P[i - 1] + Len(s[i]) /\ At(z, P[i - 1], s[i])

\* What stands in a body stands in any longer one.
LEMMA AtAppended ==
  ASSUME NEW x \in Seq(Byte), NEW y \in Seq(Byte), NEW z, z = x \o y
  PROVE  /\ z \in Seq(Byte) /\ Len(z) = Len(x) + Len(y) /\ At(z, Len(x), y)
         /\ \A p \in Nat : \A a \in Seq(Byte) : At(x, p, a) => At(z, p, a)
<1>1. /\ z \in Seq(Byte) /\ Len(z) = Len(x) + Len(y)
      /\ \A i \in 1 .. Len(x) + Len(y) : z[i] = IF i <= Len(x) THEN x[i] ELSE y[i - Len(x)]
  BY ConcatProperties
<1> DEFINE m == Len(x)
           n == Len(y)
<1>2. m \in Nat /\ n \in Nat /\ Len(z) = m + n
  BY <1>1, LenProperties
<1>3. \A i \in 1 .. m + n : z[i] = IF i <= m THEN x[i] ELSE y[i - m]
  BY <1>1
<1> HIDE DEF m, n
<1>4. At(z, m, y)
  <2>1. ASSUME NEW i \in 1 .. n PROVE z[m + i] = y[i]
    <3>1. m + i \in 1 .. m + n /\ ~ (m + i <= m) /\ (m + i) - m = i
      BY <1>2
    <3> QED BY <1>3, <3>1
  <2> QED BY <1>2, <2>1 DEF At, n
<1>5. ASSUME NEW p \in Nat, NEW a \in Seq(Byte), At(x, p, a) PROVE At(z, p, a)
  <2>1. Len(a) \in Nat /\ p + Len(a) <= m /\ \A i \in 1 .. Len(a) : x[p + i] = a[i]
    BY <1>5, LenProperties DEF At, m
  <2>2. ASSUME NEW i \in 1 .. Len(a) PROVE z[p + i] = a[i]
    <3>1. p + i \in 1 .. m + n /\ p + i <= m
      BY <1>2, <2>1
    <3>2. z[p + i] = x[p + i]
      BY <1>3, <3>1
    <3> QED BY <2>1, <3>2
  <2> QED BY <1>2, <2>1, <2>2 DEF At
<1> QED BY <1>1, <1>4, <1>5 DEF m

\* z is x followed by y.
Appended(x, y, z) == z = x \o y

\* Where the pieces stand that FlattenSeq joins.
LEMMA Flattened ==
  ASSUME NEW s \in Seq(Seq(Byte))
  PROVE  \E P : Joined(s, FlattenSeq(s), P)
<1> DEFINE N == Len(s)
<1>1. N \in Nat /\ \A i \in 1 .. N : s[i] \in Seq(Byte) /\ Len(s[i]) \in Nat
  BY LenProperties, ElementOfSeq
<1> DEFINE stepP == [x \in (1 .. N) \X Nat |-> x[2] + Len(s[x[1]])]
<1>2. PICK P : Counted(P, N, Nat, 0, stepP)
  <2>1. stepP \in [(1 .. N) \X Nat -> Nat]
    <3>1. ASSUME NEW x \in (1 .. N) \X Nat PROVE x[2] + Len(s[x[1]]) \in Nat
      <4>1. x[1] \in 1 .. N /\ x[2] \in Nat
        OBVIOUS
      <4> HIDE DEF N
      <4> QED BY <1>1, <4>1
    <3> QED BY <3>1
  <2> HIDE DEF stepP, N
  <2> QED BY <1>1, <2>1, CountedRecursion
<1>3. P \in [0 .. N -> Nat] /\ P[0] = 0 /\ \A i \in 1 .. N : P[i] = P[i - 1] + Len(s[i])
  <2>1. P \in [0 .. N -> Nat] /\ P[0] = 0
    BY <1>2 DEF Counted
  <2>2. ASSUME NEW i \in 1 .. N PROVE P[i] = P[i - 1] + Len(s[i])
    <3>1. P[i - 1] \in Nat /\ P[i] = stepP[<<i, P[i - 1]>>]
      <4>1. i - 1 \in 0 .. N
        BY <1>1
      <4> HIDE DEF N, stepP
      <4> QED BY <1>2, <2>1, <4>1 DEF Counted
    <3> HIDE DEF N
    <3> QED BY <3>1
  <2> QED BY <2>1, <2>2
<1> HIDE DEF stepP
<1>4. CASE N = 0
  <2>1. FlattenSeq(s) = s
    BY <1>4, Zenon DEF FlattenSeq
  <2>2. s = <<>> /\ s \in Seq(Byte)
    <3>1. s = <<>>
      BY <1>4, EmptySeq
    <3> QED BY <3>1, EmptySeq
  <2>3. \A i \in 1 .. Len(s) : FALSE
    BY <1>4
  <2>4. Joined(s, s, P)
    BY <1>3, <1>4, <2>2, <2>3 DEF Joined
  <2> QED BY <2>1, <2>4
<1>5. CASE N # 0
  <2> DEFINE eq(f) == f = [i \in 1 .. N |-> IF i = 1 THEN s[i] ELSE f[i - 1] \o s[i]]
             step == [x \in (1 .. N) \X Seq(Byte) |-> IF x[1] = 1 THEN s[1] ELSE x[2] \o s[x[1]]]
             f == CHOOSE h : eq(h)
  <2>1. FlattenSeq(s) = f[N]
    BY <1>5, Zenon DEF FlattenSeq
  <2>2. ASSUME NEW i \in 1 .. N, NEW a \in Seq(Byte)
        PROVE  /\ step[<<i, a>>] = IF i = 1 THEN s[1] ELSE a \o s[i]
               /\ step[<<i, a>>] \in Seq(Byte)
    <3>1. <<i, a>> \in (1 .. N) \X Seq(Byte) /\ s[i] \in Seq(Byte)
      BY <1>1
    <3>2. step[<<i, a>>] = IF i = 1 THEN s[1] ELSE a \o s[i]
      BY <3>1, Zenon
    <3>3. a \o s[i] \in Seq(Byte)
      BY <3>1, ConcatProperties
    <3>4. CASE i = 1
      BY <3>1, <3>2, <3>4, Zenon
    <3>5. CASE i # 1
      BY <3>2, <3>3, <3>5, Zenon
    <3> QED BY <3>2, <3>4, <3>5
  <2>3. PICK g : Counted(g, N, Seq(Byte), <<>>, step)
    <3>1. step \in [(1 .. N) \X Seq(Byte) -> Seq(Byte)]
      <4>1. \A i \in 1 .. N, a \in Seq(Byte) : step[<<i, a>>] \in Seq(Byte)
        BY <2>2
      <4>2. step = [x \in (1 .. N) \X Seq(Byte) |-> step[x]]
        BY Zenon
      <4>3. \A x \in (1 .. N) \X Seq(Byte) : \E i \in 1 .. N, a \in Seq(Byte) : x = <<i, a>>
        OBVIOUS
      <4> HIDE DEF step
      <4>4. \A x \in (1 .. N) \X Seq(Byte) : step[x] \in Seq(Byte)
        BY <4>1, <4>3
      <4> QED BY <4>2, <4>4
    <3>2. <<>> \in Seq(Byte)
      BY EmptySeq
    <3> HIDE DEF step, N
    <3> QED BY <1>1, <3>1, <3>2, CountedRecursion
  <2>4. ASSUME NEW i \in 1 .. N
        PROVE  /\ g[i] = IF i = 1 THEN s[i] ELSE g[i - 1] \o s[i]
               /\ g[i] \in Seq(Byte)
    <3>1. i - 1 \in 0 .. N
      BY <1>1
    <3>2. g[i - 1] \in Seq(Byte) /\ g[i] = step[<<i, g[i - 1]>>]
      <4> HIDE DEF step, N
      <4> QED BY <2>3, <3>1 DEF Counted
    <3> HIDE DEF step
    <3>3. step[<<i, g[i - 1]>>] = IF i = 1 THEN s[1] ELSE g[i - 1] \o s[i]
      BY <2>2, <3>2, Zenon
    <3>4. step[<<i, g[i - 1]>>] \in Seq(Byte)
      BY <2>2, <3>2
    <3>5. g[i] = IF i = 1 THEN s[i] ELSE g[i - 1] \o s[i]
      BY <3>2, <3>3, Zenon
    <3>6. g[i] \in Seq(Byte)
      BY <3>2, <3>4, Zenon
    <3> QED BY <3>5, <3>6, Zenon
  <2> HIDE DEF step
  <2> DEFINE h == [i \in 1 .. N |-> g[i]]
  <2>5. eq(h)
    <3>1. ASSUME NEW i \in 1 .. N PROVE h[i] = IF i = 1 THEN s[i] ELSE h[i - 1] \o s[i]
      <4>1. h[i] = g[i]
        BY Zenon
      <4>2. CASE i = 1
        BY <2>4, <4>1, <4>2, Zenon
      <4>3. CASE i # 1
        <5>1. i - 1 \in 1 .. N
          BY <1>1, <4>3
        <5>2. h[i - 1] = g[i - 1]
          BY <5>1, Zenon
        <5> QED BY <2>4, <4>1, <4>3, <5>2, Zenon
      <4> QED BY <4>2, <4>3
    <3>2. h = [i \in 1 .. N |-> h[i]]
      BY Zenon
    <3> HIDE DEF h
    <3> QED BY <3>1, <3>2, Zenon
  <2>6. eq(f)
    <3>1. \E k : eq(k)
      <4> HIDE DEF eq, h
      <4> QED BY <2>5
    <3> HIDE DEF eq
    <3> QED BY <3>1
  <2> HIDE DEF f
  <2>7. /\ f[1] = s[1]
        /\ \A i \in 2 .. N : Appended(f[i - 1], s[i], f[i])
    <3>1. 1 \in 1 .. N /\ \A i \in 2 .. N : i \in 1 .. N /\ i # 1
      BY <1>1, <1>5
    <3>2. f[1] = s[1]
      BY <2>6, <3>1, Zenon
    <3>3. ASSUME NEW i \in 2 .. N PROVE Appended(f[i - 1], s[i], f[i])
      <4>1. i \in 1 .. N /\ i # 1
        BY <3>1
      <4>2. f[i] = f[i - 1] \o s[i]
        BY <2>6, <4>1, Zenon
      <4> QED BY <4>2, Zenon DEF Appended
    <3> QED BY <3>2, <3>3
  <2> DEFINE Good(k) == /\ f[k] \in Seq(Byte) /\ Len(f[k]) = P[k]
                        /\ \A i \in 1 .. k : At(f[k], P[i - 1], s[i])
             T == {k \in 0 .. N - 1 : Good(k + 1)}
  <2>8. 0 \in T
    <3>1. s[1] \in Seq(Byte) /\ Len(s[1]) = P[1] /\ P[0] = 0
      BY <1>1, <1>3, <1>5
    <3>2. At(s[1], 0, s[1])
      <4>1. Len(s[1]) \in Nat
        BY <1>1, <1>5
      <4> QED BY <4>1 DEF At
    <3>3. \A i \in 1 .. 0 + 1 : i = 1 /\ i - 1 = 0
      OBVIOUS
    <3>4. Good(0 + 1)
      BY <2>7, <3>1, <3>2, <3>3
    <3> HIDE DEF Good
    <3> QED BY <1>1, <1>5, <3>4
  <2>9. ASSUME NEW j \in 0 .. (N - 1) - 1, j \in T PROVE j + 1 \in T
    <3> DEFINE k == j + 1
               x == f[k]
               y == s[k + 1]
               z == f[k + 1]
    <3>1. k \in 1 .. N /\ k + 1 \in 2 .. N /\ k + 1 \in 1 .. N /\ (k + 1) - 1 = k /\ k \in 0 .. N - 1
      BY <1>1, <1>5
    <3>2. x \in Seq(Byte) /\ Len(x) = P[k] /\ \A i \in 1 .. k : At(x, P[i - 1], s[i])
      BY <2>9
    <3>3. y \in Seq(Byte) /\ P[k + 1] = P[k] + Len(y)
      BY <1>1, <1>3, <3>1
    <3>4. Appended(x, y, z)
      BY <2>7, <3>1
    <3> HIDE DEF k, x, y, z
    <3>5. /\ z \in Seq(Byte) /\ Len(z) = Len(x) + Len(y) /\ At(z, Len(x), y)
          /\ \A p \in Nat : \A a \in Seq(Byte) : At(x, p, a) => At(z, p, a)
      <4>1. z = x \o y
        BY <3>4, Zenon DEF Appended
      <4> QED BY <3>2, <3>3, <4>1, AtAppended
    <3>6. ASSUME NEW i \in 1 .. k + 1 PROVE At(z, P[i - 1], s[i])
      <4>1. CASE i = k + 1
        BY <3>1, <3>2, <3>5, <4>1 DEF y
      <4>2. CASE i # k + 1
        <5>1. i \in 1 .. k /\ i \in 1 .. N /\ i - 1 \in 0 .. N
          BY <3>1, <4>2
        <5>2. s[i] \in Seq(Byte) /\ P[i - 1] \in Nat
          BY <1>1, <1>3, <5>1
        <5> QED BY <3>2, <3>5, <5>1, <5>2
      <4> QED BY <4>1, <4>2
    <3>7. Good(k + 1)
      BY <3>2, <3>3, <3>5, <3>6 DEF z
    <3> HIDE DEF Good
    <3> QED BY <3>1, <3>7 DEF k
  <2>10. N - 1 \in T
    <3>1. N - 1 \in Nat
      BY <1>1, <1>5
    <3>2. 0 .. N - 1 \subseteq T
      <4> HIDE DEF T
      <4> QED BY <2>8, <2>9, <3>1, UpTo
    <3>3. N - 1 \in 0 .. N - 1
      <4> HIDE DEF N
      <4> QED BY <3>1
    <3> HIDE DEF T, N
    <3> QED BY <3>2, <3>3
  <2>11. Good(N)
    <3>1. (N - 1) + 1 = N
      BY <1>1
    <3>2. Good((N - 1) + 1)
      BY <2>10
    <3> HIDE DEF Good
    <3> QED BY <3>1, <3>2
  <2>12. Joined(s, f[N], P)
    BY <1>3, <2>11 DEF Joined, N
  <2> QED BY <2>1, <2>12
<1> QED BY <1>4, <1>5

(***************************************************************************)
(* Packets: the fields that are written, and the types that are read.      *)
(***************************************************************************)
Piece(fields, i) == write(fields[i][1], fields[i][2])

\* A reader of an id and of these types takes the id and the first n of the other
\* fields for what they are.
Sends(fields, id, types, n) ==
  /\ Len(fields) \in Nat /\ n \in 0 .. Len(types) /\ Len(fields) > n
  /\ \A i \in 1 .. Len(fields) : Piece(fields, i) \in Seq(Byte)
  /\ id \in Signed /\ Piece(fields, 1) = write_varint(id)
  /\ types \in Seq(IntTypes)
  /\ \A i \in 1 .. n : /\ Fits(types[i], fields[i + 1][2])
                      /\ write(types[i], fields[i + 1][2]) = Piece(fields, i + 1)

\* The pieces of a packet stand one after another.
LEMMA WriteAllJoins ==
  ASSUME NEW fields, Len(fields) \in Nat,
         \A i \in 1 .. Len(fields) : Piece(fields, i) \in Seq(Byte)
  PROVE  \E P : Joined([i \in 1 .. Len(fields) |-> Piece(fields, i)], write_all(fields), P)
<1> DEFINE N == Len(fields)
           s == [i \in 1 .. N |-> Piece(fields, i)]
<1>1. s \in Seq(Seq(Byte))
  <2> HIDE DEF N
  <2> QED BY DEF N
<1>2. write_all(fields) = FlattenSeq(s)
  BY Zenon DEF write_all, Concat, Piece
<1> HIDE DEF s
<1>3. \E P : Joined(s, FlattenSeq(s), P)
  BY <1>1, Flattened
<1> QED BY <1>2, <1>3 DEF s

\* The first n of the results g have the values of the fields after the id.
Took(g, fields, n) == \A i \in 1 .. n : g[i].ok /\ g[i].val = fields[i + 1][2]

\* The last of K results leaves nothing of z, if there are no more fields.
Exhausts(g, fields, K, z) == K > 0 /\ Len(fields) = K + 1 => g[K].pos = Len(z)

\* What is sent is read, to its end if all of it is asked for.
LEMMA SentRead ==
  ASSUME NEW fields, NEW id, NEW types, NEW K, Sends(fields, id, types, K)
  PROVE  LET z == write_all(fields)
         IN  /\ z \in Seq(Byte)
             /\ \E p \in 0 .. Len(z) : /\ read_varint(z, 0) = [ok |-> TRUE, val |-> id, pos |-> p]
                                      /\ Took(read_all(types, z, p), fields, K)
                                      /\ Exhausts(read_all(types, z, p), fields, K, z)
<1> DEFINE N == Len(fields)
           z == write_all(fields)
           s == [i \in 1 .. N |-> Piece(fields, i)]
<1>1. /\ N \in Nat /\ K \in Nat /\ N > K /\ \A i \in 1 .. K : i \in 1 .. Len(types)
      /\ \A i \in 1 .. N : Piece(fields, i) \in Seq(Byte)
      /\ id \in Signed /\ Piece(fields, 1) = write_varint(id)
      /\ types \in Seq(IntTypes) /\ \A i \in 1 .. K : types[i] \in IntTypes
  BY LenProperties, ElementOfSeq DEF Sends
<1>2. ASSUME NEW i \in 1 .. K
      PROVE  Fits(types[i], fields[i + 1][2]) /\ write(types[i], fields[i + 1][2]) = Piece(fields, i + 1)
  BY DEF Sends
<1>3. PICK P : Joined(s, z, P)
  BY <1>1, WriteAllJoins
<1> HIDE DEF z
<1>4. /\ z \in Seq(Byte) /\ Len(z) \in Nat /\ P[0] = 0
      /\ \A i \in 1 .. N : /\ P[i - 1] \in Nat /\ P[i] \in Nat
                           /\ P[i] = P[i - 1] + Len(Piece(fields, i)) /\ At(z, P[i - 1], Piece(fields, i))
  <2>1. Len(s) = N /\ \A i \in 1 .. N : s[i] = Piece(fields, i)
    BY <1>1
  <2> HIDE DEF s, N
  <2>2. z \in Seq(Byte) /\ Len(z) \in Nat /\ P[0] = 0 /\ P \in [0 .. N -> Nat]
    BY <1>3, <2>1, LenProperties DEF Joined
  <2>3. ASSUME NEW i \in 1 .. N
        PROVE  /\ P[i - 1] \in Nat /\ P[i] \in Nat
               /\ P[i] = P[i - 1] + Len(Piece(fields, i)) /\ At(z, P[i - 1], Piece(fields, i))
    <3>1. i - 1 \in 0 .. N /\ i \in 0 .. N
      BY <1>1
    <3> QED BY <1>3, <2>1, <2>2, <3>1 DEF Joined
  <2> QED BY <2>2, <2>3
<1> HIDE DEF s, N
<1>5. ASSUME NEW i \in 1 .. N PROVE P[i - 1] \in 0 .. Len(z) /\ P[i] \in 0 .. Len(z)
  <2>1. P[i - 1] + Len(Piece(fields, i)) <= Len(z)
    BY <1>4 DEF At
  <2>2. Len(Piece(fields, i)) \in Nat
    BY <1>1, LenProperties
  <2> QED BY <1>4, <2>1, <2>2
<1>6. read_varint(z, 0) = [ok |-> TRUE, val |-> id, pos |-> P[1]]
  <2>1. 1 \in 1 .. N /\ 1 - 1 = 0
    BY <1>1
  <2>2. At(z, 0, write_varint(id)) /\ 0 \in 0 .. Len(z) /\ P[1] = 0 + Len(write_varint(id))
    BY <1>1, <1>4, <2>1
  <2> QED BY <1>1, <1>4, <2>2, VarIntBack
<1> DEFINE p == P[1]
           g == read_all(types, z, p)
<1>7. p \in 0 .. Len(z)
  BY <1>1, <1>5
<1>8. Reads(g, types, z, p)
  BY <1>1, <1>4, <1>7, ReadAllRuns
<1> HIDE DEF g
<1> DEFINE Good(i) == g[i].ok /\ g[i].val = fields[i + 1][2] /\ g[i].pos = P[i + 1]
           T == {k \in 0 .. K : \A i \in 1 .. k : Good(i)}
<1>9. 0 .. K \subseteq T
  <2>1. 0 \in T
    BY <1>1
  <2>2. ASSUME NEW k \in 0 .. K - 1, k \in T PROVE k + 1 \in T
    <3> DEFINE i == k + 1
               v == fields[i + 1][2]
    <3>1. /\ i \in 1 .. K /\ i - 1 = k /\ k \in Nat /\ i + 1 \in 1 .. N /\ (i + 1) - 1 = i
          /\ i \in 1 .. N /\ k + 1 = i
      BY <1>1
    <3>2. \A j \in 1 .. k : Good(j)
      BY <2>2
    <3> HIDE DEF i
    <3>3. From(g, i, p) = P[i]
      <4>1. CASE k = 0
        <5>1. i = 1
          BY <3>1, <4>1
        <5> QED BY <5>1 DEF From
      <4>2. CASE k # 0
        <5>1. k \in 1 .. k /\ i # 1
          BY <3>1, <4>2
        <5>2. Good(k)
          BY <3>2, <5>1
        <5>3. g[k].pos = P[k + 1]
          BY <5>2
        <5> QED BY <3>1, <5>1, <5>3 DEF From
      <4> QED BY <4>1, <4>2
    <3>4. g[i] = read(types[i], z, P[i])
      BY <1>1, <1>8, <3>1, <3>3 DEF Reads
    <3>5. /\ Fits(types[i], v) /\ write(types[i], v) = Piece(fields, i + 1)
          /\ types[i] \in IntTypes
      BY <1>1, <1>2, <3>1
    <3>6. P[i] \in 0 .. Len(z) /\ At(z, P[i], Piece(fields, i + 1)) /\ P[i + 1] = P[i] + Len(Piece(fields, i + 1))
      BY <1>4, <1>5, <3>1
    <3> HIDE DEF v
    <3>7. read(types[i], z, P[i]) = [ok |-> TRUE, val |-> v, pos |-> P[i] + Len(write(types[i], v))]
      BY <1>4, <3>5, <3>6, FieldBack
    <3>8. Good(i)
      BY <3>4, <3>5, <3>6, <3>7 DEF v
    <3>9. \A j \in 1 .. i : j \in 1 .. k \/ j = i
      BY <3>1
    <3> HIDE DEF Good
    <3>10. \A j \in 1 .. i : Good(j)
      BY <3>2, <3>8, <3>9
    <3>11. i \in 0 .. K
      BY <3>1
    <3> QED BY <3>10, <3>11 DEF i
  <2> HIDE DEF T
  <2> QED BY <1>1, <2>1, <2>2, UpTo
<1>10. \A i \in 1 .. K : Good(i)
  <2>1. K \in T
    <3> HIDE DEF T
    <3> QED BY <1>1, <1>9
  <2> HIDE DEF Good
  <2> QED BY <2>1
<1>11. Took(g, fields, K)
  BY <1>10 DEF Took
<1>13. Exhausts(g, fields, K, z)
  <2> SUFFICES ASSUME K > 0, N = K + 1 PROVE g[K].pos = Len(z)
    BY DEF Exhausts, N
  <2>1. K \in 1 .. K /\ P[N] = Len(z)
    <3>1. Len(s) = N
      BY <1>1 DEF s, N
    <3> QED BY <1>1, <1>3, <3>1 DEF Joined
  <2>2. Good(K)
    BY <1>10, <2>1
  <2> QED BY <2>1, <2>2
<1> HIDE DEF p
<1>12. read_varint(z, 0) = [ok |-> TRUE, val |-> id, pos |-> p]
  BY <1>6 DEF p
<1> QED BY <1>4, <1>7, <1>11, <1>12, <1>13 DEF g, z

\* A reader of b finds the id, and every field up to the first one that it cannot
\* read is the one that was written.
ReadsAs(b, fields, id, types, n, p) ==
  /\ b \in Seq(Byte) /\ read_varint(b, 0) = [ok |-> TRUE, val |-> id, pos |-> p] /\ p \in 0 .. Len(b)
  /\ \A k \in 0 .. n :
       AllOk(read_all(types, b, p), 1 .. k)
         => \A i \in 1 .. k : read_all(types, b, p)[i].val = fields[i + 1][2]

\* What SentRead says of a body.
AllTaken(z, id, types, fields, n) ==
  \E p \in 0 .. Len(z) : /\ read_varint(z, 0) = [ok |-> TRUE, val |-> id, pos |-> p]
                         /\ Took(read_all(types, z, p), fields, n)

\* So it is for the whole packet, of which all can be read, and for what is left
\* of it when it is cut, unless the id is.
LEMMA SentReadsAs ==
  ASSUME NEW fields, NEW id, NEW types, NEW n, Sends(fields, id, types, n)
  PROVE  /\ \E p : /\ ReadsAs(write_all(fields), fields, id, types, n, p)
                   /\ AllOk(read_all(types, write_all(fields), p), 1 .. n)
         /\ \A c : FrontOf(c, write_all(fields)) =>
              ~ read_varint(c, 0).ok \/ \E p : ReadsAs(c, fields, id, types, n, p)
<1> DEFINE z == write_all(fields)
<1>1. n \in 0 .. Len(types) /\ n \in Nat /\ types \in Seq(IntTypes)
  BY LenProperties DEF Sends
<1>2. z \in Seq(Byte) /\ AllTaken(z, id, types, fields, n)
  BY SentRead DEF AllTaken
<1> HIDE DEF z
<1>3. PICK p \in 0 .. Len(z) : /\ read_varint(z, 0) = [ok |-> TRUE, val |-> id, pos |-> p]
                               /\ Took(read_all(types, z, p), fields, n)
  BY <1>2 DEF AllTaken
<1>4. ReadsAs(z, fields, id, types, n, p) /\ AllOk(read_all(types, z, p), 1 .. n)
  <2>1. \A i \in 1 .. n : /\ read_all(types, z, p)[i].ok
                          /\ read_all(types, z, p)[i].val = fields[i + 1][2]
    BY <1>3 DEF Took
  <2>2. \A k \in 0 .. n : \A i \in 1 .. k : i \in 1 .. n
    BY <1>1
  <2> QED BY <1>2, <1>3, <2>1, <2>2 DEF ReadsAs, AllOk
<1>5. ASSUME NEW c, FrontOf(c, z), read_varint(c, 0).ok
      PROVE  ReadsAs(c, fields, id, types, n, p)
  <2>1. c \in Seq(Byte) /\ 0 \in 0 .. Len(c)
    BY <1>5, LenProperties DEF FrontOf
  <2>2. read_varint(c, 0) = read_varint(z, 0)
    BY <1>5, <2>1, SameVarInt
  <2>3. p \in 0 .. Len(c)
    <3>1. Within(read_varint(c, 0), c, 0)
      BY <2>1, ReadVarIntWithin
    <3>2. read_varint(c, 0).pos = p
      BY <1>3, <2>2
    <3> QED BY <3>1, <3>2 DEF Within
  <2>4. ASSUME NEW k \in 0 .. n, AllOk(read_all(types, c, p), 1 .. k), NEW i \in 1 .. k
        PROVE  read_all(types, c, p)[i].val = fields[i + 1][2]
    <3>1. k \in 0 .. Len(types) /\ i \in 1 .. n
      BY <1>1
    <3>2. read_all(types, z, p)[i] = read_all(types, c, p)[i]
      BY <1>1, <1>5, <2>3, <2>4, <3>1, SameFields
    <3> QED BY <1>3, <3>1, <3>2 DEF Took
  <2> QED BY <1>3, <2>1, <2>2, <2>3, <2>4 DEF ReadsAs
<1> QED BY <1>4, <1>5 DEF z

-----------------------------------------------------------------------------
(***************************************************************************)
(* Files: rows of VarInts, and what is left of them when the writer stops. *)
(***************************************************************************)
\* A piece of a piece.
LEMMA AtWithin ==
  ASSUME NEW b \in Seq(Byte), NEW pos \in Nat, NEW z \in Seq(Byte), NEW q \in Nat,
         NEW x \in Seq(Byte), At(b, pos, z), At(z, q, x)
  PROVE  At(b, pos + q, x)
<1>1. Len(z) \in Nat /\ Len(x) \in Nat /\ Len(b) \in Nat
  BY LenProperties
<1>2. /\ pos + Len(z) <= Len(b) /\ q + Len(x) <= Len(z)
      /\ \A i \in 1 .. Len(z) : b[pos + i] = z[i]
      /\ \A i \in 1 .. Len(x) : z[q + i] = x[i]
  BY DEF At
<1>3. ASSUME NEW i \in 1 .. Len(x) PROVE b[(pos + q) + i] = x[i]
  <2>1. q + i \in 1 .. Len(z) /\ (pos + q) + i = pos + (q + i)
    BY <1>1, <1>2
  <2> QED BY <1>2, <2>1
<1>4. (pos + q) + Len(x) <= Len(b)
  BY <1>1, <1>2
<1> QED BY <1>3, <1>4 DEF At

\* What World::save writes of a block, and write_item_blocks of an item.
Row(row) == Concat(Len(row), LAMBDA j : write_varint(row[j]))

Ints(row) == [j \in 1 .. Len(row) |-> write_varint(row[j])]

LEMMA VarIntBytes ==
  ASSUME NEW v \in Signed
  PROVE  write_varint(v) \in Seq(Byte) /\ Len(write_varint(v)) \in Nat \ {0}
<1>1. v \in Int
  BY IntSizes DEF Signed
<1> QED BY <1>1, AsUnsigned, EncodeType DEF write_varint

LEMMA RowJoins ==
  ASSUME NEW row \in Seq(Signed)
  PROVE  /\ Row(row) \in Seq(Byte)
         /\ \E Q : Joined(Ints(row), Row(row), Q)
<1>1. Len(row) \in Nat /\ \A j \in 1 .. Len(row) : row[j] \in Signed
  BY LenProperties, ElementOfSeq
<1>2. Ints(row) \in Seq(Seq(Byte))
  BY <1>1, VarIntBytes DEF Ints
<1>3. Row(row) = FlattenSeq(Ints(row))
  BY Zenon DEF Row, Concat, Ints
<1>4. \E Q : Joined(Ints(row), Row(row), Q)
  BY <1>2, <1>3, Flattened
<1>5. Row(row) \in Seq(Byte)
  BY <1>4 DEF Joined
<1> QED BY <1>4, <1>5

\* The integers of row, from where they stand in b on.
IsRow(g, row, n) == AllOk(g, 1 .. n) /\ \A i \in 1 .. n : g[i].val = row[i]

LEMMA ColumnsType ==
  ASSUME NEW n \in Nat
  PROVE  Columns(n) \in Seq(IntTypes) /\ Len(Columns(n)) = n /\ \A i \in 1 .. n : Columns(n)[i] = "varint"
BY DEF Columns, IntTypes

LEMMA RowBack ==
  ASSUME NEW n \in Nat \ {0}, NEW row \in Seq(Signed), Len(row) = n,
         NEW b \in Seq(Byte), NEW pos \in 0 .. Len(b), At(b, pos, Row(row))
  PROVE  /\ IsRow(read_all(Columns(n), b, pos), row, n)
         /\ read_all(Columns(n), b, pos)[n].pos = pos + Len(Row(row))
         /\ Len(Row(row)) \in Nat \ {0}
<1> DEFINE s == Ints(row)
           z == Row(row)
           g == read_all(Columns(n), b, pos)
<1>1. Len(b) \in Nat /\ pos \in Nat /\ \A i \in 1 .. n : row[i] \in Signed
  BY LenProperties, ElementOfSeq
<1>2. Len(s) = n /\ \A i \in 1 .. n : s[i] = write_varint(row[i])
  BY DEF Ints
<1>3. z \in Seq(Byte) /\ \E Q : Joined(s, z, Q)
  BY RowJoins
<1> HIDE DEF s, z
<1>4. PICK Q : Joined(s, z, Q)
  BY <1>3
<1>5. /\ Q[0] = 0 /\ Q[n] = Len(z) /\ \A i \in 0 .. n : Q[i] \in Nat
      /\ \A i \in 1 .. n : Q[i] = Q[i - 1] + Len(s[i]) /\ At(z, Q[i - 1], s[i])
  BY <1>2, <1>4 DEF Joined
<1>6. Columns(n) \in Seq(IntTypes) /\ Len(Columns(n)) = n /\ \A i \in 1 .. n : Columns(n)[i] = "varint"
  BY ColumnsType
<1>7. Reads(g, Columns(n), b, pos)
  BY <1>6, ReadAllRuns
<1>8. At(b, pos, z)
  BY DEF z
<1> HIDE DEF g
<1> DEFINE Good(i) == g[i].ok /\ g[i].val = row[i] /\ g[i].pos = pos + Q[i]
           T == {k \in 0 .. n : \A i \in 1 .. k : Good(i) /\ Q[i] > 0}
<1>9. 0 \in T
  OBVIOUS
<1>10. ASSUME NEW k \in 0 .. n - 1, k \in T PROVE k + 1 \in T
  <2> DEFINE i == k + 1
             w == write_varint(row[i])
             p == pos + Q[k]
  <2>1. i \in 1 .. n /\ i - 1 = k /\ k \in 0 .. n /\ k \in Nat /\ i \in 0 .. n
    OBVIOUS
  <2>2. \A j \in 1 .. k : Good(j) /\ Q[j] > 0
    BY <1>10
  <2> HIDE DEF i
  <2>3. From(g, i, pos) = p
    <3>1. CASE k = 0
      BY <1>1, <1>5, <2>1, <3>1 DEF From, i
    <3>2. CASE k # 0
      <4>1. g[k].pos = pos + Q[k] /\ i # 1
        BY <2>1, <2>2, <3>2
      <4> QED BY <2>1, <4>1 DEF From
    <3> QED BY <3>1, <3>2
  <2>4. row[i] \in Signed /\ w \in Seq(Byte) /\ Len(w) \in Nat \ {0}
    BY <1>1, <2>1, VarIntBytes
  <2>5. s[i] = w /\ Q[i] = Q[k] + Len(w) /\ At(z, Q[k], w) /\ Q[k] \in Nat
    BY <1>2, <1>5, <2>1
  <2> HIDE DEF w
  <2>6. p \in 0 .. Len(b) /\ p \in Nat
    BY <1>7, <1>6, <2>1, <2>3 DEF Reads
  <2>7. At(b, p, w)
    BY <1>1, <1>3, <1>8, <2>4, <2>5, AtWithin
  <2>8. g[i] = read_varint(b, p)
    <3>1. g[i] = read("varint", b, p)
      BY <1>6, <1>7, <2>1, <2>3 DEF Reads
    <3> QED BY <3>1, ReadVarIntField
  <2> HIDE DEF p
  <2>9. g[i] = [ok |-> TRUE, val |-> row[i], pos |-> p + Len(w)]
    BY <2>4, <2>6, <2>7, <2>8, VarIntBack DEF w
  <2>10. pos + Q[i] = p + Len(w) /\ Q[i] > 0
    BY <1>1, <2>4, <2>5 DEF p
  <2>11. Good(i) /\ Q[i] > 0
    BY <2>9, <2>10
  <2>12. \A j \in 1 .. k + 1 : j \in 1 .. k \/ j = i
    BY <2>1 DEF i
  <2>13. k + 1 \in 0 .. n
    BY <2>1 DEF i
  <2> HIDE DEF Good
  <2> QED BY <2>2, <2>11, <2>12, <2>13
<1>11. n \in T
  <2>1. 0 .. n \subseteq T
    <3> HIDE DEF T
    <3> QED BY <1>9, <1>10, UpTo
  <2> HIDE DEF T
  <2> QED BY <2>1
<1>12. \A i \in 1 .. n : Good(i) /\ Q[i] > 0
  BY <1>11
<1>13. IsRow(g, row, n)
  BY <1>12 DEF IsRow, AllOk
<1>14. g[n].pos = pos + Len(z) /\ Len(z) \in Nat \ {0}
  <2>1. n \in 1 .. n /\ n \in 0 .. n
    OBVIOUS
  <2>2. Good(n) /\ Q[n] > 0
    BY <1>12, <2>1
  <2> QED BY <1>5, <2>1, <2>2
<1> QED BY <1>13, <1>14 DEF g, z

\* Of a row that is not all there, not all can be read.
LEMMA RowCut ==
  ASSUME NEW n \in Nat \ {0}, NEW row \in Seq(Signed), Len(row) = n,
         NEW c, NEW z, FrontOf(c, z), NEW pos \in 0 .. Len(c), At(z, pos, Row(row)),
         pos + Len(Row(row)) > Len(c)
  PROVE  ~ AllOk(read_all(Columns(n), c, pos), 1 .. n)
<1> DEFINE g == read_all(Columns(n), c, pos)
           h == read_all(Columns(n), z, pos)
<1> SUFFICES ASSUME AllOk(g, 1 .. n) PROVE FALSE
  OBVIOUS
<1>1. /\ c \in Seq(Byte) /\ z \in Seq(Byte) /\ Len(c) \in Nat /\ Len(z) \in Nat
      /\ Len(c) <= Len(z) /\ pos \in 0 .. Len(z)
  BY LenProperties DEF FrontOf
<1>2. Columns(n) \in Seq(IntTypes) /\ Len(Columns(n)) = n /\ n \in 1 .. n /\ n \in 0 .. n
  BY ColumnsType
<1>3. h[n] = g[n]
  BY <1>2, SameFields
<1>4. h[n].pos = pos + Len(Row(row))
  BY <1>1, RowBack
<1>5. Reads(g, Columns(n), c, pos)
  BY <1>1, <1>2, ReadAllRuns
<1> HIDE DEF g, h
<1>6. g[n].pos \in 0 .. Len(c)
  BY <1>2, <1>5 DEF Reads, Result
<1>7. Len(Row(row)) \in Nat
  BY RowJoins, LenProperties
<1> QED BY <1>1, <1>3, <1>4, <1>6, <1>7

\* At the end of a file there is no row.
LEMMA NoRow ==
  ASSUME NEW n \in Nat \ {0}, NEW c \in Seq(Byte)
  PROVE  ~ AllOk(read_all(Columns(n), c, Len(c)), 1 .. n)
<1> DEFINE g == read_all(Columns(n), c, Len(c))
           p == Len(c)
<1>1. Len(c) \in Nat /\ p \in 0 .. Len(c) /\ 1 \in 1 .. n
  BY LenProperties
<1>2. Columns(n) \in Seq(IntTypes) /\ Len(Columns(n)) = n /\ Columns(n)[1] = "varint"
  BY <1>1, ColumnsType
<1>3. Reads(g, Columns(n), c, p)
  BY <1>1, <1>2, ReadAllRuns
<1> HIDE DEF g
<1>4. g[1] = read("varint", c, p)
  BY <1>1, <1>2, <1>3 DEF Reads, From
<1>5. Within(g[1], c, p)
  BY <1>1, <1>4, ReadVarIntField, ReadVarIntWithin
<1>6. ~ g[1].ok
  BY <1>1, <1>5 DEF Within
<1>7. ~ AllOk(g, 1 .. n)
  BY <1>1, <1>6 DEF AllOk
<1> QED BY <1>7 DEF g

\* The state of the loop of World::load and load_item_to_block.
Loaded(b) == [rows : Seq(Seq(Int)), pos : 0 .. Len(b), more : BOOLEAN]

FirstRow == [rows |-> <<>>, pos |-> 0, more |-> TRUE]

LEMMA LoadRowIs ==
  ASSUME NEW n \in Nat \ {0}, NEW b \in Seq(Byte), NEW s \in Loaded(b)
  PROVE  /\ load_row(s, n, b) \in Loaded(b)
         /\ AllOk(read_all(Columns(n), b, s.pos), 1 .. n) =>
              load_row(s, n, b) =
                [rows |-> Append(s.rows, [i \in 1 .. n |-> read_all(Columns(n), b, s.pos)[i].val]),
                 pos |-> read_all(Columns(n), b, s.pos)[n].pos, more |-> s.more]
         /\ ~ AllOk(read_all(Columns(n), b, s.pos), 1 .. n) =>
              load_row(s, n, b) = [rows |-> s.rows, pos |-> s.pos, more |-> FALSE]
<1> DEFINE g == read_all(Columns(n), b, s.pos)
           v == [i \in 1 .. n |-> g[i].val]
<1>1. s.pos \in 0 .. Len(b) /\ s.rows \in Seq(Seq(Int)) /\ s.more \in BOOLEAN
  BY DEF Loaded
<1>2. Columns(n) \in Seq(IntTypes) /\ Len(Columns(n)) = n
  BY ColumnsType
<1>3. Reads(g, Columns(n), b, s.pos)
  BY <1>1, <1>2, ReadAllRuns
<1>4. load_row(s, n, b) = IF AllOk(g, 1 .. n)
                          THEN [s EXCEPT !.rows = Append(@, v), !.pos = g[n].pos]
                          ELSE [s EXCEPT !.more = FALSE]
  BY Zenon DEF load_row
<1> HIDE DEF g
<1>5. v \in Seq(Int) /\ g[n].pos \in 0 .. Len(b)
  <2>1. \A i \in 1 .. n : g[i].val \in Int /\ g[i].pos \in 0 .. Len(b)
    BY <1>2, <1>3 DEF Reads, Result
  <2> QED BY <2>1
<1> HIDE DEF v
<1>6. Append(s.rows, v) \in Seq(Seq(Int))
  BY <1>1, <1>5, AppendProperties
<1>7. s = [rows |-> s.rows, pos |-> s.pos, more |-> s.more]
  BY DEF Loaded
<1>8. AllOk(g, 1 .. n) => load_row(s, n, b) = [rows |-> Append(s.rows, v), pos |-> g[n].pos, more |-> s.more]
  BY <1>4, <1>7
<1>9. ~ AllOk(g, 1 .. n) => load_row(s, n, b) = [rows |-> s.rows, pos |-> s.pos, more |-> FALSE]
  BY <1>4, <1>7
<1>10. load_row(s, n, b) \in Loaded(b)
  <2>1. [rows |-> Append(s.rows, v), pos |-> g[n].pos, more |-> s.more] \in Loaded(b)
    <3> DEFINE a == Append(s.rows, v)
               p == g[n].pos
               q == s.more
    <3>1. a \in Seq(Seq(Int)) /\ p \in 0 .. Len(b) /\ q \in BOOLEAN
      BY <1>1, <1>5, <1>6
    <3> HIDE DEF a, p, q
    <3>2. [rows |-> a, pos |-> p, more |-> q] \in Loaded(b)
      BY <3>1 DEF Loaded
    <3> QED BY <3>2 DEF a, p, q
  <2>2. [rows |-> s.rows, pos |-> s.pos, more |-> FALSE] \in Loaded(b)
    BY <1>1 DEF Loaded
  <2> QED BY <1>8, <1>9, <2>1, <2>2, Zenon
<1> QED BY <1>8, <1>9, <1>10 DEF g, v

\* t are the states of the loop, before its first turn and after each.
Loads(t, n, b) ==
  /\ t[0] = FirstRow
  /\ \A k \in 1 .. Len(b) + 1 :
       t[k] = IF t[k - 1].more THEN load_row(t[k - 1], n, b) ELSE t[k - 1]
  /\ \A k \in 0 .. Len(b) + 1 : t[k] \in Loaded(b)

LEMMA LoadRuns ==
  ASSUME NEW n \in Nat \ {0}, NEW b \in Seq(Byte)
  PROVE  \E t : Loads(t, n, b) /\ load_rows(n, b, 0) = t[Len(b) + 1].rows
<1> DEFINE N == Len(b) + 1
           turn(s) == IF s.more THEN load_row(s, n, b) ELSE s
           eq(f) == f = [k \in 0 .. N |-> IF k = 0 THEN FirstRow ELSE turn(f[k - 1])]
           step == [x \in (1 .. N) \X Loaded(b) |-> turn(x[2])]
           t == CHOOSE f : eq(f)
<1>1. N \in Nat /\ Len(b) + 1 = N
  BY LenProperties
<1>2. FirstRow \in Loaded(b)
  <2>1. <<>> \in Seq(Seq(Int)) /\ 0 \in 0 .. Len(b)
    BY LenProperties
  <2> QED BY <2>1 DEF FirstRow, Loaded
<1>3. ASSUME NEW s \in Loaded(b) PROVE turn(s) \in Loaded(b)
  BY LoadRowIs
<1>4. load_rows(n, b, 0) = t[N].rows
  BY Zenon DEF load_rows, FirstRow
<1> HIDE DEF N, turn
<1>5. PICK g : Counted(g, N, Loaded(b), FirstRow, step)
  <2>1. step \in [(1 .. N) \X Loaded(b) -> Loaded(b)]
    BY <1>3
  <2> HIDE DEF step
  <2> QED BY <1>1, <1>2, <2>1, CountedRecursion
<1>6. eq(g)
  <2>1. ASSUME NEW k \in 1 .. N PROVE g[k] = turn(g[k - 1])
    <3>0. k - 1 \in 0 .. N
      BY <1>1
    <3>1. g[k - 1] \in Loaded(b) /\ g[k] = step[<<k, g[k - 1]>>]
      <4> HIDE DEF step
      <4> QED BY <3>0, <1>5 DEF Counted
    <3> QED BY <3>1
  <2> HIDE DEF step
  <2> QED BY <1>1, <1>5, <2>1 DEF Counted
<1>7. eq(t)
  <2>1. \E f : eq(f)
    <3> HIDE DEF eq
    <3> QED BY <1>6
  <2> HIDE DEF eq
  <2> QED BY <2>1
<1> HIDE DEF t, step
<1>8. t[0] = FirstRow /\ \A k \in 1 .. N : t[k] = turn(t[k - 1])
  BY <1>1, <1>7
<1>9. \A k \in 0 .. N : t[k] \in Loaded(b)
  <2> DEFINE T == {k \in 0 .. N : t[k] \in Loaded(b)}
  <2>1. 0 \in T
    BY <1>1, <1>2, <1>8
  <2>2. ASSUME NEW k \in 0 .. N - 1, k \in T PROVE k + 1 \in T
    <3>1. k + 1 \in 1 .. N /\ (k + 1) - 1 = k /\ k + 1 \in 0 .. N
      BY <1>1
    <3> QED BY <1>3, <1>8, <2>2, <3>1
  <2>3. 0 .. N \subseteq T
    <3> HIDE DEF T
    <3> QED BY <1>1, <2>1, <2>2, UpTo
  <2> QED BY <2>3
<1>10. Loads(t, n, b)
  BY <1>1, <1>8, <1>9 DEF Loads, turn
<1> QED BY <1>1, <1>4, <1>10

LEMMA AtFront ==
  ASSUME NEW c, NEW z, FrontOf(c, z), NEW p \in Nat, NEW x \in Seq(Byte), At(z, p, x),
         p + Len(x) <= Len(c)
  PROVE  At(c, p, x)
<1>1. Len(x) \in Nat /\ Len(c) \in Nat /\ \A i \in 1 .. Len(c) : c[i] = z[i]
  BY LenProperties DEF FrontOf
<1>2. ASSUME NEW i \in 1 .. Len(x) PROVE c[p + i] = x[i]
  <2>1. p + i \in 1 .. Len(c)
    BY <1>1
  <2>2. z[p + i] = x[i]
    BY DEF At
  <2> QED BY <1>1, <2>1, <2>2
<1> QED BY <1>2 DEF At

\* The rows of a file, where they stand in it.
Lines(rows) == [i \in 1 .. Len(rows) |-> Row(rows[i])]

\* Rows of n integers, at P, each of a byte at least.
Saved(rows, n, z, P) ==
  /\ rows \in Seq(Seq(Signed)) /\ n \in Nat \ {0} /\ z \in Seq(Byte)
  /\ P \in [0 .. Len(rows) -> Nat] /\ P[0] = 0 /\ P[Len(rows)] = Len(z)
  /\ \A i \in 1 .. Len(rows) :
       /\ rows[i] \in Seq(Signed) /\ Len(rows[i]) = n /\ Row(rows[i]) \in Seq(Byte)
       /\ Len(Row(rows[i])) \in Nat \ {0}
       /\ P[i] = P[i - 1] + Len(Row(rows[i])) /\ At(z, P[i - 1], Row(rows[i]))

LEMMA SaveJoins ==
  ASSUME NEW rows \in Seq(Seq(Signed))
  PROVE  \E P : Joined(Lines(rows), save_rows(rows), P)
<1>1. Len(rows) \in Nat /\ \A i \in 1 .. Len(rows) : rows[i] \in Seq(Signed)
  BY LenProperties, ElementOfSeq
<1>2. Lines(rows) \in Seq(Seq(Byte))
  BY <1>1, RowJoins DEF Lines
<1>3. save_rows(rows) = FlattenSeq(Lines(rows))
  BY Zenon DEF save_rows, Concat, Lines, Row
<1> QED BY <1>2, <1>3, Flattened

LEMMA SaveIs ==
  ASSUME NEW rows \in Seq(Seq(Signed)), NEW n \in Nat \ {0},
         \A i \in DOMAIN rows : Len(rows[i]) = n
  PROVE  \E P : Saved(rows, n, save_rows(rows), P)
<1> DEFINE s == Lines(rows)
           z == save_rows(rows)
<1>1. /\ Len(rows) \in Nat /\ DOMAIN rows = 1 .. Len(rows)
      /\ \A i \in 1 .. Len(rows) : rows[i] \in Seq(Signed) /\ Row(rows[i]) \in Seq(Byte)
  BY LenProperties, ElementOfSeq, RowJoins
<1>2. Len(s) = Len(rows) /\ \A i \in 1 .. Len(rows) : s[i] = Row(rows[i])
  BY <1>1 DEF Lines
<1>3. PICK P : Joined(s, z, P)
  BY SaveJoins
<1> HIDE DEF s, z
<1>4. /\ z \in Seq(Byte) /\ P \in [0 .. Len(rows) -> Nat] /\ P[0] = 0 /\ P[Len(rows)] = Len(z)
      /\ \A i \in 1 .. Len(rows) :
           P[i] = P[i - 1] + Len(Row(rows[i])) /\ At(z, P[i - 1], Row(rows[i]))
  BY <1>2, <1>3 DEF Joined
<1>5. ASSUME NEW i \in 1 .. Len(rows) PROVE Len(rows[i]) = n /\ Len(Row(rows[i])) \in Nat \ {0}
  <2> DEFINE row == rows[i]
             p == P[i - 1]
  <2>1. row \in Seq(Signed) /\ Len(row) = n /\ At(z, p, Row(row)) /\ Row(row) \in Seq(Byte)
    BY <1>1, <1>4
  <2>2. p \in Nat
    <3>1. i - 1 \in 0 .. Len(rows)
      BY <1>1
    <3> QED BY <1>4, <3>1
  <2> HIDE DEF p, row
  <2>3. Len(z) \in Nat /\ Len(Row(row)) \in Nat /\ p + Len(Row(row)) <= Len(z)
    BY <1>4, <2>1, LenProperties DEF At
  <2>4. p \in 0 .. Len(z)
    BY <2>2, <2>3
  <2>5. Len(Row(row)) \in Nat \ {0}
    BY <1>4, <2>1, <2>4, RowBack
  <2> QED BY <2>1, <2>5 DEF row
<1>6. Saved(rows, n, z, P)
  BY <1>1, <1>4, <1>5 DEF Saved
<1> QED BY <1>6 DEF z

\* Each row stands behind the ones before it.
LEMMA SavedRises ==
  ASSUME NEW rows, NEW n, NEW z, NEW P, Saved(rows, n, z, P)
  PROVE  \A i \in 0 .. Len(rows) : i <= P[i] /\ \A j \in 0 .. i : P[j] <= P[i]
<1> DEFINE N == Len(rows)
           T == {i \in 0 .. N : i <= P[i] /\ \A j \in 0 .. i : P[j] <= P[i]}
<1>1. N \in Nat
  BY LenProperties DEF Saved
<1>2. P \in [0 .. N -> Nat] /\ P[0] = 0
  BY DEF Saved
<1>3. \A i \in 1 .. N : P[i] > P[i - 1]
  <2>1. ASSUME NEW i \in 1 .. N PROVE P[i] > P[i - 1]
    <3>1. i - 1 \in 0 .. N
      BY <1>1
    <3>2. P[i] = P[i - 1] + Len(Row(rows[i])) /\ Len(Row(rows[i])) \in Nat \ {0}
      BY DEF Saved
    <3> QED BY <1>2, <3>1, <3>2
  <2> QED BY <2>1
<1> HIDE DEF N
<1>4. 0 \in T
  BY <1>1, <1>2
<1>5. ASSUME NEW k \in 0 .. N - 1, k \in T PROVE k + 1 \in T
  <2>1. k \in 0 .. N /\ k + 1 \in 0 .. N /\ k + 1 \in 1 .. N /\ (k + 1) - 1 = k
    BY <1>1
  <2>2. P[k + 1] > P[k] /\ P[k] \in Nat /\ P[k + 1] \in Nat
    BY <1>2, <1>3, <2>1
  <2>3. k <= P[k] /\ \A j \in 0 .. k : P[j] <= P[k]
    BY <1>5
  <2>4. ASSUME NEW j \in 0 .. k + 1 PROVE P[j] <= P[k + 1]
    <3>1. CASE j = k + 1
      BY <2>2, <3>1
    <3>2. CASE j # k + 1
      <4>1. j \in 0 .. k /\ j \in 0 .. N
        BY <1>1, <2>1, <3>2
      <4>2. P[j] \in Nat /\ P[j] <= P[k]
        BY <1>2, <2>3, <4>1
      <4> QED BY <2>2, <4>2
    <3> QED BY <3>1, <3>2
  <2>5. k + 1 <= P[k + 1]
    BY <2>1, <2>2, <2>3
  <2> QED BY <2>1, <2>4, <2>5
<1>6. 0 .. N \subseteq T
  <2> HIDE DEF T
  <2> QED BY <1>1, <1>4, <1>5, UpTo
<1> QED BY <1>6 DEF N

\* The first w rows, and no more.
Whole(R, rows, w) == R \in Seq(Seq(Int)) /\ Len(R) = w /\ \A i \in 1 .. w : R[i] = rows[i]

\* A turn of the loop takes the next row if it is all there, and is the last one if not.
LEMMA LoadTurn ==
  ASSUME NEW rows, NEW n, NEW z, NEW P, Saved(rows, n, z, P), NEW c, FrontOf(c, z),
         NEW k \in 0 .. Len(rows), P[k] <= Len(c),
         NEW s \in Loaded(c), s.pos = P[k], Whole(s.rows, rows, k)
  PROVE  /\ k < Len(rows) /\ P[k + 1] <= Len(c) =>
              /\ load_row(s, n, c).pos = P[k + 1] /\ load_row(s, n, c).more = s.more
              /\ Whole(load_row(s, n, c).rows, rows, k + 1)
         /\ k = Len(rows) \/ P[k + 1] > Len(c) =>
              load_row(s, n, c).rows = s.rows /\ ~ load_row(s, n, c).more
<1> DEFINE g == read_all(Columns(n), c, P[k])
           row == rows[k + 1]
           v == [i \in 1 .. n |-> g[i].val]
<1>1. /\ n \in Nat \ {0} /\ z \in Seq(Byte) /\ c \in Seq(Byte) /\ Len(rows) \in Nat
      /\ Len(c) \in Nat /\ Len(z) \in Nat /\ Len(c) <= Len(z)
      /\ P[k] \in Nat /\ P[k] \in 0 .. Len(c) /\ P[Len(rows)] = Len(z)
  <2>1. /\ n \in Nat \ {0} /\ z \in Seq(Byte) /\ c \in Seq(Byte) /\ rows \in Seq(Seq(Signed))
        /\ P \in [0 .. Len(rows) -> Nat] /\ Len(c) <= Len(z) /\ P[Len(rows)] = Len(z)
    BY DEF Saved, FrontOf
  <2>2. Len(rows) \in Nat /\ Len(c) \in Nat /\ Len(z) \in Nat /\ P[k] \in Nat
    BY <2>1, LenProperties
  <2> QED BY <2>1, <2>2
<1>2. /\ AllOk(g, 1 .. n) => load_row(s, n, c) = [rows |-> Append(s.rows, v), pos |-> g[n].pos, more |-> s.more]
      /\ ~ AllOk(g, 1 .. n) => load_row(s, n, c) = [rows |-> s.rows, pos |-> s.pos, more |-> FALSE]
  <2> DEFINE G(p) ==
        LET h == read_all(Columns(n), c, p)
        IN  /\ AllOk(h, 1 .. n) =>
                 load_row(s, n, c) =
                   [rows |-> Append(s.rows, [i \in 1 .. n |-> h[i].val]), pos |-> h[n].pos, more |-> s.more]
            /\ ~ AllOk(h, 1 .. n) => load_row(s, n, c) = [rows |-> s.rows, pos |-> s.pos, more |-> FALSE]
  <2>1. G(s.pos)
    BY <1>1, LoadRowIs
  <2>2. s.pos = P[k]
    OBVIOUS
  <2>3. G(P[k])
    <3> HIDE DEF G
    <3> QED BY <2>1, <2>2
  <2> QED BY <2>3
<1>3. ASSUME k < Len(rows)
      PROVE  /\ row \in Seq(Signed) /\ Len(row) = n /\ Row(row) \in Seq(Byte)
             /\ Len(Row(row)) \in Nat \ {0}
             /\ P[k + 1] = P[k] + Len(Row(row)) /\ At(z, P[k], Row(row))
  <2>1. k + 1 \in 1 .. Len(rows) /\ (k + 1) - 1 = k
    BY <1>1, <1>3
  <2> QED BY <2>1 DEF Saved
<1> HIDE DEF row
<1>4. ASSUME k < Len(rows), P[k + 1] <= Len(c)
      PROVE  /\ load_row(s, n, c).pos = P[k + 1] /\ load_row(s, n, c).more = s.more
             /\ Whole(load_row(s, n, c).rows, rows, k + 1)
  <2>1. At(c, P[k], Row(row))
    BY <1>1, <1>3, <1>4, AtFront
  <2>2. IsRow(g, row, n) /\ g[n].pos = P[k] + Len(Row(row))
    BY <1>1, <1>3, <1>4, <2>1, RowBack
  <2> HIDE DEF g
  <2>3. v = row
    <3>1. \A i \in 1 .. n : g[i].val = row[i]
      BY <2>2 DEF IsRow
    <3>2. row = [i \in 1 .. n |-> row[i]]
      BY <1>3, <1>4, LenProperties
    <3> QED BY <3>1, <3>2
  <2> HIDE DEF v
  <2>4. load_row(s, n, c) = [rows |-> Append(s.rows, row), pos |-> P[k + 1], more |-> s.more]
    BY <1>2, <1>3, <1>4, <2>2, <2>3 DEF IsRow
  <2>5. Whole(Append(s.rows, row), rows, k + 1)
    <3> DEFINE R == s.rows
               A == Append(R, row)
    <3>1. R \in Seq(Seq(Int)) /\ Len(R) = k /\ \A i \in 1 .. k : R[i] = rows[i]
      BY DEF Whole
    <3>2. row \in Seq(Int)
      <4>1. \A i \in 1 .. n : row[i] \in Int
        <5>1. \A i \in 1 .. n : row[i] \in Signed
          BY <1>1, <1>3, <1>4, ElementOfSeq
        <5>2. Signed \subseteq Int
          BY IntSizes DEF Signed
        <5> QED BY <5>1, <5>2
      <4> QED BY <1>1, <1>3, <1>4, <4>1, LenProperties
    <3> HIDE DEF R
    <3>3. A \in Seq(Seq(Int)) /\ Len(A) = k + 1 /\ A[k + 1] = row /\ \A i \in 1 .. k : A[i] = R[i]
      BY <3>1, <3>2, AppendProperties
    <3>4. \A i \in 1 .. k + 1 : i \in 1 .. k \/ i = k + 1
      OBVIOUS
    <3> HIDE DEF A
    <3>5. Whole(A, rows, k + 1)
      BY <3>1, <3>3, <3>4 DEF Whole, row
    <3> QED BY <3>5 DEF A, R
  <2> QED BY <2>4, <2>5
<1>5. ASSUME k = Len(rows) \/ P[k + 1] > Len(c)
      PROVE  load_row(s, n, c).rows = s.rows /\ ~ load_row(s, n, c).more
  <2>1. ~ AllOk(g, 1 .. n)
    <3>1. CASE k = Len(rows)
      <4>1. P[k] = Len(c)
        BY <1>1, <3>1
      <4> QED BY <1>1, <4>1, NoRow
    <3>2. CASE k # Len(rows)
      <4>1. k < Len(rows) /\ P[k + 1] > Len(c)
        BY <1>1, <1>5, <3>2
      <4> QED BY <1>1, <1>3, <4>1, RowCut
    <3> QED BY <3>1, <3>2
  <2> HIDE DEF g
  <2> QED BY <1>2, <2>1
<1> QED BY <1>4, <1>5

\* So the loop takes the rows that are all there.
LEMMA FileLoads ==
  ASSUME NEW rows, NEW n, NEW z, NEW P, Saved(rows, n, z, P), NEW c, FrontOf(c, z),
         NEW w \in 0 .. Len(rows), P[w] <= Len(c), w = Len(rows) \/ P[w + 1] > Len(c)
  PROVE  Whole(load_rows(n, c, 0), rows, w)
<1> DEFINE N == Len(c) + 1
<1>1. /\ n \in Nat \ {0} /\ c \in Seq(Byte) /\ Len(c) \in Nat /\ N \in Nat
      /\ Len(rows) \in Nat /\ w \in Nat /\ P \in [0 .. Len(rows) -> Nat] /\ P[0] = 0
  <2>1. /\ n \in Nat \ {0} /\ c \in Seq(Byte) /\ rows \in Seq(Seq(Signed))
        /\ P \in [0 .. Len(rows) -> Nat] /\ P[0] = 0
    BY DEF Saved, FrontOf
  <2> QED BY <2>1, LenProperties
<1>2. PICK t : Loads(t, n, c) /\ load_rows(n, c, 0) = t[N].rows
  BY <1>1, LoadRuns
<1>3. w + 1 \in 1 .. N /\ \A k \in 0 .. w : P[k] \in Nat /\ P[k] <= Len(c) /\ k \in 0 .. Len(rows)
  <2>1. w <= P[w] /\ \A k \in 0 .. w : P[k] <= P[w]
    BY SavedRises
  <2>2. \A k \in 0 .. w : P[k] \in Nat /\ k \in 0 .. Len(rows)
    BY <1>1
  <2>3. P[w] \in Nat
    BY <1>1
  <2>4. w + 1 \in 1 .. N
    BY <1>1, <2>1, <2>3
  <2>5. ASSUME NEW k \in 0 .. w PROVE P[k] <= Len(c)
    <3>1. P[k] <= P[w] /\ P[k] \in Nat
      BY <2>1, <2>2
    <3> QED BY <1>1, <2>3, <3>1
  <2> QED BY <2>2, <2>4, <2>5
<1>4. /\ t[0] = FirstRow
      /\ \A k \in 1 .. N : t[k] = IF t[k - 1].more THEN load_row(t[k - 1], n, c) ELSE t[k - 1]
      /\ \A k \in 0 .. N : t[k] \in Loaded(c)
  BY <1>2 DEF Loads
<1> HIDE DEF N
<1> DEFINE Good(k) == Whole(t[k].rows, rows, k) /\ t[k].pos = P[k] /\ t[k].more
           T == {k \in 0 .. w : Good(k)}
<1>5. 0 \in T
  <2>1. Whole(<<>>, rows, 0)
    BY DEF Whole
  <2> QED BY <1>1, <1>4, <2>1 DEF FirstRow
<1>6. ASSUME NEW k \in 0 .. w - 1, k \in T PROVE k + 1 \in T
  <2>1. /\ k + 1 \in 1 .. N /\ (k + 1) - 1 = k /\ k \in 0 .. w /\ k + 1 \in 0 .. w
        /\ k \in 0 .. N /\ k \in 0 .. Len(rows) /\ k < Len(rows)
    BY <1>1, <1>3
  <2>2. Whole(t[k].rows, rows, k) /\ t[k].pos = P[k] /\ t[k].more
    BY <1>6
  <2>3. t[k] \in Loaded(c) /\ t[k + 1] = load_row(t[k], n, c)
    BY <1>4, <2>1, <2>2
  <2>4. P[k] <= Len(c) /\ P[k + 1] <= Len(c)
    BY <1>3, <2>1
  <2>5. /\ t[k + 1].pos = P[k + 1] /\ t[k + 1].more = t[k].more
        /\ Whole(t[k + 1].rows, rows, k + 1)
    <3> DEFINE s == t[k]
    <3>1. s \in Loaded(c) /\ s.pos = P[k] /\ Whole(s.rows, rows, k)
      BY <2>2, <2>3
    <3> HIDE DEF s
    <3>2. /\ load_row(s, n, c).pos = P[k + 1] /\ load_row(s, n, c).more = s.more
          /\ Whole(load_row(s, n, c).rows, rows, k + 1)
      BY <2>1, <2>4, <3>1, LoadTurn
    <3>3. t[k + 1] = load_row(s, n, c)
      BY <2>3 DEF s
    <3> QED BY <3>2, <3>3 DEF s
  <2> QED BY <2>1, <2>2, <2>5
<1>7. Good(w)
  <2>1. 0 .. w \subseteq T
    <3> HIDE DEF T
    <3> QED BY <1>1, <1>5, <1>6, UpTo
  <2>2. w \in T
    <3> HIDE DEF T
    <3> QED BY <1>1, <2>1
  <2> QED BY <2>2
<1>8. t[w + 1].rows = t[w].rows /\ ~ t[w + 1].more
  <2>1. (w + 1) - 1 = w /\ w \in 0 .. N
    BY <1>1, <1>3
  <2>2. t[w] \in Loaded(c) /\ t[w + 1] = load_row(t[w], n, c)
    BY <1>3, <1>4, <1>7, <2>1
  <2> QED BY <1>7, <2>2, LoadTurn
<1> DEFINE m == N - (w + 1)
           U == {k \in 0 .. m : t[(w + 1) + k] = t[w + 1]}
<1>9. m \in Nat
  BY <1>1, <1>3
<1>10. 0 .. m \subseteq U
  <2>1. 0 \in U
    BY <1>1, <1>9
  <2>2. ASSUME NEW k \in 0 .. m - 1, k \in U PROVE k + 1 \in U
    <3>1. /\ (w + 1) + (k + 1) \in 1 .. N /\ ((w + 1) + (k + 1)) - 1 = (w + 1) + k
          /\ k + 1 \in 0 .. m
      BY <1>1, <1>3
    <3> HIDE DEF m
    <3>2. t[(w + 1) + k] = t[w + 1]
      BY <2>2
    <3> DEFINE j == (w + 1) + (k + 1)
    <3> HIDE DEF j
    <3>3. j \in 1 .. N /\ t[j - 1] = t[w + 1]
      BY <3>1, <3>2 DEF j
    <3>4. t[j] = t[w + 1]
      BY <1>4, <1>8, <3>3
    <3> QED BY <3>1, <3>4 DEF j
  <2> HIDE DEF U, m
  <2> QED BY <1>9, <2>1, <2>2, UpTo
<1>11. t[N] = t[w + 1]
  <2>1. m \in U /\ (w + 1) + m = N
    <3>1. (w + 1) + m = N
      BY <1>1, <1>3
    <3> HIDE DEF U, m
    <3> QED BY <1>9, <1>10, <3>1
  <2> HIDE DEF m
  <2> QED BY <2>1
<1> QED BY <1>2, <1>7, <1>8, <1>11

\* The first rows take the bytes up to where the next one stands.
LEMMA SavedFront ==
  ASSUME NEW rows, NEW n, NEW z, NEW P, Saved(rows, n, z, P), NEW k \in 0 .. Len(rows)
  PROVE  Len(save_rows(SubSeq(rows, 1, k))) = P[k]
<1> DEFINE r == SubSeq(rows, 1, k)
<1>1. /\ rows \in Seq(Seq(Signed)) /\ Len(rows) \in Nat /\ n \in Nat \ {0} /\ P[0] = 0
      /\ \A i \in 1 .. Len(rows) : Len(rows[i]) = n /\ P[i] = P[i - 1] + Len(Row(rows[i]))
  <2>1. rows \in Seq(Seq(Signed))
    BY DEF Saved
  <2> QED BY <2>1, LenProperties DEF Saved
<1>2. r \in Seq(Seq(Signed)) /\ Len(r) = k /\ \A i \in 1 .. k : r[i] = rows[i]
  BY <1>1, SubSeqProperties
<1> HIDE DEF r
<1>3. \A i \in DOMAIN r : Len(r[i]) = n
  <2>1. DOMAIN r = 1 .. k /\ \A i \in 1 .. k : i \in 1 .. Len(rows)
    BY <1>1, <1>2, LenProperties
  <2>2. ASSUME NEW i \in DOMAIN r PROVE Len(r[i]) = n
    <3>1. i \in 1 .. k /\ i \in 1 .. Len(rows)
      BY <2>1
    <3>2. r[i] = rows[i] /\ Len(rows[i]) = n
      BY <1>1, <1>2, <3>1
    <3> QED BY <3>2
  <2> QED BY <2>2
<1>4. PICK Q : Saved(r, n, save_rows(r), Q)
  BY <1>1, <1>2, <1>3, SaveIs
<1>5. /\ Q[0] = 0 /\ Q[k] = Len(save_rows(r))
      /\ \A i \in 1 .. k : Q[i] = Q[i - 1] + Len(Row(r[i]))
  BY <1>2, <1>4 DEF Saved
<1> DEFINE T == {i \in 0 .. k : Q[i] = P[i]}
<1>6. 0 .. k \subseteq T
  <2>1. 0 \in T
    BY <1>1, <1>5
  <2>2. ASSUME NEW i \in 0 .. k - 1, i \in T PROVE i + 1 \in T
    <3>1. i + 1 \in 1 .. k /\ i + 1 \in 1 .. Len(rows) /\ (i + 1) - 1 = i /\ i + 1 \in 0 .. k
      BY <1>1
    <3>2. Q[i + 1] = Q[i] + Len(Row(r[i + 1])) /\ P[i + 1] = P[i] + Len(Row(rows[i + 1]))
      BY <1>1, <1>5, <3>1
    <3>3. r[i + 1] = rows[i + 1] /\ Q[i] = P[i]
      BY <1>2, <2>2, <3>1
    <3> QED BY <3>1, <3>2, <3>3
  <2>3. k \in Nat
    BY <1>1
  <2> HIDE DEF T
  <2> QED BY <2>1, <2>2, <2>3, UpTo
<1>7. Q[k] = P[k]
  <2>1. k \in T
    <3> HIDE DEF T
    <3> QED BY <1>6
  <2> QED BY <2>1
<1> QED BY <1>5, <1>7 DEF r

-----------------------------------------------------------------------------
\* What is left of a body that was cut.
LEMMA CutFront ==
  ASSUME NEW z \in Seq(Byte), NEW n \in 0 .. Len(z)
  PROVE  FrontOf(SubSeq(z, 1, n), z) /\ Len(SubSeq(z, 1, n)) = n
<1> DEFINE c == SubSeq(z, 1, n)
<1>1. Len(z) \in Nat
  BY LenProperties
<1>2. c \in Seq(Byte) /\ Len(c) = n /\ \A i \in 1 .. n : c[i] = z[i]
  BY <1>1, SubSeqProperties
<1> HIDE DEF c
<1>3. FrontOf(c, z) /\ Len(c) = n
  BY <1>1, <1>2 DEF FrontOf
<1> QED BY <1>3 DEF c

\* Sequences that agree are the same.
LEMMA SameRows ==
  ASSUME NEW r, NEW rows \in Seq(Seq(Signed)), Whole(r, rows, Len(rows))
  PROVE  r = rows
<1>1. r \in Seq(Seq(Int)) /\ Len(r) = Len(rows) /\ \A i \in 1 .. Len(rows) : r[i] = rows[i]
  BY DEF Whole
<1>2. r = [i \in 1 .. Len(r) |-> r[i]] /\ rows = [i \in 1 .. Len(rows) |-> rows[i]]
  BY <1>1, LenProperties
<1> QED BY <1>1, <1>2
=============================================================================
