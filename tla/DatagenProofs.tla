----------------------------- MODULE DatagenProofs -----------------------------
(***************************************************************************)
(* Proofs about TagResolve and Datagen, for any jars: webs of tags with    *)
(* any cycles, any entries, items and blocks, and any number of runs,      *)
(* interruptions and upgrades of the tool.                                 *)
(*                                                                         *)
(* A list that resolve returns from inside a cycle is not complete: it     *)
(* lacks what the tags on the stack lead to.  Two things are true of a     *)
(* call all the same.  What the tags that it adds to the cache name        *)
(* themselves is in its list (Adds); and what the tags in the cache refer  *)
(* to is there too, or on the stack (Ready).  At the outermost call the    *)
(* stack is empty and so was the cache: what it added is closed under      *)
(* references, and its list is all that the tag leads to.                  *)
(*                                                                         *)
(* IInv says which jar each file is of, that a directory in which no jar   *)
(* followed another has the entries of that jar, and what of it the server *)
(* has read and has still to read.                                         *)
(***************************************************************************)
EXTENDS Datagen, FieldFacts

-----------------------------------------------------------------------------
(***************************************************************************)
(* TagResolve.                                                             *)
(***************************************************************************)
\* What a list of indices holds, and that it holds nothing twice.
LEMMA Pushed ==
  ASSUME NEW A, NEW out \in Seq(A), NEW x \in A
  PROVE  /\ push(out, x) \in Seq(A)
         /\ ToSet(push(out, x)) = ToSet(out) \cup {x}
         /\ IsInjective(out) => IsInjective(push(out, x))
<1>1. Len(out) \in Nat /\ DOMAIN out = 1 .. Len(out)
  BY LenProperties
<1>2. CASE Contains(out, x)
  <2>1. push(out, x) = out
    BY <1>2 DEF push
  <2>2. x \in ToSet(out)
    BY <1>1, <1>2 DEF Contains, ToSet
  <2> QED BY <2>1, <2>2
<1>3. CASE ~Contains(out, x)
  <2> DEFINE s == Append(out, x)
  <2>1. push(out, x) = s
    BY <1>3 DEF push
  <2>2. /\ s \in Seq(A) /\ Len(s) = Len(out) + 1 /\ s[Len(out) + 1] = x
        /\ \A i \in 1 .. Len(out) : s[i] = out[i]
    BY AppendProperties, <1>1
  <2>3. DOMAIN s = 1 .. Len(out) + 1
    BY <2>2, LenProperties
  <2> HIDE DEF s
  <2>4. \A i \in 1 .. Len(out) : out[i] # x
    BY <1>3 DEF Contains
  <2>5. 1 .. Len(out) + 1 = (1 .. Len(out)) \cup {Len(out) + 1}
    BY <1>1
  <2>6. ToSet(s) = ToSet(out) \cup {x}
    BY <1>1, <2>2, <2>3, <2>5 DEF ToSet
  <2>7. ASSUME IsInjective(out) PROVE IsInjective(s)
    <3> SUFFICES ASSUME NEW a \in 1 .. Len(out) + 1, NEW b \in 1 .. Len(out) + 1, s[a] = s[b]
                 PROVE  a = b
      BY <2>3 DEF IsInjective
    <3>1. \A i, k \in 1 .. Len(out) : out[i] = out[k] => i = k
      BY <1>1, <2>7 DEF IsInjective
    <3> QED BY <1>1, <2>2, <2>4, <2>5, <3>1
  <2> QED BY <2>1, <2>2, <2>6, <2>7
<1> QED BY <1>2, <1>3

LEMMA Extended ==
  ASSUME NEW A, NEW out \in Seq(A), NEW more \in Seq(A)
  PROVE  /\ extend(out, more) \in Seq(A)
         /\ ToSet(extend(out, more)) = ToSet(out) \cup ToSet(more)
         /\ IsInjective(out) => IsInjective(extend(out, more))
<1> DEFINE N == Len(more)
           B == Seq(A)
           eq(f) == f = [k \in 0 .. N |-> IF k = 0 THEN out ELSE push(f[k - 1], more[k])]
           step == [x \in (1 .. N) \X B |-> push(x[2], more[x[1]])]
           f == CHOOSE h : eq(h)
<1>1. N \in Nat /\ DOMAIN more = 1 .. N /\ \A k \in 1 .. N : more[k] \in A
  BY LenProperties, ElementOfSeq
<1> HIDE DEF N
<1>2. step \in [(1 .. N) \X B -> B]
  <2>1. ASSUME NEW x \in (1 .. N) \X B PROVE push(x[2], more[x[1]]) \in B
    <3>1. x[1] \in 1 .. N /\ x[2] \in B
      OBVIOUS
    <3> QED BY <1>1, <3>1, Pushed
  <2> QED BY <2>1
<1>3. PICK g : Counted(g, N, B, out, step)
  <2> HIDE DEF step
  <2>1. out \in B
    OBVIOUS
  <2> HIDE DEF B
  <2> QED BY <1>1, <1>2, <2>1, CountedRecursion
<1>4. eq(g)
  <2>1. ASSUME NEW k \in 1 .. N PROVE g[k] = push(g[k - 1], more[k])
    <3>1. k - 1 \in 0 .. N
      BY <1>1
    <3>2. g[k - 1] \in B /\ g[k] = step[<<k, g[k - 1]>>]
      BY <1>3, <3>1 DEF Counted
    <3>3. <<k, g[k - 1]>> \in (1 .. N) \X B
      BY <3>2
    <3> QED BY <3>2, <3>3
  <2>2. g \in [0 .. N -> B] /\ g[0] = out
    BY <1>3 DEF Counted
  <2>3. \A k \in 0 .. N : k # 0 => k \in 1 .. N
    BY <1>1
  <2> HIDE DEF step, B
  <2>4. \A k \in 0 .. N : g[k] = IF k = 0 THEN out ELSE push(g[k - 1], more[k])
    BY <2>1, <2>2, <2>3
  <2> QED BY <2>2, <2>4
<1>5. eq(f)
  <2> HIDE DEF eq
  <2> QED BY <1>4
<1>6. extend(out, more) = f[N]
  BY Zenon DEF extend, N
<1>7. f[0] = out /\ \A k \in 0 .. N - 1 : f[k + 1] = push(f[k], more[k + 1])
  <2>1. \A k \in 0 .. N - 1 : k + 1 \in 0 .. N /\ k + 1 # 0 /\ (k + 1) - 1 = k
    BY <1>1
  <2>2. 0 \in 0 .. N
    BY <1>1
  <2>3. \A k \in 0 .. N : f[k] = IF k = 0 THEN out ELSE push(f[k - 1], more[k])
    <3> HIDE DEF f
    <3> QED BY <1>5
  <2> HIDE DEF f
  <2> QED BY <2>1, <2>2, <2>3
<1> HIDE DEF f, eq, step
<1> DEFINE P(k) == /\ f[k] \in B
                   /\ ToSet(f[k]) = ToSet(out) \cup {more[i] : i \in 1 .. k}
                   /\ IsInjective(out) => IsInjective(f[k])
           T == {k \in 0 .. N : P(k)}
<1>8. 0 \in T
  BY <1>1, <1>7
<1>9. ASSUME NEW k \in 0 .. N - 1, k \in T PROVE k + 1 \in T
  <2>1. P(k) /\ k + 1 \in 0 .. N /\ k + 1 \in 1 .. N
    BY <1>1, <1>9
  <2>2. more[k + 1] \in A
    BY <1>1, <2>1
  <2> DEFINE s == f[k]
             x == more[k + 1]
  <2>3. /\ push(s, x) \in Seq(A) /\ ToSet(push(s, x)) = ToSet(s) \cup {x}
        /\ IsInjective(s) => IsInjective(push(s, x))
    <3>1. s \in Seq(A) /\ x \in A
      BY <2>1, <2>2
    <3> HIDE DEF s, x
    <3> QED BY <3>1, Pushed
  <2>4. {more[i] : i \in 1 .. k + 1} = {more[i] : i \in 1 .. k} \cup {more[k + 1]}
    <3>1. 1 .. k + 1 = (1 .. k) \cup {k + 1}
      BY <1>1
    <3> QED BY <3>1
  <2>5. P(k + 1)
    BY <1>7, <2>1, <2>3, <2>4
  <2> QED BY <2>1, <2>5
<1>10. N \in T
  <2> HIDE DEF T
  <2>1. 0 .. N \subseteq T
    BY <1>1, <1>8, <1>9, UpTo
  <2> QED BY <1>1, <2>1
<1>11. ToSet(more) = {more[i] : i \in 1 .. N}
  BY <1>1 DEF ToSet
<1> QED BY <1>6, <1>10, <1>11

\* Recursion over the subsets of T, where what a set has depends on what it has
\* without any of its elements.
Without(g, s) == [t \in s |-> g[s \ {t}]]

Descends(g, T, A, step) ==
  g \in [SUBSET T -> A] /\ \A s \in SUBSET T : g[s] = step[<<s, Without(g, s)>>]

LEMMA DescendingRecursion ==
  ASSUME NEW T, IsFiniteSet(T), NEW A, NEW a \in A,
         NEW step, \A s \in SUBSET T : \A h \in [s -> A] : step[<<s, h>>] \in A
  PROVE  \E g : Descends(g, T, A, step)
<1> DEFINE Good(g, n) == /\ g \in [SUBSET T -> A]
                         /\ \A s \in SUBSET T : Cardinality(s) < n
                              => g[s] = step[<<s, Without(g, s)>>]
           Ns == {n \in Nat : \E g : Good(g, n)}
<1>1. \A s \in SUBSET T : IsFiniteSet(s) /\ Cardinality(s) \in Nat
  BY FS_Subset, FS_CardinalityType
<1>2. 0 \in Ns
  <2> DEFINE g == [s \in SUBSET T |-> a]
  <2>1. Good(g, 0)
    BY <1>1
  <2>2. \E h : Good(h, 0)
    <3> HIDE DEF Good, g
    <3> QED BY <2>1
  <2> HIDE DEF Good
  <2> QED BY <2>2
<1>3. ASSUME NEW k \in Nat, k \in Ns PROVE k + 1 \in Ns
  <2>1. PICK g : Good(g, k)
    BY <1>3
  <2>2. ASSUME NEW s \in SUBSET T PROVE Without(g, s) \in [s -> A]
    <3>1. ASSUME NEW t \in s PROVE g[s \ {t}] \in A
      BY <2>1
    <3> QED BY <3>1 DEF Without
  <2> DEFINE h == [s \in SUBSET T |-> step[<<s, Without(g, s)>>]]
  <2>3. h \in [SUBSET T -> A]
    <3>1. \A s \in SUBSET T : step[<<s, Without(g, s)>>] \in A
      BY <2>2
    <3> QED BY <3>1
  <2>4. ASSUME NEW s \in SUBSET T, Cardinality(s) < k + 1
        PROVE  h[s] = step[<<s, Without(h, s)>>]
    <3>1. ASSUME NEW t \in s PROVE g[s \ {t}] = h[s \ {t}]
      <4> DEFINE r == s \ {t}
      <4>1. r \in SUBSET T /\ Cardinality(r) = Cardinality(s) - 1
        BY <1>1, FS_RemoveElement
      <4>2. Cardinality(r) < k
        <5>1. Cardinality(s) \in Nat
          BY <1>1
        <5> HIDE DEF r
        <5> QED BY <2>4, <4>1, <5>1
      <4> HIDE DEF r
      <4>3. g[r] = step[<<r, Without(g, r)>>]
        BY <2>1, <4>1, <4>2
      <4>4. h[r] = step[<<r, Without(g, r)>>]
        BY <4>1
      <4>5. g[r] = h[r]
        BY <4>3, <4>4
      <4> QED BY <4>5 DEF r
    <3>2. Without(g, s) = Without(h, s)
      <4> HIDE DEF h
      <4> QED BY <3>1 DEF Without
    <3>3. h[s] = step[<<s, Without(g, s)>>]
      OBVIOUS
    <3> HIDE DEF h
    <3> QED BY <3>2, <3>3
  <2> HIDE DEF h
  <2>5. Good(h, k + 1)
    BY <2>3, <2>4
  <2>6. \E j : Good(j, k + 1)
    <3> HIDE DEF Good
    <3> QED BY <2>5
  <2> HIDE DEF Good
  <2> QED BY <2>6
<1>4. Cardinality(T) + 1 \in Ns
  <2>1. Cardinality(T) \in Nat
    BY FS_CardinalityType
  <2>2. \A n \in Nat : n \in Ns
    <3> HIDE DEF Ns
    <3> QED BY <1>2, <1>3, ForAllNaturals
  <2> HIDE DEF Ns
  <2>3. Cardinality(T) + 1 \in Nat
    BY <2>1
  <2> QED BY <2>2, <2>3
<1>5. PICK g : Good(g, Cardinality(T) + 1)
  BY <1>4
<1>6. \A s \in SUBSET T : Cardinality(s) < Cardinality(T) + 1
  <2>1. Cardinality(T) \in Nat /\ \A s \in SUBSET T : Cardinality(s) <= Cardinality(T)
    BY FS_Subset, FS_CardinalityType
  <2> QED BY <1>1, <2>1
<1>7. Descends(g, T, A, step)
  BY <1>5, <1>6 DEF Descends
<1> QED BY <1>7

\* What a call of resolve returns.
Results(lookup) == [out : Seq(Indices(lookup)), cache : Caches(lookup)]

LEMMA FollowType ==
  ASSUME NEW lookup, NEW called \in [Calls(lookup) -> Results(lookup)],
         NEW s \in Results(lookup), NEW v
  PROVE  follow(s, v, lookup, called) \in Results(lookup)
<1> DEFINE I == Indices(lookup)
           K == Caches(lookup)
<1>1. s.out \in Seq(I) /\ s.cache \in K
  BY DEF Results
<1>2. CASE v \in TagNames
  <2> DEFINE sub == called[<<v, s.cache>>]
  <2>1. sub \in Results(lookup)
    BY <1>1, <1>2 DEF Calls
  <2>2. sub.out \in Seq(I) /\ sub.cache \in K
    BY <2>1 DEF Results
  <2>3. follow(s, v, lookup, called) = [out |-> extend(s.out, sub.out), cache |-> sub.cache]
    BY <1>2, Zenon DEF follow
  <2> HIDE DEF sub
  <2>4. extend(s.out, sub.out) \in Seq(I)
    <3> HIDE DEF I
    <3> QED BY <1>1, <2>2, Extended
  <2> QED BY <2>2, <2>3, <2>4 DEF Results
<1>3. CASE v \notin TagNames /\ v \in DOMAIN lookup
  <2>1. follow(s, v, lookup, called) = [out |-> push(s.out, lookup[v]), cache |-> s.cache]
    BY <1>3, Zenon DEF follow
  <2>2. lookup[v] \in I
    BY <1>3 DEF Indices
  <2>3. push(s.out, lookup[v]) \in Seq(I)
    <3> HIDE DEF I
    <3> QED BY <1>1, <2>2, Pushed
  <2> QED BY <1>1, <2>1, <2>3 DEF Results
<1>4. CASE v \notin TagNames /\ v \notin DOMAIN lookup
  BY <1>4, Zenon DEF follow
<1> QED BY <1>2, <1>3, <1>4

\* The values of a tag; those of one that the registry does not define are none.
ValuesOf(tags, t) == IF t \in DOMAIN tags THEN tags[t] ELSE <<>>

\* t are the states of the loop over the values.
Turned(t, values, cache, lookup, called) ==
  /\ t \in [0 .. Len(values) -> Results(lookup)] /\ t[0] = [out |-> <<>>, cache |-> cache]
  /\ \A k \in 0 .. Len(values) - 1 : t[k + 1] = follow(t[k], values[k + 1], lookup, called)

\* And x is what the call makes of the last.
Loops(t, x, tag, cache, tags, lookup, called) ==
  LET N == Len(ValuesOf(tags, tag))
  IN  /\ Turned(t, ValuesOf(tags, tag), cache, lookup, called)
      /\ x = [out |-> t[N].out, cache |-> [t[N].cache EXCEPT ![tag] = t[N].out]]

LEMMA ExpandRuns ==
  ASSUME NEW tags, NEW lookup, NEW called \in [Calls(lookup) -> Results(lookup)],
         NEW tag \in TagNames, NEW cache \in Caches(lookup), NEW A, ValuesOf(tags, tag) \in Seq(A)
  PROVE  \E t : Loops(t, expand(tag, cache, tags, lookup, called), tag, cache, tags, lookup, called)
<1> DEFINE values == ValuesOf(tags, tag)
           N == Len(values)
           B == Results(lookup)
           base == [out |-> <<>>, cache |-> cache]
           eq(f) == f = [k \in 0 .. N |-> IF k = 0 THEN base
                                          ELSE follow(f[k - 1], values[k], lookup, called)]
           step == [x \in (1 .. N) \X B |-> follow(x[2], values[x[1]], lookup, called)]
           f == CHOOSE h : eq(h)
<1>1. N \in Nat
  BY LenProperties
<1>2. base \in B
  BY DEF Results
<1>3. step \in [(1 .. N) \X B -> B]
  <2>1. ASSUME NEW x \in (1 .. N) \X B PROVE follow(x[2], values[x[1]], lookup, called) \in B
    <3>1. x[2] \in B
      OBVIOUS
    <3> HIDE DEF values, N
    <3> QED BY <3>1, FollowType
  <2> HIDE DEF values, N, B
  <2> QED BY <2>1
<1>4. PICK g : Counted(g, N, B, base, step)
  <2> HIDE DEF step, base, B, N
  <2> QED BY <1>1, <1>2, <1>3, CountedRecursion
<1> HIDE DEF N
<1>5. eq(g)
  <2>1. ASSUME NEW k \in 1 .. N PROVE g[k] = follow(g[k - 1], values[k], lookup, called)
    <3>1. k - 1 \in 0 .. N
      BY <1>1
    <3>2. g[k - 1] \in B /\ g[k] = step[<<k, g[k - 1]>>]
      <4> HIDE DEF B, step, base
      <4> QED BY <1>4, <3>1 DEF Counted
    <3>3. <<k, g[k - 1]>> \in (1 .. N) \X B
      BY <3>2
    <3> HIDE DEF values, B
    <3> QED BY <3>2, <3>3
  <2>2. g \in [0 .. N -> B] /\ g[0] = base
    BY <1>4 DEF Counted
  <2>3. \A k \in 0 .. N : k # 0 => k \in 1 .. N
    BY <1>1
  <2> HIDE DEF step, B, values, base
  <2>4. \A k \in 0 .. N : g[k] = IF k = 0 THEN base ELSE follow(g[k - 1], values[k], lookup, called)
    BY <2>1, <2>2, <2>3
  <2> QED BY <2>2, <2>4
<1>6. eq(f)
  <2> HIDE DEF eq
  <2> QED BY <1>5
<1>7. expand(tag, cache, tags, lookup, called) =
        [out |-> f[N].out, cache |-> [f[N].cache EXCEPT ![tag] = f[N].out]]
  BY Zenon DEF expand, N, ValuesOf
<1>8. f[0] = base /\ \A k \in 0 .. N - 1 : f[k + 1] = follow(f[k], values[k + 1], lookup, called)
  <2>1. \A k \in 0 .. N - 1 : k + 1 \in 0 .. N /\ k + 1 # 0 /\ (k + 1) - 1 = k
    BY <1>1
  <2>2. 0 \in 0 .. N
    BY <1>1
  <2>3. \A k \in 0 .. N : f[k] = IF k = 0 THEN base ELSE follow(f[k - 1], values[k], lookup, called)
    <3> HIDE DEF f, values, base
    <3> QED BY <1>6
  <2> HIDE DEF f, values, base
  <2> QED BY <2>1, <2>2, <2>3
<1>9. \A k \in 0 .. N : f[k] \in B
  <2> DEFINE T == {k \in 0 .. N : f[k] \in B}
  <2>1. 0 \in T
    <3> HIDE DEF f, B, base
    <3> QED BY <1>1, <1>2, <1>8
  <2>2. ASSUME NEW k \in 0 .. N - 1, k \in T PROVE k + 1 \in T
    <3>1. f[k] \in B /\ k + 1 \in 0 .. N
      BY <1>1, <2>2
    <3> HIDE DEF f, values
    <3>2. f[k + 1] \in B
      BY <1>8, <3>1, FollowType
    <3> QED BY <3>1, <3>2
  <2>3. 0 .. N \subseteq T
    <3> HIDE DEF T
    <3> QED BY <1>1, <2>1, <2>2, UpTo
  <2> QED BY <2>3
<1>10. f \in [0 .. N -> B]
  <2>1. f = [k \in 0 .. N |-> f[k]]
    <3> HIDE DEF values, base
    <3>1. f = [k \in 0 .. N |-> IF k = 0 THEN base
                                ELSE follow(f[k - 1], values[k], lookup, called)]
      BY <1>6
    <3> HIDE DEF f
    <3> QED BY <3>1
  <2> HIDE DEF f, B
  <2> QED BY <1>9, <2>1
<1> HIDE DEF f, B
<1>11. Turned(f, values, cache, lookup, called)
  <2> HIDE DEF values
  <2> QED BY <1>8, <1>10 DEF Turned, N, B
<1>12. Loops(f, expand(tag, cache, tags, lookup, called), tag, cache, tags, lookup, called)
  BY <1>7, <1>11, Zenon DEF Loops, N
<1> QED BY <1>12

\* What one tag names and refers to itself, and what the tags of C name.
Direct(tags, lookup, u) == {lookup[e] : e \in DOMAIN lookup \cap ToSet(ValuesOf(tags, u))}
Refers(tags, u) == TagNames \cap ToSet(ValuesOf(tags, u))
Meant(tags, lookup, C) == UNION {Direct(tags, lookup, u) : u \in C}

Known(cache) == {t \in TagNames : cache[t] # NotCached}

\* Of a list of indices for tag: nothing twice, and nothing that it does not lead to.
Fair(out, tag, tags, lookup) ==
  /\ IsInjective(out)
  /\ \A C \in SUBSET TagNames :
       tag \in C /\ Closed(tags, C) => ToSet(out) \subseteq Meant(tags, lookup, C)

\* Of the cache while the tags outside free are on the stack: its lists are fair,
\* and what its tags refer to it knows, or is on the stack.
Ready(cache, tags, lookup, free) ==
  /\ \A t \in Known(cache) : Fair(cache[t], t, tags, lookup)
  /\ \A u \in Known(cache) : Refers(tags, u) \subseteq Known(cache) \cup (TagNames \ free)

\* r adds to the cache, and has what the tags say that it adds.
Adds(r, cache, tags, lookup) ==
  /\ Known(cache) \subseteq Known(r.cache)
  /\ \A u \in Known(r.cache) \ Known(cache) : Direct(tags, lookup, u) \subseteq ToSet(r.out)

\* r is what a call for tag promises.
Answers(r, tag, cache, tags, lookup, free) ==
  /\ r \in Results(lookup) /\ Fair(r.out, tag, tags, lookup)
  /\ Ready(r.cache, tags, lookup, free) /\ Adds(r, cache, tags, lookup)
  /\ tag \in Known(r.cache) \cup (TagNames \ free)

Resolves(called, tags, lookup, free) ==
  /\ called \in [Calls(lookup) -> Results(lookup)]
  /\ \A tag \in TagNames : \A cache \in Caches(lookup) :
       Ready(cache, tags, lookup, free) =>
         Answers(called[<<tag, cache>>], tag, cache, tags, lookup, free)

\* The registry's tags: what they list are tags or entries, not both.
Web(tags, lookup) ==
  /\ DOMAIN tags \subseteq TagNames /\ \A t \in DOMAIN tags : tags[t] \in Seq(TagNames \cup Int)
  /\ \A e \in DOMAIN lookup : lookup[e] \in Int /\ e \notin TagNames

\* What the loop over a tag's values has done after k of them, where free are
\* the tags that are not on the stack with the tag on it.
Halfway(s, k, tag, cache, tags, lookup, free) ==
  /\ s \in Results(lookup) /\ Fair(s.out, tag, tags, lookup)
  /\ Ready(s.cache, tags, lookup, free) /\ Adds(s, cache, tags, lookup)
  /\ \A i \in 1 .. k :
       LET v == ValuesOf(tags, tag)[i]
       IN  /\ v \in TagNames => v \in Known(s.cache) \cup (TagNames \ free)
           /\ v \in DOMAIN lookup => lookup[v] \in ToSet(s.out)

\* Whatever closed set holds a tag holds what it refers to, and means what the tag names.
LEMMA ClosedFacts ==
  ASSUME NEW tags, NEW lookup, NEW tag \in TagNames, NEW C \in SUBSET TagNames,
         tag \in C, Closed(tags, C)
  PROVE  Refers(tags, tag) \subseteq C /\ Direct(tags, lookup, tag) \subseteq Meant(tags, lookup, C)
<1>1. Refers(tags, tag) \subseteq C
  <2>1. CASE tag \in DOMAIN tags
    BY <2>1 DEF Closed, Refers, ValuesOf
  <2>2. CASE tag \notin DOMAIN tags
    <3>1. ToSet(ValuesOf(tags, tag)) = {}
      BY <2>2 DEF ValuesOf, ToSet
    <3> QED BY <3>1 DEF Refers
  <2> QED BY <2>1, <2>2
<1>2. Direct(tags, lookup, tag) \subseteq Meant(tags, lookup, C)
  <2> HIDE DEF Direct
  <2> QED BY DEF Meant
<1> QED BY <1>1, <1>2

\* Lists are joined fairly.
LEMMA FairJoin ==
  ASSUME NEW A, NEW out \in Seq(A), NEW more \in Seq(A), NEW tag \in TagNames, NEW v \in TagNames,
         NEW tags, NEW lookup, Fair(out, tag, tags, lookup), Fair(more, v, tags, lookup),
         v \in Refers(tags, tag)
  PROVE  Fair(extend(out, more), tag, tags, lookup)
<1>1. /\ ToSet(extend(out, more)) = ToSet(out) \cup ToSet(more)
      /\ IsInjective(extend(out, more))
  BY Extended DEF Fair
<1>2. ASSUME NEW C \in SUBSET TagNames, tag \in C, Closed(tags, C)
      PROVE  ToSet(extend(out, more)) \subseteq Meant(tags, lookup, C)
  <2>1. v \in C
    BY <1>2, ClosedFacts
  <2>2. ToSet(out) \subseteq Meant(tags, lookup, C) /\ ToSet(more) \subseteq Meant(tags, lookup, C)
    BY <1>2, <2>1 DEF Fair
  <2> QED BY <1>1, <2>2
<1> QED BY <1>1, <1>2 DEF Fair

LEMMA FollowStep ==
  ASSUME NEW tags, NEW lookup, Web(tags, lookup), NEW free \in SUBSET TagNames,
         NEW called, Resolves(called, tags, lookup, free),
         NEW tag \in TagNames, NEW cache \in Caches(lookup), NEW s, NEW k \in Nat,
         k + 1 \in 1 .. Len(ValuesOf(tags, tag)),
         Halfway(s, k, tag, cache, tags, lookup, free)
  PROVE  Halfway(follow(s, ValuesOf(tags, tag)[k + 1], lookup, called), k + 1,
                 tag, cache, tags, lookup, free)
<1> DEFINE values == ValuesOf(tags, tag)
           v == values[k + 1]
           I == Indices(lookup)
           r == follow(s, v, lookup, called)
<1>1. /\ s \in Results(lookup) /\ Fair(s.out, tag, tags, lookup)
      /\ Ready(s.cache, tags, lookup, free) /\ Adds(s, cache, tags, lookup)
      /\ s.out \in Seq(I) /\ s.cache \in Caches(lookup)
  BY DEF Halfway, Results
<1>2. r \in Results(lookup)
  <2>1. called \in [Calls(lookup) -> Results(lookup)]
    BY DEF Resolves
  <2> HIDE DEF v
  <2> QED BY <1>1, <2>1, FollowType
<1>3. v \in ToSet(values)
  <2>1. values \in Seq(TagNames \cup Int)
    BY DEF Web, ValuesOf
  <2>2. DOMAIN values = 1 .. Len(values)
    BY <2>1, LenProperties
  <2> HIDE DEF values
  <2> QED BY <2>2 DEF ToSet, values
<1>4. ASSUME NEW i \in 1 .. k + 1 PROVE i \in 1 .. k \/ i = k + 1
  OBVIOUS
<1>5. ASSUME NEW i \in 1 .. k
      PROVE  /\ values[i] \in TagNames => values[i] \in Known(s.cache) \cup (TagNames \ free)
             /\ values[i] \in DOMAIN lookup => lookup[values[i]] \in ToSet(s.out)
  <2> HIDE DEF values
  <2> QED BY DEF Halfway, values
<1>6. CASE v \in TagNames
  <2> DEFINE sub == called[<<v, s.cache>>]
  <2>1. Answers(sub, v, s.cache, tags, lookup, free)
    <3> HIDE DEF v
    <3> QED BY <1>1, <1>6 DEF Resolves
  <2>2. r = [out |-> extend(s.out, sub.out), cache |-> sub.cache]
    BY <1>6, Zenon DEF follow
  <2>3. v \in Refers(tags, tag)
    BY <1>3, <1>6 DEF Refers
  <2>4. v \notin DOMAIN lookup
    BY <1>6 DEF Web
  <2> HIDE DEF sub, v, r, values
  <2>5. /\ sub.out \in Seq(I) /\ Fair(sub.out, v, tags, lookup)
        /\ Ready(sub.cache, tags, lookup, free) /\ Adds(sub, s.cache, tags, lookup)
        /\ v \in Known(sub.cache) \cup (TagNames \ free)
    BY <2>1 DEF Answers, Results
  <2>6. r.out = extend(s.out, sub.out) /\ r.cache = sub.cache
    BY <2>2
  <2>7. Fair(r.out, tag, tags, lookup) /\ ToSet(r.out) = ToSet(s.out) \cup ToSet(sub.out)
    <3> HIDE DEF I
    <3> QED BY <1>1, <1>6, <2>3, <2>5, <2>6, FairJoin, Extended
  <2>8. Adds(r, cache, tags, lookup)
    BY <1>1, <2>5, <2>6, <2>7 DEF Adds
  <2>9. Known(s.cache) \subseteq Known(r.cache)
    BY <2>5, <2>6 DEF Adds
  <2>10. ASSUME NEW i \in 1 .. k + 1
         PROVE  /\ values[i] \in TagNames => values[i] \in Known(r.cache) \cup (TagNames \ free)
                /\ values[i] \in DOMAIN lookup => lookup[values[i]] \in ToSet(r.out)
    <3>1. CASE i \in 1 .. k
      BY <1>5, <2>7, <2>9, <3>1
    <3>2. CASE i = k + 1
      BY <2>4, <2>5, <2>6, <3>2 DEF v
    <3> QED BY <1>4, <3>1, <3>2
  <2>11. Halfway(r, k + 1, tag, cache, tags, lookup, free)
    BY <1>2, <2>5, <2>6, <2>7, <2>8, <2>10 DEF Halfway, values
  <2> QED BY <2>11 DEF r, v, values
<1>7. CASE v \notin TagNames /\ v \in DOMAIN lookup
  <2>1. r = [out |-> push(s.out, lookup[v]), cache |-> s.cache]
    BY <1>7, Zenon DEF follow
  <2>2. lookup[v] \in Direct(tags, lookup, tag)
    BY <1>3, <1>7 DEF Direct
  <2>3. lookup[v] \in I
    BY <1>7 DEF Indices
  <2> HIDE DEF v, r, values, I
  <2>4. r.out = push(s.out, lookup[v]) /\ r.cache = s.cache
    BY <2>1
  <2>5. /\ ToSet(r.out) = ToSet(s.out) \cup {lookup[v]}
        /\ IsInjective(r.out)
    BY <1>1, <2>3, <2>4, Pushed DEF Fair
  <2>6. Fair(r.out, tag, tags, lookup)
    <3>1. ASSUME NEW C \in SUBSET TagNames, tag \in C, Closed(tags, C)
          PROVE  ToSet(r.out) \subseteq Meant(tags, lookup, C)
      <4>1. lookup[v] \in Meant(tags, lookup, C)
        BY <2>2, <3>1, ClosedFacts
      <4>2. ToSet(s.out) \subseteq Meant(tags, lookup, C)
        BY <1>1, <3>1 DEF Fair
      <4> QED BY <2>5, <4>1, <4>2
    <3> QED BY <2>5, <3>1 DEF Fair
  <2>7. Adds(r, cache, tags, lookup)
    BY <1>1, <2>4, <2>5 DEF Adds
  <2>8. ASSUME NEW i \in 1 .. k + 1
        PROVE  /\ values[i] \in TagNames => values[i] \in Known(r.cache) \cup (TagNames \ free)
               /\ values[i] \in DOMAIN lookup => lookup[values[i]] \in ToSet(r.out)
    <3>1. CASE i \in 1 .. k
      BY <1>5, <2>4, <2>5, <3>1
    <3>2. CASE i = k + 1
      BY <1>7, <2>5, <3>2 DEF v
    <3> QED BY <1>4, <3>1, <3>2
  <2>9. Halfway(r, k + 1, tag, cache, tags, lookup, free)
    BY <1>1, <1>2, <2>4, <2>6, <2>7, <2>8 DEF Halfway, values
  <2> QED BY <2>9 DEF r, v, values
<1>8. CASE v \notin TagNames /\ v \notin DOMAIN lookup
  <2>1. r = s
    BY <1>8, Zenon DEF follow
  <2> HIDE DEF v, r, values
  <2>2. ASSUME NEW i \in 1 .. k + 1
        PROVE  /\ values[i] \in TagNames => values[i] \in Known(r.cache) \cup (TagNames \ free)
               /\ values[i] \in DOMAIN lookup => lookup[values[i]] \in ToSet(r.out)
    <3>1. CASE i \in 1 .. k
      BY <1>5, <2>1, <3>1
    <3>2. CASE i = k + 1
      BY <1>8, <3>2 DEF v
    <3> QED BY <1>4, <3>1, <3>2
  <2>3. Halfway(r, k + 1, tag, cache, tags, lookup, free)
    BY <1>1, <2>1, <2>2 DEF Halfway, values
  <2> QED BY <2>3 DEF r, v, values
<1> QED BY <1>6, <1>7, <1>8

\* A tag that is neither cached nor on the stack.
LEMMA Expanded ==
  ASSUME NEW tags, NEW lookup, Web(tags, lookup), NEW free \in SUBSET TagNames,
         NEW tag \in free, NEW called, Resolves(called, tags, lookup, free \ {tag}),
         NEW cache \in Caches(lookup), Ready(cache, tags, lookup, free), tag \notin Known(cache)
  PROVE  Answers(expand(tag, cache, tags, lookup, called), tag, cache, tags, lookup, free)
<1> DEFINE values == ValuesOf(tags, tag)
           N == Len(values)
           left == free \ {tag}
           I == Indices(lookup)
           x == expand(tag, cache, tags, lookup, called)
<1>1. /\ values \in Seq(TagNames \cup Int) /\ N \in Nat /\ DOMAIN values = 1 .. N
      /\ called \in [Calls(lookup) -> Results(lookup)] /\ tag \in TagNames
      /\ left \in SUBSET TagNames
  <2>1. values \in Seq(TagNames \cup Int)
    BY DEF Web, ValuesOf
  <2> HIDE DEF values
  <2> QED BY <2>1, LenProperties DEF Resolves
<1>2. PICK t : Turned(t, values, cache, lookup, called)
               /\ x = [out |-> t[N].out, cache |-> [t[N].cache EXCEPT ![tag] = t[N].out]]
  <2>1. ValuesOf(tags, tag) \in Seq(TagNames \cup Int)
    BY <1>1
  <2>2. PICK t : Loops(t, expand(tag, cache, tags, lookup, called), tag, cache, tags, lookup, called)
    BY <1>1, <2>1, ExpandRuns
  <2> QED BY <2>2, Zenon DEF Loops
<1> DEFINE H(k) == Halfway(t[k], k, tag, cache, tags, lookup, left)
           T == {k \in 0 .. N : H(k)}
<1>3. 0 \in T
  <2> DEFINE b == [out |-> <<>>, cache |-> cache]
  <2>1. t[0] = b
    BY <1>2 DEF Turned
  <2>2. b \in Results(lookup) /\ b.out = <<>> /\ b.cache = cache
    BY DEF Results
  <2> HIDE DEF b
  <2>3. Fair(<<>>, tag, tags, lookup)
    BY DEF Fair, IsInjective, ToSet
  <2>4. Ready(cache, tags, lookup, left)
    BY DEF Ready
  <2>5. Adds(b, cache, tags, lookup)
    BY <2>2 DEF Adds
  <2>6. H(0)
    <3> HIDE DEF left
    <3> QED BY <2>1, <2>2, <2>3, <2>4, <2>5 DEF Halfway
  <2> HIDE DEF H
  <2> QED BY <1>1, <2>6
<1>4. ASSUME NEW k \in 0 .. N - 1, k \in T PROVE k + 1 \in T
  <2>1. H(k) /\ k + 1 \in 0 .. N /\ k + 1 \in 1 .. N /\ k \in Nat
    BY <1>1, <1>4
  <2>2. t[k + 1] = follow(t[k], values[k + 1], lookup, called)
    BY <1>2 DEF Turned
  <2> HIDE DEF left
  <2>3. H(k + 1)
    BY <1>1, <2>1, <2>2, FollowStep DEF left
  <2> HIDE DEF H
  <2> QED BY <2>1, <2>3
<1>5. H(N)
  <2>1. N \in T
    <3> HIDE DEF T
    <3>1. 0 .. N \subseteq T
      BY <1>1, <1>3, <1>4, UpTo
    <3> QED BY <1>1, <3>1
  <2> QED BY <2>1
<1> DEFINE s == t[N]
<1> HIDE DEF T
<1>6. /\ s \in Results(lookup) /\ s.out \in Seq(I) /\ s.cache \in Caches(lookup)
      /\ Fair(s.out, tag, tags, lookup)
      /\ Ready(s.cache, tags, lookup, left) /\ Adds(s, cache, tags, lookup)
      /\ \A i \in 1 .. N :
           /\ values[i] \in TagNames => values[i] \in Known(s.cache) \cup (TagNames \ left)
           /\ values[i] \in DOMAIN lookup => lookup[values[i]] \in ToSet(s.out)
  BY <1>5 DEF Halfway, Results
<1> HIDE DEF s, H
<1> DEFINE c == [s.cache EXCEPT ![tag] = s.out]
<1>7. x.out = s.out /\ x.cache = c
  BY <1>2 DEF s
<1>8. s.out # NotCached
  <2>1. I \subseteq Int
    BY DEF Web, Indices
  <2>2. s.out \in Seq(Int)
    <3> HIDE DEF I
    <3>1. Len(s.out) \in Nat /\ s.out \in [1 .. Len(s.out) -> Int]
      <4>1. s.out = [i \in 1 .. Len(s.out) |-> s.out[i]] /\ \A i \in 1 .. Len(s.out) : s.out[i] \in I
        BY <1>6, LenProperties, ElementOfSeq
      <4> QED BY <1>6, <2>1, <4>1, LenProperties
    <3> QED BY <3>1, SeqDef
  <2> QED BY <2>2, NotCachedAssumption
<1>9. /\ c \in Caches(lookup) /\ c[tag] = s.out
      /\ \A u \in TagNames : u # tag => c[u] = s.cache[u]
  <2>1. s.out \in Seq(I) \cup {NotCached}
    BY <1>6
  <2> QED BY <1>1, <1>6, <2>1 DEF Caches
<1> HIDE DEF c, x
<1>10. Known(c) = Known(s.cache) \cup {tag}
  BY <1>1, <1>8, <1>9 DEF Known
<1>11. x \in Results(lookup)
  <2>1. x = [out |-> s.out, cache |-> c]
    BY <1>2 DEF c, s
  <2> QED BY <1>6, <1>9, <2>1 DEF Results
<1>12. \A i \in 1 .. N : values[i] \in TagNames => values[i] \in Known(c) \cup (TagNames \ free)
  BY <1>6, <1>10
<1>13. Refers(tags, tag) \subseteq Known(c) \cup (TagNames \ free)
  BY <1>1, <1>12 DEF Refers, ToSet
<1>14. Direct(tags, lookup, tag) \subseteq ToSet(s.out)
  BY <1>1, <1>6 DEF Direct, ToSet
<1>15. Ready(c, tags, lookup, free)
  <2>1. ASSUME NEW u \in Known(c) PROVE Fair(c[u], u, tags, lookup)
    <3>1. CASE u = tag
      BY <1>6, <1>9, <3>1
    <3>2. CASE u # tag
      <4>1. u \in Known(s.cache) /\ c[u] = s.cache[u]
        BY <1>9, <1>10, <2>1, <3>2 DEF Known
      <4> QED BY <1>6, <4>1 DEF Ready
    <3> QED BY <3>1, <3>2
  <2>2. ASSUME NEW u \in Known(c) PROVE Refers(tags, u) \subseteq Known(c) \cup (TagNames \ free)
    <3>1. CASE u = tag
      BY <1>13, <3>1
    <3>2. CASE u # tag
      <4>1. u \in Known(s.cache)
        BY <1>10, <2>2, <3>2
      <4>2. Refers(tags, u) \subseteq Known(s.cache) \cup (TagNames \ left)
        BY <1>6, <4>1 DEF Ready
      <4> QED BY <1>10, <4>2
    <3> QED BY <3>1, <3>2
  <2> QED BY <2>1, <2>2 DEF Ready
<1>16. Adds(x, cache, tags, lookup)
  BY <1>6, <1>7, <1>10, <1>14 DEF Adds
<1>17. tag \in Known(x.cache)
  BY <1>7, <1>10
<1> HIDE DEF left, I, values, N
<1>18. Answers(x, tag, cache, tags, lookup, free)
  BY <1>6, <1>7, <1>11, <1>15, <1>16, <1>17 DEF Answers
<1> QED BY <1>18 DEF x

LEMMA ExpandType ==
  ASSUME NEW tags, NEW lookup, Web(tags, lookup),
         NEW called \in [Calls(lookup) -> Results(lookup)],
         NEW tag \in TagNames, NEW cache \in Caches(lookup)
  PROVE  expand(tag, cache, tags, lookup, called) \in Results(lookup)
<1> DEFINE x == expand(tag, cache, tags, lookup, called)
           N == Len(ValuesOf(tags, tag))
<1>1. ValuesOf(tags, tag) \in Seq(TagNames \cup Int)
  BY DEF Web, ValuesOf
<1>2. PICK t : Loops(t, x, tag, cache, tags, lookup, called)
  BY <1>1, ExpandRuns
<1>3. /\ Turned(t, ValuesOf(tags, tag), cache, lookup, called)
      /\ x = [out |-> t[N].out, cache |-> [t[N].cache EXCEPT ![tag] = t[N].out]]
  BY <1>2, Zenon DEF Loops
<1>4. N \in Nat
  BY <1>1, LenProperties
<1> DEFINE s == t[N]
<1> HIDE DEF x
<1>5. s \in Results(lookup)
  BY <1>3, <1>4 DEF Turned
<1>6. x = [out |-> s.out, cache |-> [s.cache EXCEPT ![tag] = s.out]]
  BY <1>3
<1> HIDE DEF s
<1>7. x \in Results(lookup)
  BY <1>5, <1>6 DEF Results, Caches
<1> QED BY <1>7 DEF x

\* One call, where w are the calls it can make, by the tag taken from free.
Call(c, free, w, tags, lookup) ==
  IF c[2][c[1]] # NotCached THEN [out |-> c[2][c[1]], cache |-> c[2]]
  ELSE IF c[1] \notin free THEN [out |-> <<>>, cache |-> c[2]]
  ELSE expand(c[1], c[2], tags, lookup, w[c[1]])

LEMMA CallType ==
  ASSUME NEW tags, NEW lookup, Web(tags, lookup), NEW free \in SUBSET TagNames,
         NEW w, \A t \in free : w[t] \in [Calls(lookup) -> Results(lookup)],
         NEW c \in Calls(lookup)
  PROVE  Call(c, free, w, tags, lookup) \in Results(lookup)
<1>1. c[1] \in TagNames /\ c[2] \in Caches(lookup)
  BY DEF Calls
<1>2. CASE c[2][c[1]] # NotCached
  <2>1. c[2][c[1]] \in Seq(Indices(lookup))
    BY <1>1, <1>2 DEF Caches
  <2>2. Call(c, free, w, tags, lookup) = [out |-> c[2][c[1]], cache |-> c[2]]
    BY <1>2, Zenon DEF Call
  <2> QED BY <1>1, <2>1, <2>2 DEF Results
<1>3. CASE ~ (c[2][c[1]] # NotCached) /\ c[1] \notin free
  <2>1. Call(c, free, w, tags, lookup) = [out |-> <<>>, cache |-> c[2]]
    BY <1>3, Zenon DEF Call
  <2> QED BY <1>1, <2>1 DEF Results
<1>4. CASE ~ (c[2][c[1]] # NotCached) /\ c[1] \in free
  <2>1. Call(c, free, w, tags, lookup) = expand(c[1], c[2], tags, lookup, w[c[1]])
    BY <1>4, Zenon DEF Call
  <2>2. w[c[1]] \in [Calls(lookup) -> Results(lookup)]
    BY <1>4
  <2> QED BY <1>1, <2>1, <2>2, ExpandType
<1> QED BY <1>2, <1>3, <1>4

\* f are the calls of resolve, by the tags that are not on the stack.
Calling(f, tags, lookup) ==
  f = [free \in SUBSET TagNames |->
         [c \in Calls(lookup) |->
            IF c[2][c[1]] # NotCached THEN [out |-> c[2][c[1]], cache |-> c[2]]
            ELSE IF c[1] \notin free THEN [out |-> <<>>, cache |-> c[2]]
            ELSE expand(c[1], c[2], tags, lookup, f[free \ {c[1]}])]]

LEMMA ResolveRuns ==
  ASSUME NEW tags, NEW lookup, Web(tags, lookup)
  PROVE  \E f : Calling(f, tags, lookup) /\ resolve(tags, lookup) = f[TagNames]
<1> DEFINE A == [Calls(lookup) -> Results(lookup)]
           D == (SUBSET TagNames) \X UNION {[s -> A] : s \in SUBSET TagNames}
           step == [x \in D |-> [c \in Calls(lookup) |-> Call(c, x[1], x[2], tags, lookup)]]
           f == CHOOSE h : Calling(h, tags, lookup)
<1>1. ASSUME NEW s \in SUBSET TagNames, NEW w \in [s -> A]
      PROVE  /\ step[<<s, w>>] = [c \in Calls(lookup) |-> Call(c, s, w, tags, lookup)]
             /\ step[<<s, w>>] \in A
  <2>1. <<s, w>> \in D
    <3> HIDE DEF A
    <3> QED OBVIOUS
  <2>2. step[<<s, w>>] = [c \in Calls(lookup) |-> Call(c, s, w, tags, lookup)]
    <3> HIDE DEF D
    <3> QED BY <2>1
  <2>3. \A t \in s : w[t] \in [Calls(lookup) -> Results(lookup)]
    OBVIOUS
  <2>4. \A c \in Calls(lookup) : Call(c, s, w, tags, lookup) \in Results(lookup)
    BY <2>3, CallType
  <2> HIDE DEF step
  <2> QED BY <2>2, <2>4
<1>2. PICK g : Descends(g, TagNames, A, step)
  <2> DEFINE a == [c \in Calls(lookup) |-> [out |-> <<>>, cache |-> c[2]]]
  <2>1. a \in A
    BY DEF Results, Calls
  <2> HIDE DEF a, A, step
  <2>2. \A s \in SUBSET TagNames : \A w \in [s -> A] : step[<<s, w>>] \in A
    BY <1>1
  <2> QED BY <2>1, <2>2, TagNamesAssumption, DescendingRecursion
<1> HIDE DEF step
<1>3. Calling(g, tags, lookup)
  <2>1. g \in [SUBSET TagNames -> A]
    <3> HIDE DEF A
    <3> QED BY <1>2 DEF Descends
  <2>2. ASSUME NEW s \in SUBSET TagNames
        PROVE  g[s] = [c \in Calls(lookup) |->
            IF c[2][c[1]] # NotCached THEN [out |-> c[2][c[1]], cache |-> c[2]]
            ELSE IF c[1] \notin s THEN [out |-> <<>>, cache |-> c[2]]
            ELSE expand(c[1], c[2], tags, lookup, g[s \ {c[1]}])]
    <3> DEFINE w == Without(g, s)
    <3>1. w \in [s -> A] /\ \A t \in s : w[t] = g[s \ {t}]
      <4> HIDE DEF A
      <4>1. \A t \in s : g[s \ {t}] \in A
        BY <2>1
      <4> QED BY <4>1 DEF Without
    <3>2. g[s] = step[<<s, w>>]
      <4> HIDE DEF A
      <4> QED BY <1>2 DEF Descends
    <3> HIDE DEF w, A
    <3>3. g[s] = [c \in Calls(lookup) |-> Call(c, s, w, tags, lookup)]
      BY <1>1, <3>1, <3>2
    <3>4. ASSUME NEW c \in Calls(lookup)
          PROVE  Call(c, s, w, tags, lookup) =
            IF c[2][c[1]] # NotCached THEN [out |-> c[2][c[1]], cache |-> c[2]]
            ELSE IF c[1] \notin s THEN [out |-> <<>>, cache |-> c[2]]
            ELSE expand(c[1], c[2], tags, lookup, g[s \ {c[1]}])
      BY <3>1 DEF Call
    <3> QED BY <3>3, <3>4
  <2>3. g = [s \in SUBSET TagNames |-> g[s]]
    <3> HIDE DEF A
    <3> QED BY <2>1
  <2> QED BY <2>2, <2>3 DEF Calling
<1>4. Calling(f, tags, lookup)
  BY <1>3
<1>5. resolve(tags, lookup) = f[TagNames]
  BY Zenon DEF resolve, Calling
<1> QED BY <1>4, <1>5

\* Every call answers, whatever tags are on the stack.
LEMMA CallsResolve ==
  ASSUME NEW tags, NEW lookup, Web(tags, lookup), NEW f, Calling(f, tags, lookup)
  PROVE  \A free \in SUBSET TagNames : Resolves(f[free], tags, lookup, free)
<1> DEFINE F == {free \in SUBSET TagNames : Resolves(f[free], tags, lookup, free)}
<1>1. ASSUME NEW free \in SUBSET TagNames, \A t \in free : free \ {t} \in F
      PROVE  free \in F
  <2> DEFINE w == [t \in free |-> f[free \ {t}]]
  <2>1. ASSUME NEW t \in free PROVE Resolves(w[t], tags, lookup, free \ {t})
    <3>1. free \ {t} \in F
      BY <1>1
    <3> QED BY <3>1
  <2>2. f[free] = [c \in Calls(lookup) |-> Call(c, free, w, tags, lookup)]
    <3>1. f[free] = [c \in Calls(lookup) |->
            IF c[2][c[1]] # NotCached THEN [out |-> c[2][c[1]], cache |-> c[2]]
            ELSE IF c[1] \notin free THEN [out |-> <<>>, cache |-> c[2]]
            ELSE expand(c[1], c[2], tags, lookup, f[free \ {c[1]}])]
      BY Zenon DEF Calling
    <3>2. ASSUME NEW c \in Calls(lookup)
          PROVE  Call(c, free, w, tags, lookup) =
            IF c[2][c[1]] # NotCached THEN [out |-> c[2][c[1]], cache |-> c[2]]
            ELSE IF c[1] \notin free THEN [out |-> <<>>, cache |-> c[2]]
            ELSE expand(c[1], c[2], tags, lookup, f[free \ {c[1]}])
      BY DEF Call
    <3> HIDE DEF w
    <3> QED BY <3>1, <3>2
  <2> HIDE DEF w, F
  <2>3. \A t \in free : w[t] \in [Calls(lookup) -> Results(lookup)]
    BY <2>1 DEF Resolves
  <2>4. f[free] \in [Calls(lookup) -> Results(lookup)]
    <3>1. \A c \in Calls(lookup) : Call(c, free, w, tags, lookup) \in Results(lookup)
      BY <2>3, CallType
    <3> QED BY <2>2, <3>1
  <2>5. ASSUME NEW tag \in TagNames, NEW cache \in Caches(lookup), Ready(cache, tags, lookup, free)
        PROVE  Answers(f[free][<<tag, cache>>], tag, cache, tags, lookup, free)
    <3> DEFINE c == <<tag, cache>>
               x == Call(c, free, w, tags, lookup)
    <3>1. c \in Calls(lookup)
      BY DEF Calls
    <3>2. f[free][c] = x
      BY <2>2, <3>1
    <3>3. x \in Results(lookup)
      <4> HIDE DEF c
      <4> QED BY <2>3, <3>1, CallType
    <3>4. c[1] = tag /\ c[2] = cache
      OBVIOUS
    <3>5. CASE cache[tag] # NotCached
      <4>1. x = [out |-> cache[tag], cache |-> cache]
        <5> HIDE DEF c
        <5> QED BY <3>4, <3>5, Zenon DEF Call
      <4> HIDE DEF x
      <4>2. x.out = cache[tag] /\ x.cache = cache
        BY <4>1
      <4>3. tag \in Known(cache)
        BY <3>5 DEF Known
      <4>4. Fair(x.out, tag, tags, lookup)
        BY <2>5, <4>2, <4>3 DEF Ready
      <4>5. Adds(x, cache, tags, lookup)
        BY <4>2 DEF Adds
      <4>6. Answers(x, tag, cache, tags, lookup, free)
        BY <2>5, <3>3, <4>2, <4>3, <4>4, <4>5 DEF Answers, x
      <4> QED BY <3>2, <4>6 DEF x
    <3>6. CASE cache[tag] = NotCached /\ tag \notin free
      <4>1. x = [out |-> <<>>, cache |-> cache]
        <5> HIDE DEF c
        <5> QED BY <3>4, <3>6, Zenon DEF Call
      <4> HIDE DEF x
      <4>2. x.out = <<>> /\ x.cache = cache
        BY <4>1
      <4>3. Fair(<<>>, tag, tags, lookup)
        BY DEF Fair, IsInjective, ToSet
      <4>4. Adds(x, cache, tags, lookup)
        BY <4>2 DEF Adds
      <4>5. Answers(x, tag, cache, tags, lookup, free)
        BY <2>5, <3>3, <3>6, <4>2, <4>3, <4>4 DEF Answers, x
      <4> QED BY <3>2, <4>5 DEF x
    <3>7. CASE cache[tag] = NotCached /\ tag \in free
      <4>1. x = expand(tag, cache, tags, lookup, w[tag])
        <5> HIDE DEF c
        <5> QED BY <3>4, <3>7, Zenon DEF Call
      <4>2. tag \notin Known(cache)
        BY <3>7 DEF Known
      <4>3. Resolves(w[tag], tags, lookup, free \ {tag})
        BY <2>1, <3>7
      <4> HIDE DEF x
      <4>4. Answers(expand(tag, cache, tags, lookup, w[tag]), tag, cache, tags, lookup, free)
        BY <2>5, <3>7, <4>2, <4>3, Expanded
      <4>5. Answers(x, tag, cache, tags, lookup, free)
        BY <4>1, <4>4
      <4> QED BY <3>2, <4>5 DEF x
    <3> QED BY <3>5, <3>6, <3>7
  <2>6. Resolves(f[free], tags, lookup, free)
    BY <2>4, <2>5 DEF Resolves
  <2> QED BY <2>6 DEF F
<1>2. \A free \in SUBSET TagNames : free \in F
  <2> HIDE DEF F
  <2> QED BY <1>1, TagNamesAssumption, ForAllSubsets
<1> QED BY <1>2

\* The indices of a tag's entries: what the code makes of the tag, each once.
Listing(tags, lookup, tag) == {lookup[e] : e \in EntriesOf(tags, lookup, tag)}

LEMMA Resolved ==
  ASSUME NEW tags, NEW lookup, Web(tags, lookup), NEW tag \in DOMAIN tags
  PROVE  /\ IsInjective(resolve_all(tags, lookup)[tag])
         /\ ToSet(resolve_all(tags, lookup)[tag]) = Listing(tags, lookup, tag)
         /\ resolve_all(tags, lookup)[tag] \in Seq(Indices(lookup))
<1>1. PICK f : Calling(f, tags, lookup) /\ resolve(tags, lookup) = f[TagNames]
  BY ResolveRuns
<1> DEFINE r == resolve(tags, lookup)[<<tag, NoCache>>]
           E == Listing(tags, lookup, tag)
           R == Reach(tags, tag)
<1>2. tag \in TagNames /\ NoCache \in Caches(lookup) /\ Known(NoCache) = {}
  BY DEF Web, NoCache, Caches, Known
<1>3. Answers(r, tag, NoCache, tags, lookup, TagNames)
  <2>1. Resolves(f[TagNames], tags, lookup, TagNames)
    BY <1>1, CallsResolve
  <2>2. Ready(NoCache, tags, lookup, TagNames)
    BY <1>2 DEF Ready
  <2> QED BY <1>1, <1>2, <2>1, <2>2 DEF Resolves
<1>4. resolve_all(tags, lookup)[tag] = r.out
  BY DEF resolve_all
<1> HIDE DEF r
<1>5. ASSUME NEW C \in SUBSET TagNames
      PROVE  Meant(tags, lookup, C) =
               {lookup[e] : e \in DOMAIN lookup \cap UNION {ToSet(tags[t]) : t \in DOMAIN tags \cap C}}
  <2>1. ASSUME NEW u \in C, u \notin DOMAIN tags PROVE Direct(tags, lookup, u) = {}
    BY <2>1 DEF Direct, ValuesOf, ToSet
  <2>2. ASSUME NEW u \in C, u \in DOMAIN tags
        PROVE  Direct(tags, lookup, u) = {lookup[e] : e \in DOMAIN lookup \cap ToSet(tags[u])}
    BY <2>2 DEF Direct, ValuesOf
  <2> QED BY <2>1, <2>2 DEF Meant
<1>6. R \in SUBSET TagNames /\ E = Meant(tags, lookup, R)
  <2>1. R \in SUBSET TagNames
    BY DEF Reach
  <2> HIDE DEF R
  <2> QED BY <1>5, <2>1 DEF Listing, EntriesOf, R
<1>7. tag \in R /\ Closed(tags, R)
  <2>1. tag \in R
    BY <1>2 DEF Reach
  <2>2. ASSUME NEW t \in R \cap DOMAIN tags, NEW v \in TagNames \cap ToSet(tags[t]) PROVE v \in R
    <3>1. ASSUME NEW C \in SUBSET TagNames, tag \in C, Closed(tags, C) PROVE v \in C
      <4>1. t \in C
        BY <2>2, <3>1 DEF Reach
      <4> QED BY <2>2, <3>1, <4>1 DEF Closed
    <3> QED BY <2>2, <3>1 DEF Reach
  <2> QED BY <2>1, <2>2 DEF Closed
<1> HIDE DEF R, E
<1>8. ToSet(r.out) \subseteq E
  BY <1>3, <1>6, <1>7 DEF Answers, Fair
<1>9. R \subseteq Known(r.cache)
  <2> DEFINE C == Known(r.cache)
  <2>1. tag \in C /\ C \in SUBSET TagNames
    BY <1>3 DEF Answers, Known
  <2>2. \A u \in C : Refers(tags, u) \subseteq C
    BY <1>3 DEF Answers, Ready
  <2> HIDE DEF C
  <2>3. Closed(tags, C)
    BY <2>2 DEF Closed, Refers, ValuesOf
  <2>4. R \subseteq C
    BY <2>1, <2>3 DEF R, Reach
  <2> QED BY <2>4 DEF C
<1>10. E \subseteq ToSet(r.out)
  <2>1. \A u \in R : Direct(tags, lookup, u) \subseteq ToSet(r.out)
    BY <1>2, <1>3, <1>9 DEF Answers, Adds
  <2> QED BY <1>6, <2>1 DEF Meant
<1>11. IsInjective(r.out) /\ r.out \in Seq(Indices(lookup))
  BY <1>3 DEF Answers, Fair, Results
<1> QED BY <1>4, <1>8, <1>10, <1>11 DEF E

-----------------------------------------------------------------------------
(***************************************************************************)
(* The rows of item_to_block.bin.                                          *)
(***************************************************************************)
AllJars == Jars \cup {u[2] : u \in Upgrades}

\* A finite set as a sequence: each element once.
LEMMA Sequenced ==
  ASSUME NEW K, IsFiniteSet(K)
  PROVE  /\ SetToSeq(K) \in Seq(K) /\ IsInjective(SetToSeq(K)) /\ ToSet(SetToSeq(K)) = K
         /\ DOMAIN SetToSeq(K) = 1 .. Len(SetToSeq(K)) /\ Len(SetToSeq(K)) \in Nat
<1> DEFINE n == Cardinality(K)
           s == SetToSeq(K)
<1>1. n \in Nat /\ ExistsBijection(1 .. n, K)
  BY FS_CardinalityType
<1>2. PICK f \in [1 .. n -> K] : IsInjective(f)
  BY <1>1 DEF ExistsBijection, Bijection, Injection
<1>3. s \in [1 .. n -> K] /\ IsInjective(s)
  <2> HIDE DEF n
  <2> QED BY <1>2 DEF SetToSeq, n
<1> HIDE DEF s
<1>4. s \in Surjection(1 .. n, K)
  <2>1. s \in Injection(1 .. n, K)
    BY <1>3 DEF Injection
  <2>2. Cardinality(1 .. n) = n
    BY <1>1, FS_Interval
  <2> QED BY <2>1, <2>2, FS_Injection
<1>5. ToSet(s) = K
  BY <1>3, <1>4 DEF Surjection, ToSet
<1> HIDE DEF n
<1>6. s \in Seq(K) /\ Len(s) = n /\ DOMAIN s = 1 .. n
  BY <1>1, <1>3, SeqDef, LenProperties
<1> QED BY <1>1, <1>3, <1>5, <1>6 DEF s

\* A block's state: one of its own, and the default if there is one.
IsState(id, states) ==
  \E s \in ToSet(states) : id = s.id /\ ((\E x \in ToSet(states) : x.default) => s.default)

LEMMA BlockState ==
  ASSUME NEW states \in Seq([id : Signed, default : BOOLEAN]), states # <<>>
  PROVE  block_state(states) \in Signed /\ IsState(block_state(states), states)
<1> DEFINE I == {k \in 1 .. Len(states) : states[k].default}
<1>1. /\ Len(states) \in Nat /\ DOMAIN states = 1 .. Len(states) /\ 1 \in 1 .. Len(states)
      /\ \A k \in 1 .. Len(states) : states[k] \in [id : Signed, default : BOOLEAN]
  <2> DEFINE S == [id : Signed, default : BOOLEAN]
  <2>1. states \in Seq(S)
    OBVIOUS
  <2> HIDE DEF S
  <2>2. Len(states) \in Nat \ {0} /\ DOMAIN states = 1 .. Len(states)
    BY <2>1, EmptySeq, LenProperties
  <2>3. \A k \in 1 .. Len(states) : states[k] \in S
    BY <2>1, ElementOfSeq
  <2> QED BY <2>2, <2>3 DEF S
<1>2. \A x \in ToSet(states) : \E k \in 1 .. Len(states) : x = states[k]
  BY <1>1 DEF ToSet
<1>3. block_state(states) = states[IF (IF I # {} THEN Min(I) ELSE 0) = 0 THEN 1
                                   ELSE IF I # {} THEN Min(I) ELSE 0].id
  BY Zenon DEF block_state, SelectInSeq
<1>4. ASSUME NEW k \in 1 .. Len(states) PROVE states[k] \in ToSet(states) /\ states[k].id \in Signed
  <2>1. states[k] \in ToSet(states)
    BY <1>1 DEF ToSet
  <2>2. states[k].id \in Signed
    BY <1>1
  <2> QED BY <2>1, <2>2
<1>5. CASE I = {}
  <2>1. block_state(states) = states[1].id
    <3> HIDE DEF I
    <3> QED BY <1>3, <1>5
  <2>2. \A x \in ToSet(states) : ~ x.default
    BY <1>2, <1>5, Zenon
  <2> QED BY <1>1, <1>4, <2>1, <2>2 DEF IsState
<1>6. CASE I # {}
  <2> DEFINE k == Min(I)
  <2>1. I \in SUBSET Nat /\ I \subseteq 1 .. Len(states)
    BY <1>1
  <2>2. k \in I
    <3> HIDE DEF I
    <3>1. PICK n \in I : \A m \in I : n <= m
      BY <1>6, <2>1, LeastNatural
    <3> QED BY <3>1 DEF Min
  <2>3. states[k].default
    <3> HIDE DEF k
    <3> QED BY <2>2, Zenon
  <2>4. k \in 1 .. Len(states) /\ k # 0
    <3> HIDE DEF I
    <3>1. k \in I
      BY <2>2
    <3> HIDE DEF k
    <3> QED BY <2>1, <3>1
  <2> HIDE DEF k
  <2>5. block_state(states) = states[k].id
    <3> HIDE DEF I
    <3> QED BY <1>3, <1>6, <2>4 DEF k
  <2> QED BY <1>4, <2>3, <2>4, <2>5, Zenon DEF IsState
<1> QED BY <1>5, <1>6

\* The items that are placed.
Placed(j) == DOMAIN j.items \cap {b \in DOMAIN j.blocks : j.blocks[b] # <<>>}

LEMMA ItemFacts ==
  ASSUME NEW j \in AllJars
  PROVE  /\ IsFiniteSet(Placed(j)) /\ Placed(j) \subseteq DOMAIN j.items /\ IsInjective(j.items)
         /\ \A n \in Placed(j) : /\ j.items[n] \in Signed
                                 /\ block_state(j.blocks[n]) \in Signed
                                 /\ IsState(block_state(j.blocks[n]), j.blocks[n])
<1>1. /\ IsFiniteSet(DOMAIN j.items)
      /\ (\A i \in DOMAIN j.items : j.items[i] \in Signed) /\ IsInjective(j.items)
      /\ \A b \in DOMAIN j.blocks : j.blocks[b] \in Seq([id : Signed, default : BOOLEAN])
  BY JarsAssumption DEF AllJars
<1>2. Placed(j) \in SUBSET DOMAIN j.items
  BY DEF Placed
<1>3. IsFiniteSet(Placed(j))
  BY <1>1, <1>2, FS_Subset
<1>4. ASSUME NEW n \in Placed(j)
      PROVE  block_state(j.blocks[n]) \in Signed /\ IsState(block_state(j.blocks[n]), j.blocks[n])
  <2>1. j.blocks[n] \in Seq([id : Signed, default : BOOLEAN]) /\ j.blocks[n] # <<>>
    BY <1>1 DEF Placed
  <2> QED BY <2>1, BlockState
<1> QED BY <1>1, <1>2, <1>3, <1>4

\* The rows of item_to_block.bin, by the items placed.
RowsOf(rows, j) ==
  /\ rows \in Seq(Seq(Signed)) /\ DOMAIN rows = 1 .. Len(rows) /\ Len(rows) \in Nat
  /\ \A i \in DOMAIN rows :
       Len(rows[i]) = 2 /\ \E n \in Placed(j) : rows[i][1] = j.items[n]
  /\ \A n \in Placed(j) : \E i \in DOMAIN rows :
       /\ rows[i][1] = j.items[n] /\ rows[i][2] = block_state(j.blocks[n])
       /\ \A k \in DOMAIN rows : rows[k][1] = j.items[n] => k = i

LEMMA ItemRows ==
  ASSUME NEW j \in AllJars
  PROVE  RowsOf(item_rows(j), j)
<1> DEFINE rows == item_rows(j)
           names == SetToSeq(Placed(j))
           row(n) == <<j.items[n], block_state(j.blocks[n])>>
<1>1. /\ names \in Seq(Placed(j)) /\ IsInjective(names) /\ ToSet(names) = Placed(j)
      /\ DOMAIN names = 1 .. Len(names) /\ Len(names) \in Nat
  BY ItemFacts, Sequenced
<1>2. rows = [i \in DOMAIN names |-> row(names[i])]
  BY Zenon DEF item_rows, Placed
<1> HIDE DEF rows, names
<1>3. ASSUME NEW n \in Placed(j)
      PROVE  /\ row(n) \in Seq(Signed) /\ Len(row(n)) = 2
             /\ row(n)[1] = j.items[n] /\ row(n)[2] = block_state(j.blocks[n])
  BY ItemFacts
<1> HIDE DEF row
<1>4. \A i \in 1 .. Len(names) : names[i] \in Placed(j)
  BY <1>1, ElementOfSeq
<1>5. /\ rows \in Seq(Seq(Signed)) /\ Len(rows) = Len(names) /\ DOMAIN rows = 1 .. Len(names)
      /\ \A i \in 1 .. Len(names) : rows[i] = row(names[i])
  <2>1. rows = [i \in 1 .. Len(names) |-> row(names[i])]
    BY <1>1, <1>2
  <2>2. \A i \in 1 .. Len(names) : row(names[i]) \in Seq(Signed)
    BY <1>3, <1>4
  <2> DEFINE S == Seq(Signed)
  <2>3. rows \in [1 .. Len(names) -> S]
    <3> HIDE DEF S
    <3> QED BY <2>1, <2>2 DEF S
  <2>4. rows \in Seq(S)
    <3> HIDE DEF S
    <3> QED BY <1>1, <2>3, SeqDef
  <2> HIDE DEF S
  <2>5. Len(rows) = Len(names)
    BY <1>1, <2>3, <2>4, LenProperties
  <2> QED BY <2>1, <2>3, <2>4, <2>5 DEF S
<1>6. ASSUME NEW i \in 1 .. Len(names)
      PROVE  /\ Len(rows[i]) = 2 /\ names[i] \in Placed(j)
             /\ rows[i][1] = j.items[names[i]] /\ rows[i][2] = block_state(j.blocks[names[i]])
  BY <1>3, <1>4, <1>5
<1>7. ASSUME NEW n \in Placed(j)
      PROVE  \E i \in 1 .. Len(names) :
               /\ rows[i][1] = j.items[n] /\ rows[i][2] = block_state(j.blocks[n])
               /\ \A k \in 1 .. Len(names) : rows[k][1] = j.items[n] => k = i
  <2>1. PICK i \in 1 .. Len(names) : names[i] = n
    BY <1>1 DEF ToSet
  <2>2. ASSUME NEW k \in 1 .. Len(names), rows[k][1] = j.items[n] PROVE k = i
    <3>1. j.items[names[k]] = j.items[n] /\ names[k] \in DOMAIN j.items /\ n \in DOMAIN j.items
      BY <1>6, <2>2, ItemFacts
    <3>2. names[k] = names[i]
      BY <2>1, <3>1, ItemFacts DEF IsInjective
    <3> QED BY <1>1, <3>2 DEF IsInjective
  <2> QED BY <1>6, <2>1, <2>2
<1>8. RowsOf(rows, j)
  <2>1. \A i \in DOMAIN rows : Len(rows[i]) = 2 /\ \E n \in Placed(j) : rows[i][1] = j.items[n]
    BY <1>5, <1>6
  <2>2. \A n \in Placed(j) : \E i \in DOMAIN rows :
          /\ rows[i][1] = j.items[n] /\ rows[i][2] = block_state(j.blocks[n])
          /\ \A k \in DOMAIN rows : rows[k][1] = j.items[n] => k = i
    BY <1>5, <1>7
  <2>3. rows \in Seq(Seq(Signed)) /\ DOMAIN rows = 1 .. Len(rows) /\ Len(rows) \in Nat
    BY <1>1, <1>5
  <2> QED BY <2>1, <2>2, <2>3, Zenon DEF RowsOf
<1> QED BY <1>8 DEF rows

\* The table as the tool writes it, whole and in part.
Table(j) == save_rows(item_rows(j))

LEMMA ItemFile ==
  ASSUME NEW j \in AllJars
  PROVE  /\ Table(j) \in Seq(Byte) /\ FrontOf(Table(j), Table(j)) /\ FrontOf(<<>>, Table(j))
         /\ \A n \in 1 .. Len(Table(j)) : FrontOf(SubSeq(Table(j), 1, n), Table(j))
         /\ \E P : Saved(item_rows(j), 2, Table(j), P)
<1> DEFINE rows == item_rows(j)
           z == Table(j)
<1>1. rows \in Seq(Seq(Signed)) /\ \A i \in DOMAIN rows : Len(rows[i]) = 2
  <2>1. RowsOf(rows, j)
    BY ItemRows
  <2> HIDE DEF rows
  <2> QED BY <2>1 DEF RowsOf
<1> HIDE DEF rows
<1>2. \E P : Saved(rows, 2, z, P)
  <2>1. 2 \in Nat \ {0}
    OBVIOUS
  <2> QED BY <1>1, <2>1, SaveIs DEF Table, rows
<1>3. z \in Seq(Byte) /\ Len(z) \in Nat
  <2> HIDE DEF z
  <2>1. z \in Seq(Byte)
    BY <1>2 DEF Saved
  <2> QED BY <2>1, LenProperties
<1> HIDE DEF z
<1>4. FrontOf(z, z)
  BY <1>3 DEF FrontOf
<1>5. FrontOf(<<>>, z)
  BY <1>3 DEF FrontOf
<1>6. \A n \in 1 .. Len(z) : FrontOf(SubSeq(z, 1, n), z)
  <2>1. \A n \in 1 .. Len(z) : n \in 0 .. Len(z)
    BY <1>3
  <2> QED BY <1>3, <2>1, CutFront
<1> QED BY <1>2, <1>3, <1>4, <1>5, <1>6 DEF z, rows

-----------------------------------------------------------------------------
(***************************************************************************)
(* The inductive invariant.  The directory's two tables are what one jar   *)
(* makes of them, or part of that, and so are those that the server read.  *)
(* Unless a jar followed another into the directory, it holds entries of   *)
(* the jar only, and all of them by the time that there is a tags.bin.  A  *)
(* load that begins with the entries of the jar finds all of them,         *)
(* whatever the tool does meanwhile, and later the tags of that jar.       *)
(***************************************************************************)
\* Of a directory and the jars of its tables.
Tables(d, m) ==
  /\ m.tags \in AllJars /\ m.items \in AllJars
  /\ d.tags = NoTags \/ d.tags.tags = resolve_tags(m.tags)
  /\ FrontOf(d.items, Table(m.items))

Shape ==
  /\ jar \in AllJars
  /\ dir = [entries |-> dir.entries, tags |-> dir.tags, items |-> dir.items]
  /\ made = [tags |-> made.tags, items |-> made.items]

Converting(t) ==
  /\ open \subseteq t /\ t \subseteq DOMAIN jar.entries
  /\ DOMAIN jar.entries \ t \subseteq DOMAIN dir.entries

Progress ==
  /\ phase \in {"idle", "convert", "tags", "tags_open", "items", "items_open"}
  /\ phase = "convert" => Converting(todo)
  /\ phase # "convert" => todo = {} /\ open = {}
  /\ phase \notin {"idle", "convert"} => DOMAIN jar.entries \subseteq DOMAIN dir.entries
  /\ phase = "tags_open" => made.tags = jar
  /\ phase = "items_open" => made.items = jar

Unmixed ==
  ~mixed => /\ made = Fresh(jar) /\ DOMAIN dir.entries \subseteq DOMAIN jar.entries
            /\ dir.tags # NoTags => DOMAIN jar.entries \subseteq DOMAIN dir.entries

\* What is listed or still to come, in a load from a settled directory.
Underway ==
  /\ made.tags = jar /\ DOMAIN dir.entries = DOMAIN jar.entries
  /\ server.due \cup DOMAIN server.dir.entries = DOMAIN jar.entries
  /\ server.pc # "collect" => server.due = {}

Served ==
  /\ server = [pc |-> server.pc, due |-> server.due, dir |-> server.dir, made |-> server.made,
               settled |-> server.settled]
  /\ server.dir = [entries |-> server.dir.entries, tags |-> server.dir.tags,
                   items |-> server.dir.items]
  /\ server.made = [tags |-> server.made.tags, items |-> server.made.items]
  /\ Tables(server.dir, server.made)
  /\ server.pc \in {"off", "collect", "tags"} => server.dir.tags = NoTags
  /\ server.settled /\ server.pc \in {"collect", "tags", "items"} => Underway
  /\ server.settled /\ server.dir.tags # NoTags =>
       DOMAIN server.dir.entries = DOMAIN server.made.tags.entries

IInv == Shape /\ Tables(dir, made) /\ Progress /\ Unmixed /\ Served

LEMMA InitInv == Init => IInv
<1> SUFFICES ASSUME Init PROVE IInv
  OBVIOUS
<1>1. /\ jar \in AllJars /\ made = Fresh(jar) /\ mixed = FALSE /\ todo = {} /\ open = {}
      /\ phase = "idle"
  BY DEF Init, AllJars
<1>2. /\ dir = Nothing /\ Nothing.tags = NoTags /\ Nothing.items = <<>> /\ DOMAIN Nothing.entries = {}
      /\ Nothing = [entries |-> Nothing.entries, tags |-> Nothing.tags, items |-> Nothing.items]
  BY DEF Init, Nothing
<1>3. made.tags = jar /\ made.items = jar /\ made = [tags |-> made.tags, items |-> made.items]
  BY <1>1 DEF Fresh
<1>4. server = [pc |-> "off", due |-> {}, dir |-> Nothing, made |-> made, settled |-> FALSE]
  BY DEF Init
<1>5. /\ server.pc = "off" /\ server.due = {} /\ server.dir = Nothing /\ server.made = made
      /\ server.settled = FALSE
  BY <1>4
<1>6. Tables(Nothing, made)
  BY <1>1, <1>2, <1>3, ItemFile DEF Tables
<1>7. Shape /\ Tables(dir, made) /\ Unmixed
  BY <1>1, <1>2, <1>3, <1>6 DEF Shape, Unmixed
<1>8. Progress
  BY <1>1 DEF Progress
<1>9. Served
  BY <1>2, <1>3, <1>4, <1>5, <1>6 DEF Served
<1> QED BY <1>7, <1>8, <1>9 DEF IInv

\* What the tool does to the directory leaves the server with what it has read, if
\* it removes no entry and adds those of its jar only.
LEMMA ToolServed ==
  ASSUME IInv, jar' = jar, server' = server, made'.tags \in {made.tags, jar},
         DOMAIN dir.entries \subseteq DOMAIN dir'.entries,
         DOMAIN dir'.entries \subseteq DOMAIN dir.entries \cup DOMAIN jar.entries
  PROVE  Served'
<1>1. Served
  BY DEF IInv
<1>2. Underway => Underway'
  BY DEF Underway
<1> QED BY <1>1, <1>2 DEF Served, Tables

\* What the server reads leaves the tool and the directory as they are.
LEMMA LoadDisk ==
  ASSUME IInv, UNCHANGED <<tool, dir, made, mixed>>
  PROVE  (Shape /\ Tables(dir, made) /\ Progress /\ Unmixed)'
<1>1. UNCHANGED <<jar, phase, todo, open, dir, made, mixed>>
  BY DEF tool
<1> QED BY <1>1 DEF IInv, Shape, Tables, Progress, Converting, Unmixed, Fresh

LEMMA ConvertInv ==
  ASSUME IInv, NEW e \in todo, ConvertEntry(e) \/ WriteEntry(e)
  PROVE  IInv'
<1> USE DEF IInv
<1>1. /\ phase = "convert" /\ UNCHANGED <<jar, phase, made, mixed, server>>
      /\ open' \subseteq todo' /\ todo' \in {todo, todo \ {e}}
  <2>1. open \subseteq todo /\ phase = "convert"
    BY DEF Progress, Converting
  <2> QED BY <2>1 DEF ConvertEntry, WriteEntry
<1>2. PICK x : dir' = [dir EXCEPT !.entries = put(dir.entries, e, x)]
  BY DEF ConvertEntry, WriteEntry
<1> DEFINE es == put(dir.entries, e, x)
<1>3. DOMAIN es = {e} \cup DOMAIN dir.entries
  BY DEF put
<1> HIDE DEF es
<1>4. dir' = [entries |-> es, tags |-> dir.tags, items |-> dir.items]
  BY <1>2 DEF Shape, es
<1>5. dir'.entries = es /\ dir'.tags = dir.tags /\ dir'.items = dir.items
  BY <1>4
<1>6. Shape' /\ Tables(dir, made)'
  BY <1>1, <1>4, <1>5 DEF Shape, Tables
<1>7. e \in DOMAIN jar.entries /\ Progress'
  BY <1>1, <1>3, <1>5 DEF Progress, Converting
<1>8. Unmixed'
  BY <1>1, <1>3, <1>5, <1>7 DEF Unmixed, Fresh
<1>9. Served'
  BY <1>1, <1>3, <1>5, <1>7, ToolServed DEF Unmixed
<1> QED BY <1>6, <1>7, <1>8, <1>9

LEMMA create_tagsInv ==
  ASSUME IInv, create_tags PROVE IInv'
<1> USE DEF IInv
<1>1. /\ phase = "tags" /\ phase' = "tags_open" /\ UNCHANGED <<jar, todo, open, mixed, server>>
      /\ dir' = [entries |-> dir.entries, tags |-> NoTags, items |-> dir.items]
      /\ made' = [tags |-> jar, items |-> made.items]
  BY DEF create_tags, Shape
<1>2. /\ dir'.entries = dir.entries /\ dir'.tags = NoTags /\ dir'.items = dir.items
      /\ made'.tags = jar /\ made'.items = made.items
  BY <1>1
<1>3. Shape' /\ Tables(dir, made)'
  BY <1>1, <1>2 DEF Shape, Tables
<1>4. Progress'
  BY <1>1, <1>2 DEF Progress
<1>5. Unmixed'
  BY <1>1, <1>2 DEF Unmixed, Fresh
<1>6. Served'
  BY <1>1, <1>2, ToolServed DEF Unmixed
<1> QED BY <1>3, <1>4, <1>5, <1>6

LEMMA write_tagsInv ==
  ASSUME IInv, write_tags PROVE IInv'
<1> USE DEF IInv
<1>1. /\ phase = "tags_open" /\ phase' \in {"tags_open", "items"}
      /\ UNCHANGED <<jar, todo, open, made, mixed, server>>
  BY DEF write_tags
<1>2. PICK w \in {"part", "all"} : dir' = [dir EXCEPT !.tags = [written |-> w, tags |-> resolve_tags(jar)]]
  BY DEF write_tags
<1> DEFINE new == [written |-> w, tags |-> resolve_tags(jar)]
<1>3. new.tags = resolve_tags(jar)
  OBVIOUS
<1>4. dir' = [entries |-> dir.entries, tags |-> new, items |-> dir.items]
  BY <1>2 DEF Shape
<1> HIDE DEF new
<1>5. dir'.entries = dir.entries /\ dir'.tags = new /\ dir'.items = dir.items
  BY <1>4
<1>6. Shape' /\ Tables(dir, made)'
  BY <1>1, <1>3, <1>4, <1>5 DEF Shape, Tables, Progress
<1>7. Progress'
  BY <1>1, <1>5 DEF Progress
<1>8. Unmixed'
  BY <1>1, <1>5 DEF Unmixed, Progress, Fresh
<1>9. Served'
  BY <1>1, <1>5, ToolServed DEF Unmixed
<1> QED BY <1>6, <1>7, <1>8, <1>9

LEMMA create_item_blocksInv ==
  ASSUME IInv, create_item_blocks PROVE IInv'
<1> USE DEF IInv
<1>1. /\ phase = "items" /\ phase' = "items_open" /\ UNCHANGED <<jar, todo, open, mixed, server>>
      /\ dir' = [entries |-> dir.entries, tags |-> dir.tags, items |-> <<>>]
      /\ made' = [tags |-> made.tags, items |-> jar]
  BY DEF create_item_blocks, Shape
<1>2. /\ dir'.entries = dir.entries /\ dir'.tags = dir.tags /\ dir'.items = <<>>
      /\ made'.tags = made.tags /\ made'.items = jar
  BY <1>1
<1>3. FrontOf(<<>>, Table(jar))
  BY ItemFile DEF Shape
<1>4. Shape' /\ Tables(dir, made)'
  BY <1>1, <1>2, <1>3 DEF Shape, Tables
<1>5. Progress'
  BY <1>1, <1>2 DEF Progress
<1>6. Unmixed'
  BY <1>1, <1>2 DEF Unmixed, Fresh
<1>7. Served'
  BY <1>1, <1>2, ToolServed DEF Unmixed
<1> QED BY <1>4, <1>5, <1>6, <1>7

LEMMA write_item_blocksInv ==
  ASSUME IInv, write_item_blocks PROVE IInv'
<1> USE DEF IInv
<1>1. /\ phase = "items_open" /\ phase' \in {"items_open", "idle"}
      /\ UNCHANGED <<jar, todo, open, made, mixed, server>>
  BY DEF write_item_blocks
<1>2. PICK b \in grown(dir.items, Table(jar)) : dir' = [dir EXCEPT !.items = b]
  BY DEF write_item_blocks, Table
<1>3. made.items = jar
  BY <1>1 DEF Progress
<1>4. FrontOf(b, Table(jar))
  <2> DEFINE z == Table(jar)
  <2>1. Len(dir.items) \in Nat /\ Len(z) \in Nat
    <3>1. dir.items \in Seq(Byte) /\ z \in Seq(Byte)
      BY <1>3 DEF Tables, FrontOf
    <3> HIDE DEF z
    <3> QED BY <3>1, LenProperties
  <2>2. FrontOf(z, z) /\ \A n \in 1 .. Len(z) : FrontOf(SubSeq(z, 1, n), z)
    BY ItemFile DEF Shape
  <2> HIDE DEF z
  <2>3. \A n \in Len(dir.items) + 1 .. Len(z) : n \in 1 .. Len(z)
    BY <2>1
  <2>4. b \in {z} \cup {SubSeq(z, 1, n) : n \in Stops \cap Len(dir.items) + 1 .. Len(z)}
    BY DEF grown, z
  <2> QED BY <2>2, <2>3, <2>4 DEF z
<1>5. dir' = [entries |-> dir.entries, tags |-> dir.tags, items |-> b]
  BY <1>2 DEF Shape
<1>6. dir'.entries = dir.entries /\ dir'.tags = dir.tags /\ dir'.items = b
  BY <1>5
<1>7. Shape' /\ Tables(dir, made)'
  BY <1>1, <1>3, <1>4, <1>5, <1>6 DEF Shape, Tables
<1>8. Progress'
  BY <1>1, <1>6 DEF Progress
<1>9. Unmixed'
  BY <1>1, <1>6 DEF Unmixed, Fresh
<1>10. Served'
  BY <1>1, <1>6, ToolServed DEF Unmixed
<1> QED BY <1>7, <1>8, <1>9, <1>10

LEMMA UpgradeInv ==
  ASSUME IInv, NEW j \in AllJars, Upgrade(j) PROVE IInv'
<1> USE DEF IInv
<1>1. phase = "idle" /\ jar' = j /\ UNCHANGED <<phase, todo, open>>
  BY DEF Upgrade
<1>2. Progress'
  BY <1>1 DEF Progress
<1>3. Served'
  <2>1. CASE server.pc \in {"off", "loaded"}
    <3>1. server' = server
      BY <2>1 DEF Upgrade
    <3> QED BY <2>1, <3>1 DEF Served, Tables
  <2>2. CASE server.pc \notin {"off", "loaded"}
    <3>1. PICK due : server' = [server EXCEPT !.settled = FALSE, !.due = due]
      BY <2>2 DEF Upgrade
    <3>2. server' = [pc |-> server.pc, due |-> due, dir |-> server.dir, made |-> server.made,
                     settled |-> FALSE]
      BY <3>1 DEF Served
    <3>3. /\ server'.pc = server.pc /\ server'.due = due /\ server'.dir = server.dir
          /\ server'.made = server.made /\ server'.settled = FALSE
      BY <3>2
    <3> QED BY <3>2, <3>3 DEF Served, Tables
  <2> QED BY <2>1, <2>2
<1>4. CASE dir' = Nothing /\ mixed' = FALSE /\ made' = Fresh(j)
  <2>1. /\ dir'.tags = NoTags /\ dir'.items = <<>> /\ DOMAIN dir'.entries = {}
        /\ dir' = [entries |-> dir'.entries, tags |-> dir'.tags, items |-> dir'.items]
    BY <1>4 DEF Nothing
  <2>2. made'.tags = j /\ made'.items = j /\ made' = [tags |-> made'.tags, items |-> made'.items]
    BY <1>4 DEF Fresh
  <2>3. Shape' /\ Tables(dir, made)'
    BY <1>1, <2>1, <2>2, ItemFile DEF Shape, Tables
  <2>4. Unmixed'
    BY <1>1, <1>4, <2>1 DEF Unmixed, Fresh
  <2> QED BY <1>2, <1>3, <2>3, <2>4
<1>5. CASE dir' = dir /\ mixed' = TRUE /\ made' = made
  BY <1>1, <1>2, <1>3, <1>5 DEF Shape, Tables, Unmixed
<1> QED BY <1>4, <1>5 DEF Upgrade

LEMMA loadInv ==
  ASSUME IInv, load PROVE Served'
<1> USE DEF IInv
<1>1. server' = [pc |-> "collect", due |-> DOMAIN dir.entries, dir |-> Nothing, made |-> made,
                 settled |-> \/ ~mixed /\ dir.tags # NoTags
                             \/ made.tags = jar /\ DOMAIN dir.entries = DOMAIN jar.entries]
  BY DEF load
<1>2. /\ server'.pc = "collect" /\ server'.due = DOMAIN dir.entries /\ server'.dir = Nothing
      /\ server'.made = made
      /\ server'.settled = (\/ ~mixed /\ dir.tags # NoTags
                            \/ made.tags = jar /\ DOMAIN dir.entries = DOMAIN jar.entries)
  BY <1>1
<1>3. /\ Nothing.tags = NoTags /\ Nothing.items = <<>> /\ DOMAIN Nothing.entries = {}
      /\ Nothing = [entries |-> Nothing.entries, tags |-> Nothing.tags, items |-> Nothing.items]
  BY DEF Nothing
<1>4. Tables(Nothing, made)
  BY <1>3, ItemFile DEF Tables
<1>5. UNCHANGED <<jar, dir, made, mixed>>
  BY DEF load, tool
<1>6. ~mixed /\ dir.tags # NoTags => made.tags = jar /\ DOMAIN dir.entries = DOMAIN jar.entries
  BY DEF Unmixed, Fresh
<1>7. server'.settled => made.tags = jar /\ DOMAIN dir.entries = DOMAIN jar.entries
  BY <1>2, <1>6
<1>8. server'.settled => Underway'
  BY <1>2, <1>3, <1>5, <1>7 DEF Underway
<1> QED BY <1>1, <1>2, <1>3, <1>4, <1>8 DEF Served, Tables, Shape

LEMMA collectInv ==
  ASSUME IInv, NEW e, collect(e) PROVE Served'
<1> USE DEF IInv
<1>1. /\ server.pc = "collect" /\ e \in DOMAIN dir.entries
      /\ UNCHANGED <<jar, dir, made, mixed>>
  BY DEF collect, tool
<1> DEFINE es  == put(server.dir.entries, e, dir.entries[e])
           due == server.due \ {e}
<1>2. DOMAIN es = {e} \cup DOMAIN server.dir.entries
  BY DEF put
<1>3. server' = [server EXCEPT !.dir.entries = es, !.due = due]
  BY DEF collect
<1> HIDE DEF es, due
<1> DEFINE d == [entries |-> es, tags |-> server.dir.tags, items |-> server.dir.items]
<1>4. server' = [pc |-> server.pc, due |-> due, dir |-> d, made |-> server.made,
                 settled |-> server.settled]
  BY <1>3 DEF Served
<1>5. d.entries = es /\ d.tags = server.dir.tags /\ d.items = server.dir.items
  OBVIOUS
<1>6. d = [entries |-> d.entries, tags |-> d.tags, items |-> d.items]
  OBVIOUS
<1> HIDE DEF d
<1>7. /\ server'.pc = server.pc /\ server'.due = due /\ server'.dir = d
      /\ server'.made = server.made /\ server'.settled = server.settled
  BY <1>4
<1>8. Underway => Underway'
  BY <1>1, <1>2, <1>5, <1>7 DEF Underway, due
<1> QED BY <1>1, <1>4, <1>5, <1>6, <1>7, <1>8 DEF Served, Tables

LEMMA collectedInv ==
  ASSUME IInv, collected PROVE Served'
<1> USE DEF IInv
<1>1. server.pc = "collect" /\ server.due = {} /\ UNCHANGED <<jar, dir, made, mixed>>
  BY DEF collected, tool
<1>2. server' = [pc |-> "tags", due |-> server.due, dir |-> server.dir, made |-> server.made,
                 settled |-> server.settled]
  BY DEF collected, Served
<1>3. /\ server'.pc = "tags" /\ server'.due = server.due /\ server'.dir = server.dir
      /\ server'.made = server.made /\ server'.settled = server.settled
  BY <1>2
<1>4. Underway => Underway'
  BY <1>1, <1>3 DEF Underway
<1> QED BY <1>1, <1>2, <1>3, <1>4 DEF Served, Tables

LEMMA collect_failsInv ==
  ASSUME IInv, collect_fails PROVE Served'
<1> USE DEF IInv
<1>1. server' = [pc |-> "loaded", due |-> server.due, dir |-> Nothing, made |-> server.made,
                 settled |-> server.settled]
  BY DEF collect_fails, Served
<1>2. /\ server'.pc = "loaded" /\ server'.due = server.due /\ server'.dir = Nothing
      /\ server'.made = server.made /\ server'.settled = server.settled
  BY <1>1
<1>3. /\ Nothing.tags = NoTags /\ Nothing.items = <<>>
      /\ Nothing = [entries |-> Nothing.entries, tags |-> Nothing.tags, items |-> Nothing.items]
  BY DEF Nothing
<1>4. Tables(Nothing, server.made)
  BY <1>3, ItemFile DEF Served, Tables
<1> QED BY <1>1, <1>2, <1>3, <1>4 DEF Served, Tables

LEMMA read_tagsInv ==
  ASSUME IInv, read_tags PROVE Served'
<1> USE DEF IInv
<1>0. PICK tags \in {dir.tags, NoTags} :
        server' = [server EXCEPT !.pc = "items", !.dir.tags = tags, !.made.tags = made.tags]
  BY DEF read_tags
<1> DEFINE d == [entries |-> server.dir.entries, tags |-> tags, items |-> server.dir.items]
           m == [tags |-> made.tags, items |-> server.made.items]
<1>1. server.pc = "tags" /\ UNCHANGED <<jar, dir, made, mixed>>
  BY DEF read_tags, tool
<1>2. server' = [pc |-> "items", due |-> server.due, dir |-> d, made |-> m,
                 settled |-> server.settled]
  BY <1>0 DEF Served
<1>3. /\ d.entries = server.dir.entries /\ d.tags = tags /\ d.items = server.dir.items
      /\ m.tags = made.tags /\ m.items = server.made.items
      /\ d = [entries |-> d.entries, tags |-> d.tags, items |-> d.items]
      /\ m = [tags |-> m.tags, items |-> m.items]
  OBVIOUS
<1> HIDE DEF d, m
<1>4. /\ server'.pc = "items" /\ server'.due = server.due /\ server'.dir = d
      /\ server'.made = m /\ server'.settled = server.settled
  BY <1>2
<1>5. Tables(d, m)
  BY <1>3 DEF Tables, Served
<1>6. Underway => Underway'
  BY <1>1, <1>3, <1>4 DEF Underway
<1>7. server.settled => Underway /\ DOMAIN d.entries = DOMAIN m.tags.entries
  <2> SUFFICES ASSUME server.settled
               PROVE  Underway /\ DOMAIN server.dir.entries = DOMAIN made.tags.entries
    BY <1>3
  <2>1. Underway
    BY <1>1 DEF Served
  <2>2. made.tags = jar
    BY <2>1 DEF Underway
  <2> QED BY <1>1, <2>1, <2>2 DEF Underway
<1> QED BY <1>2, <1>3, <1>4, <1>5, <1>6, <1>7 DEF Served, Tables

LEMMA read_itemsInv ==
  ASSUME IInv, read_items PROVE Served'
<1> USE DEF IInv
<1>0. PICK items \in {dir.items, <<>>} :
        server' = [server EXCEPT !.pc = "loaded", !.dir.items = items, !.made.items = made.items]
  BY DEF read_items
<1> DEFINE d == [entries |-> server.dir.entries, tags |-> server.dir.tags, items |-> items]
           m == [tags |-> server.made.tags, items |-> made.items]
<1>1. server' = [pc |-> "loaded", due |-> server.due, dir |-> d, made |-> m,
                 settled |-> server.settled]
  BY <1>0 DEF Served
<1>2. /\ d.entries = server.dir.entries /\ d.tags = server.dir.tags /\ d.items = items
      /\ m.tags = server.made.tags /\ m.items = made.items
      /\ d = [entries |-> d.entries, tags |-> d.tags, items |-> d.items]
      /\ m = [tags |-> m.tags, items |-> m.items]
  OBVIOUS
<1> HIDE DEF d, m
<1>3. /\ server'.pc = "loaded" /\ server'.due = server.due /\ server'.dir = d
      /\ server'.made = m /\ server'.settled = server.settled
  BY <1>1
<1>4. Tables(d, m)
  <2>1. FrontOf(dir.items, Table(made.items)) /\ FrontOf(<<>>, Table(made.items))
    BY ItemFile DEF Tables
  <2> QED BY <1>2, <2>1 DEF Tables, Served
<1> QED BY <1>1, <1>2, <1>3, <1>4 DEF Served, Tables

LEMMA NextInv == IInv /\ [Next]_vars => IInv'
<1> SUFFICES ASSUME IInv, [Next]_vars PROVE IInv'
  OBVIOUS
<1>1. CASE Start
  <2>1. /\ phase = "idle" /\ phase' = "convert" /\ todo' = DOMAIN jar.entries
        /\ UNCHANGED <<jar, open, dir, made, mixed, server>>
    BY <1>1 DEF Start
  <2>2. Progress'
    BY <2>1 DEF IInv, Progress, Converting
  <2> QED BY <2>1, <2>2, ToolServed DEF IInv, Shape, Tables, Unmixed, Fresh
<1>2. CASE Converted
  <2>1. /\ phase = "convert" /\ todo = {} /\ phase' \in {"idle", "tags"}
        /\ UNCHANGED <<jar, todo, open, dir, made, mixed, server>>
    BY <1>2 DEF Converted
  <2>2. Progress'
    BY <2>1 DEF IInv, Progress, Converting
  <2> QED BY <2>1, <2>2, ToolServed DEF IInv, Shape, Tables, Unmixed, Fresh
<1>3. CASE Interrupt
  <2>1. phase' = "idle" /\ todo' = {} /\ open' = {} /\ UNCHANGED <<jar, dir, made, mixed, server>>
    BY <1>3 DEF Interrupt
  <2>2. Progress'
    BY <2>1 DEF Progress
  <2> QED BY <2>1, <2>2, ToolServed DEF IInv, Shape, Tables, Unmixed, Fresh
<1>4. ASSUME NEW u \in Upgrades, Upgrade(u[2]) PROVE IInv'
  <2>1. u[2] \in AllJars
    BY DEF AllJars
  <2> QED BY <1>4, <2>1, UpgradeInv
<1>5. CASE load
  <2>1. UNCHANGED <<tool, dir, made, mixed>>
    BY <1>5 DEF load
  <2> QED BY <1>5, <2>1, LoadDisk, loadInv DEF IInv
<1>6. CASE collected
  <2>1. UNCHANGED <<tool, dir, made, mixed>>
    BY <1>6 DEF collected
  <2> QED BY <1>6, <2>1, LoadDisk, collectedInv DEF IInv
<1>7. CASE collect_fails
  <2>1. UNCHANGED <<tool, dir, made, mixed>>
    BY <1>7 DEF collect_fails
  <2> QED BY <1>7, <2>1, LoadDisk, collect_failsInv DEF IInv
<1>8. CASE read_tags
  <2>1. UNCHANGED <<tool, dir, made, mixed>>
    BY <1>8 DEF read_tags
  <2> QED BY <1>8, <2>1, LoadDisk, read_tagsInv DEF IInv
<1>9. CASE read_items
  <2>1. UNCHANGED <<tool, dir, made, mixed>>
    BY <1>9 DEF read_items
  <2> QED BY <1>9, <2>1, LoadDisk, read_itemsInv DEF IInv
<1>10. ASSUME NEW e \in DOMAIN dir.entries, collect(e) PROVE IInv'
  <2>1. UNCHANGED <<tool, dir, made, mixed>>
    BY <1>10 DEF collect
  <2> QED BY <1>10, <2>1, LoadDisk, collectInv DEF IInv
<1>11. CASE UNCHANGED vars
  <2>1. UNCHANGED <<tool, dir, made, mixed>> /\ jar' = jar /\ made' = made
        /\ server' = server /\ dir' = dir
    BY <1>11 DEF vars, tool
  <2>2. Served'
    BY <2>1, ToolServed DEF IInv, Unmixed
  <2> QED BY <2>1, <2>2, LoadDisk DEF IInv
<1>12. ASSUME NEW e \in todo, ConvertEntry(e) \/ WriteEntry(e) PROVE IInv'
  BY <1>12, ConvertInv
<1> QED BY <1>1, <1>2, <1>3, <1>4, <1>5, <1>6, <1>7, <1>8, <1>9, <1>10, <1>11, <1>12,
           create_tagsInv, write_tagsInv, create_item_blocksInv, write_item_blocksInv DEF Next

\* In every behaviour, whatever runs of the tool and loads interleave: the tables
\* on disk and those that the server read are of one jar each, whole or in part;
\* and a load from a settled directory is of one jar altogether.
THEOREM DatagenInvariant == Spec => []IInv
<1> QED BY InitInv, NextInv, PTL DEF Spec

-----------------------------------------------------------------------------
(***************************************************************************)
(* Tags.                                                                   *)
(***************************************************************************)
\* Positions are integers, and no two are the same.
LEMMA Positions ==
  ASSUME NEW es, IsFiniteSet(es), es \subseteq Int
  PROVE  /\ \A e \in es : index_of(es, e) \in Nat
         /\ \A e, f \in es : index_of(es, e) = index_of(es, f) => e = f
<1> DEFINE below(e) == {x \in es : x < e}
<1>1. \A e : /\ IsFiniteSet(below(e)) /\ Cardinality(below(e)) \in Nat
             /\ index_of(es, e) = Cardinality(below(e))
  <2> TAKE e
  <2>1. below(e) \in SUBSET es
    OBVIOUS
  <2>2. IsFiniteSet(below(e))
    <3> HIDE DEF below
    <3> QED BY <2>1, FS_Subset
  <2>3. Cardinality(below(e)) \in Nat
    <3> HIDE DEF below
    <3> QED BY <2>2, FS_CardinalityType
  <2>4. index_of(es, e) = Cardinality(below(e))
    BY DEF index_of
  <2> QED BY <2>2, <2>3, <2>4
<1>2. ASSUME NEW e \in es, NEW f \in es, e < f PROVE index_of(es, e) # index_of(es, f)
  <2>1. below(e) \in SUBSET below(f) /\ e \in below(f) /\ e \notin below(e)
    <3>1. e \in Int /\ f \in Int /\ \A x \in es : x \in Int
      OBVIOUS
    <3>2. \A x \in es : x < e => x < f
      BY <1>2, <3>1
    <3>3. ~ (e < e)
      BY <3>1
    <3> QED BY <1>2, <3>2, <3>3
  <2> HIDE DEF below
  <2>2. Cardinality(below(f)) # Cardinality(below(e))
    BY <1>1, <2>1, FS_Subset
  <2> QED BY <1>1, <2>2
<1>3. ASSUME NEW e \in es, NEW f \in es PROVE e < f \/ f < e \/ e = f
  <2>1. e \in Int /\ f \in Int
    OBVIOUS
  <2> QED BY <2>1
<1> QED BY <1>1, <1>2, <1>3

\* The tags of a registry that has an index are a web of them.
LEMMA JarFacts ==
  ASSUME NEW j \in AllJars
  PROVE  /\ IsFiniteSet(DOMAIN j.entries) /\ DOMAIN j.entries \subseteq Int
         /\ DOMAIN build_index(j) = {Streamed, "item"}
         /\ build_index(j)[Streamed] = positions(DOMAIN j.entries)
         /\ \A r \in DOMAIN j.tags \cap DOMAIN build_index(j) : Web(j.tags[r], build_index(j)[r])
<1>1. /\ IsFiniteSet(DOMAIN j.entries) /\ DOMAIN j.entries \subseteq Int \ TagNames
      /\ DOMAIN j.items \subseteq Int \ TagNames
      /\ \A i \in DOMAIN j.items : j.items[i] \in Signed
      /\ \A r \in DOMAIN j.tags :
           /\ DOMAIN j.tags[r] \subseteq TagNames
           /\ \A t \in DOMAIN j.tags[r] : j.tags[r][t] \in Seq(TagNames \cup Int)
  BY JarsAssumption DEF AllJars
<1> DEFINE p == positions(DOMAIN j.entries)
           b == build_index(j)
<1>2. DOMAIN b = {Streamed, "item"} /\ b[Streamed] = p /\ b["item"] = j.items
  BY DEF build_index, Streamed
<1>3. DOMAIN p = DOMAIN j.entries /\ \A e \in DOMAIN p : p[e] \in Int
  <2>1. \A e \in DOMAIN j.entries : index_of(DOMAIN j.entries, e) \in Nat
    BY <1>1, Positions
  <2> QED BY <2>1 DEF positions
<1>4. \A i \in DOMAIN j.items : j.items[i] \in Int
  BY <1>1, IntSizes DEF Signed
<1> HIDE DEF p, b
<1>5. ASSUME NEW r \in DOMAIN j.tags \cap DOMAIN b PROVE Web(j.tags[r], b[r])
  <2>1. CASE r = Streamed
    BY <1>1, <1>2, <1>3, <2>1 DEF Web
  <2>2. CASE r = "item"
    BY <1>1, <1>2, <1>4, <2>2 DEF Web
  <2> QED BY <1>2, <2>1, <2>2
<1> QED BY <1>1, <1>2, <1>5 DEF b, p

\* What tags.bin says.
LEMMA TagsMean ==
  ASSUME NEW d, NEW m, Tables(d, m), NEW r \in DOMAIN d.tags.tags
  PROVE  LET told == d.tags.tags[r] IN
         /\ r \in DOMAIN m.tags.tags \cap DOMAIN build_index(m.tags)
         /\ DOMAIN told = DOMAIN m.tags.tags[r]
         /\ \A t \in DOMAIN told :
              /\ ToSet(told[t]) = Listing(m.tags.tags[r], build_index(m.tags)[r], t)
              /\ IsInjective(told[t])
<1> DEFINE j == m.tags
           index == build_index(j)[r]
           told == d.tags.tags[r]
<1>1. d.tags.tags = resolve_tags(j) /\ j \in AllJars
  <2>1. d.tags # NoTags
    BY DEF NoTags
  <2> QED BY <2>1 DEF Tables
<1>2. r \in DOMAIN j.tags \cap DOMAIN build_index(j) /\ told = resolve_all(j.tags[r], index)
  BY <1>1 DEF resolve_tags
<1>3. Web(j.tags[r], index)
  BY <1>1, <1>2, JarFacts
<1> HIDE DEF index, j, told
<1>4. DOMAIN told = DOMAIN j.tags[r]
  BY <1>2 DEF resolve_all
<1>5. ASSUME NEW t \in DOMAIN told
      PROVE  /\ ToSet(told[t]) = Listing(j.tags[r], index, t)
             /\ IsInjective(told[t])
  <2>1. t \in DOMAIN j.tags[r]
    BY <1>4
  <2> DEFINE out == resolve_all(j.tags[r], index)[t]
  <2>2. IsInjective(out) /\ ToSet(out) = Listing(j.tags[r], index, t)
    BY <1>3, <2>1, Resolved
  <2>3. told[t] = out
    BY <1>2
  <2> HIDE DEF out
  <2> QED BY <2>2, <2>3
<1> QED BY <1>2, <1>4, <1>5 DEF index, j, told

\* At all times, the tags on disk list the entries they lead to, each once.
THEOREM TagsAlwaysComplete == Spec => []TagsComplete
<1>1. IInv => TagsComplete
  <2> SUFFICES ASSUME IInv PROVE TagsComplete
    OBVIOUS
  <2>1. Tables(dir, made)
    BY DEF IInv
  <2> QED BY <2>1, TagsMean DEF TagsComplete, Listing
<1> QED BY <1>1, DatagenInvariant, PTL

\* At all times, if the load began in a settled directory, the indices that
\* the server tells of mean, in the list that it streams, the entries that the
\* tags named; whatever the tool does as the server reads one file after another.
THEOREM TagsAlwaysNameEntries == Spec => []TagsNameEntries
<1>1. IInv => TagsNameEntries
  <2> DEFINE d    == server.dir
             m    == server.made
             here == DOMAIN d.entries
             tags == d.tags.tags[Streamed]
             p    == positions(here)
  <2> SUFFICES ASSUME IInv, server.settled, d.tags.written = "all",
                      Streamed \in DOMAIN d.tags.tags, NEW t \in DOMAIN tags
               PROVE  {e \in here : index_of(here, e) \in ToSet(tags[t])}
                        = EntriesOf(m.tags.tags[Streamed], build_index(m.tags)[Streamed], t)
    BY DEF TagsNameEntries, IndicesAgree
  <2>1. Tables(d, m) /\ here = DOMAIN m.tags.entries
    <3>1. d.tags # NoTags
      BY DEF NoTags
    <3> QED BY <3>1 DEF IInv, Served
  <2>2. m.tags \in AllJars
    BY <2>1 DEF Tables
  <2>3. IsFiniteSet(here) /\ here \subseteq Int /\ build_index(m.tags)[Streamed] = p
    BY <2>1, <2>2, JarFacts
  <2> DEFINE E == EntriesOf(m.tags.tags[Streamed], p, t)
  <2>4. ToSet(tags[t]) = {p[e] : e \in E}
    <3> DEFINE index == build_index(m.tags)[Streamed]
    <3>1. ToSet(tags[t]) = Listing(m.tags.tags[Streamed], index, t)
      <4> HIDE DEF d, m
      <4> QED BY <2>1, TagsMean
    <3>2. index = p
      BY <2>3
    <3> HIDE DEF index, p, E, d, m, here, tags
    <3> QED BY <3>1, <3>2 DEF Listing, E
  <2>5. E \subseteq here /\ \A e \in here : p[e] = index_of(here, e)
    BY DEF EntriesOf, positions
  <2>6. \A e, f \in here : index_of(here, e) = index_of(here, f) => e = f
    BY <2>3, Positions
  <2> HIDE DEF d, m, here, tags, p, E
  <2>7. {e \in here : index_of(here, e) \in ToSet(tags[t])} = E
    BY <2>4, <2>5, <2>6
  <2> QED BY <2>3, <2>7 DEF E
<1> QED BY <1>1, DatagenInvariant, PTL

-----------------------------------------------------------------------------
(***************************************************************************)
(* What the server places.                                                 *)
(***************************************************************************)
\* From the table, or the part of it that there was, the server reads rows that
\* the tool wrote, the first so many; and from the whole table, all of them.
LEMMA ItemsLoad ==
  ASSUME NEW j \in AllJars, NEW c, FrontOf(c, Table(j))
  PROVE  /\ \E w \in 0 .. Len(item_rows(j)) : Whole(load_rows(2, c, 0), item_rows(j), w)
         /\ c = Table(j) => load_rows(2, c, 0) = item_rows(j)
<1> DEFINE rows == item_rows(j)
           z == Table(j)
           N == Len(rows)
<1>1. rows \in Seq(Seq(Signed)) /\ N \in Nat
  <2>1. RowsOf(rows, j)
    BY ItemRows
  <2> HIDE DEF rows
  <2> QED BY <2>1 DEF RowsOf
<1>2. PICK P : Saved(rows, 2, z, P)
  BY ItemFile
<1>3. FrontOf(c, z)
  OBVIOUS
<1> HIDE DEF rows, z
<1>4. P \in [0 .. N -> Nat] /\ P[0] = 0 /\ P[N] = Len(z) /\ Len(c) \in Nat
  <2>1. c \in Seq(Byte)
    BY <1>3 DEF FrontOf
  <2> QED BY <1>2, <2>1, LenProperties DEF Saved
<1>5. ASSUME NEW w \in 0 .. N, P[w] <= Len(c), w = N \/ P[w + 1] > Len(c)
      PROVE  Whole(load_rows(2, c, 0), rows, w)
  BY <1>2, <1>3, <1>5, FileLoads
<1>6. \E w \in 0 .. N : P[w] <= Len(c) /\ (w = N \/ P[w + 1] > Len(c))
  <2> SUFFICES ASSUME \A w \in 0 .. N : P[w] <= Len(c) => w # N /\ ~ (P[w + 1] > Len(c))
               PROVE  FALSE
    OBVIOUS
  <2> DEFINE T == {w \in 0 .. N : P[w] <= Len(c)}
  <2>1. 0 \in T
    BY <1>1, <1>4
  <2>2. ASSUME NEW k \in 0 .. N - 1, k \in T PROVE k + 1 \in T
    <3>1. k + 1 \in 0 .. N /\ P[k + 1] \in Nat /\ ~ (P[k + 1] > Len(c))
      BY <1>1, <1>4, <2>2
    <3> QED BY <1>4, <3>1
  <2>3. 0 .. N \subseteq T
    <3> HIDE DEF T, N
    <3> QED BY <1>1, <2>1, <2>2, UpTo
  <2>4. N \in T
    BY <1>1, <2>3
  <2> QED BY <1>1, <2>4
<1>7. ASSUME c = z PROVE load_rows(2, c, 0) = rows
  <2>1. N \in 0 .. N /\ P[N] <= Len(c)
    BY <1>1, <1>4, <1>7
  <2> QED BY <1>1, <1>5, <2>1, SameRows
<1> QED BY <1>5, <1>6, <1>7 DEF rows, z

\* At all times, the server places an item as the block of its name, and no item
\* that has no block; even from a table that was not all written when it was read.
THEOREM ItemsAlwaysNameBlocks == Spec => []ItemsNameBlocks
<1>1. IInv => ItemsNameBlocks
  <2> DEFINE j     == server.made.items
             map   == item_to_block(server.dir)
             known == {n \in DOMAIN j.items : n \in DOMAIN j.blocks /\ j.blocks[n] # <<>>}
             all   == item_rows(j)
             rows  == load_rows(2, server.dir.items, 0)
             last(i) == Max({k \in DOMAIN rows : rows[k][1] = i})
  <2> SUFFICES ASSUME IInv
               PROVE  /\ DOMAIN map \subseteq {j.items[n] : n \in known}
                      /\ server.dir.items = Table(j) => {j.items[n] : n \in known} \subseteq DOMAIN map
                      /\ \A n \in known :
                           j.items[n] \in DOMAIN map =>
                             \E s \in ToSet(j.blocks[n]) :
                               /\ map[j.items[n]] = s.id
                               /\ (\E x \in ToSet(j.blocks[n]) : x.default) => s.default
    BY Zenon DEF ItemsNameBlocks, PlacesItems, Table
  <2>1. j \in AllJars /\ FrontOf(server.dir.items, Table(j))
    BY DEF IInv, Served, Tables
  <2>2. known = Placed(j)
    BY DEF Placed
  <2>3. map = [i \in {row[1] : row \in ToSet(rows)} |-> rows[last(i)][2]]
    BY Zenon DEF item_to_block, map_of
  <2>4. RowsOf(all, j)
    BY <2>1, ItemRows
  <2>5. PICK w \in 0 .. Len(all) : Whole(rows, all, w)
    BY <2>1, ItemsLoad
  <2>6. server.dir.items = Table(j) => rows = all
    BY <2>1, ItemsLoad
  <2> HIDE DEF rows, all, map, known, j
  <2>7. /\ Len(all) \in Nat /\ DOMAIN all = 1 .. Len(all)
        /\ \A i \in DOMAIN all : \E n \in Placed(j) : all[i][1] = j.items[n]
        /\ \A n \in Placed(j) : \E i \in DOMAIN all :
             /\ all[i][1] = j.items[n] /\ all[i][2] = block_state(j.blocks[n])
             /\ \A k \in DOMAIN all : all[k][1] = j.items[n] => k = i
    BY <2>4, Zenon DEF RowsOf
  <2>8. /\ w \in Nat /\ DOMAIN rows = 1 .. w /\ 1 .. w \subseteq DOMAIN all
        /\ \A i \in 1 .. w : rows[i] = all[i]
    <3>1. rows \in Seq(Seq(Int)) /\ Len(rows) = w /\ \A i \in 1 .. w : rows[i] = all[i]
      BY <2>5 DEF Whole
    <3>2. DOMAIN rows = 1 .. w
      BY <3>1, LenProperties
    <3> QED BY <2>7, <3>1, <3>2
  <2>9. DOMAIN map = {row[1] : row \in ToSet(rows)}
    BY <2>3
  <2>10. DOMAIN map \subseteq {j.items[n] : n \in known}
    BY <2>2, <2>7, <2>8, <2>9 DEF ToSet
  <2>11. ASSUME server.dir.items = Table(j) PROVE {j.items[n] : n \in known} \subseteq DOMAIN map
    <3>1. rows = all
      BY <2>6, <2>11
    <3> QED BY <2>2, <2>7, <2>9, <3>1 DEF ToSet
  <2>12. ASSUME NEW n \in known, j.items[n] \in DOMAIN map PROVE IsState(map[j.items[n]], j.blocks[n])
    <3>1. PICK i \in DOMAIN all :
            /\ all[i][1] = j.items[n] /\ all[i][2] = block_state(j.blocks[n])
            /\ \A k \in DOMAIN all : all[k][1] = j.items[n] => k = i
      BY <2>2, <2>7
    <3>2. PICK k \in 1 .. w : rows[k][1] = j.items[n]
      BY <2>8, <2>9, <2>12 DEF ToSet
    <3>3. {l \in DOMAIN rows : rows[l][1] = j.items[n]} = {i} /\ rows[i] = all[i]
      <4>1. \A l \in 1 .. w : rows[l][1] = j.items[n] => l = i
        BY <2>8, <3>1
      <4> QED BY <2>8, <3>2, <4>1
    <3>4. Max({i}) = i
      <4>1. i \in Nat
        BY <2>7
      <4> QED BY <4>1 DEF Max
    <3>5. map[j.items[n]] = rows[i][2]
      <4>1. last(j.items[n]) = i
        BY <3>3, <3>4
      <4> HIDE DEF last
      <4> QED BY <2>3, <2>9, <2>12, <4>1
    <3> QED BY <2>1, <2>2, <3>1, <3>3, <3>5, ItemFacts
  <2> QED BY <2>10, <2>11, <2>12 DEF IsState
<1> QED BY <1>1, DatagenInvariant, PTL

=============================================================================
