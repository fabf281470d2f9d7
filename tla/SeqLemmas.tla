----------------------------- MODULE SeqLemmas -------------------------------
(***************************************************************************)
(* What appending to and deleting from a device list does, for lists that  *)
(* hold each element once, and what a loop that collects keys in a list    *)
(* leaves in it; products and remainders; sums; induction.  Shared by the proof   *)
(* modules.                                                                *)
(***************************************************************************)
EXTENDS Integers, Sequences, SequencesExt, FiniteSetsExt, Functions, SequenceTheorems,
        FiniteSetTheorems, WellFoundedInduction, TLAPS

\* Appending a new element keeps a list without repetitions and adds just it.
LEMMA AppendOnce ==
  ASSUME NEW S, NEW s \in Seq(S), NEW e \in S, e \notin ToSet(s), IsInjective(s)
  PROVE  /\ Append(s, e) \in Seq(S)
         /\ Len(Append(s, e)) = Len(s) + 1
         /\ \A i \in 1..Len(s) : Append(s, e)[i] = s[i]
         /\ Append(s, e)[Len(s) + 1] = e
         /\ IsInjective(Append(s, e))
         /\ ToSet(Append(s, e)) = ToSet(s) \cup {e}
<1>1. /\ Append(s, e) \in Seq(S)
      /\ Len(Append(s, e)) = Len(s) + 1
      /\ \A i \in 1..Len(s) : Append(s, e)[i] = s[i]
      /\ Append(s, e)[Len(s) + 1] = e
  BY AppendProperties
<1>2. Len(s) \in Nat /\ DOMAIN s = 1..Len(s) /\ DOMAIN Append(s, e) = 1..Len(s) + 1
  BY <1>1, LenProperties
<1>3. IsInjective(Append(s, e))
  BY <1>1, <1>2 DEF IsInjective, ToSet
<1>4. ToSet(Append(s, e)) = ToSet(s) \cup {e}
  BY <1>1, <1>2 DEF ToSet
<1> QED BY <1>1, <1>3, <1>4

\* Removing at a position keeps the others, in order.
LEMMA RemoveAtProperties ==
  ASSUME NEW S, NEW s \in Seq(S), NEW k \in 1..Len(s)
  PROVE  /\ RemoveAt(s, k) \in Seq(S)
         /\ Len(RemoveAt(s, k)) = Len(s) - 1
         /\ \A i \in 1..Len(s) - 1 :
              RemoveAt(s, k)[i] = IF i < k THEN s[i] ELSE s[i + 1]
<1> DEFINE a == SubSeq(s, 1, k - 1)
           b == SubSeq(s, k + 1, Len(s))
<1>1. Len(s) \in Nat /\ \A i \in 1..Len(s) : s[i] \in S
  BY LenProperties, ElementOfSeq
<1>2. a \in Seq(S) /\ Len(a) = k - 1 /\ \A i \in 1..k - 1 : a[i] = s[i]
  <2>1. \A i \in 1..k - 1 : s[i] \in S
    BY <1>1
  <2>2. \A i \in 1..(k - 1) - 1 + 1 : a[i] = s[1 + i - 1]
    BY <2>1, <1>1, SubSeqProperties
  <2> QED BY <2>1, <2>2, <1>1, SubSeqProperties
<1>3. b \in Seq(S) /\ Len(b) = Len(s) - k /\ \A i \in 1..Len(s) - k : b[i] = s[k + i]
  <2>1. \A i \in k + 1..Len(s) : s[i] \in S
    BY <1>1
  <2> QED BY <2>1, <1>1, SubSeqProperties
<1>4. RemoveAt(s, k) = a \o b
  BY DEF RemoveAt
<1> HIDE DEF a, b
<1>5. /\ a \o b \in Seq(S)
      /\ Len(a \o b) = Len(a) + Len(b)
      /\ \A i \in 1..Len(a) + Len(b) :
           (a \o b)[i] = IF i <= Len(a) THEN a[i] ELSE b[i - Len(a)]
  BY <1>2, <1>3, ConcatProperties
<1> QED BY <1>1, <1>2, <1>3, <1>4, <1>5

\* The first occurrence in a list without repetitions is the only one.
LEMMA RemoveFirstPosition ==
  ASSUME NEW S, NEW s \in Seq(S), NEW e \in ToSet(s), IsInjective(s)
  PROVE  \E k \in 1..Len(s) : s[k] = e /\ RemoveFirst(s, e) = RemoveAt(s, k)
<1>1. Len(s) \in Nat /\ DOMAIN s = 1..Len(s)
  BY LenProperties
<1>2. PICK k \in 1..Len(s) : s[k] = e
  BY <1>1 DEF ToSet
<1>3. {i \in 1..Len(s) : s[i] = e} = {k}
  BY <1>1, <1>2 DEF IsInjective
<1>4. SelectInSeq(s, LAMBDA v : v = e) = k
  <2>1. Min({k}) = k
    BY <1>1 DEF Min
  <2> QED BY <1>3, <2>1 DEF SelectInSeq
<1>5. RemoveFirst(s, e) = RemoveAt(s, k)
  BY <1>2, <1>4 DEF RemoveFirst
<1> QED BY <1>2, <1>5

\* Removing the first occurrence from a list without repetitions.
LEMMA RemoveFirstOnce ==
  ASSUME NEW S, NEW s \in Seq(S), NEW e, IsInjective(s)
  PROVE  /\ RemoveFirst(s, e) \in Seq(S)
         /\ Len(RemoveFirst(s, e)) <= Len(s)
         /\ IsInjective(RemoveFirst(s, e))
         /\ ToSet(RemoveFirst(s, e)) = ToSet(s) \ {e}
<1>1. Len(s) \in Nat /\ DOMAIN s = 1..Len(s)
  BY LenProperties
<1>2. CASE ~\E i \in 1..Len(s) : s[i] = e
  BY <1>1, <1>2 DEF RemoveFirst, ToSet
<1>3. CASE \E i \in 1..Len(s) : s[i] = e
  <2>1. e \in ToSet(s)
    BY <1>1, <1>3 DEF ToSet
  <2>2. PICK k \in 1..Len(s) : s[k] = e /\ RemoveFirst(s, e) = RemoveAt(s, k)
    BY <2>1, RemoveFirstPosition
  <2> DEFINE t == RemoveAt(s, k)
  <2>3. /\ t \in Seq(S) /\ Len(t) = Len(s) - 1
        /\ \A i \in 1..Len(s) - 1 : t[i] = IF i < k THEN s[i] ELSE s[i + 1]
    BY RemoveAtProperties
  <2> HIDE DEF t
  <2>4. DOMAIN t = 1..Len(s) - 1
    BY <2>3, LenProperties
  <2>5. IsInjective(t)
    BY <1>1, <2>3, <2>4 DEF IsInjective
  <2>6. ToSet(t) = ToSet(s) \ {e}
    <3>1. ASSUME NEW x \in ToSet(t) PROVE x \in ToSet(s) \ {e}
      BY <1>1, <2>2, <2>3, <2>4 DEF ToSet, IsInjective
    <3>2. ASSUME NEW x \in ToSet(s) \ {e} PROVE x \in ToSet(t)
      <4>1. PICK i \in 1..Len(s) : s[i] = x /\ i # k
        BY <1>1, <2>2 DEF ToSet
      <4>2. CASE i < k
        BY <1>1, <2>3, <2>4, <4>1, <4>2 DEF ToSet
      <4>3. CASE i > k
        <5>1. i - 1 \in 1..Len(s) - 1 /\ t[i - 1] = x
          BY <1>1, <2>3, <4>1, <4>3
        <5> QED BY <5>1, <2>4 DEF ToSet
      <4> QED BY <1>1, <4>1, <4>2, <4>3
    <3> QED BY <3>1, <3>2
  <2> QED BY <1>1, <2>2, <2>3, <2>5, <2>6 DEF t
<1> QED BY <1>2, <1>3

-----------------------------------------------------------------------------
\* Products of sizes are numbers.
LEMMA Products ==
  ASSUME NEW p \in Nat, NEW s \in Nat
  PROVE  s * p \in Nat /\ (s + 1) * p = s * p + p
OBVIOUS

\* A product grows with its factor.
LEMMA ProductsGrow ==
  ASSUME NEW p \in Nat, NEW s \in Nat, NEW t \in Nat, s < t
  PROVE  s * p + p <= t * p
<1>1. PICK k \in Nat : t = s + 1 + k
  <2>1. t - s - 1 \in Nat /\ t = s + 1 + (t - s - 1)
    OBVIOUS
  <2> QED BY <2>1
<1>2. t * p = s * p + p + k * p
  BY <1>1
<1> QED BY <1>2, Products

\* A number has digits to a base, which are unique.
LEMMA Digits ==
  ASSUME NEW p \in Nat \ {0}, NEW n \in Nat
  PROVE  n \div p \in Nat /\ n % p \in 0..(p - 1) /\ n = (n \div p) * p + (n % p)
OBVIOUS

\* Different digits make different numbers.
LEMMA DigitsUnique ==
  ASSUME NEW p \in Nat \ {0}, NEW s \in Nat, NEW t \in Nat, NEW i \in 0..(p - 1), NEW j \in 0..(p - 1),
         s * p + i = t * p + j
  PROVE  s = t /\ i = j
<1>1. s * p \in Nat /\ t * p \in Nat
  BY Products
<1>2. ~(s < t)
  BY <1>1, ProductsGrow
<1>3. ~(t < s)
  BY <1>1, ProductsGrow
<1>4. s = t
  BY <1>2, <1>3
<1> QED BY <1>1, <1>4

-----------------------------------------------------------------------------
\* Induction over the natural numbers, for a set instead of a predicate.
LEMMA NatInductionOnSets ==
  ASSUME NEW S, 0 \in S, \A n \in Nat : n \in S => n + 1 \in S
  PROVE  Nat \subseteq S
<1> DEFINE T == Nat \ S
<1>1. SUFFICES ASSUME T # {} PROVE FALSE
  OBVIOUS
<1>2. T \subseteq Nat
  OBVIOUS
<1>3. PICK x \in T : \A y \in T : ~(<<y, x>> \in OpToRel(<, Nat))
  BY <1>1, <1>2, NatLessThanWellFounded, WFMin
<1> HIDE DEF T
<1>4. x \in Nat /\ x # 0
  BY DEF T
<1>5. x - 1 \in Nat /\ (x - 1) + 1 = x /\ x - 1 < x
  BY <1>4
<1>6. <<x - 1, x>> \in OpToRel(<, Nat)
  BY <1>4, <1>5, Zenon DEF OpToRel
<1>7. x - 1 \notin T
  BY <1>3, <1>6
<1> QED BY <1>4, <1>5, <1>7 DEF T

\* A recursive function over 0..n: f starts with a0 and each step is one of g's.
Steps(n, A) == [1..n -> [A -> A]]
BuiltUp(f, n, A, a0, g) ==
  f \in [0..n -> A] /\ f[0] = a0 /\ \A i \in 1..n : f[i] = g[i][f[i - 1]]

\* It exists: it is built up from below.
LEMMA RecursionOverNat ==
  ASSUME NEW n \in Nat, NEW A, NEW a0 \in A, NEW g \in Steps(n, A)
  PROVE  \E f : BuiltUp(f, n, A, a0, g)
<1> DEFINE F(m) == \E f : BuiltUp(f, m, A, a0, g)
           S == {m \in Nat : m <= n => F(m)}
<1>1. 0 \in S
  <2> DEFINE f == [i \in 0..0 |-> a0]
  <2>1. f \in [0..0 -> A] /\ f[0] = a0 /\ 1..0 = {}
    OBVIOUS
  <2>2. BuiltUp(f, 0, A, a0, g)
    BY <2>1 DEF BuiltUp
  <2>3. F(0)
    BY <2>2
  <2> QED BY <2>3
<1>2. ASSUME NEW m \in Nat, m \in S PROVE m + 1 \in S
  <2>1. SUFFICES ASSUME m + 1 <= n PROVE F(m + 1)
    OBVIOUS
  <2>2. PICK f : BuiltUp(f, m, A, a0, g)
    BY <1>2, <2>1
  <2>3. f \in [0..m -> A] /\ f[0] = a0 /\ \A i \in 1..m : f[i] = g[i][f[i - 1]]
    BY <2>2 DEF BuiltUp
  <2> DEFINE h == [i \in 0..m + 1 |-> IF i = m + 1 THEN g[m + 1][f[m]] ELSE f[i]]
  <2>4. g[m + 1][f[m]] \in A
    <3>1. f[m] \in A /\ m + 1 \in 1..n
      BY <2>1, <2>3
    <3>2. g[m + 1] \in [A -> A]
      BY <3>1 DEF Steps
    <3> QED BY <3>1, <3>2
  <2>5. h \in [0..m + 1 -> A]
    BY <2>3, <2>4
  <2>6. h[0] = a0
    BY <2>3
  <2>7. ASSUME NEW i \in 1..m + 1 PROVE h[i] = g[i][h[i - 1]]
    <3>1. CASE i = m + 1
      <4>1. h[i] = g[m + 1][f[m]] /\ h[i - 1] = f[m]
        BY <3>1
      <4> QED BY <3>1, <4>1
    <3>2. CASE i # m + 1
      <4>1. i \in 1..m /\ h[i] = f[i] /\ h[i - 1] = f[i - 1]
        BY <3>2
      <4> QED BY <4>1, <2>3
    <3> QED BY <3>1, <3>2
  <2>8. BuiltUp(h, m + 1, A, a0, g)
    BY <2>5, <2>6, <2>7 DEF BuiltUp
  <2> QED BY <2>8
<1>3. n \in S
  BY <1>1, <1>2, NatInductionOnSets
<1> QED BY <1>3

\* A non-empty set of naturals has a least element, which is its Min.
LEMMA MinOfNaturals ==
  ASSUME NEW S, S \subseteq Nat, S # {}
  PROVE  Min(S) \in S /\ \A n \in S : Min(S) <= n
<1>1. PICK x \in S : \A y \in S : ~(<<y, x>> \in OpToRel(<, Nat))
  BY NatLessThanWellFounded, WFMin
<1>2. ASSUME NEW y \in S PROVE x <= y
  <2>1. x \in Nat /\ y \in Nat
    OBVIOUS
  <2>2. y < x => <<y, x>> \in OpToRel(<, Nat)
    BY <2>1, Zenon DEF OpToRel
  <2>3. ~(y < x)
    BY <1>1, <2>2
  <2> QED BY <2>1, <2>3
<1> QED BY <1>2 DEF Min

\* s holds the elements that key gives the places Kept up to i, in order; at tells the
\* place of each.
CollectedAt(s, at, i, Kept, key) ==
  /\ at \in [1..Len(s) -> 1..i]
  /\ \A k \in 1..Len(s) : at[k] \in Kept /\ s[k] = key[at[k]]
  /\ \A k, l \in 1..Len(s) : k < l => at[k] < at[l]
  /\ \A j \in Kept : j <= i => \E k \in 1..Len(s) : at[k] = j

\* The next place is kept: its element goes to the end.
LEMMA CollectOneMore ==
  ASSUME NEW i \in Nat, NEW A, NEW Kept \in SUBSET Nat, i + 1 \in Kept, NEW key, key[i + 1] \in A,
         NEW s \in Seq(A), NEW at, CollectedAt(s, at, i, Kept, key)
  PROVE  \E bt : CollectedAt(Append(s, key[i + 1]), bt, i + 1, Kept, key)
<1> DEFINE n == Len(s)
           t == Append(s, key[i + 1])
           bt == [k \in 1..n + 1 |-> IF k = n + 1 THEN i + 1 ELSE at[k]]
<1>1. /\ n \in Nat /\ Len(t) = n + 1
      /\ \A k \in 1..n : t[k] = s[k]
      /\ t[n + 1] = key[i + 1]
  BY AppendProperties, LenProperties
<1>2. /\ at \in [1..n -> 1..i]
      /\ \A k \in 1..n : at[k] \in Kept /\ s[k] = key[at[k]]
      /\ \A k, l \in 1..n : k < l => at[k] < at[l]
      /\ \A j \in Kept : j <= i => \E k \in 1..n : at[k] = j
  BY DEF CollectedAt
<1> HIDE DEF n, t
<1>3. /\ \A k \in 1..n : bt[k] = at[k] /\ at[k] \in 1..i
      /\ bt[n + 1] = i + 1 /\ n + 1 \in 1..n + 1
      /\ bt \in [1..n + 1 -> 1..i + 1]
  BY <1>1, <1>2
<1> HIDE DEF bt
<1>4. \A k \in 1..n + 1 : k \in 1..n \/ k = n + 1
  BY <1>1
<1>5. \A k \in 1..n + 1 : bt[k] \in Kept /\ t[k] = key[bt[k]]
  BY <1>1, <1>2, <1>3, <1>4
<1>6. ASSUME NEW k \in 1..n + 1, NEW l \in 1..n + 1, k < l PROVE bt[k] < bt[l]
  <2>1. k \in 1..n
    BY <1>1, <1>6
  <2>2. CASE l = n + 1
    BY <2>1, <2>2, <1>3
  <2>3. CASE l \in 1..n
    BY <2>1, <2>3, <1>2, <1>3, <1>6
  <2> QED BY <1>4, <2>2, <2>3
<1>7. ASSUME NEW j \in Kept, j <= i + 1 PROVE \E k \in 1..n + 1 : bt[k] = j
  <2>1. CASE j = i + 1
    BY <1>3, <2>1
  <2>2. CASE j # i + 1
    <3>1. j <= i
      BY <1>7, <2>2
    <3>2. PICK k \in 1..n : at[k] = j
      BY <1>2, <3>1
    <3> QED BY <1>1, <1>3, <3>2
  <2> QED BY <2>1, <2>2
<1>8. CollectedAt(t, bt, i + 1, Kept, key)
  BY <1>1, <1>3, <1>5, <1>6, <1>7 DEF CollectedAt
<1> QED BY <1>8 DEF t

\* What a loop that appends the elements of some places of a sequence collects: an
\* element for each of these places, in order.
LEMMA CollectedInOrder ==
  ASSUME NEW n \in Nat, NEW A, NEW Kept \in SUBSET (1..n), NEW key, \A i \in Kept : key[i] \in A,
         NEW f, f[0] = <<>>,
         \A i \in 1..n : f[i] = IF i \in Kept THEN Append(f[i - 1], key[i]) ELSE f[i - 1]
  PROVE  \A i \in 0..n :
           f[i] \in Seq(A) /\ Len(f[i]) <= i /\ \E at : CollectedAt(f[i], at, i, Kept, key)
<1> DEFINE F(i) == /\ f[i] \in Seq(A) /\ Len(f[i]) <= i
                   /\ \E at : CollectedAt(f[i], at, i, Kept, key)
           S == {i \in Nat : i <= n => F(i)}
<1>1. 0 \in S
  <2>1. f[0] \in Seq(A) /\ Len(f[0]) = 0
    OBVIOUS
  <2> DEFINE at == [k \in 1..0 |-> 1]
  <2>2. 1..Len(f[0]) = {} /\ at \in [1..Len(f[0]) -> 1..0]
    BY <2>1
  <2>3. \A j \in Kept : ~(j <= 0)
    OBVIOUS
  <2>4. CollectedAt(f[0], at, 0, Kept, key)
    BY <2>1, <2>2, <2>3 DEF CollectedAt
  <2>5. F(0)
    BY <2>1, <2>4
  <2> QED BY <2>5
<1>2. ASSUME NEW i \in Nat, i \in S PROVE i + 1 \in S
  <2>1. SUFFICES ASSUME i + 1 <= n PROVE F(i + 1)
    OBVIOUS
  <2>2. F(i)
    BY <1>2, <2>1
  <2>3. f[i + 1] = IF i + 1 \in Kept THEN Append(f[i], key[i + 1]) ELSE f[i]
    BY <2>1
  <2>4. CASE i + 1 \notin Kept
    <3>1. PICK at : CollectedAt(f[i], at, i, Kept, key)
      BY <2>2
    <3>2. CollectedAt(f[i], at, i + 1, Kept, key)
      <4>1. \A j \in Kept : j <= i + 1 => j <= i
        BY <2>4
      <4>2. at \in [1..Len(f[i]) -> 1..i + 1]
        BY <3>1 DEF CollectedAt
      <4> QED BY <3>1, <4>1, <4>2 DEF CollectedAt
    <3>3. Len(f[i]) \in Nat
      BY <2>2, LenProperties
    <3> QED BY <2>2, <2>3, <2>4, <3>2, <3>3
  <2>5. CASE i + 1 \in Kept
    <3>1. key[i + 1] \in A /\ f[i] \in Seq(A)
      BY <2>2, <2>5
    <3>2. \E at : CollectedAt(Append(f[i], key[i + 1]), at, i + 1, Kept, key)
      BY <2>2, <2>5, <3>1, CollectOneMore
    <3>3. Append(f[i], key[i + 1]) \in Seq(A) /\ Len(Append(f[i], key[i + 1])) = Len(f[i]) + 1
      BY <3>1, AppendProperties
    <3>4. Len(f[i]) \in Nat
      BY <3>1, LenProperties
    <3> QED BY <2>2, <2>3, <2>5, <3>2, <3>3, <3>4
  <2> QED BY <2>4, <2>5
<1>3. Nat \subseteq S
  BY <1>1, <1>2, NatInductionOnSets
<1> QED BY <1>3

\* That loop as a recursive function, for key's values in A.
LoopInput(n, A, Kept, key) ==
  n \in Nat /\ Kept \subseteq 1..n /\ \A i \in Kept : key[i] \in A
IsLoop(f, n, Kept, key) ==
  f = [i \in 0..n |-> IF i = 0 THEN <<>>
                      ELSE IF i \in Kept THEN Append(f[i - 1], key[i]) ELSE f[i - 1]]

\* The loop that appends key[i] for the places i in Kept is a function.
LEMMA CollectExists ==
  ASSUME NEW n, NEW A, NEW Kept, NEW key, LoopInput(n, A, Kept, key)
  PROVE  \E f : IsLoop(f, n, Kept, key)
<1>0. n \in Nat /\ Kept \subseteq 1..n /\ \A i \in Kept : key[i] \in A
  BY DEF LoopInput
<1> DEFINE step(i) == [s \in Seq(A) |-> IF i \in Kept THEN Append(s, key[i]) ELSE s]
           g == [i \in 1..n |-> step(i)]
<1>1. g \in [1..n -> [Seq(A) -> Seq(A)]]
  <2>1. ASSUME NEW i \in 1..n, NEW s \in Seq(A)
        PROVE  (IF i \in Kept THEN Append(s, key[i]) ELSE s) \in Seq(A)
    BY <1>0, AppendProperties
  <2>2. ASSUME NEW i \in 1..n PROVE step(i) \in [Seq(A) -> Seq(A)]
    BY <2>1
  <2> HIDE DEF step
  <2> QED BY <2>2
<1>2. PICK f \in [0..n -> Seq(A)] : f[0] = <<>> /\ \A i \in 1..n : f[i] = g[i][f[i - 1]]
  <2> HIDE DEF g
  <2>1. g \in Steps(n, Seq(A)) /\ <<>> \in Seq(A)
    BY <1>1 DEF Steps
  <2>2. PICK f : BuiltUp(f, n, Seq(A), <<>>, g)
    BY <1>0, <2>1, RecursionOverNat
  <2> QED BY <2>2 DEF BuiltUp
<1>4. ASSUME NEW i \in 1..n
      PROVE  f[i] = IF i \in Kept THEN Append(f[i - 1], key[i]) ELSE f[i - 1]
  <2>1. i - 1 \in 0..n
    BY <1>0
  <2>2. f[i - 1] \in Seq(A)
    BY <2>1, <1>2
  <2>3. f[i] = g[i][f[i - 1]]
    BY <1>2
  <2> QED BY <2>2, <2>3
<1> HIDE DEF g
<1>5. f = [i \in 0..n |-> f[i]]
  BY <1>2
<1>6. \A i \in 0..n : f[i] = IF i = 0 THEN <<>>
                             ELSE IF i \in Kept THEN Append(f[i - 1], key[i]) ELSE f[i - 1]
  <2>1. \A i \in 0..n : i = 0 \/ i \in 1..n
    BY <1>0
  <2> QED BY <1>2, <1>4, <2>1
<1>7. f = [i \in 0..n |-> IF i = 0 THEN <<>>
                          ELSE IF i \in Kept THEN Append(f[i - 1], key[i]) ELSE f[i - 1]]
  BY <1>5, <1>6
<1> QED BY <1>7 DEF IsLoop

-----------------------------------------------------------------------------
\* An element of a set; all values are integers.
AnyOf(T) == CHOOSE x \in T : TRUE
AllInt(f, S) == \A x \in S : f[x] \in Int

\* The sums of the subsets of a set, each from the sum without one of its elements.
IsSums(g, f, S) ==
  g = [T \in SUBSET S |->
         IF T = {} THEN 0 ELSE f[AnyOf(T)] + g[T \ {AnyOf(T)}]]

\* The library's sum is the last of the sums of the subsets.
LEMMA SumIs ==
  ASSUME NEW f, NEW S
  PROVE  SumFunctionOnSet(f, S) = (CHOOSE g : IsSums(g, f, S))[S]
BY DEF SumFunctionOnSet, FoldFunctionOnSet, MapThenFoldSet, IsSums, AnyOf

\* One element is taken out of a finite set: which, and what is left.
LEMMA PickOne ==
  ASSUME NEW T, IsFiniteSet(T), T # {}
  PROVE  LET x == AnyOf(T)
         IN  /\ x \in T /\ T \ {x} \in SUBSET T /\ IsFiniteSet(T \ {x})
             /\ Cardinality(T) \in Nat \ {0} /\ Cardinality(T \ {x}) = Cardinality(T) - 1
<1> DEFINE x == AnyOf(T)
<1>1. x \in T
  BY DEF AnyOf
<1> HIDE DEF x
<1>2. Cardinality(T) \in Nat /\ Cardinality(T) # 0
  BY FS_CardinalityType, FS_EmptySet
<1>3. IsFiniteSet(T \ {x}) /\ Cardinality(T \ {x}) = Cardinality(T) - 1
  BY <1>1, FS_RemoveElement
<1> QED BY <1>1, <1>2, <1>3 DEF x

\* They are built from below.
LEMMA SumsExist ==
  ASSUME NEW f, NEW S, IsFiniteSet(S), AllInt(f, S)
  PROVE  \E g : IsSums(g, f, S) /\ AllInt(g, SUBSET S)
<1> DEFINE Small(n) == {T \in SUBSET S : Cardinality(T) <= n}
           Built(g, n) ==
             /\ g \in [Small(n) -> Int]
             /\ \A T \in Small(n) : g[T] = IF T = {} THEN 0 ELSE f[AnyOf(T)] + g[T \ {AnyOf(T)}]
           N == {n \in Nat : \E g : Built(g, n)}
<1>0. \A T \in SUBSET S : IsFiniteSet(T) /\ Cardinality(T) \in Nat
  BY FS_Subset, FS_CardinalityType
<1>a. \A x \in S : f[x] \in Int
  BY DEF AllInt
<1>1. \A T \in SUBSET S : T # {} =>
        /\ AnyOf(T) \in S /\ T \ {AnyOf(T)} \in SUBSET S
        /\ Cardinality(T) # 0 /\ Cardinality(T \ {AnyOf(T)}) = Cardinality(T) - 1
  BY <1>0, PickOne
<1>2. 0 \in N
  <2> DEFINE g == [T \in Small(0) |-> 0]
  <2>1. \A T \in Small(0) : T = {}
    <3>1. ASSUME NEW T \in SUBSET S, Cardinality(T) <= 0 PROVE T = {}
      <4>1. Cardinality(T) = 0 /\ IsFiniteSet(T)
        BY <1>0, <3>1
      <4> QED BY <4>1, FS_EmptySet
    <3> QED BY <3>1
  <2>2. \A T \in Small(0) : g[T] = 0
    OBVIOUS
  <2>3. g \in [Small(0) -> Int]
    OBVIOUS
  <2> HIDE DEF g
  <2>4. Built(g, 0)
    BY <2>1, <2>2, <2>3
  <2> HIDE DEF Built
  <2> QED BY <2>4
<1>3. ASSUME NEW n \in Nat, n \in N PROVE n + 1 \in N
  <2>1. PICK g : Built(g, n)
    BY <1>3
  <2> DEFINE h == [T \in Small(n + 1) |-> IF Cardinality(T) <= n THEN g[T]
                                          ELSE f[AnyOf(T)] + g[T \ {AnyOf(T)}]]
  <2>2. ASSUME NEW T \in Small(n + 1), ~(Cardinality(T) <= n)
        PROVE  T # {} /\ AnyOf(T) \in S /\ T \ {AnyOf(T)} \in Small(n)
    <3>1. T # {}
      BY <2>2, FS_EmptySet
    <3>2. Cardinality(T) \in Nat /\ Cardinality(T) <= n + 1
      BY <1>0
    <3> QED BY <1>1, <3>1, <3>2
  <2>3. h \in [Small(n + 1) -> Int]
    <3>1. ASSUME NEW T \in Small(n + 1) PROVE h[T] \in Int
      <4>1. CASE Cardinality(T) <= n
        BY <2>1, <4>1
      <4>2. CASE ~(Cardinality(T) <= n)
        <5>1. f[AnyOf(T)] \in Int /\ g[T \ {AnyOf(T)}] \in Int
          BY <1>a, <2>1, <2>2, <4>2
        <5> QED BY <4>2, <5>1
      <4> QED BY <4>1, <4>2
    <3> QED BY <3>1
  <2>4. ASSUME NEW T \in Small(n + 1)
        PROVE  h[T] = IF T = {} THEN 0 ELSE f[AnyOf(T)] + h[T \ {AnyOf(T)}]
    <3>1. CASE T = {}
      <4>1. Cardinality(T) <= n /\ T \in Small(n)
        BY <3>1, FS_EmptySet
      <4> QED BY <2>1, <3>1, <4>1
    <3>2. CASE T # {}
      <4>1. T \ {AnyOf(T)} \in Small(n) /\ T \ {AnyOf(T)} \in Small(n + 1)
        BY <1>0, <1>1, <3>2
      <4>2. h[T \ {AnyOf(T)}] = g[T \ {AnyOf(T)}]
        BY <4>1
      <4>3. Cardinality(T) <= n => T \in Small(n)
        OBVIOUS
      <4> QED BY <2>1, <3>2, <4>2, <4>3
    <3> QED BY <3>1, <3>2
  <2>5. Built(h, n + 1)
    BY <2>3, <2>4
  <2> HIDE DEF Built, h
  <2> QED BY <2>5
<1>4. Cardinality(S) \in N
  <2>1. Cardinality(S) \in Nat
    BY FS_CardinalityType
  <2> HIDE DEF N
  <2> QED BY <1>2, <1>3, <2>1, NatInductionOnSets
<1>5. PICK g : Built(g, Cardinality(S))
  BY <1>4
<1>6. Small(Cardinality(S)) = SUBSET S
  BY <1>0, FS_Subset
<1>7. g = [T \in SUBSET S |-> g[T]] /\ AllInt(g, SUBSET S)
  BY <1>5, <1>6 DEF AllInt
<1>8. \A T \in SUBSET S : g[T] = IF T = {} THEN 0 ELSE f[AnyOf(T)] + g[T \ {AnyOf(T)}]
  BY <1>5, <1>6
<1>9. IsSums(g, f, S)
  BY <1>7, <1>8 DEF IsSums
<1> QED BY <1>7, <1>9 DEF AllInt

\* What they are.
LEMMA SumsAre ==
  ASSUME NEW f, NEW S, NEW g, IsSums(g, f, S), NEW T \in SUBSET S
  PROVE  /\ T = {} => g[T] = 0
         /\ T # {} => g[T] = f[AnyOf(T)] + g[T \ {AnyOf(T)}]
BY DEF IsSums

\* They depend on nothing but the elements.
LEMMA SumsAgree ==
  ASSUME NEW f, NEW S, NEW g, IsSums(g, f, S), IsFiniteSet(S),
         NEW e, NEW R, R \subseteq S, NEW h, IsSums(h, e, R), \A x \in R : e[x] = f[x]
  PROVE  \A T \in SUBSET R : h[T] = g[T]
<1> DEFINE N == {n \in Nat : \A T \in SUBSET R : Cardinality(T) = n => h[T] = g[T]}
<1>0. \A T \in SUBSET R : IsFiniteSet(T) /\ Cardinality(T) \in Nat /\ T \in SUBSET S
  BY FS_Subset, FS_CardinalityType
<1>1. 0 \in N
  <2>1. ASSUME NEW T \in SUBSET R, Cardinality(T) = 0 PROVE h[T] = g[T]
    <3>1. T = {}
      BY <1>0, <2>1, FS_EmptySet
    <3>2. T \in SUBSET S
      BY <1>0
    <3>3. h[T] = 0
      BY <3>1 DEF IsSums
    <3>4. g[T] = 0
      BY <3>1, <3>2 DEF IsSums
    <3> QED BY <3>3, <3>4
  <2> QED BY <2>1
<1>2. ASSUME NEW n \in Nat, n \in N PROVE n + 1 \in N
  <2>1. ASSUME NEW T \in SUBSET R, Cardinality(T) = n + 1 PROVE h[T] = g[T]
    <3> DEFINE x == AnyOf(T)
    <3>1. T # {}
      BY <2>1, FS_EmptySet
    <3>2. x \in T /\ T \ {x} \in SUBSET R /\ Cardinality(T \ {x}) = n
      BY <1>0, <2>1, <3>1, PickOne
    <3>3. h[T \ {x}] = g[T \ {x}] /\ e[x] = f[x]
      BY <1>2, <3>2
    <3>4. h[T] = e[x] + h[T \ {x}]
      BY <3>1 DEF IsSums
    <3>5. g[T] = f[x] + g[T \ {x}]
      <4>1. T \in SUBSET S
        BY <1>0
      <4> QED BY <3>1, <4>1 DEF IsSums
    <3> QED BY <3>3, <3>4, <3>5
  <2> QED BY <2>1
<1>3. Nat \subseteq N
  <2> HIDE DEF N
  <2> QED BY <1>1, <1>2, NatInductionOnSets
<1> QED BY <1>0, <1>3

\* It does not matter which element is taken out first.
LEMMA SumsWithout ==
  ASSUME NEW f, NEW S, IsFiniteSet(S), AllInt(f, S),
         NEW g, IsSums(g, f, S), AllInt(g, SUBSET S)
  PROVE  \A T \in SUBSET S : \A x \in T : g[T] = f[x] + g[T \ {x}]
<1> DEFINE FromAny(T) == \A x \in T : g[T] = f[x] + g[T \ {x}]
           N == {n \in Nat : \A T \in SUBSET S : Cardinality(T) = n => FromAny(T)}
<1>0. \A T \in SUBSET S : IsFiniteSet(T) /\ Cardinality(T) \in Nat
  BY FS_Subset, FS_CardinalityType
<1>1. 0 \in N
  BY <1>0, FS_EmptySet
<1>2. ASSUME NEW n \in Nat, n \in N PROVE n + 1 \in N
  <2>1. ASSUME NEW T \in SUBSET S, Cardinality(T) = n + 1, NEW x \in T
        PROVE  g[T] = f[x] + g[T \ {x}]
    <3>0. PICK c : c = AnyOf(T)
      OBVIOUS
    <3>1. c \in T /\ T \ {c} \in SUBSET S /\ Cardinality(T \ {c}) = n
      BY <1>0, <2>1, <3>0, PickOne
    <3>2. g[T] = f[c] + g[T \ {c}]
      <4>1. T # {} /\ T \in SUBSET S
        BY <2>1
      <4> HIDE DEF N, FromAny
      <4>2. g[T] = f[AnyOf(T)] + g[T \ {AnyOf(T)}]
        BY <4>1, SumsAre
      <4> QED BY <3>0, <4>2
    <3>3. CASE c = x
      BY <3>2, <3>3
    <3>4. CASE c # x
      <4>1. T \ {x} \in SUBSET S /\ Cardinality(T \ {x}) = n
        <5> HIDE DEF N, FromAny
        <5>1. IsFiniteSet(T)
          BY <1>0
        <5>2. Cardinality(T \ {x}) = Cardinality(T) - 1
          BY <2>1, <5>1, FS_RemoveElement
        <5> QED BY <2>1, <5>2
      <4>2. x \in T \ {c} /\ c \in T \ {x}
        BY <2>1, <3>1, <3>4
      <4>3. g[T \ {c}] = f[x] + g[(T \ {c}) \ {x}]
        BY <1>2, <3>1, <4>2
      <4>4. g[T \ {x}] = f[c] + g[(T \ {x}) \ {c}]
        BY <1>2, <4>1, <4>2
      <4>5. (T \ {c}) \ {x} = (T \ {x}) \ {c} /\ (T \ {c}) \ {x} \in SUBSET S
        OBVIOUS
      <4>6. PICK r \in Int : r = g[(T \ {c}) \ {x}]
        BY <4>5 DEF AllInt
      <4>7. f[x] \in Int /\ f[c] \in Int
        BY <2>1, <3>1 DEF AllInt
      <4> HIDE DEF N, FromAny
      <4>8. g[T] = f[c] + (f[x] + r)
        BY <3>2, <4>3, <4>6
      <4>9. f[x] + g[T \ {x}] = f[x] + (f[c] + r)
        BY <4>4, <4>5, <4>6
      <4> QED BY <4>6, <4>7, <4>8, <4>9
    <3> QED BY <3>3, <3>4
  <2> QED BY <2>1
<1>3. Nat \subseteq N
  <2> HIDE DEF N
  <2> QED BY <1>1, <1>2, NatInductionOnSets
<1> QED BY <1>0, <1>3

\* The sum of a finite set of integers.
LEMMA SumOfSums ==
  ASSUME NEW f, NEW S, IsFiniteSet(S), AllInt(f, S)
  PROVE  \E g : /\ IsSums(g, f, S) /\ AllInt(g, SUBSET S)
                /\ SumFunctionOnSet(f, S) = g[S]
<1>1. PICK g : IsSums(g, f, S) /\ AllInt(g, SUBSET S)
  BY SumsExist
<1>2. PICK h : h = CHOOSE e : IsSums(e, f, S)
  OBVIOUS
<1>3. IsSums(h, f, S)
  BY <1>1, <1>2
<1>4. \A T \in SUBSET S : h[T] = g[T]
  BY <1>1, <1>3, SumsAgree
<1>5. SumFunctionOnSet(f, S) = h[S]
  BY <1>2, SumIs
<1> QED BY <1>1, <1>4, <1>5

\* The sum of nothing.
LEMMA SumEmpty ==
  ASSUME NEW f PROVE SumFunctionOnSet(f, {}) = 0
<1>1. PICK g : IsSums(g, f, {}) /\ SumFunctionOnSet(f, {}) = g[{}]
  BY SumOfSums, FS_EmptySet DEF AllInt
<1> QED BY <1>1, SumsAre

\* The sum with and without an element.
LEMMA SumWithout ==
  ASSUME NEW f, NEW S, IsFiniteSet(S), AllInt(f, S), NEW x \in S
  PROVE  /\ SumFunctionOnSet(f, S) \in Int /\ SumFunctionOnSet(f, S \ {x}) \in Int
         /\ SumFunctionOnSet(f, S) = f[x] + SumFunctionOnSet(f, S \ {x})
<1>1. PICK g : /\ IsSums(g, f, S) /\ AllInt(g, SUBSET S)
               /\ SumFunctionOnSet(f, S) = g[S]
  BY SumOfSums
<1>2. IsFiniteSet(S \ {x}) /\ AllInt(f, S \ {x})
  BY FS_RemoveElement DEF AllInt
<1>3. PICK h : IsSums(h, f, S \ {x}) /\ SumFunctionOnSet(f, S \ {x}) = h[S \ {x}]
  BY <1>2, SumOfSums
<1>4. h[S \ {x}] = g[S \ {x}]
  <2>1. S \ {x} \subseteq S /\ \A y \in S \ {x} : f[y] = f[y]
    OBVIOUS
  <2>2. \A T \in SUBSET (S \ {x}) : h[T] = g[T]
    BY <1>1, <1>3, <2>1, SumsAgree
  <2> QED BY <2>2
<1>5. g[S] = f[x] + g[S \ {x}]
  BY <1>1, SumsWithout
<1> QED BY <1>1, <1>3, <1>4, <1>5 DEF AllInt

\* A sum of integers is one.
LEMMA SumType ==
  ASSUME NEW f, NEW S, IsFiniteSet(S), AllInt(f, S)
  PROVE  SumFunctionOnSet(f, S) \in Int
BY SumOfSums DEF AllInt

\* The sum depends on the values of the elements only.
LEMMA SumSame ==
  ASSUME NEW f, NEW e, NEW S, IsFiniteSet(S), AllInt(f, S),
         \A x \in S : e[x] = f[x]
  PROVE  SumFunctionOnSet(e, S) = SumFunctionOnSet(f, S)
<1>0. AllInt(e, S)
  BY DEF AllInt
<1>1. PICK g : IsSums(g, f, S) /\ SumFunctionOnSet(f, S) = g[S]
  BY SumOfSums
<1>2. PICK h : IsSums(h, e, S) /\ SumFunctionOnSet(e, S) = h[S]
  BY <1>0, SumOfSums
<1>3. h[S] = g[S]
  BY <1>1, <1>2, SumsAgree
<1> QED BY <1>1, <1>2, <1>3

\* It changes with one of its elements.
LEMMA SumChanged ==
  ASSUME NEW f, NEW e, NEW S, IsFiniteSet(S), NEW x \in S,
         AllInt(f, S), AllInt(e, S), \A y \in S : y # x => e[y] = f[y]
  PROVE  /\ SumFunctionOnSet(f, S) \in Int /\ SumFunctionOnSet(e, S) \in Int
         /\ SumFunctionOnSet(e, S) = (SumFunctionOnSet(f, S) - f[x]) + e[x]
<1>1. IsFiniteSet(S \ {x})
  BY FS_RemoveElement
<1>2. SumFunctionOnSet(e, S \ {x}) = SumFunctionOnSet(f, S \ {x})
  BY <1>1, SumSame DEF AllInt
<1>3. /\ SumFunctionOnSet(f, S) \in Int /\ SumFunctionOnSet(f, S \ {x}) \in Int
      /\ SumFunctionOnSet(f, S) = f[x] + SumFunctionOnSet(f, S \ {x})
  BY SumWithout
<1>4. /\ SumFunctionOnSet(e, S) \in Int
      /\ SumFunctionOnSet(e, S) = e[x] + SumFunctionOnSet(e, S \ {x})
  BY SumWithout
<1> QED BY <1>2, <1>3, <1>4 DEF AllInt

\* The sum of a set with some of its elements made 0 is less by theirs.
LEMMA SumOfPart ==
  ASSUME NEW f, NEW S, IsFiniteSet(S), AllInt(f, S), NEW R \in SUBSET S
  PROVE  SumFunctionOnSet([x \in S |-> IF x \in R THEN 0 ELSE f[x]], S) =
           SumFunctionOnSet(f, S) - SumFunctionOnSet(f, R)
<1> DEFINE e(T) == [x \in S |-> IF x \in T THEN 0 ELSE f[x]]
           N == {n \in Nat : \A T \in SUBSET S : Cardinality(T) = n =>
                   SumFunctionOnSet(e(T), S) = SumFunctionOnSet(f, S) - SumFunctionOnSet(f, T)}
<1>0. \A T \in SUBSET S : IsFiniteSet(T) /\ Cardinality(T) \in Nat
  BY FS_Subset, FS_CardinalityType
<1>1. 0 \in N
  <2>1. ASSUME NEW T \in SUBSET S, Cardinality(T) = 0
        PROVE  SumFunctionOnSet(e(T), S) = SumFunctionOnSet(f, S) - SumFunctionOnSet(f, T)
    <3>1. T = {}
      BY <1>0, <2>1, FS_EmptySet
    <3>2. \A x \in S : f[x] \in Int /\ e(T)[x] = f[x]
      BY <3>1 DEF AllInt
    <3> HIDE DEF e
    <3>3. SumFunctionOnSet(e(T), S) = SumFunctionOnSet(f, S)
      BY <3>2, SumSame
    <3> QED BY <3>1, <3>3, SumEmpty, SumType
  <2> QED BY <2>1
<1>2. ASSUME NEW n \in Nat, n \in N PROVE n + 1 \in N
  <2>1. ASSUME NEW T \in SUBSET S, Cardinality(T) = n + 1
        PROVE  SumFunctionOnSet(e(T), S) = SumFunctionOnSet(f, S) - SumFunctionOnSet(f, T)
    <3>1. T # {}
      BY <2>1, FS_EmptySet
    <3>2. PICK x : x \in T
      BY <3>1
    <3> DEFINE U == T \ {x}
    <3>3. U \in SUBSET S /\ Cardinality(U) = n
      BY <1>0, <2>1, <3>2, FS_RemoveElement
    <3>4. SumFunctionOnSet(e(U), S) = SumFunctionOnSet(f, S) - SumFunctionOnSet(f, U)
      BY <1>2, <3>3
    <3>5. /\ \A y \in S : e(U)[y] \in Int /\ e(T)[y] \in Int /\ (y # x => e(T)[y] = e(U)[y])
          /\ e(T)[x] = 0 /\ e(U)[x] = f[x] /\ x \in S
      BY <3>2 DEF AllInt
    <3> HIDE DEF e
    <3>6. SumFunctionOnSet(e(T), S) = (SumFunctionOnSet(e(U), S) - e(U)[x]) + e(T)[x]
      <4> HIDE DEF N
      <4>1. IsFiniteSet(S) /\ AllInt(e(U), S) /\ AllInt(e(T), S)
        BY <3>5 DEF AllInt
      <4> HIDE DEF U
      <4>2. \A y \in S : y # x => e(T)[y] = e(U)[y]
        BY <3>5
      <4> QED BY <3>5, <4>1, <4>2, SumChanged
    <3>7. /\ SumFunctionOnSet(f, T) \in Int /\ SumFunctionOnSet(f, U) \in Int
          /\ SumFunctionOnSet(f, T) = f[x] + SumFunctionOnSet(f, U)
      BY <1>0, <2>1, <3>2, SumWithout DEF AllInt
    <3>8. SumFunctionOnSet(f, S) \in Int /\ f[x] \in Int
      BY <3>5, SumType
    <3> QED BY <3>4, <3>5, <3>6, <3>7, <3>8
  <2> QED BY <2>1
<1>3. Nat \subseteq N
  <2> HIDE DEF N
  <2> QED BY <1>1, <1>2, NatInductionOnSets
<1> QED BY <1>0, <1>3

\* The sum of one element.
LEMMA SumOne ==
  ASSUME NEW f, NEW x, f[x] \in Int
  PROVE  SumFunctionOnSet(f, {x}) = f[x]
<1>1. IsFiniteSet({x}) /\ AllInt(f, {x}) /\ x \in {x} /\ {x} \ {x} = {}
  BY FS_Singleton DEF AllInt
<1>2. SumFunctionOnSet(f, {x}) = f[x] + SumFunctionOnSet(f, {x} \ {x})
  BY <1>1, SumWithout
<1> QED BY <1>1, <1>2, SumEmpty

\* The larger of two numbers.
LEMMA MaxOfTwo ==
  ASSUME NEW a \in Nat, NEW b \in Nat
  PROVE  Max({a, b}) \in Nat /\ a <= Max({a, b}) /\ b <= Max({a, b})
         /\ (Max({a, b}) = a \/ Max({a, b}) = b)
<1>1. CASE a <= b
  <2>1. b \in {a, b} /\ \A y \in {a, b} : b >= y
    BY <1>1
  <2>2. \A x \in {a, b} : (\A y \in {a, b} : x >= y) => x = b
    BY <1>1
  <2> QED BY <1>1, <2>1, <2>2 DEF Max
<1>2. CASE b <= a
  <2>1. a \in {a, b} /\ \A y \in {a, b} : a >= y
    BY <1>2
  <2>2. \A x \in {a, b} : (\A y \in {a, b} : x >= y) => x = a
    BY <1>2
  <2> QED BY <1>2, <2>1, <2>2 DEF Max
<1> QED BY <1>1, <1>2
==============================================================================
