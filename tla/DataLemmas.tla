------------------------------ MODULE DataLemmas ----------------------------
(***************************************************************************)
(* Facts about numbers, sequences and finite sets that the proofs of       *)
(* several components rest on.  Induction is used in the form of the least *)
(* element: what fails for some number fails for a first one.              *)
(***************************************************************************)
EXTENDS Retaining, FiniteSets, FiniteSetTheorems, SequenceTheorems, WellFoundedInduction,
        TLAPS

\* A set of natural numbers has a least element.
LEMMA LeastElement ==
    ASSUME NEW T \in SUBSET Nat, T # {}
    PROVE  \E n \in T : \A m \in T : n <= m
<1> DEFINE R == {ss \in Nat \X Nat : ss[1] < ss[2]}
<1>1. IsWellFoundedOn(R, Nat)
  BY NatLessThanWellFounded DEF OpToRel
<1>2. \A x, y \in Nat : <<y, x>> \in R <=> y < x
  OBVIOUS
<1> HIDE DEF R
<1>3. PICK x \in T : \A y \in T : ~ (<<y, x>> \in R)
  BY <1>1, WFMin
<1>4. ASSUME NEW y \in T PROVE x <= y
  <2>1. x \in Nat /\ y \in Nat
    OBVIOUS
  <2>2. ~ (y < x)
    BY <1>2, <1>3, <2>1, Zenon
  <2>3. QED
    BY <2>1, <2>2
<1>5. QED
  BY <1>4

\* A set of numbers up to a bound has a greatest element.
LEMMA GreatestElement ==
    ASSUME NEW n \in Nat, NEW T \in SUBSET (0..n), T # {}
    PROVE  \E x \in T : \A y \in T : y <= x
<1> DEFINE U == {n - x : x \in T}
<1>1. U \in SUBSET Nat
  OBVIOUS
<1>n. U # {}
  OBVIOUS
<1>2. PICK u \in U : \A w \in U : u <= w
  BY <1>1, <1>n, LeastElement
<1>3. PICK x \in T : u = n - x
  BY <1>2
<1>4. ASSUME NEW y \in T PROVE y <= x
  <2>1. n - y \in U
    OBVIOUS
  <2>2. n - x <= n - y
    BY <1>2, <1>3, <2>1
  <2>3. QED
    BY <2>2
<1>5. QED
  BY <1>4

\* What holds at zero and is handed on from each number to the next holds up
\* to n.  The property is the set of the numbers that have it.
LEMMA UpTo ==
    ASSUME NEW n \in Nat, NEW P, 0 \in P, \A i \in 0..(n - 1) : i \in P => i + 1 \in P
    PROVE  \A i \in 0..n : i \in P
<1> SUFFICES ASSUME NEW j \in 0..n, j \notin P PROVE FALSE
  OBVIOUS
<1> DEFINE T == {i \in 0..n : i \notin P}
<1>1. T \in SUBSET Nat /\ T # {}
  OBVIOUS
<1>2. PICK k \in T : \A m \in T : k <= m
  BY <1>1, LeastElement
<1>3. k # 0 /\ k - 1 \in 0..(n - 1) /\ k - 1 \notin T
  BY <1>2
<1>4. k - 1 \in P
  BY <1>3
<1>5. QED
  BY <1>2, <1>3, <1>4

\* A sequence without repetition has as many members as places.
LEMMA DistinctMembers ==
    ASSUME NEW S, NEW s \in Seq(S), \A i, j \in 1..Len(s) : i # j => s[i] # s[j]
    PROVE  /\ IsFiniteSet({s[i] : i \in 1..Len(s)})
           /\ Cardinality({s[i] : i \in 1..Len(s)}) = Len(s)
<1> DEFINE T == {s[i] : i \in 1..Len(s)}
<1>1. Len(s) \in Nat /\ s \in [1..Len(s) -> T] /\ DOMAIN s = 1..Len(s)
  OBVIOUS
<1>2. s \in Injection(1..Len(s), T)
  BY <1>1 DEF Injection, IsInjective
<1>3. s \in Surjection(1..Len(s), T)
  BY <1>1 DEF Surjection
<1>4. ExistsBijection(1..Len(s), T)
  BY <1>2, <1>3 DEF ExistsBijection, Bijection
<1>5. IsFiniteSet(1..Len(s)) /\ Cardinality(1..Len(s)) = Len(s)
  <2>1. IsFiniteSet(1..Len(s)) /\ Cardinality(1..Len(s)) = IF 1 > Len(s) THEN 0 ELSE Len(s) - 1 + 1
    BY <1>1, FS_Interval
  <2>2. QED
    BY <1>1, <2>1
<1>6. QED
  BY <1>1, <1>4, <1>5, FS_Bijection

\* What Append adds comes last; the rest stays where it was.
LEMMA Appended ==
    ASSUME NEW S, NEW s \in Seq(S), NEW e \in S
    PROVE  /\ Append(s, e) \in Seq(S) /\ Len(s) \in Nat
           /\ Len(Append(s, e)) = Len(s) + 1 /\ Append(s, e)[Len(s) + 1] = e
           /\ \A j \in 1..Len(s) : Append(s, e)[j] = s[j] /\ s[j] \in S
  OBVIOUS

\* The members of a stretch of a sequence are a finite set.
LEMMA StretchFinite ==
    ASSUME NEW f, NEW a \in Int, NEW b \in Int
    PROVE  IsFiniteSet({f[i] : i \in a..b})
<1> DEFINE T == {f[i] : i \in a..b}
           g == [i \in a..b |-> f[i]]
<1>1. g \in Surjection(a..b, T)
  BY DEF Surjection
<1>2. IsFiniteSet(a..b)
  BY FS_Interval
<1> HIDE DEF g, T
<1>3. IsFiniteSet(T)
  BY <1>1, <1>2, FS_Surjection
<1>4. QED
  BY <1>3 DEF T

-----------------------------------------------------------------------------
(* What retain does *)

\* f is the table of the prefixes of s up to n, each with what is outside S
\* left out.
RetainTable(f, n, s, S) ==
    f = [i \in 0..n |-> IF i = 0 THEN <<>>
                        ELSE IF s[i] \in S THEN Append(f[i - 1], s[i]) ELSE f[i - 1]]

\* The table that defines Retain exists, whatever the sequence.
LEMMA RetainTableExists ==
    ASSUME NEW s, NEW S, NEW n \in Nat
    PROVE  \E f : RetainTable(f, n, s, S)
<1> DEFINE P == {k \in Nat : \E f : RetainTable(f, k, s, S)}
<1>1. 0 \in P
  <2>1. RetainTable([i \in 0..0 |-> <<>>], 0, s, S)
    BY DEF RetainTable
  <2>2. QED
    BY <2>1
<1>2. ASSUME NEW k \in 0..(n - 1), k \in P PROVE k + 1 \in P
  <2>1. PICK f : RetainTable(f, k, s, S)
    BY <1>2
  <2> DEFINE last == IF s[k + 1] \in S THEN Append(f[k], s[k + 1]) ELSE f[k]
             g == [i \in 0..(k + 1) |-> IF i = k + 1 THEN last ELSE f[i]]
             h == [i \in 0..(k + 1) |->
                      IF i = 0 THEN <<>>
                      ELSE IF s[i] \in S THEN Append(g[i - 1], s[i]) ELSE g[i - 1]]
  <2>2. \A i \in 0..k : f[i] = IF i = 0 THEN <<>>
                               ELSE IF s[i] \in S THEN Append(f[i - 1], s[i]) ELSE f[i - 1]
    BY <2>1 DEF RetainTable
  <2>3. ASSUME NEW i \in 0..(k + 1) PROVE g[i] = h[i]
    <3>1. CASE i = 0
      BY <2>2, <3>1
    <3>2. CASE i = k + 1
      <4>1. g[i] = last /\ g[i - 1] = f[k]
        BY <3>2
      <4>2. QED
        BY <3>2, <4>1
    <3>3. CASE i # 0 /\ i # k + 1
      <4>1. i \in 0..k /\ i - 1 \in 0..k /\ g[i] = f[i] /\ g[i - 1] = f[i - 1]
        BY <3>3
      <4>2. QED
        BY <2>2, <3>3, <4>1
    <3>4. QED
      BY <3>1, <3>2, <3>3
  <2> HIDE DEF last
  <2>4. g = h
    BY <2>3, Zenon
  <2>5. RetainTable(g, k + 1, s, S)
    BY <2>4, Zenon DEF RetainTable
  <2>6. QED
    BY <2>5
<1> HIDE DEF P
<1>3. \A k \in 0..n : k \in P
  BY <1>1, <1>2, UpTo
<1>4. QED
  BY <1>3 DEF P

\* r is s with some places left out: the places kept, in their order.
Thinned(r, s) ==
    \E g \in [1..Len(r) -> 1..Len(s)] :
        /\ \A i \in 1..Len(r) : r[i] = s[g[i]]
        /\ \A i, j \in 1..Len(r) : i < j => g[i] < g[j]

\* retain keeps exactly the members in S, in the order they had.
LEMMA RetainKeeps ==
    ASSUME NEW E, NEW s \in Seq(E), NEW S
    PROVE  /\ Retain(s, S) \in Seq(E)
           /\ Members(Retain(s, S)) = Members(s) \cap S
           /\ Thinned(Retain(s, S), s)
<1> DEFINE n == Len(s)
           K == CHOOSE f : RetainTable(f, n, s, S)
<1>1. n \in Nat
  OBVIOUS
<1>2. RetainTable(K, n, s, S)
  BY <1>1, RetainTableExists
<1>3. Retain(s, S) = K[n]
  BY DEF Retain, RetainTable
<1> HIDE DEF K
<1>4. /\ K[0] = <<>>
      /\ \A i \in 1..n : K[i] = IF s[i] \in S THEN Append(K[i - 1], s[i]) ELSE K[i - 1]
  <2>1. ASSUME NEW i \in 0..n
        PROVE  K[i] = IF i = 0 THEN <<>>
                      ELSE IF s[i] \in S THEN Append(K[i - 1], s[i]) ELSE K[i - 1]
    BY <1>2, Zenon DEF RetainTable
  <2>2. 0 \in 0..n /\ \A i \in 1..n : i \in 0..n /\ i # 0
    BY <1>1
  <2>3. QED
    BY <2>1, <2>2, Zenon
<1> DEFINE Places(r, k, g) ==
               /\ g \in [1..Len(r) -> 1..k]
               /\ \A i \in 1..Len(r) : r[i] = s[g[i]] /\ s[g[i]] \in S
               /\ \A i, j \in 1..Len(r) : i < j => g[i] < g[j]
               /\ \A p \in 1..k : s[p] \in S => \E i \in 1..Len(r) : g[i] = p
           P == {k \in Nat : K[k] \in Seq(E) /\ \E g : Places(K[k], k, g)}
<1>5. 0 \in P
  <2>1. Places(<<>>, 0, [i \in 1..0 |-> 0])
    OBVIOUS
  <2> HIDE DEF Places
  <2>2. <<>> \in Seq(E) /\ 0 \in Nat
    OBVIOUS
  <2>3. QED
    BY <1>4, <2>1, <2>2, Zenon
<1>6. ASSUME NEW k \in 0..(n - 1), k \in P PROVE k + 1 \in P
  <2>1. PICK g : Places(K[k], k, g)
    BY <1>6
  <2>2. K[k] \in Seq(E) /\ k + 1 \in 1..n /\ s[k + 1] \in E /\ k \in Nat
    BY <1>6
  <2> DEFINE r == K[k]
             l == Len(r)
  <2>k. (k + 1) - 1 = k
    BY <2>2
  <2>l. l \in Nat
    BY <2>2
  <2>3. CASE s[k + 1] \notin S
    <3>1. K[k + 1] = r
      BY <1>4, <2>2, <2>3, <2>k
    <3>2. /\ g \in [1..l -> 1..k]
          /\ \A i \in 1..l : r[i] = s[g[i]] /\ s[g[i]] \in S
          /\ \A i, j \in 1..l : i < j => g[i] < g[j]
          /\ \A p \in 1..k : s[p] \in S => \E i \in 1..l : g[i] = p
      BY <2>1
    <3> HIDE DEF r, l
    <3>3. g \in [1..l -> 1..(k + 1)]
      BY <2>2, <2>l, <3>2
    <3>4. ASSUME NEW p \in 1..(k + 1), s[p] \in S PROVE \E i \in 1..l : g[i] = p
      BY <2>2, <2>3, <3>2, <3>4
    <3>5. Places(r, k + 1, g)
      BY <3>2, <3>3, <3>4, Zenon DEF l
    <3> HIDE DEF Places
    <3>6. k + 1 \in Nat /\ r \in Seq(E)
      BY <2>2 DEF r
    <3>7. QED
      BY <3>1, <3>5, <3>6, Zenon
  <2>4. CASE s[k + 1] \in S
    <3> DEFINE q == Append(r, s[k + 1])
               h == [i \in 1..(l + 1) |-> IF i = l + 1 THEN k + 1 ELSE g[i]]
    <3>1. K[k + 1] = q
      BY <1>4, <2>2, <2>4, <2>k
    <3>2. /\ q \in Seq(E) /\ Len(q) = l + 1 /\ q[l + 1] = s[k + 1]
          /\ \A i \in 1..l : q[i] = r[i]
      BY <2>2
    <3> HIDE DEF q
    <3>3. /\ g \in [1..l -> 1..k]
          /\ \A i \in 1..l : r[i] = s[g[i]] /\ s[g[i]] \in S
          /\ \A i, j \in 1..l : i < j => g[i] < g[j]
          /\ \A p \in 1..k : s[p] \in S => \E i \in 1..l : g[i] = p
      BY <2>1
    <3> HIDE DEF r, l
    <3>4. h \in [1..(l + 1) -> 1..(k + 1)]
      BY <2>2, <2>l, <3>3
    <3>5. \A i \in 1..l : h[i] = g[i] /\ i \in 1..(l + 1) /\ h[i] \in 1..k
      BY <2>l, <3>3
    <3>6. h[l + 1] = k + 1 /\ l + 1 \in 1..(l + 1)
      BY <2>l
    <3> HIDE DEF h
    <3>7. ASSUME NEW i \in 1..(l + 1) PROVE q[i] = s[h[i]] /\ s[h[i]] \in S
      BY <2>4, <2>l, <3>2, <3>3, <3>5, <3>6
    <3>8. ASSUME NEW i \in 1..(l + 1), NEW j \in 1..(l + 1), i < j PROVE h[i] < h[j]
      <4>1. i \in 1..l
        BY <2>l, <3>8
      <4>2. CASE j = l + 1
        BY <2>2, <3>5, <3>6, <4>1, <4>2
      <4>3. CASE j # l + 1
        <5>1. j \in 1..l
          BY <2>l, <4>3
        <5>2. QED
          BY <3>3, <3>5, <3>8, <4>1, <5>1
      <4>4. QED
        BY <4>2, <4>3
    <3>9. ASSUME NEW p \in 1..(k + 1), s[p] \in S PROVE \E i \in 1..(l + 1) : h[i] = p
      <4>1. CASE p = k + 1
        BY <3>6, <4>1
      <4>2. CASE p # k + 1
        <5>1. p \in 1..k
          BY <2>2, <4>2
        <5>2. PICK i \in 1..l : g[i] = p
          BY <3>3, <3>9, <5>1
        <5>3. QED
          BY <3>5, <5>2
      <4>3. QED
        BY <4>1, <4>2
    <3>10. Places(q, k + 1, h)
      BY <3>2, <3>4, <3>7, <3>8, <3>9
    <3> HIDE DEF Places
    <3>11. QED
      BY <2>2, <3>1, <3>2, <3>10
  <2>5. QED
    BY <2>3, <2>4
<1> HIDE DEF P
<1>7. n \in P
  <2>1. \A k \in 0..n : k \in P
    BY <1>1, <1>5, <1>6, UpTo
  <2>2. QED
    BY <1>1, <2>1
<1> DEFINE r == K[n]
<1>8. r \in Seq(E) /\ \E g : Places(r, n, g)
  BY <1>7 DEF P
<1>9. PICK g : Places(r, n, g)
  BY <1>8
<1> HIDE DEF r
<1>10. Thinned(r, s)
  BY <1>9 DEF Thinned
<1>11. Members(r) = Members(s) \cap S
  <2>1. ASSUME NEW x \in Members(r) PROVE x \in Members(s) \cap S
    BY <1>9 DEF Members
  <2>2. ASSUME NEW x \in Members(s) \cap S PROVE x \in Members(r)
    <3>1. PICK p \in 1..n : x = s[p]
      BY DEF Members
    <3>2. PICK i \in 1..Len(r) : g[i] = p
      BY <1>9, <3>1
    <3>3. x = r[i]
      BY <1>9, <3>1, <3>2
    <3>4. QED
      BY <3>3 DEF Members
  <2>3. QED
    BY <2>1, <2>2
<1>12. QED
  BY <1>3, <1>8, <1>10, <1>11 DEF r
=============================================================================
