----------------------------- MODULE RelayProofs ----------------------------
(***************************************************************************)
(* The relay's counters, the stream of every client and the causes of cuts *)
(* and pauses: for any number of clients, chunks of any sizes, and every   *)
(* ring, queue, budget and window.                                         *)
(***************************************************************************)
EXTENDS Relay, DataLemmas

-----------------------------------------------------------------------------
(* Sizes *)

\* What the constants are.
LEMMA Constants ==
    /\ MaxClients \in Nat /\ QueueCapacity \in Nat /\ Window \in Nat /\ BufferBytes \in Nat /\ ReadBytes \in Nat
    /\ MaxClients >= 1 /\ QueueCapacity >= 1 /\ Window >= 1
    /\ MaxChunks \in Nat
    /\ \A n \in Chunks : SizeOf[n] \in Nat /\ SizeOf[n] >= 1 /\ SizeOf[n] <= ReadBytes
    /\ IsFiniteSet(Clients)
<1>1. \A x \in {MaxClients, BufferBytes, ReadBytes, QueueCapacity, RingCapacity, Window} : x \in Nat \ {0}
  BY RelayAssumption
<1>2. SizeOf \in Seq(1..ReadBytes)
  BY RelayAssumption
<1>3. QED
  BY <1>1, <1>2, RelayAssumption DEF MaxChunks, Chunks

\* The bytes of one chunk.
LEMMA OneChunk ==
    ASSUME NEW n \in Chunks
    PROVE  /\ IsFiniteSet({n} \X (1..SizeOf[n]))
           /\ Cardinality({n} \X (1..SizeOf[n])) = SizeOf[n]
<1>1. SizeOf[n] \in Nat /\ SizeOf[n] >= 1
  BY Constants
<1>2. IsFiniteSet({n}) /\ Cardinality({n}) = 1
  BY FS_Singleton
<1>3. IsFiniteSet(1..SizeOf[n]) /\ Cardinality(1..SizeOf[n]) = SizeOf[n]
  <2>1. /\ IsFiniteSet(1..SizeOf[n])
        /\ Cardinality(1..SizeOf[n]) = IF 1 > SizeOf[n] THEN 0 ELSE SizeOf[n] - 1 + 1
    BY <1>1, FS_Interval
  <2>2. QED
    BY <1>1, <2>1
<1>4. /\ IsFiniteSet({n} \X (1..SizeOf[n]))
      /\ Cardinality({n} \X (1..SizeOf[n])) = Cardinality({n}) * Cardinality(1..SizeOf[n])
  BY <1>2, <1>3, FS_Product
<1>5. QED
  BY <1>1, <1>2, <1>3, <1>4

\* Bytes of chunks are pairs of a chunk and a place in it.
LEMMA BytesWithin ==
    ASSUME NEW C \in SUBSET Chunks
    PROVE  /\ BytesOf(C) \subseteq Chunks \X (1..ReadBytes)
           /\ IsFiniteSet(BytesOf(C))
           /\ Bytes(C) \in Nat
<1>1. ASSUME NEW x \in BytesOf(C) PROVE x \in Chunks \X (1..ReadBytes)
  <2>1. PICK n \in C : x \in {n} \X (1..SizeOf[n])
    BY DEF BytesOf
  <2>2. n \in Chunks /\ SizeOf[n] \in Nat /\ SizeOf[n] <= ReadBytes /\ ReadBytes \in Nat
    BY Constants
  <2>3. QED
    BY <2>1, <2>2
<1>2. IsFiniteSet(Chunks) /\ IsFiniteSet(1..ReadBytes)
  BY Constants, FS_Interval DEF Chunks
<1>3. IsFiniteSet(Chunks \X (1..ReadBytes))
  BY <1>2, FS_Product
<1>4. IsFiniteSet(BytesOf(C))
  BY <1>1, <1>3, FS_Subset
<1>5. QED
  BY <1>1, <1>4, FS_CardinalityType DEF Bytes

\* One more chunk adds its size.
LEMMA BytesAdd ==
    ASSUME NEW C \in SUBSET Chunks, NEW n \in Chunks \ C
    PROVE  Bytes(C \cup {n}) = Bytes(C) + SizeOf[n]
<1> DEFINE A == BytesOf(C)
           B == {n} \X (1..SizeOf[n])
<1>1. IsFiniteSet(A) /\ IsFiniteSet(B) /\ Cardinality(B) = SizeOf[n]
  BY BytesWithin, OneChunk
<1>2. BytesOf(C \cup {n}) = A \cup B
  BY DEF BytesOf
<1>3. A \cap B = {}
  BY DEF BytesOf
<1> HIDE DEF A, B
<1>4. Cardinality(A \cup B) = Cardinality(A) + Cardinality(B) - Cardinality(A \cap B)
  BY <1>1, FS_Union
<1>5. Cardinality(A \cap B) = 0 /\ Cardinality(A) \in Nat /\ Cardinality(B) \in Nat
  BY <1>1, <1>3, FS_EmptySet, FS_CardinalityType
<1>6. Cardinality(A \cup B) = Cardinality(A) + SizeOf[n]
  BY <1>1, <1>4, <1>5
<1>7. QED
  BY <1>2, <1>6, Zenon DEF Bytes, A

\* No chunks have no bytes, and some chunks have some.
LEMMA BytesSome ==
    ASSUME NEW C \in SUBSET Chunks
    PROVE  /\ C = {} => Bytes(C) = 0
           /\ C # {} => Bytes(C) > 0
<1>1. CASE C = {}
  <2>1. BytesOf(C) = {}
    BY <1>1 DEF BytesOf
  <2>2. QED
    BY <1>1, <2>1, FS_EmptySet DEF Bytes
<1>2. CASE C # {}
  <2>1. PICK n \in C : TRUE
    BY <1>2
  <2>2. <<n, 1>> \in {n} \X (1..SizeOf[n])
    BY Constants
  <2>3. BytesOf(C) # {}
    BY <2>2 DEF BytesOf
  <2>4. QED
    BY <1>2, <2>3, BytesWithin, FS_EmptySet DEF Bytes
<1>3. QED
  BY <1>1, <1>2

\* All of it is finite.
LEMMA FlightFinite ==
    ASSUME NEW P \in [Clients -> SUBSET Chunks]
    PROVE  IsFiniteSet(FlightOf(P)) /\ Cardinality(FlightOf(P)) \in Nat
<1>1. IsFiniteSet(Chunks \X (1..ReadBytes))
  <2>1. IsFiniteSet(Chunks) /\ IsFiniteSet(1..ReadBytes)
    BY Constants, FS_Interval DEF Chunks
  <2>2. QED
    BY <2>1, FS_Product
<1>2. IsFiniteSet(Clients \X (Chunks \X (1..ReadBytes)))
  BY <1>1, Constants, FS_Product
<1>3. ASSUME NEW x \in FlightOf(P) PROVE x \in Clients \X (Chunks \X (1..ReadBytes))
  <2>1. PICK c \in Clients : x \in {c} \X BytesOf(P[c])
    BY DEF FlightOf
  <2>2. BytesOf(P[c]) \subseteq Chunks \X (1..ReadBytes)
    BY BytesWithin
  <2>3. QED
    BY <2>1, <2>2
<1>4. IsFiniteSet(FlightOf(P))
  BY <1>2, <1>3, FS_Subset
<1>5. QED
  BY <1>4, FS_CardinalityType

\* What changes for one client changes the sum by the difference.
LEMMA FlightOfOne ==
    ASSUME NEW P \in [Clients -> SUBSET Chunks], NEW Q \in [Clients -> SUBSET Chunks],
           NEW c \in Clients, \A d \in Clients \ {c} : Q[d] = P[d]
    PROVE  Cardinality(FlightOf(Q)) + Bytes(P[c]) = Cardinality(FlightOf(P)) + Bytes(Q[c])
<1> DEFINE X == UNION {{d} \X BytesOf(P[d]) : d \in Clients \ {c}}
<1>1. FlightOf(P) = X \cup ({c} \X BytesOf(P[c]))
  BY DEF FlightOf
<1>2. FlightOf(Q) = X \cup ({c} \X BytesOf(Q[c]))
  BY DEF FlightOf
<1>3. IsFiniteSet(X) /\ Cardinality(X) \in Nat
  <2>1. X \subseteq FlightOf(P)
    BY <1>1
  <2>2. QED
    BY <2>1, FlightFinite, FS_Subset, FS_CardinalityType
<1>4. \A C : X \cap ({c} \X BytesOf(C)) = {}
  OBVIOUS
<1> HIDE DEF X
<1>5. ASSUME NEW C \in SUBSET Chunks
      PROVE  Cardinality(X \cup ({c} \X BytesOf(C))) = Cardinality(X) + Bytes(C)
  <2> DEFINE Y == {c} \X BytesOf(C)
  <2>1. IsFiniteSet(BytesOf(C)) /\ Bytes(C) \in Nat /\ IsFiniteSet({c}) /\ Cardinality({c}) = 1
    BY BytesWithin, FS_Singleton
  <2>2. IsFiniteSet(Y) /\ Cardinality(Y) = Cardinality({c}) * Cardinality(BytesOf(C))
    BY <2>1, FS_Product
  <2>3. Cardinality(Y) = Bytes(C)
    BY <2>1, <2>2 DEF Bytes
  <2>4. X \cap Y = {}
    BY <1>4
  <2> HIDE DEF Y
  <2>5. Cardinality(X \cup Y) = Cardinality(X) + Cardinality(Y) - Cardinality(X \cap Y)
    BY <1>3, <2>2, FS_Union
  <2>6. Cardinality(X \cap Y) = 0
    BY <2>4, FS_EmptySet
  <2>7. Cardinality(X \cup Y) = Cardinality(X) + Bytes(C)
    BY <1>3, <2>1, <2>3, <2>5, <2>6
  <2>8. QED
    BY <2>7 DEF Y
<1>6. /\ Cardinality(FlightOf(P)) = Cardinality(X) + Bytes(P[c])
      /\ Cardinality(FlightOf(Q)) = Cardinality(X) + Bytes(Q[c])
  BY <1>1, <1>2, <1>5
<1>7. Bytes(P[c]) \in Nat /\ Bytes(Q[c]) \in Nat
  BY BytesWithin
<1>8. QED
  BY <1>3, <1>6, <1>7

-----------------------------------------------------------------------------
(* The sums of the quality window *)

\* sum is the table of the sums of count over the first buckets, up to n.
SumTable(sum, n, count) ==
    sum = [b \in 0..n |-> IF b = 0 THEN 0 ELSE sum[b - 1] + count[b]]

\* There is such a table.
LEMMA SumTableExists ==
    ASSUME NEW count, NEW n \in Nat
    PROVE  \E sum : SumTable(sum, n, count)
<1> DEFINE P == {k \in Nat : \E sum : SumTable(sum, k, count)}
<1>1. 0 \in P
  <2>1. SumTable([b \in 0..0 |-> 0], 0, count)
    BY DEF SumTable
  <2>2. QED
    BY <2>1
<1>2. ASSUME NEW k \in 0..(n - 1), k \in P PROVE k + 1 \in P
  <2>1. PICK f : SumTable(f, k, count)
    BY <1>2
  <2> DEFINE g == [b \in 0..(k + 1) |-> IF b = k + 1 THEN f[k] + count[k + 1] ELSE f[b]]
             h == [b \in 0..(k + 1) |-> IF b = 0 THEN 0 ELSE g[b - 1] + count[b]]
  <2>2. \A b \in 0..k : f[b] = IF b = 0 THEN 0 ELSE f[b - 1] + count[b]
    BY <2>1 DEF SumTable
  <2>3. ASSUME NEW b \in 0..(k + 1) PROVE g[b] = h[b]
    <3>1. CASE b = 0
      BY <2>2, <3>1
    <3>2. CASE b = k + 1
      <4>1. g[b] = f[k] + count[k + 1] /\ g[b - 1] = f[k]
        BY <3>2
      <4>2. QED
        BY <3>2, <4>1
    <3>3. CASE b # 0 /\ b # k + 1
      <4>1. b \in 0..k /\ b - 1 \in 0..k /\ g[b] = f[b] /\ g[b - 1] = f[b - 1]
        BY <3>3
      <4>2. QED
        BY <2>2, <3>3, <4>1
    <3>4. QED
      BY <3>1, <3>2, <3>3
  <2>4. g = h
    BY <2>3, Zenon
  <2>5. SumTable(g, k + 1, count)
    BY <2>4, Zenon DEF SumTable
  <2>6. QED
    BY <2>5
<1> HIDE DEF P
<1>3. \A k \in 0..n : k \in P
  BY <1>1, <1>2, UpTo
<1>4. QED
  BY <1>3 DEF P

\* What the sums are.
LEMMA SumsStep ==
    ASSUME NEW count \in [1..Window -> Nat]
    PROVE  /\ Sums(count)[0] = 0
           /\ \A b \in 1..Window : Sums(count)[b] = Sums(count)[b - 1] + count[b]
           /\ \A b \in 0..Window : Sums(count)[b] \in Nat
<1> DEFINE T == CHOOSE sum : SumTable(sum, Window, count)
<1>1. Window \in Nat
  BY Constants
<1>2. SumTable(T, Window, count)
  BY <1>1, SumTableExists
<1>3. Sums(count) = T
  BY DEF Sums, SumTable
<1> HIDE DEF T
<1>4. T[0] = 0 /\ \A b \in 1..Window : T[b] = T[b - 1] + count[b]
  <2>1. ASSUME NEW b \in 0..Window
        PROVE  T[b] = IF b = 0 THEN 0 ELSE T[b - 1] + count[b]
    BY <1>2, Zenon DEF SumTable
  <2>2. 0 \in 0..Window /\ \A b \in 1..Window : b \in 0..Window /\ b # 0
    BY <1>1
  <2>3. QED
    BY <2>1, <2>2, Zenon
<1>5. \A b \in 0..Window : T[b] \in Nat
  <2> DEFINE P == {b \in Nat : T[b] \in Nat}
  <2>1. 0 \in P
    BY <1>4
  <2>2. ASSUME NEW b \in 0..(Window - 1), b \in P PROVE b + 1 \in P
    <3>1. b + 1 \in 1..Window /\ (b + 1) - 1 = b
      BY <1>1
    <3>2. T[b + 1] = T[b] + count[b + 1] /\ count[b + 1] \in Nat
      BY <1>4, <3>1
    <3>3. QED
      BY <2>2, <3>1, <3>2
  <2> HIDE DEF P
  <2>3. \A b \in 0..Window : b \in P
    BY <1>1, <2>1, <2>2, UpTo
  <2>4. QED
    BY <2>3 DEF P
<1>6. QED
  BY <1>3, <1>4, <1>5

\* The newest count is raised by d.
Raised(f, g, d) ==
    /\ f \in [1..Window -> Nat] /\ g \in [1..Window -> Nat] /\ d \in Nat
    /\ g[1] = f[1] + d
    /\ \A b \in 2..Window : g[b] = f[b]

\* More in the current bucket is more in every sum but the empty one.
LEMMA SumsBump ==
    ASSUME NEW f, NEW g, NEW d, Raised(f, g, d)
    PROVE  \A b \in 1..Window : Sums(g)[b] = Sums(f)[b] + d
<1> USE DEF Raised
<1> DEFINE P == {b \in Nat : b = 0 \/ Sums(g)[b] = Sums(f)[b] + d}
<1>1. Window \in Nat /\ Window >= 1
  BY Constants
<1>2. 0 \in P
  OBVIOUS
<1>3. ASSUME NEW b \in 0..(Window - 1), b \in P PROVE b + 1 \in P
  <2>1. b + 1 \in 1..Window /\ (b + 1) - 1 = b /\ b \in 0..Window
    BY <1>1
  <2>2. /\ Sums(g)[b + 1] = Sums(g)[b] + g[b + 1]
        /\ Sums(f)[b + 1] = Sums(f)[b] + f[b + 1]
        /\ Sums(g)[b] \in Nat /\ Sums(f)[b] \in Nat /\ g[b + 1] \in Nat /\ f[b + 1] \in Nat
    BY <2>1, SumsStep
  <2>3. CASE b = 0
    BY <2>1, <2>2, <2>3, SumsStep, SMTT(40)
  <2>4. CASE b # 0
    <3>1. g[b + 1] = f[b + 1]
      BY <1>1, <2>4
    <3>2. QED
      BY <1>3, <2>2, <2>4, <3>1
  <2>5. QED
    BY <2>3, <2>4
<1> HIDE DEF P
<1>4. \A b \in 0..Window : b \in P
  BY <1>1, <1>2, <1>3, UpTo
<1>5. QED
  BY <1>4 DEF P

\* A new empty bucket shifts the sums by one.
LEMMA SumsShift ==
    ASSUME NEW f \in [1..Window -> Nat], NEW g \in [1..Window -> Nat],
           g[1] = 0, \A b \in 2..Window : g[b] = f[b - 1]
    PROVE  \A b \in 1..Window : Sums(g)[b] = Sums(f)[b - 1]
<1> DEFINE P == {b \in Nat : b = 0 \/ Sums(g)[b] = Sums(f)[b - 1]}
<1>1. Window \in Nat /\ Window >= 1
  BY Constants
<1>2. 0 \in P
  OBVIOUS
<1>3. ASSUME NEW b \in 0..(Window - 1), b \in P PROVE b + 1 \in P
  <2>1. b + 1 \in 1..Window /\ (b + 1) - 1 = b /\ b \in 0..Window
    BY <1>1
  <2>2. Sums(g)[b + 1] = Sums(g)[b] + g[b + 1]
    BY <2>1, SumsStep
  <2>3. CASE b = 0
    <3>1. Sums(f)[0] = 0 /\ Sums(g)[0] = 0 /\ g[1] = 0
      BY SumsStep
    <3>2. QED
      BY <2>1, <2>2, <2>3, <3>1
  <2>4. CASE b # 0
    <3>1. g[b + 1] = f[b] /\ b \in 1..Window
      BY <1>1, <2>4
    <3>2. Sums(f)[b] = Sums(f)[b - 1] + f[b]
      BY <3>1, SumsStep
    <3>3. QED
      BY <1>3, <2>1, <2>2, <2>4, <3>1, <3>2
  <2>5. QED
    BY <2>3, <2>4
<1> HIDE DEF P
<1>4. \A b \in 0..Window : b \in P
  BY <1>1, <1>2, <1>3, UpTo
<1>5. QED
  BY <1>4 DEF P

-----------------------------------------------------------------------------
(* The stream of one client *)

HoldingOf(q, h) == Range(q) \cup ({h} \ {0})
HadOf(q, h, g)  == HoldingOf(q, h) \cup ({g} \ {0})

\* With the queue q, the chunk h in hand, g the last one sent whole, K the ones
\* skipped and s the last one taken from the ring, a client in phase p has no
\* holes in its stream, and none can come: what lies between the chunks it had
\* and the ring was skipped.
StreamAt(q, h, g, K, s, p) ==
    /\ \A i, j \in 1..Len(q) : i < j => q[i] < q[j]
    /\ \A n \in Range(q) : g < n /\ h < n
    /\ h # 0 => g < h
    /\ \A m, n \in HadOf(q, h, g) : (m + 1)..(n - 1) \subseteq HadOf(q, h, g) \cup K
    /\ \A m \in HadOf(q, h, g) : m <= s
    /\ p \in {"top", "select"} =>
           \A m \in HadOf(q, h, g) : (m + 1)..s \subseteq HadOf(q, h, g) \cup K
    /\ p = "offering" =>
           \A m \in HadOf(q, h, g) :
               m < s /\ (m + 1)..(s - 1) \subseteq HadOf(q, h, g) \cup K

\* The types of these.
StreamType(q, h, g, K, s) ==
    /\ q \in Seq(Chunks) /\ K \subseteq Chunks
    /\ h \in 0..MaxChunks /\ g \in 0..MaxChunks /\ s \in 0..MaxChunks

\* All chunks a client holds or had are chunks.
LEMMA HadType ==
    ASSUME NEW q, NEW h, NEW g, NEW K, NEW s, StreamType(q, h, g, K, s)
    PROVE  /\ Range(q) \subseteq Chunks /\ HoldingOf(q, h) \subseteq Chunks
           /\ HadOf(q, h, g) \subseteq Chunks
           /\ Chunks \subseteq Nat /\ 0 \notin Chunks
<1>1. MaxChunks \in Nat
  BY Constants
<1>2. Range(q) \subseteq Chunks
  BY DEF StreamType, Range
<1>3. QED
  BY <1>1, <1>2 DEF StreamType, HoldingOf, HadOf, Chunks

\* The members of a queue, and of what Append and Tail make of it.
LEMMA QueueMembers ==
    ASSUME NEW q \in Seq(Chunks)
    PROVE  /\ Range(<<>>) = {}
           /\ \A n \in Chunks : Range(Append(q, n)) = Range(q) \cup {n}
           /\ q # <<>> => /\ Head(q) \in Range(q)
                          /\ Range(q) = Range(Tail(q)) \cup {Head(q)}
                          /\ Len(Tail(q)) = Len(q) - 1
                          /\ \A i \in 1..Len(Tail(q)) : Tail(q)[i] = q[i + 1]
                          /\ Head(q) = q[1]
           /\ Len(q) > 0 => Range(q) # {}
<1>1. Range(<<>>) = {}
  BY DEF Range
<1>2. ASSUME NEW n \in Chunks PROVE Range(Append(q, n)) = Range(q) \cup {n}
  <2> DEFINE r == Append(q, n)
  <2>1. /\ Len(r) = Len(q) + 1 /\ DOMAIN r = 1..(Len(q) + 1) /\ Len(q) \in Nat
        /\ DOMAIN q = 1..Len(q)
        /\ r[Len(q) + 1] = n /\ \A i \in 1..Len(q) : r[i] = q[i]
    OBVIOUS
  <2> HIDE DEF r
  <2>2. ASSUME NEW x \in Range(r) PROVE x \in Range(q) \cup {n}
    <3>1. PICK i \in 1..(Len(q) + 1) : x = r[i]
      BY <2>1 DEF Range
    <3>2. i = Len(q) + 1 \/ i \in 1..Len(q)
      BY <2>1
    <3>3. QED
      BY <2>1, <3>1, <3>2 DEF Range
  <2>3. ASSUME NEW x \in Range(q) PROVE x \in Range(r)
    <3>1. PICK i \in 1..Len(q) : x = q[i]
      BY <2>1 DEF Range
    <3>2. i \in 1..(Len(q) + 1) /\ r[i] = x
      BY <2>1, <3>1
    <3>3. QED
      BY <2>1, <3>2 DEF Range
  <2>4. n \in Range(r)
    <3>1. Len(q) + 1 \in 1..(Len(q) + 1)
      BY <2>1
    <3>2. QED
      BY <2>1, <3>1 DEF Range
  <2>5. Range(r) = Range(q) \cup {n}
    BY <2>2, <2>3, <2>4
  <2>6. QED
    BY <2>5 DEF r
<1>3. ASSUME q # <<>>
      PROVE  /\ Head(q) \in Range(q)
             /\ Range(q) = Range(Tail(q)) \cup {Head(q)}
             /\ Len(Tail(q)) = Len(q) - 1
             /\ \A i \in 1..Len(Tail(q)) : Tail(q)[i] = q[i + 1]
             /\ Head(q) = q[1]
  <2> DEFINE t == Tail(q)
  <2>1. /\ t \in Seq(Chunks) /\ Len(t) = Len(q) - 1
        /\ \A i \in 1..Len(t) : t[i] = q[i + 1]
    BY <1>3, HeadTailProperties
  <2>2. Head(q) = q[1] /\ Len(q) \in Nat /\ Len(q) >= 1 /\ DOMAIN q = 1..Len(q) /\ DOMAIN t = 1..Len(t)
    BY <1>3, <2>1
  <2> HIDE DEF t
  <2>3. Head(q) \in Range(q)
    BY <2>2 DEF Range
  <2>4. ASSUME NEW x \in Range(q) PROVE x \in Range(t) \cup {Head(q)}
    <3>1. PICK i \in 1..Len(q) : x = q[i]
      BY <2>2 DEF Range
    <3>2. CASE i = 1
      BY <2>2, <3>1, <3>2
    <3>3. CASE i # 1
      <4>1. i - 1 \in 1..Len(t) /\ (i - 1) + 1 = i
        BY <2>1, <2>2, <3>3
      <4>2. t[i - 1] = x
        BY <2>1, <3>1, <4>1
      <4>3. QED
        BY <2>2, <4>1, <4>2 DEF Range
    <3>4. QED
      BY <3>2, <3>3
  <2>5. ASSUME NEW x \in Range(t) PROVE x \in Range(q)
    <3>1. PICK i \in 1..Len(t) : x = t[i]
      BY <2>2 DEF Range
    <3>2. i + 1 \in 1..Len(q) /\ x = q[i + 1]
      BY <2>1, <2>2, <3>1
    <3>3. QED
      BY <2>2, <3>2 DEF Range
  <2>6. Range(q) = Range(t) \cup {Head(q)}
    BY <2>3, <2>4, <2>5
  <2>7. QED
    BY <2>1, <2>2, <2>3, <2>6 DEF t
<1>4. ASSUME Len(q) > 0 PROVE Range(q) # {}
  <2>1. q # <<>>
    BY <1>4
  <2>2. QED
    BY <1>3, <2>1
<1>5. QED
  BY <1>1, <1>2, <1>3, <1>4

\* A writer takes the first chunk of the queue.
LEMMA StreamTakes ==
    ASSUME NEW q, NEW g, NEW K, NEW s, NEW p,
           StreamType(q, 0, g, K, s), StreamAt(q, 0, g, K, s, p), q # <<>>
    PROVE  /\ StreamAt(Tail(q), Head(q), g, K, s, p)
           /\ HoldingOf(Tail(q), Head(q)) = HoldingOf(q, 0)
<1> DEFINE t == Tail(q)
           h == Head(q)
<1>1. q \in Seq(Chunks)
  BY DEF StreamType
<1>2. /\ h \in Range(q) /\ Range(q) = Range(t) \cup {h}
      /\ Len(t) = Len(q) - 1 /\ \A i \in 1..Len(t) : t[i] = q[i + 1]
      /\ h = q[1] /\ t \in Seq(Chunks) /\ Len(q) \in Nat /\ Len(q) >= 1
  BY <1>1, QueueMembers
<1>3. Range(q) \subseteq Nat /\ 0 \notin Range(q)
  BY HadType
<1> HIDE DEF t, h
<1>4. HoldingOf(t, h) = HoldingOf(q, 0) /\ HadOf(t, h, g) = HadOf(q, 0, g)
  BY <1>2, <1>3 DEF HoldingOf, HadOf
<1>5. ASSUME NEW n \in Range(t) PROVE h < n
  <2>1. PICK i \in 1..Len(t) : n = t[i]
    BY <1>2 DEF Range
  <2>2. 1 \in 1..Len(q) /\ i + 1 \in 1..Len(q) /\ 1 < i + 1 /\ n = q[i + 1]
    BY <1>2, <2>1
  <2>3. QED
    BY <1>2, <2>2 DEF StreamAt
<1>6. ASSUME NEW i \in 1..Len(t), NEW j \in 1..Len(t), i < j PROVE t[i] < t[j]
  <2>1. i + 1 \in 1..Len(q) /\ j + 1 \in 1..Len(q) /\ i + 1 < j + 1
    BY <1>2, <1>6
  <2>2. QED
    BY <1>2, <2>1 DEF StreamAt
<1>7. \A n \in Range(t) : g < n
  BY <1>2 DEF StreamAt
<1>8. g < h
  BY <1>2 DEF StreamAt
<1>9. StreamAt(t, h, g, K, s, p)
  BY <1>4, <1>5, <1>6, <1>7, <1>8 DEF StreamAt
<1>10. QED
  BY <1>4, <1>9 DEF t, h

\* The chunk in hand is sent whole.
LEMMA StreamSent ==
    ASSUME NEW q, NEW h, NEW g, NEW K, NEW s, NEW p,
           StreamType(q, h, g, K, s), StreamAt(q, h, g, K, s, p), h # 0
    PROVE  /\ StreamAt(q, 0, h, K, s, p)
           /\ h \in Chunks \ HoldingOf(q, 0)
           /\ HoldingOf(q, h) = HoldingOf(q, 0) \cup {h}
<1> DEFINE new == HadOf(q, 0, h)
           old == HadOf(q, h, g)
<1>1. /\ Range(q) \subseteq Chunks /\ old \subseteq Chunks /\ Chunks \subseteq Nat /\ 0 \notin Chunks
      /\ h \in Chunks /\ h \in Nat /\ g \in Nat
  <2>1. /\ Range(q) \subseteq Chunks /\ old \subseteq Chunks
        /\ Chunks \subseteq Nat /\ 0 \notin Chunks
    BY HadType
  <2>2. h \in Chunks /\ h \in Nat /\ g \in Nat
    BY Constants DEF StreamType, Chunks
  <2>3. QED
    BY <2>1, <2>2
<1>2. new \subseteq old /\ old \ new \subseteq {g} /\ HoldingOf(q, h) = HoldingOf(q, 0) \cup {h}
  BY DEF HoldingOf, HadOf
<1>3. \A m \in new : m \in Nat /\ g < m /\ h <= m
  <2>1. \A m \in new : m \in Range(q) \/ m = h
    BY DEF HoldingOf, HadOf
  <2>2. g < h /\ \A m \in Range(q) : g < m /\ h < m
    BY DEF StreamAt
  <2>3. ASSUME NEW m \in new PROVE m \in Nat /\ g < m /\ h <= m
    <3>1. CASE m = h
      BY <1>1, <2>2, <3>1
    <3>2. CASE m \in Range(q)
      <4>1. m \in Nat /\ g < m /\ h < m
        BY <1>1, <2>2, <3>2
      <4>2. QED
        BY <1>1, <4>1
    <3>3. QED
      BY <2>1, <3>1, <3>2
  <2>4. QED
    BY <2>3
<1>4. h \notin HoldingOf(q, 0)
  BY <1>1 DEF StreamAt, HoldingOf
<1>5. ASSUME NEW m \in new, NEW x \in Nat, m < x, x \in old \cup K PROVE x \in new \cup K
  <2>1. x # g
    BY <1>1, <1>3, <1>5
  <2>2. QED
    BY <1>2, <1>5, <2>1
<1>6. ASSUME NEW m \in new, NEW n \in new PROVE (m + 1)..(n - 1) \subseteq new \cup K
  <2>1. (m + 1)..(n - 1) \subseteq old \cup K
    BY <1>2 DEF StreamAt
  <2>2. \A x \in (m + 1)..(n - 1) : x \in Nat /\ m < x
    BY <1>3
  <2>3. QED
    BY <1>5, <2>1, <2>2
<1>7. ASSUME p \in {"top", "select"}, NEW m \in new PROVE (m + 1)..s \subseteq new \cup K
  <2>1. (m + 1)..s \subseteq old \cup K
    BY <1>2, <1>7 DEF StreamAt
  <2>2. \A x \in (m + 1)..s : x \in Nat /\ m < x
    BY <1>3, Constants DEF StreamType
  <2>3. QED
    BY <1>5, <2>1, <2>2
<1>8. ASSUME p = "offering", NEW m \in new PROVE m < s /\ (m + 1)..(s - 1) \subseteq new \cup K
  <2>1. m < s /\ (m + 1)..(s - 1) \subseteq old \cup K
    BY <1>2, <1>8 DEF StreamAt
  <2>2. \A x \in (m + 1)..(s - 1) : x \in Nat /\ m < x
    BY <1>3, Constants DEF StreamType
  <2>3. QED
    BY <1>5, <2>1, <2>2
<1>9. /\ \A n \in Range(q) : h < n /\ 0 < n
      /\ \A m \in new : m <= s
  <2>1. \A n \in Range(q) : h < n /\ n \in Nat /\ n # 0
    BY <1>1 DEF StreamAt
  <2>2. \A m \in old : m <= s
    BY DEF StreamAt
  <2>3. QED
    BY <1>2, <2>1, <2>2
<1>10. StreamAt(q, 0, h, K, s, p)
  <2> HIDE DEF new, old
  <2>1. \A i, j \in 1..Len(q) : i < j => q[i] < q[j]
    BY DEF StreamAt
  <2>2. QED
    BY <1>6, <1>7, <1>8, <1>9, <2>1, Zenon DEF StreamAt, new
<1>11. QED
  BY <1>1, <1>2, <1>4, <1>10

\* The writer ends: nothing is left, and nothing follows.
LEMMA StreamCut ==
    ASSUME NEW q, NEW h, NEW g, NEW K, NEW s, NEW p, NEW r,
           StreamType(q, h, g, K, s), StreamAt(q, h, g, K, s, p),
           r \notin {"top", "select", "offering"}
    PROVE  StreamAt(<<>>, 0, g, K, s, r) /\ StreamAt(q, h, g, K, s, r)
<1>1. Range(<<>>) = {} /\ Len(<<>>) = 0
  BY DEF Range
<1>2. HadOf(<<>>, 0, g) = {g} \ {0} /\ HadOf(<<>>, 0, g) \subseteq HadOf(q, h, g)
  BY <1>1 DEF HoldingOf, HadOf
<1>3. (g + 1)..(g - 1) = {}
  BY Constants DEF StreamType
<1>4. QED
  BY <1>1, <1>2, <1>3 DEF StreamAt

\* The session goes on to another phase in which it hears the ring.
LEMMA StreamMoves ==
    ASSUME NEW q, NEW h, NEW g, NEW K, NEW s, NEW p, NEW r,
           StreamAt(q, h, g, K, s, p), p \in {"top", "select"}, r # "offering"
    PROVE  StreamAt(q, h, g, K, s, r)
BY DEF StreamAt

\* The session puts the chunk in its hand into the queue.
LEMMA StreamQueues ==
    ASSUME NEW q, NEW h, NEW g, NEW K, NEW s, s \in Chunks,
           StreamType(q, h, g, K, s), StreamAt(q, h, g, K, s, "offering")
    PROVE  /\ StreamAt(Append(q, s), h, g, K, s, "top")
           /\ s \notin HoldingOf(q, h)
           /\ HoldingOf(Append(q, s), h) = HoldingOf(q, h) \cup {s}
<1> DEFINE r == Append(q, s)
           old == HadOf(q, h, g)
           new == HadOf(r, h, g)
<1>1. /\ Range(q) \subseteq Chunks /\ old \subseteq Chunks /\ Chunks \subseteq Nat /\ 0 \notin Chunks
      /\ s \in Nat /\ q \in Seq(Chunks) /\ g \in Nat /\ h \in Nat
  <2>1. /\ Range(q) \subseteq Chunks /\ old \subseteq Chunks
        /\ Chunks \subseteq Nat /\ 0 \notin Chunks
    BY HadType
  <2>2. s \in Nat /\ q \in Seq(Chunks) /\ g \in Nat /\ h \in Nat
    BY Constants DEF StreamType
  <2>3. QED
    BY <2>1, <2>2
<1>2. Range(r) = Range(q) \cup {s}
  BY <1>1, QueueMembers
<1>3. /\ Len(r) = Len(q) + 1 /\ r[Len(q) + 1] = s /\ Len(q) \in Nat
      /\ \A i \in 1..Len(q) : r[i] = q[i] /\ q[i] \in Range(q)
  BY <1>1 DEF Range
<1> HIDE DEF r
<1>4. new = old \cup {s} /\ HoldingOf(r, h) = HoldingOf(q, h) \cup {s}
  BY <1>2 DEF HoldingOf, HadOf
<1>5. \A m \in old : m \in Nat /\ m < s /\ (m + 1)..(s - 1) \subseteq old \cup K
  BY <1>1 DEF StreamAt
<1>6. s \notin HoldingOf(q, h) /\ \A n \in HoldingOf(q, h) : n < s
  BY <1>1, <1>5 DEF HadOf
<1>7. ASSUME NEW i \in 1..Len(r), NEW j \in 1..Len(r), i < j PROVE r[i] < r[j]
  <2>1. i \in 1..Len(q) /\ r[i] = q[i] /\ q[i] \in Range(q)
    BY <1>3, <1>7
  <2>2. CASE j = Len(q) + 1
    <3>1. q[i] \in HoldingOf(q, h)
      BY <2>1 DEF HoldingOf
    <3>2. QED
      BY <1>3, <1>6, <2>1, <2>2, <3>1
  <2>3. CASE j # Len(q) + 1
    <3>1. j \in 1..Len(q) /\ r[j] = q[j]
      BY <1>3, <2>3
    <3>2. QED
      BY <1>7, <2>1, <3>1 DEF StreamAt
  <2>4. QED
    BY <2>2, <2>3
<1>8. g < s /\ h < s
  <2>1. (g = 0 \/ g \in old) /\ (h = 0 \/ h \in old)
    BY DEF HadOf, HoldingOf
  <2>2. s > 0
    BY <1>1
  <2>3. QED
    BY <1>5, <2>1, <2>2
<1>9. \A n \in Range(r) : g < n /\ h < n
  BY <1>2, <1>8 DEF StreamAt
<1>10. ASSUME NEW m \in new, NEW n \in new PROVE (m + 1)..(n - 1) \subseteq new \cup K
  <2>1. CASE m \in old /\ n \in old
    BY <1>4, <2>1 DEF StreamAt
  <2>2. CASE m \in old /\ n = s
    BY <1>4, <1>5, <2>2
  <2>3. CASE m = s
    <3>1. n <= s /\ n \in Nat
      BY <1>1, <1>4, <1>5
    <3>2. (m + 1)..(n - 1) = {}
      BY <1>1, <2>3, <3>1
    <3>3. QED
      BY <3>2
  <2>4. QED
    BY <1>4, <2>1, <2>2, <2>3
<1>11. ASSUME NEW m \in new PROVE m <= s /\ (m + 1)..s \subseteq new \cup K
  <2>1. CASE m = s
    BY <1>1, <2>1
  <2>2. CASE m \in old
    <3>1. \A x \in (m + 1)..s : x = s \/ x \in (m + 1)..(s - 1)
      BY <1>1, <1>5, <2>2
    <3>2. (m + 1)..(s - 1) \subseteq old \cup K /\ m < s /\ m \in Nat
      BY <1>5, <2>2
    <3> HIDE DEF old, new
    <3>3. QED
      BY <1>1, <1>4, <3>1, <3>2
  <2>3. QED
    BY <1>4, <2>1, <2>2
<1>12. h # 0 => g < h
  BY DEF StreamAt
<1>13. StreamAt(r, h, g, K, s, "top")
  <2> HIDE DEF new, old
  <2>1. "top" # "offering"
    OBVIOUS
  <2>2. QED
    BY <1>7, <1>9, <1>10, <1>11, <1>12, <2>1, Zenon DEF StreamAt, new
<1>14. QED
  BY <1>4, <1>6, <1>13 DEF r

\* The session takes the next chunk from the ring, to skip it or to offer it.
LEMMA StreamHears ==
    ASSUME NEW q, NEW h, NEW g, NEW K, NEW s,
           StreamType(q, h, g, K, s), StreamAt(q, h, g, K, s, "select")
    PROVE  /\ StreamAt(q, h, g, K \cup {s + 1}, s + 1, "top")
           /\ StreamAt(q, h, g, K, s + 1, "offering")
<1> DEFINE old == HadOf(q, h, g)
<1>1. old \subseteq Nat /\ s \in Nat
  <2>1. old \subseteq Chunks /\ Chunks \subseteq Nat
    BY HadType
  <2>2. s \in Nat
    BY Constants DEF StreamType
  <2>3. QED
    BY <2>1, <2>2
<1>2. ASSUME NEW m \in old
      PROVE  /\ m <= s /\ m <= s + 1 /\ m < s + 1 /\ (m + 1)..s \subseteq old \cup K
             /\ (m + 1)..((s + 1) - 1) \subseteq old \cup K
             /\ (m + 1)..(s + 1) \subseteq old \cup (K \cup {s + 1})
  <2>1. m <= s /\ (m + 1)..s \subseteq old \cup K
    BY DEF StreamAt
  <2>2. (s + 1) - 1 = s /\ \A x \in (m + 1)..(s + 1) : x = s + 1 \/ x \in (m + 1)..s
    BY <1>1
  <2>3. QED
    BY <1>1, <2>1, <2>2
<1>3. /\ \A i, j \in 1..Len(q) : i < j => q[i] < q[j]
      /\ \A n \in Range(q) : g < n /\ h < n
      /\ h # 0 => g < h
      /\ \A m, n \in old : (m + 1)..(n - 1) \subseteq old \cup K
  BY DEF StreamAt
<1>4. \A m, n \in old : (m + 1)..(n - 1) \subseteq old \cup (K \cup {s + 1})
  BY <1>3
<1> HIDE DEF old
<1>5. StreamAt(q, h, g, K \cup {s + 1}, s + 1, "top")
  BY <1>2, <1>3, <1>4 DEF StreamAt, old
<1>6. StreamAt(q, h, g, K, s + 1, "offering")
  BY <1>2, <1>3 DEF StreamAt, old
<1>7. QED
  BY <1>5, <1>6

\* A client that had nothing.
LEMMA StreamEmpty ==
    ASSUME NEW K, NEW s, NEW p
    PROVE  StreamAt(<<>>, 0, 0, K, s, p) /\ HoldingOf(<<>>, 0) = {}
<1>1. Range(<<>>) = {} /\ Len(<<>>) = 0 /\ 1..0 = {}
  BY DEF Range
<1>2. HadOf(<<>>, 0, 0) = {} /\ HoldingOf(<<>>, 0) = {}
  BY <1>1 DEF HoldingOf, HadOf
<1>3. QED
  BY <1>1, <1>2 DEF StreamAt

-----------------------------------------------------------------------------
(* The quality window *)

Buckets == [1..Window -> [attempted : Nat, forwarded : Nat]]
Losses  == [1..Window -> Nat]
Totals  == [unforwarded : Nat, dropped : Nat]

\* What the buckets of a window count as attempted, and what of their bytes
\* was forwarded or lost.
Attempts(w)   == [b \in 1..Window |-> w[b].attempted]
Settled(w, l) == [b \in 1..Window |-> w[b].forwarded + l[b]]

\* What the newest buckets lack is at most what is awaited: bytes are counted
\* as attempted before they are forwarded or lost.
Covers(w, l, awaited) ==
    \A b \in 0..Window : Sums(Attempts(w))[b] - Sums(Settled(w, l))[b] <= awaited

\* The counts of a window have their types.
LEMMA CountTypes ==
    ASSUME NEW w \in Buckets, NEW l \in Losses
    PROVE  /\ Attempts(w) \in [1..Window -> Nat] /\ Settled(w, l) \in [1..Window -> Nat]
           /\ \A b \in 1..Window : /\ Attempts(w)[b] = w[b].attempted
                                   /\ Settled(w, l)[b] = w[b].forwarded + l[b]
           /\ \A b \in 0..Window : Sums(Attempts(w))[b] \in Nat /\ Sums(Settled(w, l))[b] \in Nat
           /\ Sums(Attempts(w))[0] = 0 /\ Sums(Settled(w, l))[0] = 0
<1> USE DEF Buckets, Losses
<1>1. Attempts(w) \in [1..Window -> Nat] /\ Settled(w, l) \in [1..Window -> Nat]
  BY DEF Attempts, Settled
<1>2. \A b \in 1..Window : /\ Attempts(w)[b] = w[b].attempted
                           /\ Settled(w, l)[b] = w[b].forwarded + l[b]
  BY DEF Attempts, Settled
<1>3. QED
  BY <1>1, <1>2, SumsStep

\* The newest bucket counts d more attempted bytes, and e more are settled.
Counted(w, l, z, m, d, e) ==
    /\ w \in Buckets /\ l \in Losses /\ z \in Buckets /\ m \in Losses
    /\ d \in Nat /\ e \in Nat
    /\ z[1].attempted = w[1].attempted + d
    /\ z[1].forwarded + m[1] = w[1].forwarded + l[1] + e
    /\ \A b \in 2..Window : z[b] = w[b] /\ m[b] = l[b]

\* What is counted in the newest bucket is counted in every sum.
LEMMA CountCovers ==
    ASSUME NEW w, NEW l, NEW z, NEW m, NEW d, NEW e, NEW k, NEW n,
           Counted(w, l, z, m, d, e), Covers(w, l, k), k \in Nat, n \in Nat, n = k + d - e
    PROVE  Covers(z, m, n)
<1> DEFINE f == Attempts(w)
           g == Attempts(z)
           u == Settled(w, l)
           v == Settled(z, m)
<1>t. /\ w \in Buckets /\ l \in Losses /\ z \in Buckets /\ m \in Losses /\ d \in Nat /\ e \in Nat
  BY DEF Counted
<1>1. /\ f \in [1..Window -> Nat] /\ u \in [1..Window -> Nat]
      /\ \A b \in 1..Window : f[b] = w[b].attempted /\ u[b] = w[b].forwarded + l[b]
      /\ \A b \in 0..Window : Sums(f)[b] \in Nat /\ Sums(u)[b] \in Nat
      /\ Sums(f)[0] = 0 /\ Sums(u)[0] = 0
  BY <1>t, CountTypes
<1>2. /\ g \in [1..Window -> Nat] /\ v \in [1..Window -> Nat]
      /\ \A b \in 1..Window : g[b] = z[b].attempted /\ v[b] = z[b].forwarded + m[b]
      /\ \A b \in 0..Window : Sums(g)[b] \in Nat /\ Sums(v)[b] \in Nat
      /\ Sums(g)[0] = 0 /\ Sums(v)[0] = 0
  BY <1>t, CountTypes
<1>3. \A b \in 0..Window : Sums(f)[b] - Sums(u)[b] <= k
  BY DEF Covers
<1> HIDE DEF f, g, u, v
<1>4. Window \in Nat /\ 1 \in 1..Window /\ \A b \in 2..Window : b \in 1..Window
  BY Constants
<1>5. g[1] = f[1] + d /\ v[1] = u[1] + e
  BY <1>1, <1>2, <1>4 DEF Counted
<1>6. ASSUME NEW b \in 2..Window PROVE g[b] = f[b] /\ v[b] = u[b]
  <2>1. b \in 1..Window /\ z[b] = w[b] /\ m[b] = l[b]
    BY <1>4 DEF Counted
  <2>2. QED
    BY <1>1, <1>2, <2>1
<1>r. Raised(f, g, d) /\ Raised(u, v, e)
  BY <1>t, <1>1, <1>2, <1>5, <1>6 DEF Raised
<1>7. \A b \in 1..Window : Sums(g)[b] = Sums(f)[b] + d
  BY <1>r, SumsBump
<1>8. \A b \in 1..Window : Sums(v)[b] = Sums(u)[b] + e
  BY <1>r, SumsBump
<1>9. ASSUME NEW b \in 0..Window PROVE Sums(g)[b] - Sums(v)[b] <= n
  <2>1. CASE b = 0
    BY <1>2, <2>1
  <2>2. CASE b # 0
    <3>1. b \in 1..Window
      BY <1>4, <2>2
    <3>2. Sums(f)[b] \in Nat /\ Sums(u)[b] \in Nat /\ Sums(f)[b] - Sums(u)[b] <= k
      BY <1>1, <1>3
    <3>3. Sums(g)[b] = Sums(f)[b] + d /\ Sums(v)[b] = Sums(u)[b] + e
      BY <1>7, <1>8, <3>1
    <3>4. QED
      BY <1>t, <3>2, <3>3
  <2>3. QED
    BY <2>1, <2>2
<1>10. QED
  BY <1>9 DEF Covers, g, v

\* A rotation drops the oldest bucket and puts an empty one in front.
LEMMA RotationCovers ==
    ASSUME NEW w \in Buckets, NEW l \in Losses, NEW z \in Buckets, NEW m \in Losses,
           NEW k \in Nat, Covers(w, l, k),
           z[1].attempted = 0, z[1].forwarded = 0, m[1] = 0,
           \A b \in 2..Window : z[b] = w[b - 1] /\ m[b] = l[b - 1]
    PROVE  Covers(z, m, k)
<1> DEFINE f == Attempts(w)
           g == Attempts(z)
           u == Settled(w, l)
           v == Settled(z, m)
<1>1. /\ f \in [1..Window -> Nat] /\ u \in [1..Window -> Nat]
      /\ \A b \in 1..Window : f[b] = w[b].attempted /\ u[b] = w[b].forwarded + l[b]
      /\ \A b \in 0..Window : Sums(f)[b] \in Nat /\ Sums(u)[b] \in Nat
  BY CountTypes
<1>2. /\ g \in [1..Window -> Nat] /\ v \in [1..Window -> Nat]
      /\ \A b \in 1..Window : g[b] = z[b].attempted /\ v[b] = z[b].forwarded + m[b]
      /\ Sums(g)[0] = 0 /\ Sums(v)[0] = 0
  BY CountTypes
<1>3. \A b \in 0..Window : Sums(f)[b] - Sums(u)[b] <= k
  BY DEF Covers
<1> HIDE DEF f, g, u, v
<1>4. Window \in Nat /\ 1 \in 1..Window
  BY Constants
<1>5. g[1] = 0 /\ v[1] = 0
  BY <1>2, <1>4
<1>6. ASSUME NEW b \in 2..Window PROVE g[b] = f[b - 1] /\ v[b] = u[b - 1]
  <2>1. b \in 1..Window /\ b - 1 \in 1..Window
    BY <1>4
  <2>2. QED
    BY <1>1, <1>2, <2>1
<1>7. \A b \in 1..Window : Sums(g)[b] = Sums(f)[b - 1]
  BY <1>1, <1>2, <1>5, <1>6, SumsShift
<1>8. \A b \in 1..Window : Sums(v)[b] = Sums(u)[b - 1]
  BY <1>1, <1>2, <1>5, <1>6, SumsShift
<1>9. ASSUME NEW b \in 0..Window PROVE Sums(g)[b] - Sums(v)[b] <= k
  <2>1. CASE b = 0
    BY <1>2, <2>1
  <2>2. CASE b # 0
    <3>1. b \in 1..Window /\ b - 1 \in 0..Window
      BY <1>4, <2>2
    <3>2. QED
      BY <1>3, <1>7, <1>8, <3>1
  <2>3. QED
    BY <2>1, <2>2
<1>10. QED
  BY <1>9 DEF Covers, g, v

-----------------------------------------------------------------------------
(* The inductive invariant *)

\* A session, its writer and its slot go together; a writer that is over left
\* nothing behind, and what is written is still in hand.
SlotAt(c) ==
    /\ (phase[c] = "none") <=> (writer[c] = "none")
    /\ writer[c] # "running" => inHand[c] = 0 /\ queue[c] = <<>>
    /\ phase[c] = "none" => got[c] = 0
    /\ c \in users => phase[c] # "none" /\ authed[c]
    /\ phase[c] \in {"counting", "offering"} => seen[c] \in Chunks
    /\ written[c] => inHand[c] # 0

\* Once its writer is over a session hears the ring in vain; for the stream it
\* offers a chunk from the moment it took it.
HearsIn(w, p) ==
    IF w # "running" THEN "none" ELSE IF p = "counting" THEN "offering" ELSE p
Hears(c) == HearsIn(writer[c], phase[c])

Stream(c) == StreamAt(queue[c], inHand[c], got[c], skipped[c], seen[c], Hears(c))

ClientInv(c) == SlotAt(c) /\ Stream(c) /\ Held(c) <= BufferBytes

AllClients == \A c \in Clients : ClientInv(c)

Accounted == totals.unforwarded = totals.dropped + InFlight + vanished

\* What the buckets of the window lack is awaited, or lost in their seconds.
WindowInv == Covers(window, lost, AwaitedBytes)

RelayInv ==
    /\ TypeOK
    /\ active = Cardinality(SlotHolders)
    /\ AllClients
    /\ Accounted
    /\ WindowInv

\* What the totals owe to a client, and what the window awaits of it.
Offering(c) == IF phase[c] \in {"counting", "offering"} THEN SizeOf[seen[c]] ELSE 0
Entered(c)  == IF phase[c] = "offering" THEN SizeOf[seen[c]] ELSE 0
Done(c)     == IF written[c] THEN SizeOf[inHand[c]] ELSE 0
Owed(c)     == Held(c) - Done(c) + Offering(c)
Waits(c)    == Held(c) + Entered(c)

OwedIsPending ==
    \A c \in Clients :
        /\ Pending(c) \in SUBSET Chunks /\ Awaited(c) \in SUBSET Chunks
        /\ Bytes(Pending(c)) = Owed(c) /\ Bytes(Awaited(c)) = Waits(c)
        /\ Held(c) \in Nat /\ Offering(c) \in Nat /\ Entered(c) \in Nat
        /\ Done(c) \in Nat /\ Done(c) <= Held(c)
        /\ Owed(c) \in Nat /\ Waits(c) \in Nat

FlightIsOwed ==
    /\ [c \in Clients |-> Pending(c)] \in [Clients -> SUBSET Chunks]
    /\ [c \in Clients |-> Awaited(c)] \in [Clients -> SUBSET Chunks]
    /\ InFlight \in Nat /\ AwaitedBytes \in Nat
    /\ \A c \in Clients : Owed(c) <= InFlight

\* The pieces of a client's stream have their types.
LEMMA ClientTypes ==
    \A c \in Clients : TypeOK =>
        /\ StreamType(queue[c], inHand[c], got[c], skipped[c], seen[c])
        /\ Holding(c) = HoldingOf(queue[c], inHand[c])
        /\ Had(c) = HadOf(queue[c], inHand[c], got[c])
        /\ Holding(c) \in SUBSET Chunks
<1> SUFFICES ASSUME NEW c \in Clients, TypeOK
             PROVE  /\ StreamType(queue[c], inHand[c], got[c], skipped[c], seen[c])
                    /\ Holding(c) = HoldingOf(queue[c], inHand[c])
                    /\ Had(c) = HadOf(queue[c], inHand[c], got[c])
                    /\ Holding(c) \in SUBSET Chunks
  OBVIOUS
<1>1. StreamType(queue[c], inHand[c], got[c], skipped[c], seen[c])
  BY DEF TypeOK, StreamType
<1>2. Holding(c) = HoldingOf(queue[c], inHand[c]) /\ Had(c) = HadOf(queue[c], inHand[c], got[c])
  BY DEF Holding, HoldingOf, Had, HadOf
<1>3. QED
  BY <1>1, <1>2, HadType

\* What is held, by the queue and the hand.
LEMMA HeldIs ==
    ASSUME NEW c \in Clients
    PROVE  /\ Held(c) = Bytes(HoldingOf(queue[c], inHand[c]))
           /\ Held(c)' = Bytes(HoldingOf(queue'[c], inHand'[c]))
<1>1. Holding(c) = HoldingOf(queue[c], inHand[c])
  BY DEF Holding, HoldingOf
<1>2. Holding(c)' = HoldingOf(queue'[c], inHand'[c])
  BY DEF Holding, HoldingOf
<1>3. Held(c)' = Bytes(Holding(c)')
  BY DEF Held, Bytes, BytesOf
<1>4. QED
  BY <1>1, <1>2, <1>3 DEF Held

\* What is being written is part of what is held.
LEMMA HandHeld ==
    ASSUME TypeOK, NEW c \in Clients, ClientInv(c), inHand[c] # 0
    PROVE  /\ inHand[c] \in Chunks /\ SizeOf[inHand[c]] \in Nat
           /\ StreamAt(queue[c], 0, inHand[c], skipped[c], seen[c], Hears(c))
           /\ Held(c) = Bytes(HoldingOf(queue[c], 0)) + SizeOf[inHand[c]]
           /\ Bytes(HoldingOf(queue[c], 0)) \in Nat
           /\ HoldingOf(queue[c], 0) = Range(queue[c])
           /\ HoldingOf(queue[c], 0) \in SUBSET Chunks
           /\ HoldingOf(queue[c], 0) = Holding(c) \ {inHand[c]}
<1>1. StreamType(queue[c], inHand[c], got[c], skipped[c], seen[c])
  BY ClientTypes
<1>2. StreamAt(queue[c], inHand[c], got[c], skipped[c], seen[c], Hears(c))
  BY DEF ClientInv, Stream
<1>3. /\ StreamAt(queue[c], 0, inHand[c], skipped[c], seen[c], Hears(c))
      /\ inHand[c] \in Chunks \ HoldingOf(queue[c], 0)
      /\ HoldingOf(queue[c], inHand[c]) = HoldingOf(queue[c], 0) \cup {inHand[c]}
  BY <1>1, <1>2, StreamSent
<1>4. HoldingOf(queue[c], 0) \in SUBSET Chunks
  <2>1. HoldingOf(queue[c], inHand[c]) \subseteq Chunks
    BY <1>1, HadType
  <2>2. QED
    BY <1>3, <2>1
<1>5. Bytes(HoldingOf(queue[c], 0) \cup {inHand[c]})
        = Bytes(HoldingOf(queue[c], 0)) + SizeOf[inHand[c]]
  BY <1>3, <1>4, BytesAdd
<1>6. HoldingOf(queue[c], 0) = Range(queue[c])
  BY DEF HoldingOf
<1>7. Bytes(HoldingOf(queue[c], 0)) \in Nat
  BY <1>4, BytesWithin
<1>8. HoldingOf(queue[c], 0) = Holding(c) \ {inHand[c]}
  BY <1>3, ClientTypes
<1>9. QED
  BY <1>3, <1>4, <1>5, <1>6, <1>7, <1>8, HeldIs, Constants

\* The chunk in the session's hand is not among those held.
LEMMA OfferedApart ==
    ASSUME TypeOK, NEW c \in Clients, ClientInv(c), phase[c] \in {"counting", "offering"}
    PROVE  seen[c] \in Chunks /\ SizeOf[seen[c]] \in Nat /\ seen[c] \notin Holding(c)
<1>1. seen[c] \in Chunks /\ SizeOf[seen[c]] \in Nat
  BY Constants DEF ClientInv, SlotAt
<1>2. seen[c] \notin Holding(c)
  <2>1. CASE writer[c] = "running"
    <3>1. Hears(c) = "offering"
      BY <2>1 DEF Hears, HearsIn
    <3>2. \A m \in HadOf(queue[c], inHand[c], got[c]) : m < seen[c]
      BY <3>1 DEF ClientInv, Stream, StreamAt
    <3>3. Holding(c) \subseteq HadOf(queue[c], inHand[c], got[c])
      BY ClientTypes DEF HadOf
    <3>4. seen[c] \in Nat
      BY <1>1, Constants DEF Chunks
    <3>5. QED
      BY <3>2, <3>3, <3>4
  <2>2. CASE writer[c] # "running"
    <3>1. queue[c] = <<>> /\ inHand[c] = 0
      BY <2>2 DEF ClientInv, SlotAt
    <3>2. QED
      BY <3>1 DEF Holding, Range
  <2>3. QED
    BY <2>1, <2>2
<1>3. QED
  BY <1>1, <1>2

\* What is on its way to a client is what is owed to it.
LEMMA PendingBytes == (TypeOK /\ AllClients) => OwedIsPending
<1> SUFFICES ASSUME NEW c \in Clients, TypeOK, AllClients
             PROVE  /\ Pending(c) \in SUBSET Chunks /\ Awaited(c) \in SUBSET Chunks
                    /\ Bytes(Pending(c)) = Owed(c) /\ Bytes(Awaited(c)) = Waits(c)
                    /\ Held(c) \in Nat /\ Offering(c) \in Nat /\ Entered(c) \in Nat
                    /\ Done(c) \in Nat /\ Done(c) <= Held(c)
                    /\ Owed(c) \in Nat /\ Waits(c) \in Nat
  BY DEF OwedIsPending
<1>c. ClientInv(c) /\ written \in [Clients -> BOOLEAN]
  BY DEF AllClients, TypeOK
<1> DEFINE K == Holding(c) \ Written(c)
<1>1. Holding(c) \in SUBSET Chunks /\ Held(c) \in Nat
  BY ClientTypes, BytesWithin DEF Held
<1>2. K \in SUBSET Chunks
  BY <1>1
<1>3. Done(c) \in Nat /\ Done(c) <= Held(c) /\ Bytes(K) = Held(c) - Done(c)
  <2>1. CASE written[c]
    <3>1. inHand[c] # 0
      BY <1>c, <2>1 DEF ClientInv, SlotAt
    <3>2. /\ SizeOf[inHand[c]] \in Nat
          /\ Held(c) = Bytes(HoldingOf(queue[c], 0)) + SizeOf[inHand[c]]
          /\ Bytes(HoldingOf(queue[c], 0)) \in Nat
          /\ HoldingOf(queue[c], 0) = Holding(c) \ {inHand[c]}
      BY <1>c, <3>1, HandHeld
    <3>3. K = HoldingOf(queue[c], 0) /\ Done(c) = SizeOf[inHand[c]]
      BY <2>1, <3>2 DEF Written, Done
    <3> HIDE DEF K
    <3>4. QED
      BY <3>2, <3>3
  <2>2. CASE ~written[c]
    <3>1. K = Holding(c) /\ Done(c) = 0
      BY <2>2 DEF Written, Done
    <3> HIDE DEF K
    <3>2. QED
      BY <1>1, <3>1 DEF Held
  <2>3. QED
    BY <2>1, <2>2
<1>4. Pending(c) = K \cup InSession(c) /\ Awaited(c) = Holding(c) \cup InWindow(c)
  BY DEF Pending, Awaited
<1>k. K \subseteq Holding(c)
  OBVIOUS
<1> HIDE DEF K
<1>5. /\ Pending(c) \in SUBSET Chunks /\ Offering(c) \in Nat
      /\ Bytes(Pending(c)) = Bytes(K) + Offering(c)
  <2>1. CASE phase[c] \in {"counting", "offering"}
    <3>1. seen[c] \in Chunks \ K /\ SizeOf[seen[c]] \in Nat
      BY <1>c, <1>k, <2>1, OfferedApart
    <3>2. InSession(c) = {seen[c]} /\ Offering(c) = SizeOf[seen[c]]
      BY <2>1 DEF InSession, Offering, Offered
    <3>3. QED
      BY <1>2, <1>4, <3>1, <3>2, BytesAdd
  <2>2. CASE phase[c] \notin {"counting", "offering"}
    <3>1. InSession(c) = {} /\ Offering(c) = 0 /\ Pending(c) = K
      BY <1>4, <2>2 DEF InSession, Offering
    <3>2. Bytes(K) \in Nat
      BY <1>2, BytesWithin
    <3>3. QED
      BY <1>2, <3>1, <3>2
  <2>3. QED
    BY <2>1, <2>2
<1>6. /\ Awaited(c) \in SUBSET Chunks /\ Entered(c) \in Nat
      /\ Bytes(Awaited(c)) = Held(c) + Entered(c)
  <2>1. CASE phase[c] = "offering"
    <3>1. seen[c] \in Chunks \ Holding(c) /\ SizeOf[seen[c]] \in Nat
      BY <1>c, <2>1, OfferedApart
    <3>2. InWindow(c) = {seen[c]} /\ Entered(c) = SizeOf[seen[c]]
      BY <2>1 DEF InWindow, Entered, Offered
    <3>3. QED
      BY <1>1, <1>4, <3>1, <3>2, BytesAdd DEF Held
  <2>2. CASE phase[c] # "offering"
    <3>1. InWindow(c) = {} /\ Entered(c) = 0 /\ Awaited(c) = Holding(c)
      BY <1>4, <2>2 DEF InWindow, Entered
    <3>2. QED
      BY <1>1, <3>1 DEF Held
  <2>3. QED
    BY <2>1, <2>2
<1>7. QED
  BY <1>1, <1>3, <1>5, <1>6 DEF Owed, Waits

\* All that is on its way, as a function of the clients.
LEMMA FlightIs == (TypeOK /\ AllClients) => FlightIsOwed
<1> SUFFICES ASSUME TypeOK, AllClients PROVE FlightIsOwed
  OBVIOUS
<1>p. OwedIsPending
  BY PendingBytes
<1> DEFINE P == [c \in Clients |-> Pending(c)]
           A == [c \in Clients |-> Awaited(c)]
<1>1. P \in [Clients -> SUBSET Chunks] /\ \A c \in Clients : P[c] = Pending(c)
  BY <1>p DEF OwedIsPending
<1>a. A \in [Clients -> SUBSET Chunks]
  BY <1>p DEF OwedIsPending
<1>2. InFlight = Cardinality(FlightOf(P)) /\ AwaitedBytes = Cardinality(FlightOf(A))
  BY DEF InFlight, AwaitedBytes
<1> HIDE DEF P, A
<1>3. InFlight \in Nat /\ AwaitedBytes \in Nat
  BY <1>1, <1>a, <1>2, FlightFinite
<1>4. ASSUME NEW c \in Clients PROVE Owed(c) <= InFlight
  <2> DEFINE Q == [P EXCEPT ![c] = {}]
  <2>1. /\ Q \in [Clients -> SUBSET Chunks] /\ Q[c] = {}
        /\ \A d \in Clients \ {c} : Q[d] = P[d]
    BY <1>1
  <2> HIDE DEF Q
  <2>2. Cardinality(FlightOf(Q)) + Bytes(P[c]) = Cardinality(FlightOf(P)) + Bytes(Q[c])
    BY <1>1, <2>1, FlightOfOne
  <2>3. Bytes(Q[c]) = 0 /\ Bytes(P[c]) = Owed(c) /\ Owed(c) \in Nat
    BY <1>1, <2>1, <1>p, BytesSome DEF OwedIsPending
  <2>4. Cardinality(FlightOf(Q)) \in Nat
    BY <2>1, FlightFinite
  <2>5. QED
    BY <1>2, <1>3, <2>2, <2>3, <2>4
<1>5. QED
  BY <1>1, <1>a, <1>3, <1>4 DEF P, A, FlightIsOwed

\* A step that concerns the client c leaves the others alone.
OthersSame(c) ==
    \A d \in Clients \ {c} :
        /\ queue'[d] = queue[d] /\ inHand'[d] = inHand[d] /\ writer'[d] = writer[d]
        /\ written'[d] = written[d]
        /\ phase'[d] = phase[d] /\ authed'[d] = authed[d] /\ seen'[d] = seen[d]
        /\ got'[d] = got[d] /\ skipped'[d] = skipped[d]
        /\ (d \in users') <=> (d \in users)

\* What is the same for a client stays true of it.
LEMMA OthersKeep ==
    ASSUME NEW c, OthersSame(c), NEW d \in Clients \ {c}, ClientInv(d)
    PROVE  ClientInv(d)' /\ Pending(d)' = Pending(d) /\ Awaited(d)' = Awaited(d)
<1>1. /\ queue'[d] = queue[d] /\ inHand'[d] = inHand[d] /\ writer'[d] = writer[d]
      /\ written'[d] = written[d]
      /\ phase'[d] = phase[d] /\ authed'[d] = authed[d] /\ seen'[d] = seen[d]
      /\ got'[d] = got[d] /\ skipped'[d] = skipped[d]
      /\ (d \in users') <=> (d \in users)
  BY DEF OthersSame
<1>2. Holding(d)' = Holding(d) /\ Held(d)' = Held(d) /\ Hears(d)' = Hears(d)
  BY <1>1 DEF Holding, Held, Hears
<1>3. Pending(d)' = Pending(d) /\ Awaited(d)' = Awaited(d)
  BY <1>1, <1>2 DEF Pending, Awaited, InSession, InWindow, Written, Offered
<1>4. SlotAt(d)'
  BY <1>1 DEF ClientInv, SlotAt
<1>5. Stream(d)'
  BY <1>1, <1>2 DEF ClientInv, Stream
<1>6. QED
  BY <1>2, <1>3, <1>4, <1>5 DEF ClientInv

\* It is enough to look at the client a step concerns, and at the counters.
LEMMA OneClientGauged ==
    ASSUME RelayInv, TypeOK', NEW c \in Clients, OthersSame(c), ClientInv(c)',
           (active = Cardinality(SlotHolders))',
           NEW a, NEW e, Counted(window, lost, window', lost', a, e),
           Waits(c)' + e = Waits(c) + a,
           totals'.unforwarded - totals'.dropped - vanished' - Owed(c)'
             = totals.unforwarded - totals.dropped - vanished - Owed(c)
    PROVE  RelayInv'
<1>1. \A d \in Clients :
         ClientInv(d)' /\ (d # c => Pending(d)' = Pending(d) /\ Awaited(d)' = Awaited(d))
  BY OthersKeep DEF RelayInv, AllClients
<1>a. AllClients'
  BY <1>1 DEF AllClients
<1>s. OwedIsPending /\ FlightIsOwed
  BY PendingBytes, FlightIs DEF RelayInv
<1>n. OwedIsPending' /\ FlightIsOwed'
  <2>1. ((TypeOK /\ AllClients) => OwedIsPending)' /\ ((TypeOK /\ AllClients) => FlightIsOwed)'
    BY PendingBytes, FlightIs, PTL
  <2>2. QED
    BY <1>a, <2>1
<1> DEFINE P == [d \in Clients |-> Pending(d)]
           Q == [d \in Clients |-> Pending(d)']
           A == [d \in Clients |-> Awaited(d)]
           B == [d \in Clients |-> Awaited(d)']
<1>2. /\ P \in [Clients -> SUBSET Chunks] /\ A \in [Clients -> SUBSET Chunks]
      /\ InFlight = Cardinality(FlightOf(P)) /\ AwaitedBytes = Cardinality(FlightOf(A))
      /\ InFlight \in Nat /\ AwaitedBytes \in Nat
  BY <1>s DEF FlightIsOwed, InFlight, AwaitedBytes
<1>3. /\ Q \in [Clients -> SUBSET Chunks] /\ B \in [Clients -> SUBSET Chunks]
      /\ InFlight' = Cardinality(FlightOf(Q)) /\ AwaitedBytes' = Cardinality(FlightOf(B))
      /\ InFlight' \in Nat /\ AwaitedBytes' \in Nat
  <2>1. InFlight' = Cardinality(FlightOf(Q)) /\ AwaitedBytes' = Cardinality(FlightOf(B))
    BY DEF InFlight, AwaitedBytes, FlightOf
  <2>2. QED
    BY <1>n, <2>1 DEF FlightIsOwed
<1>4. /\ Bytes(P[c]) = Owed(c) /\ Owed(c) \in Nat
      /\ Bytes(A[c]) = Waits(c) /\ Waits(c) \in Nat
  BY <1>s DEF OwedIsPending
<1>5. /\ Bytes(Q[c]) = Owed(c)' /\ Owed(c)' \in Nat
      /\ Bytes(B[c]) = Waits(c)' /\ Waits(c)' \in Nat
  <2>1. /\ Bytes(Pending(c))' = Owed(c)' /\ Owed(c)' \in Nat
        /\ Bytes(Awaited(c))' = Waits(c)' /\ Waits(c)' \in Nat
    BY <1>n DEF OwedIsPending
  <2>2. Bytes(Pending(c)') = Owed(c)' /\ Bytes(Awaited(c)') = Waits(c)'
    BY <2>1 DEF Bytes, BytesOf
  <2>3. QED
    BY <2>1, <2>2
<1>6. \A d \in Clients \ {c} : Q[d] = P[d] /\ B[d] = A[d]
  BY <1>1
<1> HIDE DEF P, Q, A, B
<1>7. /\ Cardinality(FlightOf(Q)) + Bytes(P[c]) = Cardinality(FlightOf(P)) + Bytes(Q[c])
      /\ Cardinality(FlightOf(B)) + Bytes(A[c]) = Cardinality(FlightOf(A)) + Bytes(B[c])
  BY <1>2, <1>3, <1>6, FlightOfOne
<1>8. InFlight' + Owed(c) = InFlight + Owed(c)'
  BY <1>2, <1>3, <1>4, <1>5, <1>7
<1>9. AwaitedBytes' + Waits(c) = AwaitedBytes + Waits(c)'
  BY <1>2, <1>3, <1>4, <1>5, <1>7
<1>10. Accounted'
  <2>1. /\ totals.unforwarded \in Nat /\ totals.dropped \in Nat /\ vanished \in Nat
        /\ totals'.unforwarded \in Nat /\ totals'.dropped \in Nat /\ vanished' \in Nat
    BY DEF RelayInv, TypeOK
  <2>2. totals.unforwarded = totals.dropped + InFlight + vanished
    BY DEF RelayInv, Accounted
  <2>3. totals'.unforwarded = totals'.dropped + InFlight' + vanished'
    BY <1>2, <1>3, <1>4, <1>5, <1>8, <2>1, <2>2
  <2>4. QED
    BY <2>3 DEF Accounted
<1>11. WindowInv'
  <2>1. a \in Nat /\ e \in Nat
    BY DEF Counted
  <2>2. AwaitedBytes' = AwaitedBytes + a - e
    BY <1>2, <1>3, <1>4, <1>5, <1>9, <2>1
  <2>3. Covers(window, lost, AwaitedBytes)
    BY DEF RelayInv, WindowInv
  <2>4. Covers(window', lost', AwaitedBytes')
    BY <1>2, <1>3, <2>2, <2>3, CountCovers
  <2>5. QED
    BY <2>4 DEF WindowInv, Covers, Sums, Attempts, Settled
<1>12. QED
  BY <1>a, <1>10, <1>11 DEF RelayInv

\* The same for a step that leaves the window alone.
LEMMA OneClient ==
    ASSUME RelayInv, TypeOK', NEW c \in Clients, OthersSame(c), ClientInv(c)',
           (active = Cardinality(SlotHolders))',
           UNCHANGED gauge, Waits(c)' = Waits(c),
           totals'.unforwarded - totals'.dropped - vanished' - Owed(c)'
             = totals.unforwarded - totals.dropped - vanished - Owed(c)
    PROVE  RelayInv'
<1>0. window \in Buckets /\ lost \in Losses
  BY DEF RelayInv, TypeOK, Buckets, Losses
<1>1. window' \in Buckets /\ lost' \in Losses /\ window' = window /\ lost' = lost /\ 1 \in 1..Window
  BY <1>0, Constants DEF gauge
<1>2. window[1].attempted \in Nat /\ window[1].forwarded \in Nat /\ lost[1] \in Nat
  BY <1>0, <1>1 DEF Buckets, Losses
<1>3. Counted(window, lost, window', lost', 0, 0)
  BY <1>0, <1>1, <1>2 DEF Counted
<1>4. Waits(c)' + 0 = Waits(c) + 0
  OBVIOUS
<1>5. QED
  BY <1>3, <1>4, OneClientGauged

-----------------------------------------------------------------------------
(* The steps *)

\* A step that touches no client and no total.
LEMMA NobodyMoves ==
    ASSUME RelayInv, TypeOK', Covers(window', lost', AwaitedBytes),
           UNCHANGED <<slots, session, writing, ledger, received>>
    PROVE  RelayInv'
<1> USE DEF slots, session, writing, ledger, received
<1>1. SlotHolders' = SlotHolders
  BY DEF SlotHolders
<1>2. \A d \in Clients : Holding(d)' = Holding(d) /\ Hears(d)' = Hears(d)
  BY DEF Holding, Hears
<1>3. \A d \in Clients :
         Pending(d)' = Pending(d) /\ Awaited(d)' = Awaited(d) /\ Held(d)' = Held(d)
  BY <1>2 DEF Pending, Awaited, InSession, InWindow, Written, Offered, Held
<1>4. InFlight' = InFlight /\ AwaitedBytes' = AwaitedBytes
  BY <1>3 DEF InFlight, AwaitedBytes, FlightOf, BytesOf
<1>5. ASSUME NEW d \in Clients PROVE ClientInv(d)'
  <2>1. SlotAt(d) /\ Stream(d) /\ Held(d) <= BufferBytes
    BY DEF RelayInv, AllClients, ClientInv
  <2>2. SlotAt(d)'
    BY <2>1 DEF SlotAt
  <2>3. Stream(d)'
    BY <1>2, <2>1 DEF Stream
  <2>4. QED
    BY <1>3, <2>1, <2>2, <2>3 DEF ClientInv
<1>6. WindowInv'
  <2>1. Covers(window', lost', AwaitedBytes')
    BY <1>4
  <2>2. QED
    BY <2>1 DEF WindowInv, Covers, Sums, Attempts, Settled
<1>7. QED
  BY <1>1, <1>4, <1>5, <1>6 DEF RelayInv, AllClients, Accounted

\* The loops of the relay, the ring and ctrl-c.
LEMMA TasksKeep ==
    ASSUME RelayInv, TypeOK', UNCHANGED <<slots, session, writing, quality, received>>
    PROVE  RelayInv'
<1>1. Covers(window', lost', AwaitedBytes)
  BY DEF RelayInv, WindowInv, quality, gauge
<1>2. QED
  BY <1>1, NobodyMoves DEF quality

\* The accept loop, the upstream loop and ctrl-c change their own state.
LEMMA LoopsKeep ==
    ASSUME RelayInv,
           \/ Upstream \/ AcceptEnds \/ AcceptFails \/ Reject \/ Rejected \/ CtrlC
           \/ UNCHANGED vars
    PROVE  RelayInv'
<1> USE DEF tasks, slots, session, writing, quality, ledger, gauge, switch, received
<1>t. TypeOK
  BY DEF RelayInv
<1>1. CASE UpEnds \/ UpConnects \/ Connected \/ ConnectFails \/ UpstreamLost
  <2>1. up' \in {"idle", "connecting", "session", "ended"}
        /\ UNCHANGED <<shutdown, accept, sent, slots, session, writing, quality, received>>
    BY <1>1 DEF UpEnds, UpConnects, Connected, ConnectFails, UpstreamLost, UpOnly
  <2>2. TypeOK'
    BY <1>t, <2>1 DEF TypeOK
  <2>3. QED
    BY <2>1, <2>2, TasksKeep
<1>2. CASE ReadChunk
  <2>1. sent' \in 0..MaxChunks
    BY <1>t, <1>2, Constants DEF TypeOK, ReadChunk
  <2>2. TypeOK'
    BY <1>t, <1>2, <2>1 DEF TypeOK, ReadChunk
  <2>3. QED
    BY <1>2, <2>2, TasksKeep DEF ReadChunk
<1>3. CASE AcceptEnds \/ AcceptFails \/ Reject \/ Rejected
  <2>1. accept' \in {"listening", "rejecting", "failed", "ended"}
        /\ UNCHANGED <<shutdown, up, sent, slots, session, writing, quality, received>>
    BY <1>3 DEF AcceptEnds, AcceptFails, Reject, Rejected, AcceptOnly
  <2>2. TypeOK'
    BY <1>t, <2>1 DEF TypeOK
  <2>3. QED
    BY <2>1, <2>2, TasksKeep
<1>4. CASE CtrlC
  <2>1. TypeOK'
    BY <1>t, <1>4 DEF TypeOK, CtrlC
  <2>2. QED
    BY <1>4, <2>1, TasksKeep DEF CtrlC
<1>5. CASE UNCHANGED vars
  <2>1. TypeOK'
    BY <1>t, <1>5 DEF TypeOK, vars
  <2>2. QED
    BY <1>5, <2>1, TasksKeep DEF vars
<1>6. QED
  BY <1>1, <1>2, <1>3, <1>4, <1>5 DEF Upstream

\* The turn of the window keeps what it covers.
LEMMA RotationCounted ==
    ASSUME RelayInv
    PROVE  /\ Rotated \in Buckets /\ Shifted(lost, 0) \in Losses
           /\ Covers(Rotated, Shifted(lost, 0), AwaitedBytes)
<1>1. window \in Buckets /\ lost \in Losses /\ Covers(window, lost, AwaitedBytes)
  BY DEF RelayInv, TypeOK, WindowInv, Buckets, Losses
<1>2. Empty \in [attempted : Nat, forwarded : Nat] /\ Empty.attempted = 0 /\ Empty.forwarded = 0
  BY DEF Empty
<1>i. /\ Window \in Nat /\ 1 \in 1..Window
      /\ \A b \in 1..Window : b # 1 => b - 1 \in 1..Window
      /\ \A b \in 2..Window : b \in 1..Window /\ b # 1
  BY Constants
<1>3. /\ Rotated \in Buckets /\ Rotated[1] = Empty
      /\ \A b \in 2..Window : Rotated[b] = window[b - 1]
  <2> DEFINE R == [attempted : Nat, forwarded : Nat]
             E == Empty
             z == Rotated
  <2>1. window \in [1..Window -> R] /\ E \in R
    BY <1>1, <1>2 DEF Buckets
  <2>2. z = [b \in 1..Window |-> IF b = 1 THEN E ELSE window[b - 1]]
    BY DEF Rotated, Shifted
  <2> HIDE DEF R, E, z
  <2>3. z \in [1..Window -> R] /\ z[1] = E /\ \A b \in 2..Window : z[b] = window[b - 1]
    BY <1>i, <2>1, <2>2
  <2>4. QED
    BY <2>3 DEF Buckets, R, E, z
<1>4. /\ Shifted(lost, 0) \in Losses /\ Shifted(lost, 0)[1] = 0
      /\ \A b \in 2..Window : Shifted(lost, 0)[b] = lost[b - 1]
  <2> DEFINE y == Shifted(lost, 0)
  <2>1. lost \in [1..Window -> Nat] /\ y = [b \in 1..Window |-> IF b = 1 THEN 0 ELSE lost[b - 1]]
    BY <1>1 DEF Losses, Shifted
  <2> HIDE DEF y
  <2>2. y \in [1..Window -> Nat] /\ y[1] = 0 /\ \A b \in 2..Window : y[b] = lost[b - 1]
    BY <1>i, <2>1
  <2>3. QED
    BY <2>2 DEF Losses, y
<1>5. Rotated[1].attempted = 0 /\ Rotated[1].forwarded = 0
  BY <1>2, <1>3
<1>6. AwaitedBytes \in Nat
  BY FlightIs DEF RelayInv, FlightIsOwed
<1>7. QED
  BY <1>1, <1>3, <1>4, <1>5, <1>6, RotationCovers

\* A tick of the monitor turns the window.
LEMMA MeasureKeeps ==
    ASSUME RelayInv, MonitorMeasures
    PROVE  RelayInv'
<1> USE DEF tasks, slots, session, writing, received
<1>1. /\ window' \in Buckets /\ lost' \in Losses /\ Covers(window', lost', AwaitedBytes)
  BY RotationCounted DEF MonitorMeasures
<1>2. monitor' \in {"waits", "pauses", "forwards"}
  BY DEF MonitorMeasures
<1>3. TypeOK'
  BY <1>1, <1>2 DEF RelayInv, TypeOK, MonitorMeasures, Buckets, Losses, ledger
<1>4. QED
  BY <1>1, <1>3, NobodyMoves DEF MonitorMeasures

\* Then it stores the switch.
LEMMA StoreKeeps ==
    ASSUME RelayInv, MonitorStores
    PROVE  RelayInv'
<1> USE DEF tasks, slots, session, writing, received
<1>1. Covers(window', lost', AwaitedBytes)
  BY DEF RelayInv, WindowInv, MonitorStores, gauge
<1>2. paused' \in BOOLEAN /\ monitor' = "waits"
  BY DEF MonitorStores
<1>3. TypeOK'
  BY <1>2 DEF RelayInv, TypeOK, MonitorStores, ledger, gauge
<1>4. QED
  BY <1>1, <1>3, NobodyMoves DEF MonitorStores

\* While a session is neither opened nor ended the slots are the same.
LEMMA HoldersKept ==
    ASSUME RelayInv, NEW c \in Clients, NEW r, r # "none", phase[c] # "none",
           phase' = [phase EXCEPT ![c] = r], active' = active
    PROVE  (active = Cardinality(SlotHolders))'
<1>1. phase \in [Clients -> Phases] /\ active = Cardinality(SlotHolders)
  BY DEF RelayInv, TypeOK
<1>2. \A d \in Clients : phase'[d] # "none" <=> phase[d] # "none"
  BY <1>1
<1>3. SlotHolders' = SlotHolders
  BY <1>2 DEF SlotHolders
<1>4. QED
  BY <1>1, <1>3

\* The session turns, or leaves, and a logon may have been read.
LEMMA TurnKeeps ==
    ASSUME RelayInv, NEW c \in Clients, NEW r \in {"top", "select", "closing", "dead"},
           phase[c] \in {"top", "select"}, Goto(c, r),
           \/ users' = users /\ authed' = authed
           \/ users' = users \cup {c} /\ authed' = [authed EXCEPT ![c] = TRUE],
           UNCHANGED <<tasks, sent, active, seen, writing, quality, received>>
    PROVE  RelayInv'
<1> USE DEF tasks, writing, quality, ledger, gauge, switch, received
<1>t. TypeOK
  BY DEF RelayInv
<1>1. phase' = [phase EXCEPT ![c] = r] /\ phase'[c] = r /\ phase' \in [Clients -> Phases]
  BY <1>t DEF Goto, TypeOK, Phases
<1>2. authed' \in [Clients -> BOOLEAN] /\ users' \subseteq Clients
  BY <1>t DEF TypeOK
<1>3. TypeOK'
  BY <1>t, <1>1, <1>2 DEF TypeOK
<1>4. OthersSame(c)
  BY <1>t, <1>1 DEF OthersSame, TypeOK
<1>5. /\ Holding(c)' = Holding(c) /\ Held(c)' = Held(c)
      /\ Owed(c)' = Owed(c) /\ Waits(c)' = Waits(c)
  BY <1>1 DEF Holding, Held, Owed, Offering, Done, Waits, Entered
<1>c. SlotAt(c) /\ Stream(c) /\ Held(c) <= BufferBytes
  BY DEF RelayInv, AllClients, ClientInv
<1>6. SlotAt(c)'
  <2>1. (c \in users)' => authed'[c]
    BY <1>c, <1>t DEF SlotAt, TypeOK
  <2>2. QED
    BY <1>c, <1>1, <2>1 DEF SlotAt
<1>7. Stream(c)'
  <2>1. StreamAt(queue[c], inHand[c], got[c], skipped[c], seen[c], Hears(c)')
    <3>1. CASE writer[c] = "running"
      <4>1. Hears(c) = phase[c] /\ Hears(c)' = r
        BY <1>1, <3>1 DEF Hears, HearsIn
      <4>2. StreamAt(queue[c], inHand[c], got[c], skipped[c], seen[c], phase[c])
        BY <1>c, <4>1 DEF Stream
      <4>3. r # "offering"
        OBVIOUS
      <4>4. QED
        BY <4>1, <4>2, <4>3, StreamMoves
    <3>2. CASE writer[c] # "running"
      BY <1>c, <3>2 DEF Hears, HearsIn, Stream
    <3>3. QED
      BY <3>1, <3>2
  <2>2. QED
    BY <2>1 DEF Stream
<1>8. ClientInv(c)'
  BY <1>c, <1>5, <1>6, <1>7 DEF ClientInv
<1>9. (active = Cardinality(SlotHolders))'
  BY <1>1, HoldersKept
<1>11. totals'.unforwarded - totals'.dropped - vanished' - Owed(c)'
         = totals.unforwarded - totals.dropped - vanished - Owed(c)
  BY <1>5
<1>12. QED
  BY <1>3, <1>4, <1>5, <1>8, <1>9, <1>11, OneClient

\* A slot is taken.
LEMMA AdmitKeeps ==
    ASSUME RelayInv, NEW c \in Clients, Admit(c)
    PROVE  RelayInv'
<1> USE DEF tasks, quality, ledger, gauge, switch, received
<1>t. TypeOK /\ active = Cardinality(SlotHolders)
  BY DEF RelayInv
<1>n. MaxClients \in Nat /\ MaxChunks \in Nat
  BY Constants
<1>1. /\ phase' = [phase EXCEPT ![c] = "top"] /\ phase'[c] = "top" /\ phase[c] = "none"
      /\ phase' \in [Clients -> Phases]
      /\ seen' \in [Clients -> 0..MaxChunks] /\ writer'[c] = "running"
      /\ writer' \in [Clients -> {"none", "running", "ended"}]
      /\ active' = active + 1 /\ active' \in 0..MaxClients
  BY <1>t, <1>n DEF Admit, TypeOK, Phases
<1>2. TypeOK'
  BY <1>t, <1>1 DEF TypeOK, Admit
<1>3. OthersSame(c)
  BY <1>t, <1>1 DEF OthersSame, TypeOK, Admit
<1>c. /\ ~written[c] /\ c \notin users /\ writer[c] = "none" /\ inHand[c] = 0 /\ queue[c] = <<>> /\ got[c] = 0
      /\ Held(c) <= BufferBytes
  BY <1>1 DEF RelayInv, AllClients, ClientInv, SlotAt
<1>4. /\ inHand'[c] = 0 /\ queue'[c] = <<>> /\ got'[c] = 0 /\ users' = users
      /\ written'[c] = written[c]
  BY <1>c DEF Admit
<1>5. /\ Holding(c)' = Holding(c) /\ Held(c)' = Held(c)
      /\ Owed(c)' = Owed(c) /\ Waits(c)' = Waits(c)
  BY <1>1 DEF Holding, Held, Owed, Offering, Done, Waits, Entered, Admit
<1>6. SlotAt(c)'
  BY <1>c, <1>1, <1>4 DEF SlotAt
<1>7. Stream(c)'
  BY <1>4, StreamEmpty DEF Stream
<1>8. ClientInv(c)'
  BY <1>c, <1>5, <1>6, <1>7 DEF ClientInv
<1>9. (active = Cardinality(SlotHolders))'
  <2>1. SlotHolders' = SlotHolders \cup {c} /\ c \notin SlotHolders
    BY <1>t, <1>1 DEF SlotHolders, TypeOK
  <2>2. IsFiniteSet(SlotHolders)
    BY Constants, FS_Subset DEF SlotHolders
  <2>3. Cardinality(SlotHolders \cup {c}) = Cardinality(SlotHolders) + 1
    BY <2>1, <2>2, FS_AddElement
  <2>4. QED
    BY <1>t, <1>1, <2>1, <2>3
<1>10. UNCHANGED gauge
  BY DEF Admit
<1>11. totals'.unforwarded - totals'.dropped - vanished' - Owed(c)'
         = totals.unforwarded - totals.dropped - vanished - Owed(c)
  BY <1>5 DEF Admit
<1>12. QED
  BY <1>2, <1>3, <1>5, <1>8, <1>9, <1>10, <1>11, OneClient

\* A slot is returned.
LEMMA GoneKeeps ==
    ASSUME RelayInv, NEW c \in Clients, Gone(c)
    PROVE  RelayInv'
<1> USE DEF tasks, quality, ledger, gauge, switch
<1>t. TypeOK /\ active = Cardinality(SlotHolders)
  BY DEF RelayInv
<1>n. MaxClients \in Nat /\ MaxChunks \in Nat
  BY Constants
<1>1. /\ phase' = [phase EXCEPT ![c] = "none"] /\ phase'[c] = "none" /\ phase[c] = "closing"
      /\ phase' \in [Clients -> Phases]
      /\ seen' \in [Clients -> 0..MaxChunks] /\ writer'[c] = "none" /\ writer[c] = "ended"
      /\ writer' \in [Clients -> {"none", "running", "ended"}]
      /\ got' \in [Clients -> 0..MaxChunks] /\ got'[c] = 0
      /\ skipped' \in [Clients -> SUBSET Chunks]
      /\ authed' \in [Clients -> BOOLEAN]
      /\ users' \subseteq Clients /\ c \notin users'
      /\ active' = active - 1
  BY <1>t, <1>n DEF Gone, TypeOK, Phases, Goto
<1>l. SlotHolders' = SlotHolders \ {c} /\ c \in SlotHolders /\ IsFiniteSet(SlotHolders)
  <2>1. SlotHolders' = SlotHolders \ {c} /\ c \in SlotHolders
    BY <1>t, <1>1 DEF SlotHolders, TypeOK
  <2>2. IsFiniteSet(SlotHolders)
    BY Constants, FS_Subset DEF SlotHolders
  <2>3. QED
    BY <2>1, <2>2
<1>9. (active = Cardinality(SlotHolders))' /\ active' \in 0..MaxClients
  <2>1. Cardinality(SlotHolders \ {c}) = Cardinality(SlotHolders) - 1 /\ Cardinality(SlotHolders \ {c}) \in Nat
    BY <1>l, FS_RemoveElement, FS_CardinalityType
  <2>2. active \in 0..MaxClients /\ MaxClients \in Nat
    BY <1>t, Constants DEF TypeOK
  <2>3. QED
    BY <1>t, <1>1, <1>l, <2>1, <2>2
<1>2. TypeOK'
  BY <1>t, <1>1, <1>9 DEF TypeOK, Gone
<1>3. OthersSame(c)
  BY <1>t, <1>1 DEF OthersSame, TypeOK, Gone
<1>c. ~written[c] /\ inHand[c] = 0 /\ queue[c] = <<>> /\ Held(c) <= BufferBytes
  BY <1>1 DEF RelayInv, AllClients, ClientInv, SlotAt
<1>4. inHand'[c] = 0 /\ queue'[c] = <<>> /\ written'[c] = written[c]
  BY <1>c DEF Gone
<1>5. /\ Holding(c)' = Holding(c) /\ Held(c)' = Held(c)
      /\ Owed(c)' = Owed(c) /\ Waits(c)' = Waits(c)
  BY <1>1 DEF Holding, Held, Owed, Offering, Done, Waits, Entered, Gone
<1>6. SlotAt(c)'
  BY <1>c, <1>1, <1>4 DEF SlotAt
<1>7. Stream(c)'
  BY <1>1, <1>4, StreamEmpty DEF Stream
<1>8. ClientInv(c)'
  BY <1>c, <1>5, <1>6, <1>7 DEF ClientInv
<1>10. UNCHANGED gauge
  BY DEF Gone
<1>11. totals'.unforwarded - totals'.dropped - vanished' - Owed(c)'
         = totals.unforwarded - totals.dropped - vanished - Owed(c)
  BY <1>5 DEF Gone
<1>12. QED
  BY <1>2, <1>3, <1>5, <1>8, <1>9, <1>10, <1>11, OneClient

\* The stream of a client, by its parts.
LEMMA StreamIs ==
    ASSUME NEW c \in Clients
    PROVE  /\ Stream(c) <=> StreamAt(queue[c], inHand[c], got[c], skipped[c], seen[c], Hears(c))
           /\ Stream(c)' <=> StreamAt(queue'[c], inHand'[c], got'[c], skipped'[c], seen'[c], Hears(c)')
BY DEF Stream

\* A session whose writer is over takes chunks from the ring in vain.
LEMMA StreamDeaf ==
    ASSUME NEW q, NEW h, NEW g, NEW K, NEW s,
           StreamType(q, h, g, K, s), StreamAt(q, h, g, K, s, "none")
    PROVE  /\ StreamAt(q, h, g, K \cup {s + 1}, s + 1, "none")
           /\ StreamAt(q, h, g, K, s + 1, "none")
<1> DEFINE old == HadOf(q, h, g)
<1>1. old \subseteq Nat /\ s \in Nat
  <2>1. old \subseteq Chunks /\ Chunks \subseteq Nat
    BY HadType
  <2>2. s \in Nat
    BY Constants DEF StreamType
  <2>3. QED
    BY <2>1, <2>2
<1>2. \A m \in old : m <= s + 1
  BY <1>1 DEF StreamAt
<1>3. \A m, n \in old : (m + 1)..(n - 1) \subseteq old \cup (K \cup {s + 1})
  BY DEF StreamAt
<1>4. "none" \notin {"top", "select"} /\ "none" # "offering"
  OBVIOUS
<1> HIDE DEF old
<1>5. QED
  BY <1>2, <1>3, <1>4 DEF StreamAt, old

\* The session skips a chunk while forwarding is paused.
LEMMA PausedKeeps ==
    ASSUME RelayInv, NEW c \in Clients, RecvPaused(c)
    PROVE  RelayInv'
<1> USE DEF tasks, slots, writing, quality, ledger, gauge, switch
<1>t. TypeOK
  BY DEF RelayInv
<1>0. /\ phase' = [phase EXCEPT ![c] = "top"] /\ phase[c] = "select" /\ seen[c] < sent
      /\ UNCHANGED <<tasks, sent, slots, authed, writing, quality, got>>
  BY DEF RecvPaused, CanRecv, Goto
<1>1. /\ seen'[c] = seen[c] + 1 /\ seen[c] + 1 \in Chunks
      /\ skipped'[c] = skipped[c] \cup {seen[c] + 1}
      /\ phase'[c] = "top"
      /\ phase' \in [Clients -> Phases] /\ seen' \in [Clients -> 0..MaxChunks]
      /\ skipped' \in [Clients -> SUBSET Chunks]
  <2>0. seen[c] \in 0..MaxChunks /\ sent \in 0..MaxChunks /\ MaxChunks \in Nat
    BY <1>t, Constants DEF TypeOK
  <2>1. seen[c] + 1 \in Chunks /\ seen[c] + 1 \in 0..MaxChunks
    BY <1>0, <2>0 DEF Chunks
  <2>2. /\ seen' = [seen EXCEPT ![c] = seen[c] + 1]
        /\ skipped' = [skipped EXCEPT ![c] = skipped[c] \cup {seen[c] + 1}]
    BY DEF RecvPaused
  <2>3. "top" \in Phases
    BY DEF Phases
  <2>4. QED
    BY <1>t, <1>0, <2>1, <2>2, <2>3 DEF TypeOK
<1>2. TypeOK'
  BY <1>t, <1>0, <1>1 DEF TypeOK
<1>3. OthersSame(c)
  BY <1>t, <1>0 DEF OthersSame, TypeOK, RecvPaused
<1>4. Holding(c)' = Holding(c) /\ Held(c)' = Held(c)
  BY <1>0 DEF Holding, Held
<1>5. Owed(c)' = Owed(c) /\ Waits(c)' = Waits(c)
  BY <1>0, <1>1, <1>4 DEF Owed, Offering, Done, Waits, Entered
<1>c. SlotAt(c) /\ Stream(c) /\ Held(c) <= BufferBytes
  BY DEF RelayInv, AllClients, ClientInv
<1>6. SlotAt(c)'
  BY <1>c, <1>0, <1>1 DEF SlotAt
<1>7. Stream(c)'
  <2>1. StreamType(queue[c], inHand[c], got[c], skipped[c], seen[c])
    BY <1>t, ClientTypes
  <2>2. StreamAt(queue[c], inHand[c], got[c], skipped[c] \cup {seen[c] + 1}, seen[c] + 1, Hears(c)')
    <3>1. CASE writer[c] = "running"
      <4>1. Hears(c) = "select" /\ Hears(c)' = "top"
        BY <1>0, <1>1, <3>1 DEF Hears, HearsIn
      <4>2. StreamAt(queue[c], inHand[c], got[c], skipped[c], seen[c], "select")
        BY <1>c, <4>1 DEF Stream
      <4>3. QED
        BY <2>1, <4>1, <4>2, StreamHears
    <3>2. CASE writer[c] # "running"
      <4>1. Hears(c) = "none" /\ Hears(c)' = "none"
        BY <1>0, <3>2 DEF Hears, HearsIn
      <4>2. StreamAt(queue[c], inHand[c], got[c], skipped[c], seen[c], "none")
        BY <1>c, <4>1 DEF Stream
      <4>3. QED
        BY <2>1, <4>1, <4>2, StreamDeaf
    <3>3. QED
      BY <3>1, <3>2
  <2>3. QED
    BY <1>0, <1>1, <2>2, StreamIs
<1>8. ClientInv(c)'
  BY <1>c, <1>4, <1>6, <1>7 DEF ClientInv
<1>9. (active = Cardinality(SlotHolders))'
  BY <1>0, HoldersKept
<1>11. totals'.unforwarded - totals'.dropped - vanished' - Owed(c)'
         = totals.unforwarded - totals.dropped - vanished - Owed(c)
  BY <1>0, <1>5
<1>12. QED
  BY <1>0, <1>2, <1>3, <1>5, <1>8, <1>9, <1>11, OneClient

\* The session takes a chunk and counts it as attempted.
LEMMA RecvKeeps ==
    ASSUME RelayInv, NEW c \in Clients, RecvChunk(c)
    PROVE  RelayInv'
<1> USE DEF tasks, slots, writing, gauge, switch, received
<1>t. TypeOK
  BY DEF RelayInv
<1>0. /\ phase' = [phase EXCEPT ![c] = "counting"] /\ phase[c] = "select" /\ seen[c] < sent
      /\ UNCHANGED <<tasks, sent, slots, authed, writing, vanished, gauge, switch, received>>
      /\ totals' = [totals EXCEPT !.unforwarded = @ + SizeOf[seen[c] + 1]]
  BY DEF RecvChunk, CanRecv, Goto
<1>1. /\ seen'[c] = seen[c] + 1 /\ seen[c] + 1 \in Chunks
      /\ phase'[c] = "counting"
      /\ phase' \in [Clients -> Phases] /\ seen' \in [Clients -> 0..MaxChunks]
  <2>0. seen[c] \in 0..MaxChunks /\ sent \in 0..MaxChunks /\ MaxChunks \in Nat
    BY <1>t, Constants DEF TypeOK
  <2>1. seen[c] + 1 \in Chunks /\ seen[c] + 1 \in 0..MaxChunks
    BY <1>0, <2>0 DEF Chunks
  <2>2. seen' = [seen EXCEPT ![c] = seen[c] + 1]
    BY DEF RecvChunk
  <2>3. "counting" \in Phases
    BY DEF Phases
  <2>4. QED
    BY <1>t, <1>0, <2>1, <2>2, <2>3 DEF TypeOK
<1>d. SizeOf[seen[c] + 1] \in Nat
  BY <1>1, Constants
<1>w. /\ totals' \in Totals
      /\ totals'.unforwarded = totals.unforwarded + SizeOf[seen[c] + 1]
      /\ totals'.dropped = totals.dropped
  <2>1. totals \in Totals
    BY <1>t DEF TypeOK, Totals
  <2>2. QED
    BY <1>0, <1>d, <2>1 DEF Totals
<1>2. TypeOK'
  BY <1>t, <1>0, <1>1, <1>w DEF TypeOK, Totals
<1>3. OthersSame(c)
  BY <1>t, <1>0 DEF OthersSame, TypeOK, RecvChunk
<1>4. Holding(c)' = Holding(c) /\ Held(c)' = Held(c)
  BY <1>0 DEF Holding, Held
<1>5. Owed(c)' = Owed(c) + SizeOf[seen[c] + 1] /\ Owed(c) \in Nat
  <2>1. /\ Held(c) \in Nat /\ Done(c) \in Nat /\ Done(c) <= Held(c) /\ Offering(c) = 0
        /\ Owed(c) \in Nat
    BY <1>t, <1>0, PendingBytes DEF RelayInv, OwedIsPending, Offering
  <2>2. Offering(c)' = SizeOf[seen[c] + 1] /\ Done(c)' = Done(c)
    BY <1>0, <1>1 DEF Offering, Done
  <2>3. QED
    BY <1>4, <1>d, <2>1, <2>2 DEF Owed
<1>v. Waits(c)' = Waits(c)
  BY <1>0, <1>1, <1>4 DEF Waits, Entered
<1>c. SlotAt(c) /\ Stream(c) /\ Held(c) <= BufferBytes
  BY DEF RelayInv, AllClients, ClientInv
<1>6. SlotAt(c)'
  BY <1>c, <1>0, <1>1 DEF SlotAt
<1>7. Stream(c)'
  <2>1. StreamType(queue[c], inHand[c], got[c], skipped[c], seen[c])
    BY <1>t, ClientTypes
  <2>2. StreamAt(queue[c], inHand[c], got[c], skipped[c], seen[c] + 1, Hears(c)')
    <3>1. CASE writer[c] = "running"
      <4>1. Hears(c) = "select" /\ Hears(c)' = "offering"
        BY <1>0, <1>1, <3>1 DEF Hears, HearsIn
      <4>2. StreamAt(queue[c], inHand[c], got[c], skipped[c], seen[c], "select")
        BY <1>c, <4>1 DEF Stream
      <4>3. QED
        BY <2>1, <4>1, <4>2, StreamHears
    <3>2. CASE writer[c] # "running"
      <4>1. Hears(c) = "none" /\ Hears(c)' = "none"
        BY <1>0, <3>2 DEF Hears, HearsIn
      <4>2. StreamAt(queue[c], inHand[c], got[c], skipped[c], seen[c], "none")
        BY <1>c, <4>1 DEF Stream
      <4>3. QED
        BY <2>1, <4>1, <4>2, StreamDeaf
    <3>3. QED
      BY <3>1, <3>2
  <2>3. QED
    BY <1>0, <1>1, <2>2, StreamIs
<1>8. ClientInv(c)'
  BY <1>c, <1>4, <1>6, <1>7 DEF ClientInv
<1>9. (active = Cardinality(SlotHolders))'
  BY <1>0, HoldersKept
<1>11. totals'.unforwarded - totals'.dropped - vanished' - Owed(c)'
         = totals.unforwarded - totals.dropped - vanished - Owed(c)
  <2>1. totals.unforwarded \in Nat /\ totals.dropped \in Nat /\ vanished \in Nat /\ vanished' = vanished
    BY <1>t, <1>0 DEF TypeOK
  <2>2. QED
    BY <1>5, <1>d, <1>w, <2>1
<1>12. QED
  BY <1>0, <1>v, <1>2, <1>3, <1>8, <1>9, <1>11, OneClient

\* The chunk in the session's hand is counted in the window.
LEMMA CountKeeps ==
    ASSUME RelayInv, NEW c \in Clients, CountAttempt(c)
    PROVE  RelayInv'
<1> USE DEF tasks, slots, writing, ledger, switch, received
<1>t. TypeOK
  BY DEF RelayInv
<1>0. /\ phase' = [phase EXCEPT ![c] = "offering"] /\ phase[c] = "counting"
      /\ UNCHANGED <<tasks, sent, slots, authed, seen, writing, ledger, lost, switch, received>>
      /\ window' = [window EXCEPT ![1].attempted = @ + SizeOf[seen[c]]]
  BY DEF CountAttempt, Offered, Goto
<1>c. SlotAt(c) /\ Stream(c) /\ Held(c) <= BufferBytes
  BY DEF RelayInv, AllClients, ClientInv
<1>d. seen[c] \in Chunks /\ SizeOf[seen[c]] \in Nat
  BY <1>0, <1>c, Constants DEF SlotAt
<1>w. Counted(window, lost, window', lost', SizeOf[seen[c]], 0)
  <2>0. window \in Buckets /\ lost \in Losses
    BY <1>t DEF TypeOK, Buckets, Losses
  <2>1. window \in Buckets /\ lost \in Losses /\ 1 \in 1..Window
    BY <2>0, Constants
  <2>2. /\ window' \in Buckets
        /\ window'[1].attempted = window[1].attempted + SizeOf[seen[c]]
        /\ window'[1].forwarded = window[1].forwarded
        /\ \A b \in 2..Window : window'[b] = window[b]
    BY <1>0, <1>d, <2>1 DEF Buckets
  <2>3. window[1].forwarded \in Nat /\ lost[1] \in Nat
    BY <2>1 DEF Buckets, Losses
  <2>4. QED
    BY <1>0, <1>d, <2>1, <2>2, <2>3 DEF Counted
<1>1. phase'[c] = "offering" /\ phase' \in [Clients -> Phases]
  BY <1>t, <1>0 DEF TypeOK, Phases
<1>2. TypeOK'
  <2>1. window' \in Buckets
    BY <1>w DEF Counted
  <2>2. QED
    BY <1>t, <1>0, <1>1, <2>1 DEF TypeOK, Buckets
<1>3. OthersSame(c)
  BY <1>t, <1>0 DEF OthersSame, TypeOK
<1>4. Holding(c)' = Holding(c) /\ Held(c)' = Held(c)
  BY <1>0 DEF Holding, Held
<1>5. Owed(c)' = Owed(c)
  BY <1>0, <1>1, <1>4 DEF Owed, Offering, Done
<1>v. Waits(c)' + 0 = Waits(c) + SizeOf[seen[c]]
  <2>1. Held(c) \in Nat /\ Entered(c) = 0 /\ Entered(c)' = SizeOf[seen[c]]
    BY <1>t, <1>0, <1>1, PendingBytes DEF RelayInv, OwedIsPending, Entered
  <2>2. QED
    BY <1>4, <1>d, <2>1 DEF Waits
<1>6. SlotAt(c)'
  BY <1>c, <1>0, <1>1, <1>d DEF SlotAt
<1>7. Stream(c)'
  <2>1. Hears(c)' = Hears(c)
    BY <1>0, <1>1 DEF Hears, HearsIn
  <2>2. QED
    BY <1>0, <1>c, <2>1 DEF Stream
<1>8. ClientInv(c)'
  BY <1>c, <1>4, <1>6, <1>7 DEF ClientInv
<1>9. (active = Cardinality(SlotHolders))'
  BY <1>0, HoldersKept
<1>10. totals'.unforwarded - totals'.dropped - vanished' - Owed(c)'
         = totals.unforwarded - totals.dropped - vanished - Owed(c)
  BY <1>0, <1>5
<1>11. QED
  BY <1>v, <1>w, <1>2, <1>3, <1>8, <1>9, <1>10, OneClientGauged

\* The losses of the newest bucket grow by what is lost.
LEMMA LossCounted ==
    ASSUME TypeOK, NEW n \in Nat, Lose(n), window' = window
    PROVE  Counted(window, lost, window', lost', 0, n) /\ lost' \in Losses
<1>0. window \in Buckets /\ lost \in Losses
  BY DEF TypeOK, Buckets, Losses
<1>1. window \in Buckets /\ lost \in Losses /\ 1 \in 1..Window
  BY <1>0, Constants
<1>2. /\ lost' \in Losses /\ lost'[1] = lost[1] + n
      /\ \A b \in 2..Window : lost'[b] = lost[b]
  BY <1>1 DEF Lose, Losses
<1>3. window[1].attempted \in Nat /\ window[1].forwarded \in Nat /\ lost[1] \in Nat
  BY <1>1 DEF Buckets, Losses
<1>4. QED
  BY <1>1, <1>2, <1>3 DEF Counted

\* The chunk in the session's hand is given up, and the session with it.
LEMMA RefusalKeeps ==
    ASSUME RelayInv, NEW c \in Clients, OfferTooSlow(c) \/ OfferClosed(c)
    PROVE  RelayInv'
<1> USE DEF tasks, slots, writing, switch, received
<1>t. TypeOK
  BY DEF RelayInv
<1>0. /\ phase' = [phase EXCEPT ![c] = "closing"] /\ phase[c] = "offering"
      /\ UNCHANGED <<tasks, sent, slots, authed, seen, writing, window, switch, received>>
      /\ Lose(SizeOf[seen[c]])
  BY DEF OfferTooSlow, OfferClosed, Offered, Goto
<1>c. SlotAt(c) /\ Stream(c) /\ Held(c) <= BufferBytes
  BY DEF RelayInv, AllClients, ClientInv
<1>d. seen[c] \in Chunks /\ SizeOf[seen[c]] \in Nat
  BY <1>0, <1>c, Constants DEF SlotAt
<1>w. /\ totals \in Totals /\ vanished \in Nat
      /\ totals' \in Totals /\ vanished' \in Nat
      /\ totals'.unforwarded = totals.unforwarded
      /\ totals'.dropped + vanished' = totals.dropped + vanished + SizeOf[seen[c]]
  <2>1. totals \in Totals /\ vanished \in Nat
    BY <1>t DEF TypeOK, Totals
  <2>2. CASE OfferTooSlow(c)
    <3>1. totals' = [totals EXCEPT !.dropped = @ + SizeOf[seen[c]]] /\ vanished' = vanished
      BY <2>2 DEF OfferTooSlow, Offered
    <3>2. QED
      BY <1>d, <2>1, <3>1 DEF Totals
  <2>3. CASE OfferClosed(c)
    <3>1. totals' = totals /\ vanished' = vanished + SizeOf[seen[c]]
      BY <2>3 DEF OfferClosed, Offered
    <3>2. QED
      BY <1>d, <2>1, <3>1 DEF Totals
  <2>4. QED
    BY <2>2, <2>3
<1>l. Counted(window, lost, window', lost', 0, SizeOf[seen[c]]) /\ lost' \in Losses
  BY <1>t, <1>0, <1>d, LossCounted
<1>1. phase'[c] = "closing" /\ phase' \in [Clients -> Phases]
  BY <1>t, <1>0 DEF TypeOK, Phases
<1>2. TypeOK'
  BY <1>t, <1>0, <1>1, <1>l, <1>w DEF TypeOK, Totals, Losses
<1>3. OthersSame(c)
  BY <1>t, <1>0 DEF OthersSame, TypeOK
<1>4. Holding(c)' = Holding(c) /\ Held(c)' = Held(c)
  BY <1>0 DEF Holding, Held
<1>5. Owed(c) = Owed(c)' + SizeOf[seen[c]] /\ Owed(c)' \in Nat
  <2>1. /\ Held(c) \in Nat /\ Done(c) \in Nat /\ Done(c) <= Held(c)
        /\ Offering(c) = SizeOf[seen[c]]
    BY <1>t, <1>0, PendingBytes DEF RelayInv, OwedIsPending, Offering
  <2>2. Offering(c)' = 0 /\ Done(c)' = Done(c)
    BY <1>0, <1>1 DEF Offering, Done
  <2>3. QED
    BY <1>4, <1>d, <2>1, <2>2 DEF Owed
<1>v. Waits(c)' + SizeOf[seen[c]] = Waits(c) + 0
  <2>1. Held(c) \in Nat /\ Entered(c) = SizeOf[seen[c]] /\ Entered(c)' = 0
    BY <1>t, <1>0, <1>1, PendingBytes DEF RelayInv, OwedIsPending, Entered
  <2>2. QED
    BY <1>4, <1>d, <2>1 DEF Waits
<1>6. SlotAt(c)'
  BY <1>c, <1>0, <1>1 DEF SlotAt
<1>7. Stream(c)'
  <2>1. StreamType(queue[c], inHand[c], got[c], skipped[c], seen[c])
    BY <1>t, ClientTypes
  <2>2. Hears(c)' \notin {"top", "select", "offering"}
    BY <1>1 DEF Hears, HearsIn
  <2>3. StreamAt(queue[c], inHand[c], got[c], skipped[c], seen[c], Hears(c)')
    BY <1>c, <2>1, <2>2, StreamCut DEF Stream
  <2>4. QED
    BY <1>0, <2>3, StreamIs
<1>8. ClientInv(c)'
  BY <1>c, <1>4, <1>6, <1>7 DEF ClientInv
<1>9. (active = Cardinality(SlotHolders))'
  BY <1>0, HoldersKept
<1>11. totals'.unforwarded - totals'.dropped - vanished' - Owed(c)'
         = totals.unforwarded - totals.dropped - vanished - Owed(c)
  <2>1. /\ totals.unforwarded \in Nat /\ totals.dropped \in Nat
        /\ totals'.unforwarded \in Nat /\ totals'.dropped \in Nat
    BY <1>w DEF Totals
  <2>2. QED
    BY <1>5, <1>d, <1>w, <2>1
<1>12. QED
  BY <1>l, <1>v, <1>2, <1>3, <1>8, <1>9, <1>11, OneClientGauged

\* The chunk in the session's hand goes into the queue, within the budget.
LEMMA QueuedKeeps ==
    ASSUME RelayInv, NEW c \in Clients, OfferQueued(c)
    PROVE  RelayInv'
<1> USE DEF tasks, slots, quality, ledger, gauge, switch, received
<1>t. TypeOK
  BY DEF RelayInv
<1>0. /\ phase' = [phase EXCEPT ![c] = "top"] /\ phase[c] = "offering"
      /\ writer[c] = "running" /\ HasPermits(c) /\ Len(queue[c]) < QueueCapacity
      /\ UNCHANGED <<tasks, sent, slots, authed, seen, inHand, written, writer, quality, received>>
      /\ queue' = [queue EXCEPT ![c] = Append(queue[c], seen[c])]
  BY DEF OfferQueued, Offered, Goto
<1>c. SlotAt(c) /\ Stream(c) /\ Held(c) <= BufferBytes
  BY DEF RelayInv, AllClients, ClientInv
<1>d. seen[c] \in Chunks /\ SizeOf[seen[c]] \in Nat
  BY <1>0, <1>c, Constants DEF SlotAt
<1>q. queue[c] \in Seq(Chunks) /\ queue \in [Clients -> Seq(Chunks)]
  BY <1>t DEF TypeOK
<1>1. /\ phase'[c] = "top" /\ phase' \in [Clients -> Phases]
      /\ queue' \in [Clients -> Seq(Chunks)] /\ queue'[c] = Append(queue[c], seen[c])
      /\ \A d \in Clients : Len(queue'[d]) <= QueueCapacity
  <2>1. Append(queue[c], seen[c]) \in Seq(Chunks)
        /\ Len(Append(queue[c], seen[c])) = Len(queue[c]) + 1 /\ Len(queue[c]) \in Nat
    BY <1>d, <1>q
  <2>2. phase'[c] = "top" /\ phase' \in [Clients -> Phases]
    BY <1>t, <1>0 DEF TypeOK, Phases
  <2>3. queue' \in [Clients -> Seq(Chunks)] /\ queue'[c] = Append(queue[c], seen[c])
        /\ \A d \in Clients \ {c} : queue'[d] = queue[d]
    BY <1>0, <1>q, <2>1
  <2>4. Len(queue'[c]) <= QueueCapacity
    BY <1>0, <2>1, <2>3, Constants
  <2>5. QED
    BY <1>t, <2>2, <2>3, <2>4 DEF TypeOK
<1>2. TypeOK'
  BY <1>t, <1>0, <1>1 DEF TypeOK
<1>3. OthersSame(c)
  BY <1>t, <1>0 DEF OthersSame, TypeOK
<1>s. /\ StreamAt(Append(queue[c], seen[c]), inHand[c], got[c], skipped[c], seen[c], "top")
      /\ seen[c] \notin HoldingOf(queue[c], inHand[c])
      /\ HoldingOf(Append(queue[c], seen[c]), inHand[c])
           = HoldingOf(queue[c], inHand[c]) \cup {seen[c]}
  <2>1. StreamType(queue[c], inHand[c], got[c], skipped[c], seen[c])
    BY <1>t, ClientTypes
  <2>2. Hears(c) = "offering"
    BY <1>0 DEF Hears, HearsIn
  <2>3. StreamAt(queue[c], inHand[c], got[c], skipped[c], seen[c], "offering")
    BY <1>c, <2>2 DEF Stream
  <2>4. QED
    BY <1>d, <2>1, <2>3, StreamQueues
<1>4. Held(c)' = Held(c) + SizeOf[seen[c]] /\ Held(c) \in Nat
  <2>1. HoldingOf(queue[c], inHand[c]) \in SUBSET Chunks /\ Held(c) \in Nat
    BY <1>t, ClientTypes, PendingBytes DEF RelayInv, OwedIsPending
  <2>2. Bytes(HoldingOf(queue[c], inHand[c]) \cup {seen[c]})
          = Bytes(HoldingOf(queue[c], inHand[c])) + SizeOf[seen[c]]
    BY <1>d, <1>s, <2>1, BytesAdd
  <2>3. inHand'[c] = inHand[c]
    BY <1>0
  <2>4. QED
    BY <1>1, <1>s, <2>1, <2>2, <2>3, HeldIs
<1>5. Owed(c)' = Owed(c) /\ Waits(c)' = Waits(c)
  <2>1. /\ Offering(c) = SizeOf[seen[c]] /\ Offering(c)' = 0
        /\ Entered(c) = SizeOf[seen[c]] /\ Entered(c)' = 0
    BY <1>0, <1>1 DEF Offering, Entered
  <2>2. Done(c)' = Done(c) /\ Done(c) \in Nat
    BY <1>t, <1>0, PendingBytes DEF RelayInv, OwedIsPending, Done
  <2>3. QED
    BY <1>4, <1>d, <2>1, <2>2 DEF Owed, Waits
<1>b. Held(c)' <= BufferBytes
  BY <1>0, <1>4 DEF HasPermits, Offered
<1>6. SlotAt(c)'
  BY <1>c, <1>0, <1>1 DEF SlotAt
<1>7. Stream(c)'
  <2>1. Hears(c)' = "top"
    BY <1>0, <1>1 DEF Hears, HearsIn
  <2>2. QED
    BY <1>0, <1>1, <1>s, <2>1, StreamIs
<1>8. ClientInv(c)'
  BY <1>b, <1>6, <1>7 DEF ClientInv
<1>9. (active = Cardinality(SlotHolders))'
  BY <1>0, HoldersKept
<1>11. totals'.unforwarded - totals'.dropped - vanished' - Owed(c)'
         = totals.unforwarded - totals.dropped - vanished - Owed(c)
  BY <1>0, <1>5
<1>12. QED
  BY <1>0, <1>2, <1>3, <1>5, <1>8, <1>9, <1>11, OneClient

\* The writer takes the next chunk from its queue, or ends with an empty one.
LEMMA TakeKeeps ==
    ASSUME RelayInv, NEW c \in Clients, WriterTakes(c) \/ WriterEnds(c)
    PROVE  RelayInv'
<1> USE DEF tasks, slots, session, quality, ledger, gauge, switch, received
<1>t. TypeOK
  BY DEF RelayInv
<1>0. /\ writer[c] = "running" /\ inHand[c] = 0
      /\ UNCHANGED <<tasks, sent, slots, session, written, quality, received>>
  BY DEF WriterTakes, WriterEnds
<1>c. SlotAt(c) /\ Stream(c) /\ Held(c) <= BufferBytes
  BY DEF RelayInv, AllClients, ClientInv
<1>f. ~written[c]
  BY <1>c, <1>0 DEF SlotAt
<1>q. queue[c] \in Seq(Chunks) /\ queue \in [Clients -> Seq(Chunks)]
      /\ StreamType(queue[c], 0, got[c], skipped[c], seen[c])
      /\ StreamAt(queue[c], 0, got[c], skipped[c], seen[c], Hears(c))
  <2>1. StreamType(queue[c], inHand[c], got[c], skipped[c], seen[c])
    BY <1>t, ClientTypes
  <2>2. QED
    BY <1>t, <1>c, <1>0, <2>1 DEF TypeOK, Stream
<1>1. /\ TypeOK' /\ OthersSame(c) /\ SlotAt(c)' /\ Stream(c)'
      /\ HoldingOf(queue'[c], inHand'[c]) = HoldingOf(queue[c], inHand[c])
  <2>1. CASE WriterTakes(c)
    <3>0. /\ queue[c] # <<>> /\ writer' = writer
          /\ queue' = [queue EXCEPT ![c] = Tail(queue[c])]
          /\ inHand' = [inHand EXCEPT ![c] = Head(queue[c])]
      BY <2>1 DEF WriterTakes
    <3>1. /\ Tail(queue[c]) \in Seq(Chunks) /\ Len(Tail(queue[c])) <= Len(queue[c])
          /\ Len(Tail(queue[c])) \in Nat /\ Len(queue[c]) \in Nat
          /\ Head(queue[c]) \in Chunks
      BY <1>q, <3>0
    <3>2. Head(queue[c]) \in 0..MaxChunks
      BY <3>1, Constants DEF Chunks
    <3>3. /\ queue' \in [Clients -> Seq(Chunks)] /\ queue'[c] = Tail(queue[c])
          /\ \A d \in Clients \ {c} : queue'[d] = queue[d] /\ inHand'[d] = inHand[d]
          /\ inHand' \in [Clients -> 0..MaxChunks] /\ inHand'[c] = Head(queue[c])
      BY <1>t, <1>q, <3>0, <3>1, <3>2 DEF TypeOK
    <3>4. Len(queue[c]) <= QueueCapacity /\ QueueCapacity \in Nat
      BY <1>t, Constants DEF TypeOK
    <3>5. \A d \in Clients : Len(queue'[d]) <= QueueCapacity
      <4>1. Len(queue'[c]) <= QueueCapacity
        BY <3>1, <3>3, <3>4
      <4>2. QED
        BY <1>t, <3>3, <4>1 DEF TypeOK
    <3>6. TypeOK'
      BY <1>t, <1>0, <3>0, <3>3, <3>5 DEF TypeOK
    <3>7. OthersSame(c)
      BY <1>0, <3>0, <3>3 DEF OthersSame
    <3>8. SlotAt(c)'
      BY <1>c, <1>f, <1>0, <3>0 DEF SlotAt
    <3>9. /\ StreamAt(Tail(queue[c]), Head(queue[c]), got[c], skipped[c], seen[c], Hears(c))
          /\ HoldingOf(Tail(queue[c]), Head(queue[c])) = HoldingOf(queue[c], 0)
      BY <1>q, <3>0, StreamTakes
    <3>10. Hears(c)' = Hears(c)
      BY <1>0, <3>0 DEF Hears, HearsIn
    <3>11. QED
      BY <1>0, <3>3, <3>6, <3>7, <3>8, <3>9, <3>10, StreamIs
  <2>2. CASE WriterEnds(c)
    <3>0. /\ queue[c] = <<>> /\ queue' = queue /\ inHand' = inHand
          /\ writer' = [writer EXCEPT ![c] = "ended"] /\ phase[c] \in {"closing", "dead"}
      BY <2>2 DEF WriterEnds
    <3>1. writer' \in [Clients -> {"none", "running", "ended"}] /\ writer'[c] = "ended"
          /\ \A d \in Clients \ {c} : writer'[d] = writer[d]
      BY <1>t, <3>0 DEF TypeOK
    <3>2. TypeOK'
      BY <1>t, <1>0, <3>0, <3>1 DEF TypeOK
    <3>3. OthersSame(c)
      BY <1>0, <3>0, <3>1 DEF OthersSame
    <3>4. SlotAt(c)'
      BY <1>c, <1>0, <3>0, <3>1 DEF SlotAt
    <3>5. Hears(c)' = "none" /\ "none" \notin {"top", "select", "offering"}
      BY <3>1 DEF Hears, HearsIn
    <3>6. StreamAt(queue[c], 0, got[c], skipped[c], seen[c], "none")
      BY <1>q, <3>5, StreamCut
    <3>7. QED
      BY <1>0, <3>0, <3>2, <3>3, <3>4, <3>5, <3>6, StreamIs
  <2>3. QED
    BY <2>1, <2>2
<1>2. Held(c)' = Held(c)
  BY <1>1, HeldIs
<1>3. Owed(c)' = Owed(c) /\ Waits(c)' = Waits(c)
  BY <1>f, <1>0, <1>2 DEF Owed, Offering, Done, Waits, Entered
<1>4. ClientInv(c)'
  BY <1>c, <1>1, <1>2 DEF ClientInv
<1>5. (active = Cardinality(SlotHolders))'
  BY <1>0 DEF RelayInv, SlotHolders
<1>6. totals'.unforwarded - totals'.dropped - vanished' - Owed(c)'
         = totals.unforwarded - totals.dropped - vanished - Owed(c)
  BY <1>0, <1>3
<1>7. QED
  BY <1>0, <1>1, <1>3, <1>4, <1>5, <1>6, OneClient

\* A write ends well, and its bytes go to the total of forwarded ones.
LEMMA DoneKeeps ==
    ASSUME RelayInv, NEW c \in Clients, WriteDone(c)
    PROVE  RelayInv'
<1> USE DEF tasks, slots, session, gauge, switch, received
<1>t. TypeOK
  BY DEF RelayInv
<1>0. /\ writer[c] = "running" /\ inHand[c] # 0 /\ ~written[c]
      /\ written' = [written EXCEPT ![c] = TRUE]
      /\ totals' = [totals EXCEPT !.unforwarded = @ - SizeOf[inHand[c]]]
      /\ UNCHANGED <<tasks, sent, slots, session, queue, inHand, writer, vanished, gauge, switch, received>>
  BY DEF WriteDone
<1>c. ClientInv(c) /\ SlotAt(c) /\ Stream(c) /\ Held(c) <= BufferBytes
  BY DEF RelayInv, AllClients, ClientInv
<1>h. /\ SizeOf[inHand[c]] \in Nat /\ SizeOf[inHand[c]] <= Held(c)
  <2>1. /\ SizeOf[inHand[c]] \in Nat
        /\ Held(c) = Bytes(HoldingOf(queue[c], 0)) + SizeOf[inHand[c]]
        /\ Bytes(HoldingOf(queue[c], 0)) \in Nat
    BY <1>t, <1>c, <1>0, HandHeld
  <2>2. QED
    BY <2>1
<1>1. written' \in [Clients -> BOOLEAN] /\ written'[c] /\ \A d \in Clients \ {c} : written'[d] = written[d]
  BY <1>t, <1>0 DEF TypeOK
<1>o. /\ Offering(c) \in Nat /\ Owed(c) \in Nat /\ Held(c) \in Nat
      /\ Owed(c) = Held(c) + Offering(c)
  <2>1. Offering(c) \in Nat /\ Owed(c) \in Nat /\ Held(c) \in Nat
    BY <1>t, PendingBytes DEF RelayInv, OwedIsPending
  <2>2. Done(c) = 0
    BY <1>0 DEF Done
  <2>3. QED
    BY <2>1, <2>2 DEF Owed
<1>d. SizeOf[inHand[c]] <= totals.unforwarded
  <2>1. Owed(c) <= InFlight /\ InFlight \in Nat
    BY <1>t, FlightIs DEF RelayInv, FlightIsOwed
  <2>2. totals.unforwarded = totals.dropped + InFlight + vanished
    BY DEF RelayInv, Accounted
  <2>3. totals.dropped \in Nat /\ vanished \in Nat
    BY <1>t DEF TypeOK
  <2>4. SizeOf[inHand[c]] <= Owed(c)
    BY <1>h, <1>o
  <2>5. QED
    BY <1>h, <1>o, <2>1, <2>2, <2>3, <2>4
<1>w. /\ totals' \in Totals
      /\ totals'.unforwarded = totals.unforwarded - SizeOf[inHand[c]]
      /\ totals'.dropped = totals.dropped
  <2>1. totals \in Totals
    BY <1>t DEF TypeOK, Totals
  <2>2. totals.unforwarded - SizeOf[inHand[c]] \in Nat
    BY <1>d, <1>h, <2>1 DEF Totals
  <2>3. QED
    BY <1>0, <2>1, <2>2 DEF Totals
<1>2. TypeOK'
  BY <1>t, <1>0, <1>1, <1>w DEF TypeOK, Totals
<1>3. OthersSame(c)
  BY <1>0, <1>1 DEF OthersSame
<1>4. Holding(c)' = Holding(c) /\ Held(c)' = Held(c)
  BY <1>0 DEF Holding, Held
<1>5. Owed(c) = Owed(c)' + SizeOf[inHand[c]] /\ Owed(c)' \in Nat
  <2>1. Offering(c)' = Offering(c) /\ Done(c)' = SizeOf[inHand[c]]
    BY <1>0, <1>1 DEF Offering, Done
  <2>2. QED
    BY <1>4, <1>h, <1>o, <2>1 DEF Owed
<1>v. Waits(c)' = Waits(c)
  BY <1>0, <1>4 DEF Waits, Entered
<1>6. SlotAt(c)'
  BY <1>c, <1>0, <1>1 DEF SlotAt
<1>7. Stream(c)'
  BY <1>c, <1>0 DEF Stream, Hears
<1>8. ClientInv(c)'
  BY <1>c, <1>4, <1>6, <1>7 DEF ClientInv
<1>9. (active = Cardinality(SlotHolders))'
  BY <1>0 DEF RelayInv, SlotHolders
<1>10. totals'.unforwarded - totals'.dropped - vanished' - Owed(c)'
         = totals.unforwarded - totals.dropped - vanished - Owed(c)
  <2>1. totals.unforwarded \in Nat /\ totals.dropped \in Nat /\ vanished \in Nat /\ vanished' = vanished
    BY <1>t, <1>0 DEF TypeOK
  <2>2. QED
    BY <1>5, <1>h, <1>w, <2>1
<1>11. QED
  BY <1>0, <1>v, <1>2, <1>3, <1>8, <1>9, <1>10, OneClient

\* Then its bytes are counted in the window, and the hand is empty.
LEMMA CountedKeeps ==
    ASSUME RelayInv, NEW c \in Clients, WriteCounted(c)
    PROVE  RelayInv'
<1> USE DEF tasks, slots, session, ledger, switch
<1>t. TypeOK
  BY DEF RelayInv
<1>0. /\ writer[c] = "running" /\ written[c]
      /\ window' = [window EXCEPT ![1].forwarded = @ + SizeOf[inHand[c]]]
      /\ got' = [got EXCEPT ![c] = inHand[c]] /\ inHand' = [inHand EXCEPT ![c] = 0]
      /\ written' = [written EXCEPT ![c] = FALSE]
      /\ UNCHANGED <<tasks, sent, slots, session, queue, writer, ledger, lost, switch, skipped>>
  BY DEF WriteCounted
<1>c. ClientInv(c) /\ SlotAt(c) /\ Stream(c) /\ Held(c) <= BufferBytes /\ inHand[c] # 0
  BY <1>0 DEF RelayInv, AllClients, ClientInv, SlotAt
<1>h. /\ inHand[c] \in Chunks /\ SizeOf[inHand[c]] \in Nat
      /\ StreamAt(queue[c], 0, inHand[c], skipped[c], seen[c], Hears(c))
      /\ Held(c) = Bytes(HoldingOf(queue[c], 0)) + SizeOf[inHand[c]]
      /\ Bytes(HoldingOf(queue[c], 0)) \in Nat
  BY <1>t, <1>c, HandHeld
<1>w. Counted(window, lost, window', lost', 0, SizeOf[inHand[c]])
  <2>0. window \in Buckets /\ lost \in Losses
    BY <1>t DEF TypeOK, Buckets, Losses
  <2>1. window \in Buckets /\ lost \in Losses /\ 1 \in 1..Window
    BY <2>0, Constants
  <2>2. /\ window' \in Buckets
        /\ window'[1].attempted = window[1].attempted
        /\ window'[1].forwarded = window[1].forwarded + SizeOf[inHand[c]]
        /\ \A b \in 2..Window : window'[b] = window[b]
    BY <1>0, <1>h, <2>1 DEF Buckets
  <2>3. window[1].attempted \in Nat /\ window[1].forwarded \in Nat /\ lost[1] \in Nat
    BY <2>1 DEF Buckets, Losses
  <2>4. QED
    BY <1>0, <1>h, <2>1, <2>2, <2>3 DEF Counted
<1>1. /\ got' \in [Clients -> 0..MaxChunks] /\ got'[c] = inHand[c]
      /\ inHand' \in [Clients -> 0..MaxChunks] /\ inHand'[c] = 0
      /\ \A d \in Clients \ {c} : got'[d] = got[d] /\ inHand'[d] = inHand[d]
  <2>1. 0 \in 0..MaxChunks /\ inHand[c] \in 0..MaxChunks
    BY <1>t, Constants DEF TypeOK
  <2>2. QED
    BY <1>t, <1>0, <2>1 DEF TypeOK
<1>f. /\ written' \in [Clients -> BOOLEAN] /\ ~written'[c]
      /\ \A d \in Clients \ {c} : written'[d] = written[d]
  BY <1>t, <1>0 DEF TypeOK
<1>2. TypeOK'
  <2>1. window' \in Buckets
    BY <1>w DEF Counted
  <2>2. QED
    BY <1>t, <1>0, <1>1, <1>f, <2>1 DEF TypeOK, Buckets
<1>3. OthersSame(c)
  BY <1>0, <1>1, <1>f DEF OthersSame
<1>4. Held(c)' = Bytes(HoldingOf(queue[c], 0))
  BY <1>0, <1>1, HeldIs
<1>5. Owed(c)' = Owed(c) /\ Waits(c)' + SizeOf[inHand[c]] = Waits(c) + 0
  <2>1. /\ Offering(c)' = Offering(c) /\ Entered(c)' = Entered(c)
        /\ Done(c) = SizeOf[inHand[c]] /\ Done(c)' = 0
    BY <1>0, <1>f DEF Offering, Entered, Done
  <2>2. Offering(c) \in Nat /\ Entered(c) \in Nat
    BY <1>t, PendingBytes DEF RelayInv, OwedIsPending
  <2>3. QED
    BY <1>4, <1>h, <2>1, <2>2 DEF Owed, Waits
<1>b. Held(c)' <= BufferBytes
  BY <1>c, <1>4, <1>h, Constants
<1>6. SlotAt(c)'
  BY <1>c, <1>0, <1>1, <1>f DEF SlotAt
<1>7. Stream(c)'
  <2>1. Hears(c)' = Hears(c)
    BY <1>0 DEF Hears
  <2>2. QED
    BY <1>0, <1>1, <1>h, <2>1, StreamIs
<1>8. ClientInv(c)'
  BY <1>b, <1>6, <1>7 DEF ClientInv
<1>9. (active = Cardinality(SlotHolders))'
  BY <1>0 DEF RelayInv, SlotHolders
<1>10. totals'.unforwarded - totals'.dropped - vanished' - Owed(c)'
         = totals.unforwarded - totals.dropped - vanished - Owed(c)
  BY <1>0, <1>5
<1>11. QED
  BY <1>w, <1>2, <1>3, <1>5, <1>8, <1>9, <1>10, OneClientGauged

\* A write fails: the chunk in hand is counted, the queue vanishes.
LEMMA FailKeeps ==
    ASSUME RelayInv, NEW c \in Clients, WriteFails(c)
    PROVE  RelayInv'
<1> USE DEF tasks, slots, session, switch, received
<1>t. TypeOK
  BY DEF RelayInv
<1>0. /\ writer[c] = "running" /\ inHand[c] # 0 /\ ~written[c]
      /\ Lose(SizeOf[inHand[c]] + Bytes(Range(queue[c])))
      /\ totals' = [totals EXCEPT !.dropped = @ + SizeOf[inHand[c]]]
      /\ vanished' = vanished + Bytes(Range(queue[c]))
      /\ queue' = [queue EXCEPT ![c] = <<>>] /\ inHand' = [inHand EXCEPT ![c] = 0]
      /\ writer' = [writer EXCEPT ![c] = "ended"]
      /\ UNCHANGED <<tasks, sent, slots, session, written, window, switch, received>>
  BY DEF WriteFails
<1>c. ClientInv(c) /\ SlotAt(c) /\ Stream(c) /\ Held(c) <= BufferBytes
  BY DEF RelayInv, AllClients, ClientInv
<1>h. /\ inHand[c] \in Chunks /\ SizeOf[inHand[c]] \in Nat
      /\ Held(c) = Bytes(HoldingOf(queue[c], 0)) + SizeOf[inHand[c]]
      /\ Bytes(HoldingOf(queue[c], 0)) \in Nat
      /\ HoldingOf(queue[c], 0) = Range(queue[c])
  BY <1>t, <1>c, <1>0, HandHeld
<1>1. /\ queue' \in [Clients -> Seq(Chunks)] /\ queue'[c] = <<>>
      /\ inHand' \in [Clients -> 0..MaxChunks] /\ inHand'[c] = 0
      /\ writer' \in [Clients -> {"none", "running", "ended"}] /\ writer'[c] = "ended"
      /\ \A d \in Clients \ {c} :
             queue'[d] = queue[d] /\ inHand'[d] = inHand[d] /\ writer'[d] = writer[d]
  <2>1. 0 \in 0..MaxChunks /\ <<>> \in Seq(Chunks)
    BY Constants
  <2>2. QED
    BY <1>t, <1>0, <2>1 DEF TypeOK
<1>l. \A d \in Clients : Len(queue'[d]) <= QueueCapacity
  <2>1. Len(<<>>) = 0 /\ 0 <= QueueCapacity
    BY Constants
  <2>2. QED
    BY <1>t, <1>1, <2>1 DEF TypeOK
<1>w. /\ totals \in Totals /\ vanished \in Nat /\ totals' \in Totals /\ vanished' \in Nat
      /\ totals'.unforwarded = totals.unforwarded
      /\ totals'.dropped = totals.dropped + SizeOf[inHand[c]]
      /\ vanished' = vanished + Bytes(HoldingOf(queue[c], 0))
  <2>1. totals \in Totals /\ vanished \in Nat
    BY <1>t DEF TypeOK, Totals
  <2>2. QED
    BY <1>0, <1>h, <2>1 DEF Totals
<1>g. /\ Counted(window, lost, window', lost', 0, SizeOf[inHand[c]] + Bytes(HoldingOf(queue[c], 0)))
      /\ lost' \in Losses
  <2>1. SizeOf[inHand[c]] + Bytes(Range(queue[c])) \in Nat
    BY <1>h
  <2>2. QED
    BY <1>t, <1>0, <1>h, <2>1, LossCounted
<1>2. TypeOK'
  BY <1>t, <1>0, <1>1, <1>l, <1>w, <1>g DEF TypeOK, Totals, Losses
<1>3. OthersSame(c)
  BY <1>0, <1>1 DEF OthersSame
<1>4. Held(c)' = 0
  <2>1. HoldingOf(queue'[c], inHand'[c]) = {}
    BY <1>1, StreamEmpty
  <2>2. QED
    BY <2>1, HeldIs, BytesSome
<1>o. Offering(c) \in Nat /\ Entered(c) \in Nat
  BY <1>t, PendingBytes DEF RelayInv, OwedIsPending
<1>5. /\ Owed(c) = Owed(c)' + SizeOf[inHand[c]] + Bytes(HoldingOf(queue[c], 0))
      /\ Owed(c)' \in Nat
      /\ Waits(c)' + (SizeOf[inHand[c]] + Bytes(HoldingOf(queue[c], 0))) = Waits(c) + 0
  <2>1. /\ Offering(c)' = Offering(c) /\ Entered(c)' = Entered(c)
        /\ Done(c) = 0 /\ Done(c)' = 0
    BY <1>0 DEF Offering, Entered, Done
  <2>2. QED
    BY <1>4, <1>h, <1>o, <2>1 DEF Owed, Waits
<1>b. Held(c)' <= BufferBytes
  BY <1>4, Constants
<1>6. SlotAt(c)'
  BY <1>c, <1>0, <1>1 DEF SlotAt
<1>7. Stream(c)'
  <2>1. Hears(c)' = "none" /\ "none" \notin {"top", "select", "offering"}
    BY <1>1 DEF Hears, HearsIn
  <2>2. StreamType(queue[c], inHand[c], got[c], skipped[c], seen[c])
    BY <1>t, ClientTypes
  <2>3. StreamAt(<<>>, 0, got[c], skipped[c], seen[c], "none")
    BY <1>c, <2>1, <2>2, StreamCut DEF Stream
  <2>4. QED
    BY <1>0, <1>1, <2>1, <2>3, StreamIs
<1>8. ClientInv(c)'
  BY <1>b, <1>6, <1>7 DEF ClientInv
<1>9. (active = Cardinality(SlotHolders))'
  BY <1>0 DEF RelayInv, SlotHolders
<1>11. totals'.unforwarded - totals'.dropped - vanished' - Owed(c)'
         = totals.unforwarded - totals.dropped - vanished - Owed(c)
  <2>1. totals.unforwarded \in Nat /\ totals.dropped \in Nat
    BY <1>w DEF Totals
  <2>2. QED
    BY <1>5, <1>h, <1>w, <2>1
<1>12. QED
  BY <1>g, <1>2, <1>3, <1>5, <1>8, <1>9, <1>11, OneClientGauged

-----------------------------------------------------------------------------
(* The theorems *)

\* The relay starts with nobody and nothing counted.
LEMMA RelayInvInit == Init => RelayInv
<1> SUFFICES ASSUME Init PROVE RelayInv
  OBVIOUS
<1>1. TypeOK
  <2>1. Empty \in [attempted : Nat, forwarded : Nat]
    BY DEF Empty
  <2>2. window \in [1..Window -> [attempted : Nat, forwarded : Nat]]
    BY <2>1 DEF Init
  <2>3. queue \in [Clients -> Seq(Chunks)] /\ \A c \in Clients : Len(queue[c]) <= QueueCapacity
    <3>1. <<>> \in Seq(Chunks) /\ Len(<<>>) = 0 /\ 0 <= QueueCapacity
      BY Constants
    <3>2. QED
      BY <3>1 DEF Init
  <2>l. lost \in [1..Window -> Nat]
    BY DEF Init
  <2>4. 0 \in 0..MaxChunks /\ 0 \in 0..MaxClients
    BY Constants
  <2>5. QED
    BY <2>2, <2>3, <2>l, <2>4 DEF Init, TypeOK, Phases
<1>2. active = Cardinality(SlotHolders)
  <2>1. SlotHolders = {}
    BY DEF Init, SlotHolders
  <2>2. QED
    BY <2>1, FS_EmptySet DEF Init
<1>3. ASSUME NEW c \in Clients
      PROVE  /\ queue[c] = <<>> /\ inHand[c] = 0 /\ Holding(c) = {} /\ Held(c) = 0
             /\ Pending(c) = {} /\ Awaited(c) = {} /\ ClientInv(c)
  <2>1. /\ queue[c] = <<>> /\ inHand[c] = 0 /\ got[c] = 0 /\ phase[c] = "none"
        /\ writer[c] = "none" /\ c \notin users /\ ~written[c]
    BY DEF Init
  <2>2. Holding(c) = {}
    BY <2>1, StreamEmpty DEF Holding, HoldingOf
  <2>3. Held(c) = 0
    BY <2>2, BytesSome DEF Held
  <2>4. Pending(c) = {} /\ Awaited(c) = {}
    BY <2>1, <2>2 DEF Pending, Awaited, InSession, InWindow
  <2>5. SlotAt(c)
    BY <2>1 DEF SlotAt
  <2>6. Stream(c)
    BY <2>1, StreamEmpty DEF Stream
  <2>7. QED
    BY <2>1, <2>2, <2>3, <2>4, <2>5, <2>6, Constants DEF ClientInv
<1>4. Accounted
  <2>1. \A c \in Clients : BytesOf(Pending(c)) = {}
    BY <1>3 DEF BytesOf
  <2>2. FlightOf([c \in Clients |-> Pending(c)]) = {}
    BY <2>1 DEF FlightOf
  <2>3. InFlight = 0
    BY <2>2, FS_EmptySet DEF InFlight
  <2>4. QED
    BY <2>3 DEF Accounted, Init
<1>5. WindowInv
  <2>1. /\ window = [b \in 1..Window |-> Empty] /\ lost = [b \in 1..Window |-> 0]
        /\ window \in Buckets /\ lost \in Losses
    BY <1>1 DEF Init, TypeOK, Buckets, Losses
  <2>2. Attempts(window) = Settled(window, lost)
    BY <2>1 DEF Attempts, Settled, Empty
  <2>3. \A b \in 0..Window : Sums(Attempts(window))[b] \in Nat
    BY <2>1, CountTypes
  <2>4. AwaitedBytes = 0
    <3>1. \A c \in Clients : BytesOf(Awaited(c)) = {}
      BY <1>3 DEF BytesOf
    <3>2. FlightOf([c \in Clients |-> Awaited(c)]) = {}
      BY <3>1 DEF FlightOf
    <3>3. QED
      BY <3>2, FS_EmptySet DEF AwaitedBytes
  <2>5. QED
    BY <2>2, <2>3, <2>4 DEF WindowInv, Covers
<1>6. QED
  BY <1>1, <1>2, <1>3, <1>4, <1>5 DEF RelayInv, AllClients

\* Every step keeps the invariant.
LEMMA RelayInvStep == (RelayInv /\ [Next]_vars) => RelayInv'
<1> SUFFICES ASSUME RelayInv, [Next]_vars PROVE RelayInv'
  OBVIOUS
<1>1. ASSUME NEW c \in Clients, Session(c) PROVE RelayInv'
  <2>1. CASE TopLeaves(c) \/ TopStays(c) \/ SessionEnds(c) \/ ReadNothing(c)
             \/ ReadPanics(c) \/ RecvLagged(c) \/ RecvClosed(c)
    <3>1. PICK r \in {"top", "select", "closing", "dead"} : Goto(c, r)
      BY <2>1 DEF TopLeaves, TopStays, SessionEnds, ReadNothing, ReadPanics, RecvLagged, RecvClosed
    <3>2. /\ phase[c] \in {"top", "select"} /\ users' = users /\ authed' = authed
          /\ UNCHANGED <<tasks, sent, active, seen, writing, quality, received>>
      BY <2>1 DEF TopLeaves, TopStays, SessionEnds, ReadNothing, ReadPanics, RecvLagged,
                  RecvClosed, slots
    <3>3. QED
      BY <3>1, <3>2, TurnKeeps
  <2>2. CASE ReadLogon(c)
    <3>1. /\ phase[c] \in {"top", "select"} /\ Goto(c, "top")
          /\ users' = users \cup {c} /\ authed' = [authed EXCEPT ![c] = TRUE]
          /\ UNCHANGED <<tasks, sent, active, seen, writing, quality, received>>
      BY <2>2 DEF ReadLogon
    <3>2. QED
      BY <3>1, TurnKeeps
  <2>3. CASE RecvPaused(c)
    BY <2>3, PausedKeeps
  <2>4. CASE RecvChunk(c)
    BY <2>4, RecvKeeps
  <2>5. CASE OfferTooSlow(c) \/ OfferClosed(c)
    BY <2>5, RefusalKeeps
  <2>6. CASE OfferQueued(c)
    BY <2>6, QueuedKeeps
  <2>7. CASE Gone(c)
    BY <2>7, GoneKeeps
  <2>8. CASE CountAttempt(c)
    BY <2>8, CountKeeps
  <2>9. QED
    BY <1>1, <2>1, <2>2, <2>3, <2>4, <2>5, <2>6, <2>7, <2>8 DEF Session, Select, Offer
<1>2. ASSUME NEW c \in Clients, Writer(c) PROVE RelayInv'
  <2>1. CASE WriterTakes(c) \/ WriterEnds(c)
    BY <2>1, TakeKeeps
  <2>2. CASE WriteDone(c)
    BY <2>2, DoneKeeps
  <2>3. CASE WriteFails(c)
    BY <2>3, FailKeeps
  <2>4. CASE WriteCounted(c)
    BY <2>4, CountedKeeps
  <2>5. QED
    BY <1>2, <2>1, <2>2, <2>3, <2>4 DEF Writer
<1>3. CASE Upstream \/ CtrlC \/ UNCHANGED vars
  BY <1>3, LoopsKeep
<1>4. CASE Accept
  <2>1. CASE AcceptEnds \/ AcceptFails \/ Reject \/ Rejected
    BY <2>1, LoopsKeep
  <2>2. ASSUME NEW c \in Clients, Admit(c) PROVE RelayInv'
    BY <2>2, AdmitKeeps
  <2>3. QED
    BY <1>4, <2>1, <2>2 DEF Accept
<1>5. CASE Monitor
  BY <1>5, MeasureKeeps, StoreKeeps DEF Monitor
<1>6. QED
  BY <1>1, <1>2, <1>3, <1>4, <1>5 DEF Next

\* The invariant holds in every reachable state.
LEMMA RelayInvHolds == Spec => []RelayInv
BY RelayInvInit, RelayInvStep, PTL DEF Spec

\* What the invariant says of the slots.
LEMMA InvSlots == RelayInv => SlotsExact
<1> SUFFICES ASSUME RelayInv PROVE SlotsExact
  OBVIOUS
<1>1. TypeOK /\ active = Cardinality(SlotHolders) /\ \A c \in Clients : SlotAt(c)
  BY DEF RelayInv, AllClients, ClientInv
<1>2. active <= MaxClients /\ users \subseteq Clients
  BY <1>1, Constants DEF TypeOK
<1>3. \A c \in Clients : phase[c] = "none" => writer[c] = "none" /\ inHand[c] = 0 /\ queue[c] = <<>>
  BY <1>1 DEF SlotAt
<1>4. \A c \in users : phase[c] # "none" /\ authed[c]
  BY <1>1, <1>2 DEF SlotAt
<1>5. QED
  BY <1>1, <1>2, <1>3, <1>4 DEF SlotsExact

\* What it says of the stream.
LEMMA InvStream == RelayInv => StreamAccounted
<1> SUFFICES ASSUME RelayInv PROVE StreamAccounted
  OBVIOUS
<1>1. BytesAccounted
  BY DEF RelayInv, Accounted, AllClients, ClientInv, BytesAccounted
<1>2. NoHoles
  <2> SUFFICES ASSUME NEW c \in Clients
      PROVE  /\ \A i, j \in 1..Len(queue[c]) : i < j => queue[c][i] < queue[c][j]
             /\ \A n \in Range(queue[c]) : got[c] < n /\ inHand[c] < n
             /\ inHand[c] # 0 => got[c] < inHand[c]
             /\ \A m, n \in Had(c) : (m + 1)..(n - 1) \subseteq Had(c) \cup skipped[c]
    BY DEF NoHoles
  <2>1. Had(c) = HadOf(queue[c], inHand[c], got[c])
    BY ClientTypes DEF RelayInv
  <2>2. StreamAt(queue[c], inHand[c], got[c], skipped[c], seen[c], Hears(c))
    BY DEF RelayInv, AllClients, ClientInv, Stream
  <2>3. QED
    BY <2>1, <2>2 DEF StreamAt
<1>3. QED
  BY <1>1, <1>2 DEF StreamAccounted

\* The counter that admits clients is exact (downstream_active_clients): a
\* session holds one slot until its writer is done, whoever logs on, panics or
\* is let go in between.
THEOREM SlotsCounted == Spec => []SlotsExact
BY RelayInvHolds, InvSlots, PTL

\* Every client gets the chunks in order, with nothing missing but what a pause
\* skipped, within its budget; and every attempted byte is forwarded, dropped,
\* on its way or lost with a failed writer.
THEOREM StreamKept == Spec => []StreamAccounted
BY RelayInvHolds, InvStream, PTL

\* A client that is let go as too slow holds bytes, or the chunk is beyond
\* its whole budget.
LEMMA SlowHolds ==
    ASSUME RelayInv, NEW c \in Clients, OfferTooSlow(c)
    PROVE  Held(c) > 0 \/ SizeOf[Offered(c)] > BufferBytes
<1>1. seen[c] \in Chunks /\ SizeOf[seen[c]] \in Nat
      /\ BufferBytes \in Nat
  <2>1. phase[c] = "offering" /\ SlotAt(c)
    BY DEF RelayInv, AllClients, ClientInv, OfferTooSlow
  <2>2. QED
    BY <2>1, Constants DEF SlotAt
<1>2. Held(c) \in Nat
  BY PendingBytes DEF RelayInv, OwedIsPending
<1>3. CASE ~HasPermits(c)
  BY <1>1, <1>2, <1>3 DEF HasPermits, Offered
<1>4. CASE Len(queue[c]) >= QueueCapacity
  <2>1. queue[c] \in Seq(Chunks) /\ QueueCapacity \in Nat /\ QueueCapacity >= 1
    BY Constants DEF RelayInv, TypeOK
  <2>2. 1 \in 1..Len(queue[c])
    BY <1>4, <2>1
  <2>3. queue[c][1] \in Range(queue[c])
    BY <2>1, <2>2 DEF Range
  <2>4. Holding(c) # {}
    BY <2>3 DEF Holding
  <2>5. Holding(c) \in SUBSET Chunks
    BY ClientTypes DEF RelayInv
  <2>6. QED
    BY <2>4, <2>5, BytesSome DEF Held
<1>5. QED
  BY <1>3, <1>4 DEF OfferTooSlow

\* The step version of SlowMeansBehind.
LEMMA SlowStep ==
    ASSUME RelayInv, Next, NEW c \in Clients,
           phase[c] = "offering", phase'[c] = "closing", totals' # totals
    PROVE  Held(c) > 0 \/ SizeOf[Offered(c)] > BufferBytes
<1>t. phase \in [Clients -> Phases]
  BY DEF RelayInv, TypeOK
<1>1. phase' # phase
  OBVIOUS
<1>2. ~(Upstream \/ AcceptEnds \/ AcceptFails \/ Reject \/ Rejected \/ Monitor \/ CtrlC)
  BY DEF Upstream, UpEnds, UpConnects, Connected, ConnectFails, UpstreamLost, ReadChunk, UpOnly,
         AcceptEnds, AcceptFails, Reject, Rejected, AcceptOnly, Monitor, MonitorMeasures,
         MonitorStores, CtrlC, quality, ledger, session
<1>3. \A d \in Clients : ~Writer(d)
  BY <1>1 DEF Writer, WriterTakes, WriterEnds, WriteDone, WriteCounted, WriteFails, session
<1>4. \A d \in Clients : ~Admit(d)
  BY DEF Admit, quality, ledger
<1>5. PICK d \in Clients : Session(d)
  BY <1>2, <1>3, <1>4 DEF Next, Accept
<1>6. RecvChunk(d) \/ OfferTooSlow(d)
  BY <1>5 DEF Session, TopLeaves, TopStays, Select, SessionEnds, ReadNothing, ReadLogon, ReadPanics,
              RecvLagged, RecvClosed, RecvPaused, Offer, CountAttempt, OfferClosed, OfferQueued, Gone,
              quality, ledger
<1>7. \A e \in Clients \ {d} : phase'[e] = phase[e]
  BY <1>t, <1>6 DEF RecvChunk, OfferTooSlow, Goto
<1>8. c = d
  BY <1>7
<1>9. ~RecvChunk(d)
  BY <1>8 DEF RecvChunk, CanRecv
<1>10. QED
  BY <1>6, <1>8, <1>9, SlowHolds

\* A ratio below a threshold of at most 1000 thousandths leaves something
\* unforwarded in the window.
LEMMA BelowLacks ==
    ASSUME NEW a \in Nat, NEW f \in Nat, NEW t \in 0..1000, f * 1000 < t * a
    PROVE  a - f > 0
<1>1. t * a <= 1000 * a
  BY SMT
<1>2. t * a \in Nat
  BY SMT
<1>3. QED
  BY <1>1, <1>2

\* The step version of PauseHasCause.
LEMMA PauseStep ==
    ASSUME RelayInv, Next, monitor' = "pauses", monitor = "waits", ~paused
    PROVE  AwaitedBytes > 0 \/ \E b \in 1..Window : lost'[b] > 0
<1>1. MonitorMeasures
  <2>1. ~MonitorStores
    BY DEF MonitorStores
  <2>2. Monitor
    BY DEF Next, Upstream, UpEnds, UpConnects, Connected, ConnectFails, UpstreamLost, ReadChunk,
           UpOnly, Accept, AcceptEnds, AcceptFails, Reject, Rejected, AcceptOnly, Admit, CtrlC,
           quality, switch, Session, TopLeaves, TopStays, Select, SessionEnds, ReadNothing,
           ReadLogon, ReadPanics, RecvLagged, RecvClosed, RecvPaused, RecvChunk, Offer,
           CountAttempt, OfferTooSlow, OfferClosed, OfferQueued, Gone, Writer, WriterTakes,
           WriterEnds, WriteDone, WriteCounted, WriteFails
  <2>3. QED
    BY <2>1, <2>2 DEF Monitor
<1>2. RatioBelow(Rotated, PauseBelow) /\ lost' = Shifted(lost, 0)
  BY <1>1 DEF MonitorMeasures, NextPause
<1> SUFFICES ASSUME \A b \in 1..Window : ~(lost'[b] > 0)
             PROVE  AwaitedBytes > 0
  OBVIOUS
<1> DEFINE a == Sums(Attempts(Rotated))[Window]
           f == Sums(Settled(Rotated, lost'))[Window]
<1>3. /\ Covers(Rotated, lost', AwaitedBytes) /\ Rotated \in Buckets /\ lost' \in Losses
      /\ Window \in 0..Window
  BY <1>2, RotationCounted, Constants
<1>4. Settled(Rotated, lost') = [b \in 1..Window |-> Rotated[b].forwarded]
  <2>1. ASSUME NEW b \in 1..Window
        PROVE  Rotated[b].forwarded + lost'[b] = Rotated[b].forwarded
    <3>1. Rotated[b].forwarded \in Nat /\ lost'[b] \in Nat
      BY <1>3 DEF Buckets, Losses
    <3>2. QED
      BY <3>1
  <2>2. QED
    BY <2>1, Zenon DEF Settled
<1>5. WindowAttempted(Rotated) = a /\ WindowForwarded(Rotated) = f
  BY <1>4, Zenon DEF WindowAttempted, WindowForwarded, Attempts
<1>6. a \in Nat /\ f \in Nat
  BY <1>3, CountTypes
<1>7. a - f <= AwaitedBytes
  BY <1>3 DEF Covers
<1> HIDE DEF a, f
<1>8. a - f > 0
  <2>1. f * 1000 < PauseBelow * a
    BY <1>2, <1>5 DEF RatioBelow
  <2>2. PauseBelow \in 0..1000
    BY RelayAssumption
  <2>3. QED
    BY <1>6, <2>1, <2>2, BelowLacks, SMTT(40)
<1>9. AwaitedBytes \in Nat
  BY FlightIs DEF RelayInv, FlightIsOwed
<1>10. QED
  BY <1>6, <1>7, <1>8, <1>9

\* Neither a client nor everybody is cut off without a cause: a client is let
\* go as too slow only with bytes it has not taken or for a chunk beyond its
\* whole budget; and the monitor decides on a pause only with bytes of the
\* window awaited, or lost within its seconds, whichever of the counts lies
\* between a total and the window, and however the seconds divide them.
THEOREM CutsJustified == Spec => CutsHaveCause
<1>1. RelayInv /\ [Next]_vars =>
        [\A c \in Clients :
            (phase[c] = "offering" /\ phase'[c] = "closing" /\ totals' # totals) =>
                Held(c) > 0 \/ SizeOf[Offered(c)] > BufferBytes]_vars
  BY SlowStep
<1>2. RelayInv /\ [Next]_vars =>
        [(monitor' = "pauses" /\ monitor = "waits" /\ ~paused) =>
            AwaitedBytes > 0 \/ \E b \in 1..Window : lost'[b] > 0]_vars
  BY PauseStep
<1>3. Spec => SlowMeansBehind
  BY <1>1, RelayInvHolds, PTL DEF Spec, SlowMeansBehind
<1>4. Spec => PauseHasCause
  BY <1>2, RelayInvHolds, PTL DEF Spec, PauseHasCause
<1>5. QED
  BY <1>3, <1>4 DEF CutsHaveCause
=============================================================================
