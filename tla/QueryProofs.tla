----------------------------- MODULE QueryProofs -----------------------------
(***************************************************************************)
(* Theorems about queries and readers: sorting, filtering and paging of    *)
(* sequences, what is stored, what a query answers, what a reading returns.*)
(* The theorems are at the end.                                            *)
(***************************************************************************)
EXTENDS QuerySession, TLAPS, SequenceTheorems, FiniteSetTheorems, WellFoundedInduction

-----------------------------------------------------------------------------
\* A set of naturals that is not empty has a least element.
LEMMA LeastElement ==
  ASSUME NEW S \in SUBSET Nat, S # {}
  PROVE  \E x \in S : \A y \in S : x <= y
<1> DEFINE below == {ss \in Nat \X Nat : ss[1] < ss[2]}
<1>1. IsWellFoundedOn(below, Nat)
  BY NatLessThanWellFounded, Zenon DEF OpToRel
<1>2. PICK x \in S : \A y \in S : ~(<<y, x>> \in below)
  <2> HIDE DEF below
  <2> QED BY <1>1, WFMin
<1>3. ASSUME NEW y \in S PROVE x <= y
  <2>1. x \in Nat /\ y \in Nat /\ <<y, x>> \notin below
    BY <1>2
  <2>2. ~(y < x)
    BY <2>1
  <2> QED BY <2>1, <2>2
<1> QED BY <1>3

\* The greatest element of a bounded set of naturals, as Max chooses it.
LEMMA GreatestElement ==
  ASSUME NEW n \in Nat, NEW S \in SUBSET (0..n), S # {}
  PROVE  Max(S) \in S /\ \A y \in S : y <= Max(S)
<1> DEFINE Bounds == {m \in 0..n : \A y \in S : y <= m}
<1>1. Bounds \in SUBSET Nat /\ n \in Bounds
  OBVIOUS
<1>2. PICK m \in Bounds : \A k \in Bounds : m <= k
  <2> HIDE DEF Bounds
  <2> QED BY <1>1, LeastElement
<1>3. m \in S
  <2>1. SUFFICES ASSUME m \notin S PROVE FALSE
    BY <2>1
  <2>2. PICK y \in S : y \in 0..n /\ y <= m /\ y # m
    BY <2>1, <1>2
  <2>3. m - 1 \in Bounds
    BY <2>1, <2>2, <1>2
  <2> QED BY <2>3, <1>2
<1>4. \E x \in S : \A y \in S : x >= y
  BY <1>2, <1>3
<1>5. Max(S) \in S /\ \A y \in S : Max(S) >= y
  BY <1>4 DEF Max
<1> QED BY <1>5

\* A function on 1..n is a sequence of length n.
LEMMA FcnIsSeq ==
  ASSUME NEW n \in Nat, NEW f, f = [i \in 1..n |-> f[i]]
  PROVE  isSeq(f) /\ Len(f) = n /\ DOMAIN f = 1..n
<1>1. \A i \in 1..n : f[i] \in Range(f)
  BY DEF Range
<1>2. f \in [1..n -> Range(f)]
  BY <1>1
<1>3. f \in Seq(Range(f))
  BY <1>2
<1> QED BY <1>2, <1>3 DEF isSeq

\* A sequence is a function on the numbers up to its length.
LEMMA SeqIsFcn ==
  ASSUME NEW s, isSeq(s)
  PROVE  Len(s) \in Nat /\ DOMAIN s = 1..Len(s) /\ s = [i \in 1..Len(s) |-> s[i]]
BY DEF isSeq

\* Sequences of any set are sequences.
LEMMA AnySeq ==
  ASSUME NEW S, NEW s \in Seq(S)
  PROVE  isSeq(s)
<1>1. Len(s) \in Nat /\ s = [i \in 1..Len(s) |-> s[i]]
  OBVIOUS
<1> QED BY <1>1, FcnIsSeq

\* Sequences of one length and with the same elements are equal.
LEMMA SameSeq ==
  ASSUME NEW s, NEW t, isSeq(s), isSeq(t), Len(s) = Len(t), \A i \in 1..Len(s) : s[i] = t[i]
  PROVE  s = t
<1>1. s = [i \in 1..Len(s) |-> s[i]] /\ t = [i \in 1..Len(s) |-> t[i]]
  BY SeqIsFcn
<1> QED BY <1>1

\* The empty sequence.
LEMMA EmptyIsSeq == isSeq(<<>>) /\ Len(<<>>) = 0
BY EmptySeq, AnySeq

\* The part of a sequence between two positions.
LEMMA PartOfSeq ==
  ASSUME NEW s, isSeq(s), NEW m \in Int, NEW n \in Int, m >= 1, n <= Len(s)
  PROVE  /\ isSeq(SubSeq(s, m, n))
         /\ Len(SubSeq(s, m, n)) = IF m <= n THEN n - m + 1 ELSE 0
         /\ \A i \in 1..Len(SubSeq(s, m, n)) : SubSeq(s, m, n)[i] = s[m + i - 1]
<1>1. s \in Seq(Range(s)) /\ Len(s) \in Nat
  BY DEF isSeq
<1>2. /\ Len(SubSeq(s, m, n)) = IF m <= n THEN n - m + 1 ELSE 0
      /\ SubSeq(s, m, n) = [i \in 1..(n - m + 1) |-> s[m + i - 1]]
  BY <1>1
<1>3. SubSeq(s, m, n) \in Seq(Range(s))
  BY <1>1, SubSeqProperties
<1>4. isSeq(SubSeq(s, m, n))
  BY <1>3, AnySeq
<1>5. ASSUME NEW i \in 1..Len(SubSeq(s, m, n)) PROVE SubSeq(s, m, n)[i] = s[m + i - 1]
  <2>1. i \in 1..(n - m + 1)
    BY <1>1, <1>2
  <2> QED BY <1>2, <2>1
<1> QED BY <1>2, <1>4, <1>5

\* A sequence with an element appended.
LEMMA AppendIsSeq ==
  ASSUME NEW s, isSeq(s), NEW x
  PROVE  /\ isSeq(Append(s, x)) /\ Len(Append(s, x)) = Len(s) + 1
         /\ Append(s, x)[Len(s) + 1] = x
         /\ \A i \in 1..Len(s) : Append(s, x)[i] = s[i]
<1> DEFINE S == Range(s) \cup {x}
<1>1. s \in Seq(Range(s)) /\ Len(s) \in Nat
  BY DEF isSeq
<1>2. s \in Seq(S)
  BY <1>1
<1> HIDE DEF S
<1>3. x \in S
  BY DEF S
<1>4. Append(s, x) \in Seq(S)
  BY <1>2, <1>3
<1>5. isSeq(Append(s, x))
  BY <1>4, AnySeq
<1>6. /\ Len(Append(s, x)) = Len(s) + 1 /\ Append(s, x)[Len(s) + 1] = x
      /\ \A i \in 1..Len(s) : Append(s, x)[i] = s[i]
  BY <1>1, <1>2, <1>3
<1> QED BY <1>5, <1>6

\* Two sequences, one after the other.
LEMMA ConcatIsSeq ==
  ASSUME NEW s, isSeq(s), NEW t, isSeq(t)
  PROVE  /\ isSeq(s \o t) /\ Len(s \o t) = Len(s) + Len(t)
         /\ \A i \in 1..Len(s) : (s \o t)[i] = s[i]
         /\ \A i \in 1..Len(t) : (s \o t)[Len(s) + i] = t[i]
<1> DEFINE S == Range(s) \cup Range(t)
<1>1. s \in Seq(Range(s)) /\ Len(s) \in Nat /\ t \in Seq(Range(t)) /\ Len(t) \in Nat
  BY DEF isSeq
<1>2. s \in Seq(S) /\ t \in Seq(S)
  BY <1>1
<1> HIDE DEF S
<1>3. s \o t \in Seq(S)
  BY <1>2, ConcatProperties
<1>4. isSeq(s \o t)
  BY <1>3, AnySeq
<1>5. /\ Len(s \o t) = Len(s) + Len(t)
      /\ \A i \in 1..Len(s) : (s \o t)[i] = s[i]
      /\ \A i \in 1..Len(t) : (s \o t)[Len(s) + i] = t[i]
  BY <1>1, <1>2
<1> QED BY <1>4, <1>5

-----------------------------------------------------------------------------
\* g is a recursion over 1..n that starts with base and steps by F.
Recurs(T, base, n, F, g) ==
    /\ g \in [0..n -> T] /\ g[0] = base
    /\ \A j \in 1..n : g[j] = F[<<g[j - 1], j>>]

\* A recursion whose step is a function has a value for every n.
LEMMA Recursion ==
  ASSUME NEW T, NEW base \in T, NEW n \in Nat, NEW F \in [T \X (1..n) -> T]
  PROVE  \E g : Recurs(T, base, n, F, g)
<1> DEFINE Defined(k, g) == /\ g \in [0..k -> T] /\ g[0] = base
                            /\ \A j \in 1..k : g[j] = F[<<g[j - 1], j>>]
           Bad == {k \in 0..n : ~\E g : Defined(k, g)}
<1>1. SUFFICES ASSUME Bad # {} PROVE FALSE
  <2>1. n \in 0..n
    OBVIOUS
  <2>2. \E g : Defined(n, g)
    BY <1>1, <2>1
  <2> QED BY <2>2 DEF Recurs
<1>2. PICK k \in Bad : \A j \in Bad : k <= j
  <2>1. Bad \in SUBSET Nat
    OBVIOUS
  <2> HIDE DEF Bad
  <2> QED BY <1>1, <2>1, LeastElement
<1>3. k \in 0..n /\ ~\E g : Defined(k, g)
  BY <1>2
<1>4. k # 0
  <2>1. Defined(0, [j \in 0..0 |-> base])
    OBVIOUS
  <2> QED BY <1>3, <2>1
<1>5. k \in 1..n /\ k - 1 \in 0..n /\ ~(k <= k - 1)
  BY <1>3, <1>4
<1>6. k - 1 \notin Bad
  BY <1>2, <1>5
<1>7. PICK g : Defined(k - 1, g)
  BY <1>5, <1>6
<1> HIDE DEF Bad
<1> DEFINE next == F[<<g[k - 1], k>>]
           h == [j \in 0..k |-> IF j = k THEN next ELSE g[j]]
<1>8. next \in T
  <2>1. k - 1 \in 0..(k - 1)
    BY <1>5
  <2>2. g[k - 1] \in T
    BY <1>7, <2>1
  <2> QED BY <2>2, <1>5
<1> HIDE DEF next
<1>9. h \in [0..k -> T]
  <2>1. ASSUME NEW j \in 0..k, j # k PROVE g[j] \in T
    <3>1. j \in 0..(k - 1)
      BY <2>1, <1>5
    <3> QED BY <3>1, <1>7
  <2> QED BY <1>8, <2>1
<1>10. h[0] = base
  BY <1>4, <1>5, <1>7
<1>11. ASSUME NEW j \in 1..k PROVE h[j] = F[<<h[j - 1], j>>]
  <2>1. j - 1 \in 0..(k - 1) /\ j - 1 # k /\ j - 1 \in 0..k /\ j \in 0..k
    BY <1>5
  <2>2. h[j - 1] = g[j - 1]
    BY <2>1
  <2>3. CASE j = k
    BY <2>1, <2>2, <2>3 DEF next
  <2>4. CASE j # k
    <3>1. j \in 1..(k - 1)
      BY <2>4, <1>5
    <3>2. h[j] = g[j]
      BY <2>1, <2>4
    <3> QED BY <2>2, <3>1, <3>2, <1>7
  <2> QED BY <2>3, <2>4
<1>12. Defined(k, h)
  <2> HIDE DEF h
  <2> QED BY <1>9, <1>10, <1>11
<1> QED BY <1>3, <1>12

\* u is t with x after its first k elements, the last of which x is not less than.
InsertedAt(t, x, less, u, k) ==
    /\ k \in 0..Len(t)
    /\ u[k + 1] = x
    /\ \A i \in 1..k : u[i] = t[i]
    /\ \A i \in (k + 1)..Len(t) : u[i + 1] = t[i] /\ <<x, t[i]>> \in less
    /\ k # 0 => <<x, t[k]>> \notin less

\* What insert does: x comes after the last element it is not less than.
LEMMA InsertFacts ==
  ASSUME NEW S, NEW t \in Seq(S), NEW x \in S, NEW less
  PROVE  /\ insert(t, x, less) \in Seq(S) /\ Len(insert(t, x, less)) = Len(t) + 1
         /\ \E k : InsertedAt(t, x, less, insert(t, x, less), k)
<1> DEFINE P == {0} \cup {i \in DOMAIN t : <<x, t[i]>> \notin less}
           k == Max(P)
           a == SubSeq(t, 1, k)
           b == SubSeq(t, k + 1, Len(t))
<1>1. Len(t) \in Nat /\ DOMAIN t = 1..Len(t) /\ isSeq(t)
  BY AnySeq
<1>2. k \in P /\ \A y \in P : y <= k
  <2>1. P \in SUBSET (0..Len(t)) /\ P # {}
    BY <1>1
  <2> HIDE DEF P
  <2> QED BY <1>1, <2>1, GreatestElement
<1>3. k \in 0..Len(t) /\ (k # 0 => <<x, t[k]>> \notin less)
      /\ \A i \in (k + 1)..Len(t) : <<x, t[i]>> \in less
  <2>1. k \in 0..Len(t) /\ (k # 0 => <<x, t[k]>> \notin less)
    BY <1>1, <1>2
  <2>2. ASSUME NEW i \in (k + 1)..Len(t) PROVE <<x, t[i]>> \in less
    <3>1. i \in 1..Len(t) /\ ~(i <= k)
      <4> HIDE DEF k
      <4> QED BY <2>1, <1>1
    <3>2. i \notin P
      <4> HIDE DEF P, k
      <4> QED BY <3>1, <1>2
    <3> QED BY <3>1, <3>2, <1>1
  <2> QED BY <2>1, <2>2
<1>4. insert(t, x, less) = a \o <<x>> \o b
  <2>1. (1 + k) - 1 = k /\ 1 + k = k + 1
    BY <1>3
  <2> QED BY <2>1 DEF insert, InsertAt
<1> HIDE DEF k
<1>5. /\ a \in Seq(S) /\ Len(a) = k /\ \A i \in 1..k : a[i] = t[i]
      /\ b \in Seq(S) /\ Len(b) = Len(t) - k /\ \A i \in 1..(Len(t) - k) : b[i] = t[k + i]
  <2>1. a \in Seq(S) /\ b \in Seq(S)
    BY <1>1, <1>3, SubSeqProperties
  <2>2. Len(a) = k /\ \A i \in 1..k : a[i] = t[i]
    BY <1>1, <1>3
  <2>3. Len(b) = Len(t) - k /\ \A i \in 1..(Len(t) - k) : b[i] = t[k + i]
    <3>1. /\ Len(b) = IF k + 1 <= Len(t) THEN Len(t) - (k + 1) + 1 ELSE 0
          /\ \A i \in 1..Len(b) : b[i] = t[(k + 1) + i - 1]
      BY <1>1, <1>3, PartOfSeq
    <3>2. Len(b) = Len(t) - k
      <4> DEFINE n == Len(t)
      <4>1. n \in Nat /\ k \in 0..n
        BY <1>1, <1>3
      <4>2. Len(b) = IF k + 1 <= n THEN n - (k + 1) + 1 ELSE 0
        BY <3>1
      <4> HIDE DEF n, b
      <4>3. Len(b) = n - k
        BY <4>1, <4>2
      <4> QED BY <4>3 DEF n
    <3>3. \A i \in 1..(Len(t) - k) : (k + 1) + i - 1 = k + i
      BY <1>3
    <3> QED BY <3>1, <3>2, <3>3
  <2> QED BY <2>1, <2>2, <2>3
<1> HIDE DEF a, b
<1> DEFINE c == a \o <<x>>
<1>6. c \in Seq(S) /\ Len(c) = k + 1 /\ c[k + 1] = x /\ \A i \in 1..k : c[i] = t[i]
  <2>1. c = Append(a, x) /\ a \in Seq(S) /\ Len(a) = k
    BY <1>5
  <2>2. c \in Seq(S) /\ Len(c) = Len(a) + 1 /\ c[Len(a) + 1] = x /\ \A i \in 1..Len(a) : c[i] = a[i]
    <3> HIDE DEF c
    <3> QED BY <2>1, AppendProperties
  <2> QED BY <1>5, <2>1, <2>2
<1> HIDE DEF c
<1>7. /\ c \o b \in Seq(S) /\ Len(c \o b) = Len(t) + 1
      /\ \A i \in 1..(k + 1) : (c \o b)[i] = c[i]
      /\ \A i \in (k + 1)..Len(t) : (c \o b)[i + 1] = t[i]
  <2>1. c \o b \in Seq(S) /\ Len(c \o b) = Len(t) + 1
    <3>1. c \o b \in Seq(S) /\ Len(c \o b) = Len(c) + Len(b)
      BY <1>5, <1>6, ConcatProperties
    <3>2. Len(c) + Len(b) = Len(t) + 1
      BY <1>1, <1>3, <1>5, <1>6
    <3> QED BY <3>1, <3>2
  <2>2. \A i \in 1..(Len(t) + 1) : (c \o b)[i] = IF i <= k + 1 THEN c[i] ELSE b[i - (k + 1)]
    BY <1>1, <1>3, <1>5, <1>6, ConcatProperties
  <2>3. ASSUME NEW i \in 1..(k + 1) PROVE (c \o b)[i] = c[i]
    <3>1. i \in 1..(Len(t) + 1) /\ i <= k + 1
      BY <1>1, <1>3
    <3> QED BY <2>2, <3>1
  <2>4. ASSUME NEW i \in (k + 1)..Len(t) PROVE (c \o b)[i + 1] = t[i]
    <3>1. /\ i + 1 \in 1..(Len(t) + 1) /\ ~(i + 1 <= k + 1) /\ (i + 1) - (k + 1) = i - k
          /\ i - k \in 1..(Len(t) - k) /\ k + (i - k) = i
      BY <1>1, <1>3
    <3>2. (c \o b)[i + 1] = b[i - k]
      BY <2>2, <3>1
    <3> QED BY <1>5, <3>1, <3>2
  <2> QED BY <2>1, <2>3, <2>4
<1>8. insert(t, x, less) = c \o b
  BY <1>4 DEF c
<1>9. k + 1 \in 1..(k + 1) /\ \A i \in 1..k : i \in 1..(k + 1)
  BY <1>3
<1>10. InsertedAt(t, x, less, c \o b, k)
  BY <1>3, <1>6, <1>7, <1>9 DEF InsertedAt
<1> QED BY <1>7, <1>8, <1>10

\* stableSort, insertion by insertion.
Insertions(S, s, less, g) ==
    /\ g \in [0..Len(s) -> Seq(S)] /\ stableSort(s, less) = g[Len(s)] /\ g[0] = <<>>
    /\ \A j \in 1..Len(s) : g[j] = insert(g[j - 1], s[j], less)

\* The recursion of stableSort, as the sequence after each insertion.
LEMMA SortSteps ==
  ASSUME NEW S, NEW s \in Seq(S), NEW less
  PROVE  \E g : Insertions(S, s, less, g)
<1> DEFINE n == Len(s)
           T == Seq(S)
           F == [z \in T \X (1..n) |-> insert(z[1], s[z[2]], less)]
           Eq(h) == h = [j \in 0..n |-> IF j = 0 THEN <<>> ELSE insert(h[j - 1], s[j], less)]
<1>1. n \in Nat /\ \A j \in 1..n : s[j] \in S
  OBVIOUS
<1> HIDE DEF n
<1>2. F \in [T \X (1..n) -> T]
  BY <1>1, InsertFacts
<1>3. <<>> \in T
  BY EmptySeq
<1> HIDE DEF T
<1>4. PICK g \in [0..n -> T] : g[0] = <<>> /\ \A j \in 1..n : g[j] = F[<<g[j - 1], j>>]
  <2> HIDE DEF F
  <2>1. \E g : Recurs(T, <<>>, n, F, g)
    BY <1>1, <1>2, <1>3, Recursion, Zenon
  <2> QED BY <2>1 DEF Recurs
<1>5. \A j \in 1..n : j - 1 \in 0..n
  BY <1>1
<1>6. \A j \in 1..n : g[j] = insert(g[j - 1], s[j], less)
  BY <1>4, <1>5
<1>7. Eq(g)
  <2>1. \A j \in 0..n : g[j] = IF j = 0 THEN <<>> ELSE insert(g[j - 1], s[j], less)
    <3>1. \A j \in 0..n : j # 0 => j \in 1..n
      BY <1>1
    <3> QED BY <3>1, <1>4, <1>6
  <2>2. g = [j \in 0..n |-> g[j]]
    BY <1>4
  <2> QED BY <2>1, <2>2
<1> DEFINE G == CHOOSE h : Eq(h)
<1>8. Eq(G)
  <2> HIDE DEF Eq
  <2> QED BY <1>7
<1>9. stableSort(s, less) = G[n]
  BY Zenon DEF stableSort, n
<1> HIDE DEF G
<1>10. G[0] = <<>> /\ \A j \in 1..n : G[j] = insert(G[j - 1], s[j], less)
  BY <1>8, <1>1
<1>11. ASSUME NEW j \in 0..n, G[j] # g[j] PROVE FALSE
  <2> DEFINE Bad == {i \in 0..n : G[i] # g[i]}
  <2>1. Bad \in SUBSET Nat /\ Bad # {}
    BY <1>11
  <2>2. PICK i \in Bad : \A m \in Bad : i <= m
    <3> HIDE DEF Bad
    <3> QED BY <2>1, LeastElement
  <2>3. i \in 1..n /\ i - 1 \in 0..n /\ ~(i <= i - 1)
    BY <2>2, <1>1, <1>4, <1>10
  <2>4. G[i - 1] = g[i - 1]
    BY <2>2, <2>3
  <2>5. G[i] = g[i]
    BY <2>3, <2>4, <1>6, <1>10
  <2> QED BY <2>2, <2>5
<1>12. G[n] = g[n]
  BY <1>1, <1>11
<1> QED BY <1>4, <1>6, <1>9, <1>12 DEF n, T, Insertions

\* p is a permutation of 1..n.
Permutes(p, n) ==
    /\ p \in [1..n -> 1..n]
    /\ \A a, b \in 1..n : p[a] = p[b] => a = b
    /\ \A c \in 1..n : \E a \in 1..n : p[a] = c

\* Insertion extends a permutation.
LEMMA InsertPermutes ==
  ASSUME NEW n \in Nat, NEW p, Permutes(p, n), NEW k \in 0..n
  PROVE  Permutes([i \in 1..(n + 1) |-> IF i <= k THEN p[i] ELSE IF i = k + 1 THEN n + 1 ELSE p[i - 1]], n + 1)
<1> DEFINE r == [i \in 1..(n + 1) |-> IF i <= k THEN p[i] ELSE IF i = k + 1 THEN n + 1 ELSE p[i - 1]]
<1>1. \A i \in 1..n : p[i] \in 1..n
  BY DEF Permutes
<1>2. ASSUME NEW i \in 1..(n + 1)
      PROVE  /\ i <= k => i \in 1..n /\ r[i] = p[i]
             /\ i = k + 1 => r[i] = n + 1
             /\ i > k + 1 => i - 1 \in 1..n /\ r[i] = p[i - 1]
  OBVIOUS
<1> HIDE DEF r
<1>3. r \in [1..(n + 1) -> 1..(n + 1)]
  <2>1. ASSUME NEW i \in 1..(n + 1) PROVE r[i] \in 1..(n + 1)
    <3>1. CASE i <= k
      BY <3>1, <1>1, <1>2
    <3>2. CASE i = k + 1
      BY <3>2, <1>2
    <3>3. CASE i > k + 1
      BY <3>3, <1>1, <1>2
    <3> QED BY <3>1, <3>2, <3>3
  <2>2. r = [i \in 1..(n + 1) |-> r[i]]
    BY DEF r
  <2> QED BY <2>1, <2>2
<1>4. ASSUME NEW a \in 1..(n + 1), NEW b \in 1..(n + 1), r[a] = r[b] PROVE a = b
  <2>1. \A i \in 1..n : p[i] # n + 1
    BY <1>1
  <2>2. \A x, y \in 1..n : p[x] = p[y] => x = y
    BY DEF Permutes
  <2>3. CASE a <= k /\ b <= k
    BY <2>2, <2>3, <1>2, <1>4
  <2>4. CASE a > k + 1 /\ b > k + 1
    <3>1. a - 1 = b - 1
      BY <2>2, <2>4, <1>2, <1>4
    <3> QED BY <3>1
  <2>5. CASE a = k + 1 \/ b = k + 1
    BY <2>1, <2>5, <1>2, <1>4
  <2>6. CASE a <= k /\ b > k + 1
    <3>1. a = b - 1
      BY <2>2, <2>6, <1>2, <1>4
    <3> QED BY <3>1, <2>6
  <2>7. CASE b <= k /\ a > k + 1
    <3>1. b = a - 1
      BY <2>2, <2>7, <1>2, <1>4
    <3> QED BY <3>1, <2>7
  <2> QED BY <2>3, <2>4, <2>5, <2>6, <2>7
<1>5. ASSUME NEW c \in 1..(n + 1) PROVE \E a \in 1..(n + 1) : r[a] = c
  <2>1. CASE c = n + 1
    <3>1. k + 1 \in 1..(n + 1)
      OBVIOUS
    <3> QED BY <2>1, <3>1, <1>2
  <2>2. CASE c # n + 1
    <3>1. PICK a \in 1..n : p[a] = c
      BY <2>2 DEF Permutes
    <3>2. CASE a <= k
      <4>1. a \in 1..(n + 1)
        OBVIOUS
      <4> QED BY <3>1, <3>2, <4>1, <1>2
    <3>3. CASE a > k
      <4>1. a + 1 \in 1..(n + 1) /\ a + 1 > k + 1 /\ (a + 1) - 1 = a
        BY <3>3
      <4> QED BY <3>1, <4>1, <1>2
    <3> QED BY <3>2, <3>3
  <2> QED BY <2>1, <2>2
<1> QED BY <1>3, <1>4, <1>5 DEF Permutes, r

\* A sorted sequence has the elements of the given one, each at a place of its own.
LEMMA SortPermutes ==
  ASSUME NEW S, NEW s \in Seq(S), NEW less
  PROVE  /\ stableSort(s, less) \in Seq(S) /\ Len(stableSort(s, less)) = Len(s)
         /\ \E p : /\ Permutes(p, Len(s))
                   /\ \A i \in 1..Len(s) : stableSort(s, less)[i] = s[p[i]]
<1> DEFINE n == Len(s)
           Good(m, t) == /\ t \in Seq(S) /\ Len(t) = m
                         /\ \E p : Permutes(p, m) /\ \A i \in 1..m : t[i] = s[p[i]]
<1>1. PICK g : /\ g \in [0..n -> Seq(S)] /\ stableSort(s, less) = g[n] /\ g[0] = <<>>
               /\ \A j \in 1..n : g[j] = insert(g[j - 1], s[j], less)
  <2>1. \E g : Insertions(S, s, less, g)
    BY SortSteps, Zenon
  <2> QED BY <2>1 DEF Insertions
<1>2. n \in Nat /\ \A j \in 1..n : s[j] \in S
  OBVIOUS
<1> HIDE DEF n
<1>3. Good(0, g[0])
  <2>1. <<>> \in Seq(S) /\ Len(<<>>) = 0
    BY EmptySeq
  <2>2. Permutes([i \in 1..0 |-> i], 0)
    BY DEF Permutes
  <2>3. \A i \in 1..0 : <<>>[i] = s[[x \in 1..0 |-> x][i]]
    OBVIOUS
  <2> QED BY <1>1, <2>1, <2>2, <2>3
<1>4. ASSUME NEW m \in 0..n, m # n, Good(m, g[m]) PROVE Good(m + 1, g[m + 1])
  <2> DEFINE t == g[m]
             x == s[m + 1]
  <2>1. m + 1 \in 1..n /\ (m + 1) - 1 = m /\ m \in Nat /\ m + 1 \in 0..n
    BY <1>2, <1>4
  <2>2. g[m + 1] = insert(t, x, less) /\ x \in S
    BY <1>1, <1>2, <2>1
  <2>3. t \in Seq(S) /\ Len(t) = m
    BY <1>4
  <2>4. PICK p : Permutes(p, m) /\ \A i \in 1..m : t[i] = s[p[i]]
    BY <1>4
  <2> HIDE DEF t
  <2> DEFINE u == insert(t, x, less)
  <2>5. u \in Seq(S) /\ Len(u) = m + 1 /\ \E k : InsertedAt(t, x, less, u, k)
    <3> HIDE DEF x
    <3> QED BY <2>2, <2>3, InsertFacts
  <2> HIDE DEF u
  <2>6. PICK k : InsertedAt(t, x, less, u, k)
    BY <2>5
  <2>7. /\ k \in 0..m /\ u[k + 1] = x
        /\ \A i \in 1..k : u[i] = t[i]
        /\ \A i \in (k + 1)..m : u[i + 1] = t[i]
    BY <2>3, <2>6 DEF InsertedAt
  <2> DEFINE r == [i \in 1..(m + 1) |-> IF i <= k THEN p[i] ELSE IF i = k + 1 THEN m + 1 ELSE p[i - 1]]
  <2>8. Permutes(r, m + 1)
    BY <2>1, <2>4, <2>7, InsertPermutes
  <2>9. ASSUME NEW i \in 1..(m + 1) PROVE u[i] = s[r[i]]
    <3>1. CASE i <= k
      <4>1. i \in 1..k /\ i \in 1..m
        BY <2>1, <2>7, <3>1
      <4> QED BY <3>1, <4>1, <2>4, <2>7
    <3>2. CASE i = k + 1
      BY <3>2, <2>7
    <3>3. CASE i > k + 1
      <4>1. i - 1 \in (k + 1)..m /\ i - 1 \in 1..m /\ (i - 1) + 1 = i
        BY <2>1, <2>7, <3>3
      <4>2. u[i] = t[i - 1]
        BY <4>1, <2>7
      <4>3. r[i] = p[i - 1]
        BY <2>7, <3>3
      <4> QED BY <4>1, <4>2, <4>3, <2>4
    <3> QED BY <2>7, <3>1, <3>2, <3>3
  <2> HIDE DEF r
  <2> QED BY <2>2, <2>5, <2>8, <2>9 DEF u
<1> HIDE DEF Good
<1>5. Good(n, g[n])
  <2> DEFINE Bad == {m \in 0..n : ~Good(m, g[m])}
  <2>1. SUFFICES ASSUME Bad # {} PROVE FALSE
    <3>1. n \in 0..n
      BY <1>2
    <3>2. n \notin Bad
      BY <2>1
    <3> QED BY <3>1, <3>2
  <2>2. PICK m \in Bad : \A j \in Bad : m <= j
    <3>1. Bad \in SUBSET Nat
      BY <1>2
    <3> HIDE DEF Bad
    <3> QED BY <2>1, <3>1, LeastElement
  <2>3. m \in 0..n /\ m # 0
    BY <2>2, <1>3
  <2>4. m - 1 \in 0..n /\ m - 1 # n /\ ~(m <= m - 1) /\ (m - 1) + 1 = m
    BY <2>3, <1>2
  <2>5. Good(m - 1, g[m - 1])
    BY <2>2, <2>4
  <2> QED BY <2>2, <2>4, <2>5, <1>4
<1> QED BY <1>1, <1>5 DEF Good, n

\* No element of t is less than an earlier one.
Ascending(t, less) == \A i, j \in 1..Len(t) : i < j => <<t[j], t[i]>> \notin less

\* A comparison by which a sort is meaningful: a strict weak order.
Orders(less, S) ==
    /\ \A a, b \in S : <<a, b>> \in less => <<b, a>> \notin less
    /\ \A a, b, c \in S : <<a, b>> \notin less /\ <<b, c>> \notin less => <<a, c>> \notin less

\* Inserting into an ascending sequence leaves it ascending.
LEMMA InsertOrders ==
  ASSUME NEW S, NEW t \in Seq(S), NEW x \in S, NEW less, Orders(less, S), Ascending(t, less)
  PROVE  Ascending(insert(t, x, less), less)
<1> DEFINE u == insert(t, x, less)
           n == Len(t)
<1>1. n \in Nat /\ \A i \in 1..n : t[i] \in S
  OBVIOUS
<1>2. Len(u) = n + 1
  BY InsertFacts
<1>3. PICK k : InsertedAt(t, x, less, u, k)
  BY InsertFacts
<1> HIDE DEF u
<1>4. /\ k \in 0..n /\ u[k + 1] = x
      /\ \A i \in 1..k : u[i] = t[i]
      /\ \A i \in (k + 1)..n : u[i + 1] = t[i] /\ <<x, t[i]>> \in less
      /\ k # 0 => <<x, t[k]>> \notin less
  BY <1>3 DEF InsertedAt
<1>5. \A i, j \in 1..n : i < j => <<t[j], t[i]>> \notin less
  BY DEF Ascending
<1> HIDE DEF n
<1>6. ASSUME NEW i \in (k + 2)..(n + 1)
      PROVE  i - 1 \in 1..n /\ u[i] = t[i - 1] /\ <<x, t[i - 1]>> \in less
  <2>1. i - 1 \in 1..n /\ i - 1 \in (k + 1)..n /\ (i - 1) + 1 = i
    BY <1>1, <1>4
  <2> QED BY <1>4, <2>1
<1>7. ASSUME NEW i \in 1..(n + 1), NEW j \in 1..(n + 1), i < j PROVE <<u[j], u[i]>> \notin less
  <2>1. CASE j <= k
    <3>1. i \in 1..k /\ j \in 1..k /\ i \in 1..n /\ j \in 1..n
      BY <2>1, <1>1, <1>4, <1>7
    <3> QED BY <3>1, <1>4, <1>5, <1>7
  <2>2. CASE j = k + 1
    <3>1. k # 0 /\ i \in 1..k /\ i \in 1..n /\ k \in 1..n
      BY <2>2, <1>1, <1>4, <1>7
    <3>2. u[i] = t[i] /\ u[j] = x /\ <<x, t[k]>> \notin less
      BY <2>2, <3>1, <1>4
    <3>3. CASE i = k
      BY <3>2, <3>3
    <3>4. CASE i # k
      <4>1. <<t[k], t[i]>> \notin less
        BY <3>1, <3>4, <1>5
      <4> QED BY <3>1, <3>2, <4>1, <1>1 DEF Orders
    <3> QED BY <3>3, <3>4
  <2>3. CASE j > k + 1
    <3>1. /\ j \in (k + 2)..(n + 1) /\ j - 1 \in 1..n
          /\ u[j] = t[j - 1] /\ <<x, t[j - 1]>> \in less
      BY <2>3, <1>4, <1>6
    <3>2. CASE i <= k
      <4>1. i \in 1..k /\ i \in 1..n /\ i < j - 1
        BY <2>3, <3>2, <1>1, <1>4
      <4> QED BY <3>1, <4>1, <1>4, <1>5
    <3>3. CASE i = k + 1
      BY <3>1, <3>3, <1>1, <1>4 DEF Orders
    <3>4. CASE i > k + 1
      <4>1. i \in (k + 2)..(n + 1)
        BY <3>4, <1>4
      <4>2. i - 1 \in 1..n /\ u[i] = t[i - 1]
        BY <4>1, <1>6
      <4>3. i - 1 < j - 1
        BY <1>7, <1>1
      <4> QED BY <3>1, <4>2, <4>3, <1>5
    <3> QED BY <3>2, <3>3, <3>4, <1>4
  <2> QED BY <2>1, <2>2, <2>3, <1>4
<1> QED BY <1>2, <1>7 DEF Ascending, u

\* stableSort sorts.
LEMMA SortOrders ==
  ASSUME NEW S, NEW s \in Seq(S), NEW less, Orders(less, S)
  PROVE  Ascending(stableSort(s, less), less)
<1> DEFINE n == Len(s)
<1>1. PICK g : /\ g \in [0..n -> Seq(S)] /\ stableSort(s, less) = g[n] /\ g[0] = <<>>
               /\ \A j \in 1..n : g[j] = insert(g[j - 1], s[j], less)
  <2>1. \E g : Insertions(S, s, less, g)
    BY SortSteps, Zenon
  <2> QED BY <2>1 DEF Insertions
<1>2. n \in Nat /\ \A j \in 1..n : s[j] \in S
  OBVIOUS
<1> HIDE DEF n
<1> DEFINE Bad == {m \in 0..n : ~Ascending(g[m], less)}
<1>3. SUFFICES ASSUME Bad # {} PROVE FALSE
  <2>1. n \in 0..n
    BY <1>2
  <2>2. n \notin Bad
    BY <1>3
  <2> QED BY <2>1, <2>2, <1>1
<1>4. PICK m \in Bad : \A j \in Bad : m <= j
  <2>1. Bad \in SUBSET Nat
    BY <1>2
  <2> HIDE DEF Bad
  <2> QED BY <1>3, <2>1, LeastElement
<1>5. m # 0
  <2>1. Ascending(<<>>, less)
    <3>1. Len(<<>>) = 0
      BY EmptySeq
    <3> QED BY <3>1 DEF Ascending
  <2> QED BY <2>1, <1>1, <1>4
<1>6. m \in 1..n /\ m - 1 \in 0..n /\ ~(m <= m - 1)
  BY <1>2, <1>4, <1>5
<1>7. Ascending(g[m - 1], less)
  BY <1>4, <1>6
<1>8. g[m] = insert(g[m - 1], s[m], less) /\ g[m - 1] \in Seq(S) /\ s[m] \in S
  BY <1>1, <1>2, <1>6
<1>9. Ascending(g[m], less)
  <2> DEFINE t == g[m - 1]
             x == s[m]
  <2>1. Ascending(t, less) /\ t \in Seq(S) /\ x \in S /\ g[m] = insert(t, x, less)
    BY <1>7, <1>8
  <2> HIDE DEF t, x
  <2> QED BY <2>1, InsertOrders
<1> QED BY <1>4, <1>9

-----------------------------------------------------------------------------
\* only, element by element.
Kept(s, keep, t, x) == IF x \in keep THEN Append(t, x) ELSE t
Keepings(S, s, keep, g) ==
    /\ g \in [0..Len(s) -> Seq(S)] /\ only(s, keep) = g[Len(s)] /\ g[0] = <<>>
    /\ \A j \in 1..Len(s) : g[j] = Kept(s, keep, g[j - 1], s[j])

\* The recursion of only, as what is kept of each beginning.
LEMMA OnlySteps ==
  ASSUME NEW S, NEW s \in Seq(S), NEW keep
  PROVE  \E g : Keepings(S, s, keep, g)
<1> DEFINE n == Len(s)
           T == Seq(S)
           F == [z \in T \X (1..n) |-> Kept(s, keep, z[1], s[z[2]])]
           Eq(h) == h = [j \in 0..n |-> IF j = 0 THEN <<>>
                                        ELSE IF s[j] \in keep THEN Append(h[j - 1], s[j]) ELSE h[j - 1]]
<1>1. n \in Nat /\ \A j \in 1..n : s[j] \in S
  OBVIOUS
<1> HIDE DEF n
<1>2. F \in [T \X (1..n) -> T]
  <2>1. ASSUME NEW t \in T, NEW j \in 1..n PROVE Kept(s, keep, t, s[j]) \in T
    BY <1>1 DEF Kept
  <2> QED BY <2>1
<1>3. <<>> \in T
  BY EmptySeq
<1> HIDE DEF T
<1>4. PICK g \in [0..n -> T] : g[0] = <<>> /\ \A j \in 1..n : g[j] = F[<<g[j - 1], j>>]
  <2> HIDE DEF F
  <2>1. \E g : Recurs(T, <<>>, n, F, g)
    BY <1>1, <1>2, <1>3, Recursion, Zenon
  <2> QED BY <2>1 DEF Recurs
<1>5. \A j \in 1..n : j - 1 \in 0..n
  BY <1>1
<1>6. \A j \in 1..n : g[j] = Kept(s, keep, g[j - 1], s[j])
  BY <1>4, <1>5
<1>7. Eq(g)
  <2>1. \A j \in 0..n : g[j] = IF j = 0 THEN <<>>
                               ELSE IF s[j] \in keep THEN Append(g[j - 1], s[j]) ELSE g[j - 1]
    <3>1. \A j \in 0..n : j # 0 => j \in 1..n
      BY <1>1
    <3> QED BY <3>1, <1>4, <1>6 DEF Kept
  <2>2. g = [j \in 0..n |-> g[j]]
    BY <1>4
  <2> QED BY <2>1, <2>2
<1> DEFINE G == CHOOSE h : Eq(h)
<1>8. Eq(G)
  <2> HIDE DEF Eq
  <2> QED BY <1>7
<1>9. only(s, keep) = G[n]
  BY Zenon DEF only, n
<1> HIDE DEF G
<1>10. G[0] = <<>> /\ \A j \in 1..n : G[j] = Kept(s, keep, G[j - 1], s[j])
  <2>1. \A j \in 0..n : G[j] = IF j = 0 THEN <<>>
                               ELSE IF s[j] \in keep THEN Append(G[j - 1], s[j]) ELSE G[j - 1]
    BY <1>8
  <2>2. 0 \in 0..n /\ \A j \in 1..n : j \in 0..n /\ j # 0
    BY <1>1
  <2> QED BY <2>1, <2>2 DEF Kept
<1>11. ASSUME NEW j \in 0..n, G[j] # g[j] PROVE FALSE
  <2> DEFINE Bad == {i \in 0..n : G[i] # g[i]}
  <2>1. Bad \in SUBSET Nat /\ Bad # {}
    BY <1>11
  <2>2. PICK i \in Bad : \A m \in Bad : i <= m
    <3> HIDE DEF Bad
    <3> QED BY <2>1, LeastElement
  <2>3. i \in 1..n /\ i - 1 \in 0..n /\ ~(i <= i - 1)
    BY <2>2, <1>1, <1>4, <1>10
  <2>4. G[i - 1] = g[i - 1]
    BY <2>2, <2>3
  <2>5. G[i] = g[i]
    BY <2>3, <2>4, <1>6, <1>10
  <2> QED BY <2>2, <2>5
<1>12. G[n] = g[n]
  BY <1>1, <1>11
<1> QED BY <1>4, <1>6, <1>9, <1>12 DEF n, T, Keepings

\* What a filter keeps stays a sequence of the same things.
LEMMA OnlyIsSeq ==
  ASSUME NEW S, NEW s \in Seq(S), NEW keep
  PROVE  only(s, keep) \in Seq(S)
<1>1. PICK g : Keepings(S, s, keep, g)
  BY OnlySteps, Zenon
<1>2. Len(s) \in 0..Len(s)
  OBVIOUS
<1> QED BY <1>1, <1>2 DEF Keepings

-----------------------------------------------------------------------------
(***************************************************************************)
(* The session: what is stored, what was answered and what was read.       *)
(***************************************************************************)
Holds(c, id, row) == row \in Universe /\ row.key.coll = c /\ keyID(row.key) = id
StoreInv ==
    /\ DOMAIN stored = Collections
    /\ \A c \in Collections : /\ IsFiniteSet(DOMAIN stored[c])
                              /\ \A id \in DOMAIN stored[c] : Holds(c, id, stored[c][id])
    /\ \A p \in DOMAIN written : written[p] \in Universe /\ printed(written[p].key) = p

\* The answer is that of the query on the rows that are stored: nothing is
\* written while a result is being looked at.
AnswerOf(q, how, rowsOf) ==
    answer = [q |-> q, how |-> how, err |-> ExecuteQuery(q, rowsOf).err,
              records |-> ExecuteQuery(q, rowsOf).records,
              unpaged |-> ExecuteQuery(withoutPage(q), rowsOf).records,
              pivot |-> IF how = "recordset" /\ ExecuteQuery(q, rowsOf).err = "none"
                        THEN buildRecordset(q, ExecuteQuery(q, rowsOf).records) ELSE <<>>]
AnswerInv ==
    \/ answer = NoAnswer
    \/ \E q \in Queries, indexed \in BOOLEAN, how \in {"records", "recordset"} : \E rowsOf \in Inputs(q, indexed) :
          (indexed => q.joins = <<>> /\ indexable(q.where)) /\ AnswerOf(q, how, rowsOf)

\* The reader holds the answer until it is closed, and what was read of it so far
\* is its beginning.
ReadSoFar ==
    /\ isSeq(got.records)
    /\ Len(got.records) = IF reader.current + 1 <= Len(answer.records)
                          THEN reader.current + 1 ELSE Len(answer.records)
    /\ \A i \in 1..Len(got.records) : got.records[i] = answer.records[i]
ReaderInv ==
    /\ reader = [records |-> reader.records, current |-> reader.current, open |-> reader.open]
    /\ got = [how |-> got.how, records |-> got.records, options |-> got.options, err |-> got.err,
              cursor |-> got.cursor]
    /\ reader.current \in Int /\ reader.current >= -1
    /\ reader.open => answer.how = "records" /\ answer.err = "none" /\ reader.records = answer.records
    /\ ~reader.open /\ answer.err = "none" => reader.records = <<>>
    /\ answer.how # "records" => reader = NoReader
    /\ answer = NoAnswer => got = NothingRead
    /\ got.how = "none" => got.records = <<>> /\ reader.current = -1
    /\ got.how = "next" => ReadSoFar
    /\ got.how \in {"none", "next"} /\ got.cursor = "position" =>
          0 <= reader.current /\ reader.current + 1 <= Len(answer.records)

\* A write binds its own id in its own collection, and leaves the rest.
LEMMA SetStores ==
  ASSUME StoreInv, NEW row \in Universe, Set(row)
  PROVE  /\ row.key.coll \in Collections /\ DOMAIN stored' = Collections
         /\ \A c \in Collections : stored'[c] = IF c = row.key.coll THEN Bind(stored[c], keyID(row.key), row)
                                                                   ELSE stored[c]
         /\ written' = Bind(written, printed(row.key), row)
<1>1. row.key.coll \in Collections
  BY QueryAssumption
<1>2. /\ stored' = [stored EXCEPT ![row.key.coll] = Bind(stored[row.key.coll], keyID(row.key), row)]
      /\ written' = Bind(written, printed(row.key), row)
  BY DEF Set
<1>3. DOMAIN stored = Collections
  BY DEF StoreInv
<1> QED BY <1>1, <1>2, <1>3

\* A deletion unbinds its own id in its own collection, and leaves the rest.
LEMMA DeleteStores ==
  ASSUME StoreInv, NEW row \in Universe, Delete(row.key)
  PROVE  /\ row.key.coll \in Collections /\ DOMAIN stored' = Collections
         /\ \A c \in Collections : stored'[c] = IF c = row.key.coll THEN Unbind(stored[c], keyID(row.key))
                                                                   ELSE stored[c]
         /\ written' = Unbind(written, printed(row.key))
<1>1. row.key.coll \in Collections
  BY QueryAssumption
<1>2. /\ stored' = [stored EXCEPT ![row.key.coll] = Unbind(stored[row.key.coll], keyID(row.key))]
      /\ written' = Unbind(written, printed(row.key))
  BY DEF Delete
<1>3. DOMAIN stored = Collections
  BY DEF StoreInv
<1> QED BY <1>1, <1>2, <1>3

\* Every step but a write and a deletion leaves what is stored and written alone.
LEMMA OthersLeave ==
  ASSUME [Next]_vars, ~\E row \in Universe : Set(row), ~\E row \in Universe : Delete(row.key)
  PROVE  UNCHANGED <<stored, written>>
<1>1. CASE Query
  BY <1>1 DEF Query, ExecuteQueryToRecordsReader
<1>2. CASE QueryRecordset
  BY <1>2 DEF QueryRecordset, ExecuteQueryToRecordsetReader
<1>3. CASE Next_ \/ Close \/ Cursor \/ Forget
  BY <1>3 DEF Next_, Close, Cursor, Forget
<1>4. ASSUME NEW o, NEW stop, NEW done, NEW fails, SelectAll(o, stop, done, fails) \/ ReadAllToRecordset(o, stop, done)
      PROVE  UNCHANGED <<stored, written>>
  BY <1>4 DEF SelectAll, ReadAllToRecordset
<1>5. CASE UNCHANGED vars
  BY <1>5 DEF vars
<1> QED BY <1>1, <1>2, <1>3, <1>4, <1>5, Zenon DEF Next

\* The store holds records of the universe under the ids of their keys.
LEMMA StoreInvInit == Init => StoreInv
<1> SUFFICES ASSUME Init PROVE StoreInv
  OBVIOUS
<1>1. DOMAIN stored = Collections /\ \A c \in Collections : DOMAIN stored[c] = {}
  BY DEF Init
<1>2. DOMAIN written = {}
  BY DEF Init
<1>3. IsFiniteSet({})
  BY FS_EmptySet
<1> QED BY <1>1, <1>2, <1>3 DEF StoreInv

\* Every step keeps records under the ids of their keys.
LEMMA StoreInvStep == StoreInv /\ [Next]_vars => StoreInv'
<1> SUFFICES ASSUME StoreInv, [Next]_vars PROVE StoreInv'
  OBVIOUS
<1>1. \A c \in Collections : /\ IsFiniteSet(DOMAIN stored[c])
                              /\ \A id \in DOMAIN stored[c] : Holds(c, id, stored[c][id])
  BY DEF StoreInv
<1>2. \A p \in DOMAIN written : written[p] \in Universe /\ printed(written[p].key) = p
  BY DEF StoreInv
<1>3. ASSUME NEW row \in Universe, Set(row) PROVE StoreInv'
  <2>1. /\ row.key.coll \in Collections /\ DOMAIN stored' = Collections
        /\ \A c \in Collections : stored'[c] = IF c = row.key.coll THEN Bind(stored[c], keyID(row.key), row)
                                                                  ELSE stored[c]
        /\ written' = Bind(written, printed(row.key), row)
    BY <1>3, SetStores
  <2>2. ASSUME NEW c \in Collections PROVE IsFiniteSet(DOMAIN stored'[c])
    <3>1. CASE c = row.key.coll
      <4>1. DOMAIN stored'[c] = DOMAIN stored[c] \cup {keyID(row.key)}
        BY <2>1, <3>1 DEF Bind
      <4> QED BY <4>1, <1>1, FS_AddElement
    <3>2. CASE c # row.key.coll
      BY <3>2, <2>1, <1>1
    <3> QED BY <3>1, <3>2
  <2>3. ASSUME NEW c \in Collections, NEW id \in DOMAIN stored'[c] PROVE Holds(c, id, stored'[c][id])
    <3>1. CASE c = row.key.coll /\ id = keyID(row.key)
      <4>1. stored'[c][id] = row
        BY <2>1, <3>1 DEF Bind
      <4> QED BY <4>1, <3>1 DEF Holds
    <3>2. CASE ~(c = row.key.coll /\ id = keyID(row.key))
      <4>1. id \in DOMAIN stored[c] /\ stored'[c][id] = stored[c][id]
        <5>1. CASE c # row.key.coll
          BY <2>1, <5>1
        <5>2. CASE c = row.key.coll
          <6>1. stored'[c] = Bind(stored[c], keyID(row.key), row) /\ id # keyID(row.key)
            BY <2>1, <3>2, <5>2
          <6>2. id \in DOMAIN Bind(stored[c], keyID(row.key), row)
            BY <6>1
          <6> QED BY <6>1, <6>2 DEF Bind
        <5> QED BY <5>1, <5>2
      <4> QED BY <4>1, <1>1
    <3> QED BY <3>1, <3>2
  <2>4. \A p \in DOMAIN written' : written'[p] \in Universe /\ printed(written'[p].key) = p
    BY <2>1, <1>2, <1>3 DEF Bind
  <2> QED BY <2>1, <2>2, <2>3, <2>4 DEF StoreInv, Holds, printed
<1>4. ASSUME NEW row \in Universe, Delete(row.key) PROVE StoreInv'
  <2>1. /\ row.key.coll \in Collections /\ DOMAIN stored' = Collections
        /\ \A c \in Collections : stored'[c] = IF c = row.key.coll THEN Unbind(stored[c], keyID(row.key))
                                                                  ELSE stored[c]
        /\ written' = Unbind(written, printed(row.key))
    BY <1>4, DeleteStores
  <2>2. ASSUME NEW c \in Collections PROVE IsFiniteSet(DOMAIN stored'[c])
    <3>1. DOMAIN stored'[c] \in SUBSET DOMAIN stored[c]
      BY <2>1 DEF Unbind
    <3> QED BY <3>1, <1>1, FS_Subset
  <2>3. ASSUME NEW c \in Collections, NEW id \in DOMAIN stored'[c] PROVE Holds(c, id, stored'[c][id])
    <3>1. id \in DOMAIN stored[c] /\ stored'[c][id] = stored[c][id]
      BY <2>1 DEF Unbind
    <3> QED BY <3>1, <1>1
  <2>4. \A p \in DOMAIN written' : written'[p] \in Universe /\ printed(written'[p].key) = p
    BY <2>1, <1>2 DEF Unbind
  <2> QED BY <2>1, <2>2, <2>3, <2>4 DEF StoreInv, Holds, printed
<1>5. CASE UNCHANGED <<stored, written>>
  BY <1>5 DEF StoreInv, Holds, printed
<1> QED BY <1>3, <1>4, <1>5, OthersLeave

-----------------------------------------------------------------------------
\* A path ends in the id, after the parent and the collection.
LEMMA PathFacts ==
  ASSUME NEW p \in Seq(Int), NEW n \in Int, NEW x \in Seq(Int), Len(x) = 1
  PROVE  /\ Len(p \o <<n>> \o x) = Len(p) + 2
         /\ \A i \in 1..Len(p) : (p \o <<n>> \o x)[i] = p[i]
         /\ (p \o <<n>> \o x)[Len(p) + 2] = x[1]
<1> DEFINE a == p \o <<n>>
<1>1. a \in Seq(Int) /\ Len(a) = Len(p) + 1 /\ \A i \in 1..Len(p) : a[i] = p[i]
  OBVIOUS
<1> HIDE DEF a
<1>2. Len(a \o x) = Len(p) + 2 /\ (a \o x)[Len(p) + 2] = x[1] /\ \A i \in 1..Len(a) : (a \o x)[i] = a[i]
  <2>1. /\ Len(a \o x) = Len(a) + Len(x)
        /\ \A i \in 1..Len(a) : (a \o x)[i] = a[i]
        /\ \A i \in 1..Len(x) : (a \o x)[Len(a) + i] = x[i]
    <3>1. isSeq(a) /\ isSeq(x)
      BY <1>1, AnySeq
    <3> QED BY <3>1, ConcatIsSeq
  <2>2. 1 \in 1..Len(x) /\ Len(a) + 1 = Len(p) + 2 /\ Len(a) + Len(x) = Len(p) + 2
    BY <1>1
  <2> QED BY <2>1, <2>2
<1>3. \A i \in 1..Len(p) : i \in 1..Len(a)
  BY <1>1
<1> QED BY <1>1, <1>2, <1>3 DEF a

\* The ids under which an engine knows the records of a collection tell apart
\* keys that print differently.
LEMMA KeyIDsTell ==
  ASSUME OneSegmentIDs, NEW r \in Universe, NEW s \in Universe,
         r.key.coll = s.key.coll, keyID(r.key) = keyID(s.key)
  PROVE  printed(r.key) = printed(s.key)
<1> DEFINE p == r.key.parent
           q == s.key.parent
           x == Sprint(r.key.id)
           y == Sprint(s.key.id)
           n == NameText[r.key.coll]
<1>1. /\ p \in Seq(Int) /\ q \in Seq(Int) /\ x \in Seq(Int) /\ y \in Seq(Int)
      /\ Len(x) = 1 /\ Len(y) = 1 /\ n \in Int
  BY QueryAssumption DEF OneSegmentIDs
<1>2. /\ keyID(r.key) = IF p = <<>> THEN x ELSE p \o <<n>> \o x
      /\ keyID(s.key) = IF q = <<>> THEN y ELSE q \o <<n>> \o y
  BY DEF keyID, keyPath
<1>3. printed(r.key) = <<p, r.key.coll, x>> /\ printed(s.key) = <<q, s.key.coll, y>>
  BY DEF printed
<1> HIDE DEF p, q, x, y, n
<1>4. p = q /\ x = y
  <2> DEFINE a == p \o <<n>> \o x
             b == q \o <<n>> \o y
  <2>1. Len(a) = Len(p) + 2 /\ (\A i \in 1..Len(p) : a[i] = p[i]) /\ a[Len(p) + 2] = x[1]
    BY <1>1, PathFacts
  <2>2. Len(b) = Len(q) + 2 /\ (\A i \in 1..Len(q) : b[i] = q[i]) /\ b[Len(q) + 2] = y[1]
    BY <1>1, PathFacts
  <2>3. keyID(r.key) = (IF p = <<>> THEN x ELSE a) /\ keyID(s.key) = IF q = <<>> THEN y ELSE b
    BY <1>2
  <2> HIDE DEF a, b
  <2>4. Len(p) \in Nat /\ Len(q) \in Nat
    BY <1>1
  <2>5. CASE p = <<>> /\ q = <<>>
    BY <2>3, <2>5
  <2>6. CASE p = <<>> /\ q # <<>>
    <3>1. Len(x) = Len(b)
      BY <2>3, <2>6
    <3>2. 1 = Len(q) + 2
      BY <3>1, <2>2, <1>1
    <3>3. FALSE
      BY <3>2, <2>4
    <3> QED BY <3>3
  <2>7. CASE p # <<>> /\ q = <<>>
    <3>1. Len(y) = Len(a)
      BY <2>3, <2>7
    <3>2. 1 = Len(p) + 2
      BY <3>1, <2>1, <1>1
    <3>3. FALSE
      BY <3>2, <2>4
    <3> QED BY <3>3
  <2>8. CASE p # <<>> /\ q # <<>>
    <3>1. a = b
      BY <2>3, <2>8
    <3>2. Len(p) = Len(q)
      BY <3>1, <2>1, <2>2, <2>4
    <3>3. p = q
      <4>1. \A i \in 1..Len(p) : p[i] = q[i]
        BY <3>1, <3>2, <2>1, <2>2
      <4> QED BY <4>1, <3>2, <1>1, SeqEqual
    <3>4. x[1] = y[1]
      BY <3>1, <3>2, <2>1, <2>2
    <3>5. x = y
      <4>1. \A i \in 1..Len(x) : x[i] = y[i]
        BY <1>1, <3>4
      <4> QED BY <4>1, <1>1, SeqEqual
    <3> QED BY <3>3, <3>5
  <2> QED BY <2>5, <2>6, <2>7, <2>8
<1> QED BY <1>3, <1>4

\* Keys that print alike are of one collection and have one id in its engine.
LEMMA PrintedIDs ==
  ASSUME NEW k, NEW m, printed(k) = printed(m)
  PROVE  k.coll = m.coll /\ keyID(k) = keyID(m)
<1>1. k.parent = m.parent /\ k.coll = m.coll /\ Sprint(k.id) = Sprint(m.id)
  BY DEF printed
<1> QED BY <1>1 DEF keyID, keyPath

\* A write or a deletion under one path leaves the record of every other.
LEMMA KeysSeparateStep ==
  ASSUME OneSegmentIDs, StoreInv, KeysSeparate, [Next]_vars
  PROVE  KeysSeparate'
<1> DEFINE InPlace(p) == /\ keyID(written[p].key) \in DOMAIN stored[written[p].key.coll]
                         /\ stored[written[p].key.coll][keyID(written[p].key)] = written[p]
           InPlaceNext(p) == /\ printed(written'[p].key) = p
                             /\ keyID(written'[p].key) \in DOMAIN stored'[written'[p].key.coll]
                             /\ stored'[written'[p].key.coll][keyID(written'[p].key)] = written'[p]
           Known(r) == printed(r.key) \in DOMAIN written /\ written[printed(r.key)] = r
           KnownNext(r) == printed(r.key) \in DOMAIN written' /\ written'[printed(r.key)] = r
<1>1. \A p \in DOMAIN written : written[p] \in Universe /\ printed(written[p].key) = p
  BY DEF StoreInv
<1>2. \A p \in DOMAIN written : InPlace(p)
  BY Zenon DEF KeysSeparate
<1>3. \A c \in Collections : \A id \in DOMAIN stored[c] : Known(stored[c][id]) /\ Holds(c, id, stored[c][id])
  BY DEF KeysSeparate, StoreInv
<1>4. \A r \in Universe : r.key.coll \in Collections
  BY QueryAssumption
<1>5. ASSUME \A p \in DOMAIN written' : InPlaceNext(p),
             \A c \in Collections : \A id \in DOMAIN stored'[c] : KnownNext(stored'[c][id])
      PROVE  KeysSeparate'
  BY <1>5, Zenon DEF KeysSeparate, keyID, keyPath, printed
<1>6. ASSUME NEW row \in Universe, Set(row) PROVE KeysSeparate'
  <2>1. /\ row.key.coll \in Collections
        /\ \A c \in Collections : stored'[c] = IF c = row.key.coll THEN Bind(stored[c], keyID(row.key), row)
                                                                  ELSE stored[c]
        /\ written' = Bind(written, printed(row.key), row)
    BY <1>6, SetStores
  <2>2. ASSUME NEW p \in DOMAIN written' PROVE InPlaceNext(p)
    <3>1. CASE p = printed(row.key)
      <4>1. written'[p] = row /\ stored'[row.key.coll] = Bind(stored[row.key.coll], keyID(row.key), row)
        BY <3>1, <2>1 DEF Bind
      <4>2. keyID(row.key) \in DOMAIN stored'[row.key.coll] /\ stored'[row.key.coll][keyID(row.key)] = row
        BY <4>1 DEF Bind
      <4> QED BY <4>1, <4>2, <3>1
    <3>2. CASE p # printed(row.key)
      <4>1. p \in DOMAIN written /\ written'[p] = written[p]
        BY <3>2, <2>1, <2>2 DEF Bind
      <4>2. PICK o \in Universe : o = written[p] /\ printed(o.key) = p
        BY <4>1, <1>1
      <4>3. o.key.coll \in Collections
        BY <4>2, <1>4
      <4>4. o.key.coll = row.key.coll => keyID(o.key) # keyID(row.key)
        BY <4>2, <3>2, <1>6, KeyIDsTell
      <4>5. keyID(o.key) \in DOMAIN stored[o.key.coll] /\ stored[o.key.coll][keyID(o.key)] = o
        BY <4>1, <4>2, <1>2
      <4>6. keyID(o.key) \in DOMAIN stored'[o.key.coll] /\ stored'[o.key.coll][keyID(o.key)] = o
        BY <4>3, <4>4, <4>5, <2>1 DEF Bind
      <4> QED BY <4>1, <4>2, <4>6
    <3> QED BY <3>1, <3>2
  <2>3. ASSUME NEW c \in Collections, NEW id \in DOMAIN stored'[c] PROVE KnownNext(stored'[c][id])
    <3>1. CASE c = row.key.coll /\ id = keyID(row.key)
      <4>1. stored'[c][id] = row
        BY <2>1, <3>1 DEF Bind
      <4> QED BY <4>1, <2>1 DEF Bind
    <3>2. CASE ~(c = row.key.coll /\ id = keyID(row.key))
      <4>1. id \in DOMAIN stored[c] /\ stored'[c][id] = stored[c][id]
        <5>1. CASE c # row.key.coll
          BY <2>1, <5>1
        <5>2. CASE c = row.key.coll
          <6>1. stored'[c] = Bind(stored[c], keyID(row.key), row) /\ id # keyID(row.key)
            BY <2>1, <3>2, <5>2
          <6>2. id \in DOMAIN Bind(stored[c], keyID(row.key), row)
            BY <6>1
          <6> QED BY <6>1, <6>2 DEF Bind
        <5> QED BY <5>1, <5>2
      <4> DEFINE r == stored[c][id]
      <4>2. Known(r) /\ r.key.coll = c /\ keyID(r.key) = id
        BY <4>1, <1>3 DEF Holds
      <4> HIDE DEF r
      <4>3. printed(r.key) # printed(row.key)
        BY <4>2, <3>2, PrintedIDs
      <4>4. KnownNext(r)
        BY <4>2, <4>3, <2>1 DEF Bind
      <4> QED BY <4>1, <4>4 DEF r
    <3> QED BY <3>1, <3>2
  <2> HIDE DEF InPlaceNext, KnownNext
  <2> QED BY <2>2, <2>3, <1>5
<1>7. ASSUME NEW row \in Universe, Delete(row.key) PROVE KeysSeparate'
  <2>1. /\ row.key.coll \in Collections
        /\ \A c \in Collections : stored'[c] = IF c = row.key.coll THEN Unbind(stored[c], keyID(row.key))
                                                                  ELSE stored[c]
        /\ written' = Unbind(written, printed(row.key))
    BY <1>7, DeleteStores
  <2>2. ASSUME NEW p \in DOMAIN written' PROVE InPlaceNext(p)
    <3>1. p \in DOMAIN written /\ written'[p] = written[p] /\ p # printed(row.key)
      BY <2>1, <2>2 DEF Unbind
    <3>2. PICK o \in Universe : o = written[p] /\ printed(o.key) = p
      BY <3>1, <1>1
    <3>3. o.key.coll \in Collections
      BY <3>2, <1>4
    <3>4. o.key.coll = row.key.coll => keyID(o.key) # keyID(row.key)
      BY <3>1, <3>2, <1>7, KeyIDsTell
    <3>5. keyID(o.key) \in DOMAIN stored[o.key.coll] /\ stored[o.key.coll][keyID(o.key)] = o
      BY <3>1, <3>2, <1>2
    <3>6. keyID(o.key) \in DOMAIN stored'[o.key.coll] /\ stored'[o.key.coll][keyID(o.key)] = o
      BY <3>3, <3>4, <3>5, <2>1 DEF Unbind
    <3> QED BY <3>1, <3>2, <3>6
  <2>3. ASSUME NEW c \in Collections, NEW id \in DOMAIN stored'[c] PROVE KnownNext(stored'[c][id])
    <3>1. id \in DOMAIN stored[c] /\ stored'[c][id] = stored[c][id] /\ ~(c = row.key.coll /\ id = keyID(row.key))
      BY <2>1 DEF Unbind
    <3> DEFINE r == stored[c][id]
    <3>2. Known(r) /\ r.key.coll = c /\ keyID(r.key) = id
      BY <3>1, <1>3 DEF Holds
    <3> HIDE DEF r
    <3>3. printed(r.key) # printed(row.key)
      BY <3>1, <3>2, PrintedIDs
    <3>4. KnownNext(r)
      BY <3>2, <3>3, <2>1 DEF Unbind
    <3> QED BY <3>1, <3>4 DEF r
  <2> HIDE DEF InPlaceNext, KnownNext
  <2> QED BY <2>2, <2>3, <1>5
<1>8. CASE UNCHANGED <<stored, written>>
  BY <1>8 DEF KeysSeparate, keyID, keyPath, printed, Sprint
<1> QED BY <1>6, <1>7, <1>8, OthersLeave

-----------------------------------------------------------------------------
\* A function on the positions of a sequence is a sequence of its length.
LEMMA SameLength ==
  ASSUME NEW s, isSeq(s), NEW f, f = [i \in DOMAIN s |-> f[i]]
  PROVE  isSeq(f) /\ Len(f) = Len(s) /\ DOMAIN f = DOMAIN s
<1>1. Len(s) \in Nat /\ DOMAIN s = 1..Len(s)
  BY SeqIsFcn
<1>2. f = [i \in 1..Len(s) |-> f[i]]
  BY <1>1
<1> QED BY <1>1, <1>2, FcnIsSeq

\* LIMIT: the first elements.
LEMMA CutFacts ==
  ASSUME NEW s, isSeq(s), NEW limit \in Int
  PROVE  /\ isSeq(cut(s, limit))
         /\ Len(cut(s, limit)) = IF limit > 0 /\ limit < Len(s) THEN limit ELSE Len(s)
         /\ \A i \in 1..Len(cut(s, limit)) : cut(s, limit)[i] = s[i]
<1>1. Len(s) \in Nat
  BY SeqIsFcn
<1>2. CASE limit > 0 /\ limit < Len(s)
  <2>1. cut(s, limit) = SubSeq(s, 1, limit)
    BY <1>2 DEF cut
  <2>2. /\ isSeq(SubSeq(s, 1, limit))
        /\ Len(SubSeq(s, 1, limit)) = IF 1 <= limit THEN limit - 1 + 1 ELSE 0
        /\ \A i \in 1..Len(SubSeq(s, 1, limit)) : SubSeq(s, 1, limit)[i] = s[1 + i - 1]
    BY <1>1, <1>2, PartOfSeq
  <2>3. Len(SubSeq(s, 1, limit)) = limit
    BY <2>2, <1>2
  <2>4. \A i \in 1..limit : 1 + i - 1 = i
    OBVIOUS
  <2>5. \A i \in 1..limit : SubSeq(s, 1, limit)[i] = s[i]
    BY <2>2, <2>3, <2>4
  <2> QED BY <1>2, <2>1, <2>2, <2>3, <2>5
<1>3. CASE ~(limit > 0 /\ limit < Len(s))
  BY <1>3 DEF cut
<1> QED BY <1>2, <1>3

\* OFFSET then LIMIT: the elements from one position to another.
from_(offset) == IF offset > 0 THEN offset ELSE 0
to_(s, offset, limit) == IF limit > 0 THEN from_(offset) + limit ELSE Len(s)
last_(s, offset, limit) == IF to_(s, offset, limit) < Len(s) THEN to_(s, offset, limit) ELSE Len(s)

\* A page has the elements behind its offset, as many as its limit admits.
LEMMA PageFacts ==
  ASSUME NEW s, isSeq(s), NEW offset \in Int, NEW limit \in Int
  PROVE  /\ isSeq(page(s, offset, limit))
         /\ Len(page(s, offset, limit))
            = IF from_(offset) < last_(s, offset, limit) THEN last_(s, offset, limit) - from_(offset) ELSE 0
         /\ \A i \in 1..Len(page(s, offset, limit)) : page(s, offset, limit)[i] = s[from_(offset) + i]
<1> DEFINE n == Len(s)
           o == from_(offset)
           c == IF offset > 0 THEN SubSeq(s, offset + 1, Len(s)) ELSE s
           p == page(s, offset, limit)
<1>1. n \in Nat /\ o \in Nat
  BY SeqIsFcn DEF from_
<1>2. /\ isSeq(c) /\ Len(c) = IF o < n THEN n - o ELSE 0
      /\ \A i \in 1..Len(c) : c[i] = s[o + i]
  <2>1. CASE offset > 0
    <3>1. o = offset /\ c = SubSeq(s, offset + 1, Len(s))
      BY <2>1 DEF from_
    <3>2. /\ isSeq(SubSeq(s, offset + 1, Len(s)))
          /\ Len(SubSeq(s, offset + 1, Len(s))) = IF offset + 1 <= Len(s) THEN Len(s) - (offset + 1) + 1 ELSE 0
          /\ \A i \in 1..Len(SubSeq(s, offset + 1, Len(s))) :
                SubSeq(s, offset + 1, Len(s))[i] = s[(offset + 1) + i - 1]
      BY <1>1, <2>1, PartOfSeq
    <3> HIDE DEF c
    <3>3. Len(c) = IF offset + 1 <= n THEN n - (offset + 1) + 1 ELSE 0
      BY <3>1, <3>2
    <3> HIDE DEF n, o
    <3>4. Len(c) = IF o < n THEN n - o ELSE 0
      BY <3>1, <3>3, <1>1
    <3>5. Len(c) \in Nat
      BY <3>4, <1>1
    <3>6. \A i \in 1..Len(c) : (offset + 1) + i - 1 = o + i
      BY <3>5, <3>1, <1>1
    <3>7. \A i \in 1..Len(c) : c[i] = s[o + i]
      BY <3>1, <3>2, <3>6
    <3> QED BY <3>1, <3>2, <3>4, <3>7
  <2>2. CASE ~(offset > 0)
    <3>1. o = 0 /\ c = s
      BY <2>2 DEF from_
    <3> HIDE DEF c
    <3>2. \A i \in 1..n : 0 + i = i
      BY <1>1
    <3>3. n = IF 0 < n THEN n - 0 ELSE 0
      BY <1>1
    <3> QED BY <3>1, <3>2, <3>3
  <2> QED BY <2>1, <2>2
<1>3. p = cut(c, limit)
  BY Zenon DEF page
<1> HIDE DEF c, p
<1>4. /\ isSeq(p) /\ Len(p) = IF limit > 0 /\ limit < Len(c) THEN limit ELSE Len(c)
      /\ \A i \in 1..Len(p) : p[i] = c[i]
  BY <1>2, <1>3, CutFacts
<1> DEFINE l == last_(s, offset, limit)
<1>5. l = IF limit > 0 /\ o + limit < n THEN o + limit ELSE n
  BY <1>1 DEF last_, to_
<1> HIDE DEF n, o, l
<1>6. Len(p) = IF o < l THEN l - o ELSE 0
  BY <1>1, <1>2, <1>4, <1>5
<1>7. \A i \in 1..Len(p) : i \in 1..Len(c)
  BY <1>1, <1>2, <1>4
<1>8. \A i \in 1..Len(p) : p[i] = s[o + i]
  BY <1>2, <1>4, <1>7
<1> QED BY <1>4, <1>6, <1>8 DEF p, n, o, l

\* Sorting and filtering a sequence give sequences.
LEMMA SortedIsSeq ==
  ASSUME NEW s, isSeq(s), NEW less
  PROVE  isSeq(stableSort(s, less)) /\ Len(stableSort(s, less)) = Len(s)
<1>1. s \in Seq(Range(s))
  BY DEF isSeq
<1>2. stableSort(s, less) \in Seq(Range(s)) /\ Len(stableSort(s, less)) = Len(s)
  <2> DEFINE S == Range(s)
  <2>1. s \in Seq(S)
    BY <1>1
  <2> HIDE DEF S
  <2>2. stableSort(s, less) \in Seq(S) /\ Len(stableSort(s, less)) = Len(s)
    BY <2>1, SortPermutes
  <2> QED BY <2>2 DEF S
<1> QED BY <1>2, AnySeq

\* What is kept of a sequence is a sequence.
LEMMA KeptIsSeq ==
  ASSUME NEW s, isSeq(s), NEW keep
  PROVE  isSeq(only(s, keep))
<1>1. s \in Seq(Range(s))
  BY DEF isSeq
<1>2. only(s, keep) \in Seq(Range(s))
  BY <1>1, OnlyIsSeq
<1> QED BY <1>2, AnySeq

-----------------------------------------------------------------------------
\* partition, row by row.
GroupsOf(groupBy, rows, known) ==
    [key : {groupKey(groupBy, rows[n], known) : n \in 1..Len(rows)}, rows : Seq(Range(rows)), out : {NoData}]
Partitions(groupBy, rows, known, g) ==
    /\ g \in [0..Len(rows) -> Seq(GroupsOf(groupBy, rows, known))]
    /\ partition(groupBy, rows, known) = g[Len(rows)] /\ g[0] = <<>>
    /\ \A j \in 1..Len(rows) : g[j] = placed(g[j - 1], groupKey(groupBy, rows[j], known), rows[j])

\* A row is placed in the group of its key, or starts a new one at the end.
LEMMA PlacedIsSeq ==
  ASSUME NEW K, NEW R, NEW groups \in Seq([key : K, rows : Seq(R), out : {NoData}]),
         NEW key \in K, NEW row \in R
  PROVE  placed(groups, key, row) \in Seq([key : K, rows : Seq(R), out : {NoData}])
<1> DEFINE G == [key : K, rows : Seq(R), out : {NoData}]
           same == {i \in DOMAIN groups : groups[i].key = key}
           new == [key |-> key, rows |-> <<row>>, out |-> NoData]
           u == [i \in DOMAIN groups |->
                   IF i \in same THEN [groups[i] EXCEPT !.rows = Append(groups[i].rows, row)] ELSE groups[i]]
<1>1. placed(groups, key, row) = IF same = {} THEN Append(groups, new) ELSE u
  BY Zenon DEF placed
<1>2. <<row>> \in Seq(R)
  OBVIOUS
<1>3. new \in G
  BY <1>2
<1>4. Append(groups, new) \in Seq(G)
  <2> HIDE DEF new, G
  <2>1. groups \in Seq(G)
    BY DEF G
  <2> QED BY <1>3, <2>1
<1>5. u \in Seq(G)
  <2>1. DOMAIN groups = 1..Len(groups) /\ Len(groups) \in Nat
    OBVIOUS
  <2>2. ASSUME NEW i \in DOMAIN groups PROVE u[i] \in G
    <3>1. groups[i] \in G
      <4>1. groups \in Seq(G)
        OBVIOUS
      <4> HIDE DEF G
      <4> QED BY <4>1, <2>1
    <3>2. [groups[i] EXCEPT !.rows = Append(groups[i].rows, row)] \in G
      <4>1. groups[i].rows \in Seq(R)
        BY <3>1
      <4>2. Append(groups[i].rows, row) \in Seq(R)
        BY <4>1
      <4> QED BY <3>1, <4>2
    <3> HIDE DEF G
    <3> QED BY <3>1, <3>2
  <2>3. u = [i \in 1..Len(groups) |-> u[i]] /\ \A i \in 1..Len(groups) : u[i] \in G
    <3> HIDE DEF G
    <3> QED BY <2>1, <2>2
  <2> HIDE DEF u, G
  <2> DEFINE m == Len(groups)
  <2>4. u \in [1..m -> G] /\ m \in Nat
    BY <2>1, <2>3
  <2> HIDE DEF m
  <2> QED BY <2>4
<1> HIDE DEF u, new, same
<1> QED BY <1>1, <1>4, <1>5

\* The recursion of partition, as the groups of each beginning of the rows.
LEMMA PartitionSteps ==
  ASSUME NEW groupBy, NEW rows, isSeq(rows), NEW known
  PROVE  \E g : Partitions(groupBy, rows, known, g)
<1> DEFINE n == Len(rows)
           R == Range(rows)
           K == {groupKey(groupBy, rows[m], known) : m \in 1..n}
           T == Seq([key : K, rows : Seq(R), out : {NoData}])
           k(j) == groupKey(groupBy, rows[j], known)
           F == [z \in T \X (1..n) |-> placed(z[1], k(z[2]), rows[z[2]])]
           Eq(h) == h = [j \in 0..n |-> IF j = 0 THEN <<>> ELSE placed(h[j - 1], k(j), rows[j])]
<1>1. n \in Nat /\ \A j \in 1..n : rows[j] \in R /\ k(j) \in K
  BY SeqIsFcn DEF Range
<1> HIDE DEF n, R, K, k
<1>2. F \in [T \X (1..n) -> T]
  <2>1. ASSUME NEW t \in T, NEW j \in 1..n PROVE placed(t, k(j), rows[j]) \in T
    <3>1. rows[j] \in R /\ k(j) \in K
      BY <1>1
    <3> QED BY <3>1, PlacedIsSeq
  <2> HIDE DEF T
  <2> QED BY <2>1
<1>3. <<>> \in T
  BY EmptySeq
<1> HIDE DEF T
<1>4. PICK g \in [0..n -> T] : g[0] = <<>> /\ \A j \in 1..n : g[j] = F[<<g[j - 1], j>>]
  <2> HIDE DEF F
  <2>1. \E g : Recurs(T, <<>>, n, F, g)
    BY <1>1, <1>2, <1>3, Recursion, Zenon
  <2> QED BY <2>1 DEF Recurs
<1>5. \A j \in 1..n : j - 1 \in 0..n
  BY <1>1
<1>6. \A j \in 1..n : g[j] = placed(g[j - 1], k(j), rows[j])
  BY <1>4, <1>5
<1>7. Eq(g)
  <2>1. \A j \in 0..n : g[j] = IF j = 0 THEN <<>> ELSE placed(g[j - 1], k(j), rows[j])
    <3>1. \A j \in 0..n : j # 0 => j \in 1..n
      BY <1>1
    <3> QED BY <3>1, <1>4, <1>6
  <2>2. g = [j \in 0..n |-> g[j]]
    BY <1>4
  <2> QED BY <2>1, <2>2
<1> DEFINE H == CHOOSE h : Eq(h)
<1>8. Eq(H)
  <2> HIDE DEF Eq
  <2> QED BY <1>7
<1>9. partition(groupBy, rows, known) = H[n]
  BY Zenon DEF partition, n, k
<1> HIDE DEF H
<1>10. H[0] = <<>> /\ \A j \in 1..n : H[j] = placed(H[j - 1], k(j), rows[j])
  <2>1. \A j \in 0..n : H[j] = IF j = 0 THEN <<>> ELSE placed(H[j - 1], k(j), rows[j])
    BY <1>8
  <2>2. 0 \in 0..n /\ \A j \in 1..n : j \in 0..n /\ j # 0
    BY <1>1
  <2> QED BY <2>1, <2>2
<1>11. ASSUME NEW j \in 0..n, H[j] # g[j] PROVE FALSE
  <2> DEFINE Bad == {i \in 0..n : H[i] # g[i]}
  <2>1. Bad \in SUBSET Nat /\ Bad # {}
    BY <1>11
  <2>2. PICK i \in Bad : \A m \in Bad : i <= m
    <3> HIDE DEF Bad
    <3> QED BY <2>1, LeastElement
  <2>3. i \in 1..n /\ i - 1 \in 0..n /\ ~(i <= i - 1)
    BY <2>2, <1>1, <1>4, <1>10
  <2>4. H[i - 1] = g[i - 1]
    BY <2>2, <2>3
  <2>5. H[i] = g[i]
    BY <2>3, <2>4, <1>6, <1>10
  <2> QED BY <2>2, <2>5
<1>12. H[n] = g[n]
  BY <1>1, <1>11
<1> QED BY <1>4, <1>6, <1>9, <1>12 DEF n, T, K, R, k, Partitions, GroupsOf

\* The groups of a partition are a sequence.
LEMMA PartitionIsSeq ==
  ASSUME NEW groupBy, NEW rows, isSeq(rows), NEW known
  PROVE  isSeq(partition(groupBy, rows, known))
<1> DEFINE G == GroupsOf(groupBy, rows, known)
<1>1. PICK g : Partitions(groupBy, rows, known, g)
  BY PartitionSteps, Zenon
<1>2. Len(rows) \in 0..Len(rows)
  BY SeqIsFcn
<1>3. partition(groupBy, rows, known) \in Seq(G)
  BY <1>1, <1>2 DEF Partitions
<1> QED BY <1>3, AnySeq

-----------------------------------------------------------------------------
\* FlattenSeq, sequence by sequence.
Flattens(S, seqs, g) ==
    /\ g \in [0..Len(seqs) -> Seq(S)] /\ FlattenSeq(seqs) = g[Len(seqs)] /\ g[0] = <<>>
    /\ \A j \in 1..Len(seqs) : g[j] = g[j - 1] \o seqs[j]

\* The recursion of FlattenSeq, as the concatenation of each beginning.
LEMMA FlattenSteps ==
  ASSUME NEW S, NEW seqs \in Seq(Seq(S))
  PROVE  \E g : Flattens(S, seqs, g)
<1> DEFINE n == Len(seqs)
           T == Seq(S)
           F == [z \in T \X (1..n) |-> z[1] \o seqs[z[2]]]
           Eq(h) == h = [j \in 1..n |-> IF j = 1 THEN seqs[j] ELSE h[j - 1] \o seqs[j]]
<1>1. n \in Nat /\ \A j \in 1..n : seqs[j] \in T
  <2> HIDE DEF T
  <2>1. seqs \in Seq(T)
    BY DEF T
  <2> QED BY <2>1
<1> HIDE DEF n
<1>2. F \in [T \X (1..n) -> T]
  <2>1. ASSUME NEW t \in T, NEW j \in 1..n PROVE t \o seqs[j] \in T
    BY <1>1, ConcatProperties
  <2> HIDE DEF T
  <2> QED BY <2>1
<1>3. <<>> \in T
  BY EmptySeq
<1>4. PICK g \in [0..n -> T] : g[0] = <<>> /\ \A j \in 1..n : g[j] = F[<<g[j - 1], j>>]
  <2> HIDE DEF F, T
  <2>1. \E g : Recurs(T, <<>>, n, F, g)
    BY <1>1, <1>2, <1>3, Recursion, Zenon
  <2> QED BY <2>1 DEF Recurs
<1>5. \A j \in 1..n : g[j] = g[j - 1] \o seqs[j]
  <2>1. \A j \in 1..n : j - 1 \in 0..n
    BY <1>1
  <2> HIDE DEF T
  <2> QED BY <1>4, <2>1
<1>6. CASE n = 0
  <2>1. seqs = <<>>
    <3> HIDE DEF T
    <3>1. seqs \in Seq(T) /\ Len(seqs) = 0
      BY <1>6 DEF n, T
    <3> QED BY <3>1, EmptySeq
  <2>2. FlattenSeq(seqs) = seqs
    BY <1>6, Zenon DEF FlattenSeq, n
  <2> QED BY <1>4, <1>5, <1>6, <2>1, <2>2 DEF Flattens, n
<1>7. CASE n # 0
  <2>1. 1 \in 1..n /\ 1 - 1 = 0 /\ n \in 1..n
    BY <1>1, <1>7
  <2>2. g[1] = seqs[1]
    <3>1. g[1] = <<>> \o seqs[1] /\ seqs[1] \in Seq(S)
      <4>1. seqs[1] \in Seq(S)
        BY <1>1, <2>1
      <4>2. g[1] = g[0] \o seqs[1]
        BY <1>5, <2>1
      <4> QED BY <1>4, <1>5, <4>1, <4>2
    <3> QED BY <3>1, ConcatEmptySeq
  <2> DEFINE f == [j \in 1..n |-> g[j]]
  <2>3. Eq(f)
    <3>1. ASSUME NEW j \in 1..n PROVE g[j] = IF j = 1 THEN seqs[j] ELSE f[j - 1] \o seqs[j]
      <4>1. CASE j = 1
        BY <4>1, <2>2
      <4>2. CASE j # 1
        <5>1. j - 1 \in 1..n
          BY <1>1, <4>2
        <5> QED BY <5>1, <4>2, <1>5
      <4> QED BY <4>1, <4>2
    <3> QED BY <3>1
  <2> DEFINE H == CHOOSE h : Eq(h)
  <2>4. Eq(H)
    <3> HIDE DEF Eq, f
    <3> QED BY <2>3
  <2>5. FlattenSeq(seqs) = H[n]
    BY <1>7, Zenon DEF FlattenSeq, n
  <2> HIDE DEF H
  <2>6. \A j \in 1..n : H[j] = IF j = 1 THEN seqs[j] ELSE H[j - 1] \o seqs[j]
    BY <2>4
  <2>7. ASSUME NEW j \in 1..n, H[j] # g[j] PROVE FALSE
    <3> DEFINE Bad == {i \in 1..n : H[i] # g[i]}
    <3>1. Bad \in SUBSET Nat /\ Bad # {}
      BY <2>7
    <3>2. PICK i \in Bad : \A m \in Bad : i <= m
      <4> HIDE DEF Bad
      <4> QED BY <3>1, LeastElement
    <3>3. i \in 1..n /\ i # 1
      BY <3>2, <2>2, <2>6, <2>1
    <3>4. i - 1 \in 1..n /\ ~(i <= i - 1)
      BY <1>1, <3>3
    <3>5. H[i - 1] = g[i - 1]
      BY <3>2, <3>4
    <3>6. H[i] = g[i]
      BY <3>3, <3>5, <2>6, <1>5
    <3> QED BY <3>2, <3>6
  <2>8. H[n] = g[n]
    BY <2>1, <2>7
  <2>9. FlattenSeq(seqs) = g[n] /\ g \in [0..n -> T] /\ g[0] = <<>> /\ \A j \in 1..n : g[j] = g[j - 1] \o seqs[j]
    <3> HIDE DEF F, T
    <3> QED BY <1>4, <1>5, <2>5, <2>8
  <2>10. Flattens(S, seqs, g)
    <3> HIDE DEF F
    <3> QED BY <2>9, Zenon DEF n, T, Flattens
  <2> QED BY <2>10
<1> QED BY <1>6, <1>7

\* A flattened sequence of sequences is a sequence.
LEMMA FlattenedIsSeq ==
  ASSUME NEW seqs, isSeq(seqs), \A i \in 1..Len(seqs) : isSeq(seqs[i])
  PROVE  isSeq(FlattenSeq(seqs))
<1> DEFINE S == UNION {Range(seqs[i]) : i \in 1..Len(seqs)}
           n == Len(seqs)
<1>1. n \in Nat /\ DOMAIN seqs = 1..n
  BY SeqIsFcn
<1>2. ASSUME NEW i \in 1..n PROVE seqs[i] \in Seq(S)
  <2> DEFINE R == Range(seqs[i])
  <2>1. seqs[i] \in Seq(R)
    BY <1>2 DEF isSeq
  <2>2. R \subseteq S
    BY <1>2
  <2> HIDE DEF R, S
  <2> QED BY <2>1, <2>2
<1>3. seqs \in Seq(Seq(S))
  <2>1. seqs = [i \in 1..n |-> seqs[i]]
    BY SeqIsFcn
  <2> HIDE DEF S, n
  <2>2. seqs \in [1..n -> Seq(S)]
    BY <2>1, <1>2
  <2> QED BY <2>2, <1>1
<1> HIDE DEF S
<1>4. PICK g : Flattens(S, seqs, g)
  BY <1>3, FlattenSteps, Zenon
<1>5. Len(seqs) \in 0..Len(seqs)
  BY <1>1
<1>6. FlattenSeq(seqs) \in Seq(S)
  BY <1>4, <1>5 DEF Flattens
<1> QED BY <1>6, AnySeq

-----------------------------------------------------------------------------
(***************************************************************************)
(* A query and the same query without LIMIT and OFFSET.                    *)
(***************************************************************************)
Unpaged(q, w) ==
    /\ w.structured = q.structured /\ w.name = q.name /\ w.alias = q.alias /\ w.parent = q.parent
    /\ w.joins = q.joins /\ w.where = q.where /\ w.groupBy = q.groupBy /\ w.having = q.having
    /\ w.orderBy = q.orderBy /\ w.columns = q.columns /\ w.into = q.into
    /\ w.limit = 0 /\ w.offset = 0

\* The data of result a are a page of those of result b.
SliceOf(a, b, offset, limit) ==
    /\ isSeq(a.records)
    /\ a.err = "none" =>
         /\ isSeq(b.records)
         /\ Len(a.records) = IF from_(offset) < last_(b.records, offset, limit)
                             THEN last_(b.records, offset, limit) - from_(offset) ELSE 0
         /\ \A i \in 1..Len(a.records) : a.records[i].data = b.records[from_(offset) + i].data

\* No limit and no offset: everything.
LEMMA PageOfAll ==
  ASSUME NEW s
  PROVE  page(s, 0, 0) = s /\ cut(s, 0) = s
BY DEF page, cut

\* Records made of a page are a page of the records made of everything.
LEMMA SliceOfMapped ==
  ASSUME NEW s, isSeq(s), NEW offset \in Int, NEW limit \in Int,
         NEW a, a.records = [i \in DOMAIN page(s, offset, limit) |-> a.records[i]],
         NEW b, b.records = [i \in DOMAIN s |-> b.records[i]],
         \A i \in DOMAIN page(s, offset, limit) : \A n \in DOMAIN s :
            page(s, offset, limit)[i] = s[n] => a.records[i].data = b.records[n].data
  PROVE  SliceOf(a, b, offset, limit)
<1> DEFINE p == page(s, offset, limit)
           o == from_(offset)
           l == last_(s, offset, limit)
<1>1. /\ isSeq(p) /\ Len(p) = IF o < l THEN l - o ELSE 0
      /\ \A i \in 1..Len(p) : p[i] = s[o + i]
  BY PageFacts
<1>2. Len(s) \in Nat /\ DOMAIN s = 1..Len(s) /\ Len(p) \in Nat /\ DOMAIN p = 1..Len(p)
  BY <1>1, SeqIsFcn
<1>3. isSeq(a.records) /\ Len(a.records) = Len(p)
  <2>1. a.records = [i \in DOMAIN p |-> a.records[i]]
    OBVIOUS
  <2> HIDE DEF p
  <2> QED BY <1>1, <2>1, SameLength
<1>4. isSeq(b.records) /\ Len(b.records) = Len(s)
  BY SameLength
<1>5. o \in Nat /\ l \in Int /\ l <= Len(s)
  BY <1>2 DEF from_, last_, to_
<1>6. l = last_(b.records, offset, limit)
  BY <1>4 DEF last_, to_
<1>7. ASSUME NEW i \in 1..Len(p) PROVE a.records[i].data = b.records[o + i].data
  <2>1. p[i] = s[o + i]
    BY <1>1, <1>7
  <2>2. o + i \in 1..Len(s)
    <3> HIDE DEF o, l, p
    <3> QED BY <1>1, <1>2, <1>5
  <2>3. \A n \in DOMAIN s : p[i] = s[n] => a.records[i].data = b.records[n].data
    BY <1>2
  <2> HIDE DEF o, l, p
  <2> QED BY <2>1, <2>2, <2>3, <1>2
<1> HIDE DEF p
<1> QED BY <1>1, <1>3, <1>4, <1>6, <1>7 DEF SliceOf

\* An error is a slice of anything.
LEMMA SliceOfFailed ==
  ASSUME NEW err, err # "none", NEW b, NEW offset, NEW limit
  PROVE  SliceOf(Failed(err), b, offset, limit)
BY EmptyIsSeq DEF SliceOf, Failed

\* ORDER BY, OFFSET and LIMIT of a grouped query answer a slice.
LEMMA OrderGroupsSlice ==
  ASSUME NEW q, NEW w, Unpaged(q, w), q.offset \in Int, q.limit \in Int,
         NEW groups, isSeq(groups), NEW known
  PROVE  SliceOf(orderGroups(q, groups, known), orderGroups(w, groups, known), q.offset, q.limit)
<1> DEFINE L(u) == {p \in Pairs(groups) : groupLess(u.orderBy, known, p[1], p[2])}
           s == stableSort(groups, L(q))
           a == orderGroups(q, groups, known)
           b == orderGroups(w, groups, known)
<1>1. L(w) = L(q) /\ w.orderBy = q.orderBy
  BY DEF Unpaged
<1>2. isSeq(s)
  BY SortedIsSeq, Zenon
<1>3. CASE ~resolvable(q.orderBy, groups, known)
  <2>1. a = Failed("invalid")
    BY <1>3, Zenon DEF orderGroups
  <2> HIDE DEF a, b
  <2> QED BY <2>1, SliceOfFailed DEF a, b
<1>4. CASE resolvable(q.orderBy, groups, known)
  <2>1. a = groupRecords(q, page(s, q.offset, q.limit))
    BY <1>4, Zenon DEF orderGroups
  <2>2. b = groupRecords(w, page(stableSort(groups, L(w)), w.offset, w.limit))
    <3>1. resolvable(w.orderBy, groups, known)
      BY <1>1, <1>4
    <3> QED BY <3>1, Zenon DEF orderGroups
  <2> HIDE DEF L
  <2>3. page(stableSort(groups, L(w)), w.offset, w.limit) = s
    <3>1. w.offset = 0 /\ w.limit = 0
      BY DEF Unpaged
    <3> QED BY <1>1, <3>1, PageOfAll
  <2> HIDE DEF s, a, b
  <2> DEFINE p == page(s, q.offset, q.limit)
  <2>4. a.records = [i \in DOMAIN p |-> Rec(NewKeyWithID(q.name, <<i - 1>>), p[i].out)]
    BY <2>1 DEF groupRecords, Records
  <2>5. b.records = [i \in DOMAIN s |-> Rec(NewKeyWithID(w.name, <<i - 1>>), s[i].out)]
    BY <2>2, <2>3 DEF groupRecords, Records
  <2>6. ASSUME NEW i \in DOMAIN p, NEW n \in DOMAIN s, p[i] = s[n]
        PROVE  a.records[i].data = b.records[n].data
    <3>1. a.records[i].data = p[i].out
      BY <2>4 DEF Rec
    <3>2. b.records[n].data = s[n].out
      BY <2>5 DEF Rec
    <3> QED BY <2>6, <3>1, <3>2
  <2>7. a.records = [i \in DOMAIN p |-> a.records[i]] /\ b.records = [i \in DOMAIN s |-> b.records[i]]
    BY <2>4, <2>5
  <2> QED BY <1>2, <2>6, <2>7, SliceOfMapped DEF a, b
<1> QED BY <1>3, <1>4

\* HAVING does not look at OFFSET and LIMIT.
LEMMA FilterGroupsSlice ==
  ASSUME NEW q, NEW w, Unpaged(q, w), q.offset \in Int, q.limit \in Int,
         NEW groups, isSeq(groups), NEW known
  PROVE  SliceOf(filterGroups(q, groups, known), filterGroups(w, groups, known), q.offset, q.limit)
<1>1. w.having = q.having
  BY DEF Unpaged
<1>2. CASE q.having = NoCond
  BY <1>1, <1>2, OrderGroupsSlice DEF filterGroups
<1>3. CASE q.having # NoCond
  <2> DEFINE wrong(u) == \E g \in Range(groups) : matchesHaving(u.having, g, known) = "error"
             kept(u) == only(groups, {g \in Range(groups) : matchesHaving(u.having, g, known) = "yes"})
  <2>1. wrong(w) = wrong(q) /\ kept(w) = kept(q)
    BY <1>1
  <2>2. /\ filterGroups(q, groups, known) = IF wrong(q) THEN Failed("invalid") ELSE orderGroups(q, kept(q), known)
        /\ filterGroups(w, groups, known) = IF wrong(w) THEN Failed("invalid") ELSE orderGroups(w, kept(w), known)
    BY <1>1, <1>3, Zenon DEF filterGroups
  <2>3. isSeq(kept(q))
    BY KeptIsSeq, Zenon
  <2> HIDE DEF wrong, kept
  <2>4. SliceOf(orderGroups(q, kept(q), known), orderGroups(w, kept(q), known), q.offset, q.limit)
    BY <2>3, OrderGroupsSlice
  <2>5. SliceOf(Failed("invalid"), Failed("invalid"), q.offset, q.limit)
    BY SliceOfFailed
  <2> QED BY <2>1, <2>2, <2>4, <2>5
<1> QED BY <1>2, <1>3

\* The projection of groups does not look at OFFSET and LIMIT.
LEMMA ProjectGroupsSlice ==
  ASSUME NEW q, NEW w, Unpaged(q, w), q.offset \in Int, q.limit \in Int,
         NEW groups, isSeq(groups), NEW known
  PROVE  SliceOf(projectGroups(q, groups, known), projectGroups(w, groups, known), q.offset, q.limit)
<1> DEFINE P(u) == [i \in DOMAIN groups |-> projectGroup(u, groups[i], known)]
<1>1. w.columns = q.columns
  BY DEF Unpaged
<1>2. \A g : projectGroup(w, g, known) = projectGroup(q, g, known)
  BY <1>1 DEF projectGroup, named
<1>3. P(w) = P(q)
  BY <1>2
<1>4. /\ projectGroups(q, groups, known)
         = IF ~resolvable(q.columns, groups, known) THEN Failed("invalid") ELSE filterGroups(q, P(q), known)
      /\ projectGroups(w, groups, known)
         = IF ~resolvable(w.columns, groups, known) THEN Failed("invalid") ELSE filterGroups(w, P(w), known)
  BY Zenon DEF projectGroups, mapped
<1>5. isSeq(P(q))
  <2>1. P(q) = [i \in DOMAIN groups |-> P(q)[i]]
    OBVIOUS
  <2> HIDE DEF P
  <2> QED BY <2>1, SameLength
<1> HIDE DEF P
<1>6. SliceOf(filterGroups(q, P(q), known), filterGroups(w, P(q), known), q.offset, q.limit)
  BY <1>5, FilterGroupsSlice
<1>7. SliceOf(Failed("invalid"), Failed("invalid"), q.offset, q.limit)
  BY SliceOfFailed
<1> QED BY <1>1, <1>3, <1>4, <1>6, <1>7

\* A grouped query answers the page of its groups.
LEMMA GroupedSlice ==
  ASSUME NEW q, NEW w, Unpaged(q, w), q.offset \in Int, q.limit \in Int,
         NEW rows, isSeq(rows), NEW known
  PROVE  SliceOf(executeGroupedReader(q, rows, known), executeGroupedReader(w, rows, known), q.offset, q.limit)
<1> DEFINE names(u) == {u.groupBy[i].text : i \in DOMAIN u.groupBy}
           wrong(u) == \/ \E i \in DOMAIN u.groupBy : ~validSource(u.groupBy[i], known)
                       \/ \E i \in DOMAIN u.columns :
                             u.columns[i].e.k # "aggregate" /\ u.columns[i].e.text \notin names(u)
                       \/ \E i \in DOMAIN rows, n \in DOMAIN u.groupBy :
                             ~resolveJoinExpr(u.groupBy[n], rows[i], known).ok
           groups == partition(q.groupBy, rows, known)
<1>1. w.columns = q.columns /\ w.groupBy = q.groupBy
  BY DEF Unpaged
<1>2. wrong(w) = wrong(q)
  <2>1. names(w) = names(q)
    BY <1>1
  <2> HIDE DEF names
  <2> QED BY <1>1, <2>1
<1>3. /\ executeGroupedReader(q, rows, known) = IF wrong(q) THEN Failed("invalid") ELSE projectGroups(q, groups, known)
      /\ executeGroupedReader(w, rows, known)
         = IF wrong(w) THEN Failed("invalid") ELSE projectGroups(w, partition(w.groupBy, rows, known), known)
  BY Zenon DEF executeGroupedReader
<1> HIDE DEF wrong
<1>4. isSeq(groups)
  BY PartitionIsSeq
<1>5. SliceOf(projectGroups(q, groups, known), projectGroups(w, groups, known), q.offset, q.limit)
  <2> HIDE DEF groups
  <2> QED BY <1>4, ProjectGroupsSlice
<1>6. SliceOf(Failed("invalid"), Failed("invalid"), q.offset, q.limit)
  BY SliceOfFailed
<1> QED BY <1>1, <1>2, <1>3, <1>5, <1>6

\* Rows that are not grouped are cut, and never skipped.
LEMMA CutSlice ==
  ASSUME NEW s, isSeq(s), NEW limit \in Int, NEW a, NEW b,
         a.records = [i \in DOMAIN cut(s, limit) |-> a.records[i]],
         b.records = [i \in DOMAIN s |-> b.records[i]],
         \A i \in DOMAIN cut(s, limit) : \A n \in DOMAIN s :
            cut(s, limit)[i] = s[n] => a.records[i].data = b.records[n].data
  PROVE  SliceOf(a, b, 0, limit)
<1>1. page(s, 0, limit) = cut(s, limit)
  BY DEF page
<1> QED BY <1>1, SliceOfMapped

\* The offset that a query without groups is taken to have.
Skipped(q) == IF q.groupBy # <<>> THEN q.offset ELSE 0

\* A query of one collection answers a slice of its filtered rows.
LEMMA SingleRecordsSlice ==
  ASSUME NEW q, NEW w, Unpaged(q, w), q.offset \in Int, q.limit \in Int,
         NEW rows, isSeq(rows), NEW known
  PROVE  SliceOf(singleRecords(q, rows, known), singleRecords(w, rows, known), Skipped(q), q.limit)
<1> DEFINE a == singleRecords(q, rows, known)
           b == singleRecords(w, rows, known)
<1>1. w.groupBy = q.groupBy /\ w.orderBy = q.orderBy /\ w.limit = 0
  BY DEF Unpaged
<1>2. CASE q.groupBy # <<>>
  <2> DEFINE r == [i \in DOMAIN rows |-> rows[i].sources]
  <2>1. a = executeGroupedReader(q, r, known) /\ b = executeGroupedReader(w, r, known)
    BY <1>1, <1>2, Zenon DEF singleRecords, mapped
  <2>2. isSeq(r)
    <3>1. r = [i \in DOMAIN rows |-> r[i]]
      OBVIOUS
    <3> HIDE DEF r
    <3> QED BY <3>1, SameLength
  <2> HIDE DEF r, a, b
  <2>3. SliceOf(a, b, q.offset, q.limit)
    BY <2>1, <2>2, GroupedSlice
  <2> QED BY <2>3, <1>2 DEF Skipped, a, b
<1>3. CASE q.groupBy = <<>>
  <2> DEFINE s == orderBySources(rows, q.orderBy)
             c == cut(s, q.limit)
  <2>1. isSeq(s)
    BY SortedIsSeq, Zenon DEF orderBySources
  <2>2. /\ a = Records([i \in DOMAIN c |-> singleRecord(q, c[i])])
        /\ b = Records([i \in DOMAIN cut(s, 0) |-> singleRecord(w, cut(s, 0)[i])])
    BY <1>1, <1>3, Zenon DEF singleRecords, mapped
  <2>3. cut(s, 0) = s
    BY PageOfAll
  <2> HIDE DEF s, a, b
  <2>4. \A r : singleRecord(w, r) = singleRecord(q, r)
    BY DEF singleRecord, Unpaged
  <2>5. /\ a.records = [i \in DOMAIN c |-> singleRecord(q, c[i])]
        /\ b.records = [i \in DOMAIN s |-> singleRecord(q, s[i])]
    BY <2>2, <2>3, <2>4 DEF Records
  <2>6. SliceOf(a, b, 0, q.limit)
    BY <2>1, <2>5, CutSlice
  <2> QED BY <2>6, <1>3 DEF Skipped, a, b
<1> QED BY <1>2, <1>3

\* A join answers a slice of its filtered rows.
LEMMA JoinRecordsSlice ==
  ASSUME NEW q, NEW w, Unpaged(q, w), q.offset \in Int, q.limit \in Int,
         NEW rows, isSeq(rows), NEW known
  PROVE  SliceOf(joinRecords(q, rows, known), joinRecords(w, rows, known), Skipped(q), q.limit)
<1> DEFINE a == joinRecords(q, rows, known)
           b == joinRecords(w, rows, known)
<1>1. w.groupBy = q.groupBy /\ w.orderBy = q.orderBy /\ w.limit = 0
  BY DEF Unpaged
<1>2. CASE q.groupBy # <<>>
  <2> DEFINE r == [i \in DOMAIN rows |-> rows[i].sources]
  <2>1. a = executeGroupedReader(q, r, known) /\ b = executeGroupedReader(w, r, known)
    BY <1>1, <1>2, Zenon DEF joinRecords, mapped
  <2>2. isSeq(r)
    <3>1. r = [i \in DOMAIN rows |-> r[i]]
      OBVIOUS
    <3> HIDE DEF r
    <3> QED BY <3>1, SameLength
  <2> HIDE DEF r, a, b
  <2>3. SliceOf(a, b, q.offset, q.limit)
    BY <2>1, <2>2, GroupedSlice
  <2> QED BY <2>3, <1>2 DEF Skipped, a, b
<1>3. CASE q.groupBy = <<>>
  <2> DEFINE s == orderBySources(rows, q.orderBy)
             c == cut(s, q.limit)
  <2>1. isSeq(s)
    BY SortedIsSeq, Zenon DEF orderBySources
  <2>2. /\ a = Records([i \in DOMAIN c |-> joinRecord(q, c[i])])
        /\ b = Records([i \in DOMAIN cut(s, 0) |-> joinRecord(w, cut(s, 0)[i])])
    BY <1>1, <1>3, Zenon DEF joinRecords, mapped
  <2>3. cut(s, 0) = s
    BY PageOfAll
  <2> HIDE DEF s, a, b
  <2>4. \A r : joinRecord(w, r) = joinRecord(q, r)
    BY DEF joinRecord, Unpaged
  <2>5. /\ a.records = [i \in DOMAIN c |-> joinRecord(q, c[i])]
        /\ b.records = [i \in DOMAIN s |-> joinRecord(q, s[i])]
    BY <2>2, <2>3, <2>4 DEF Records
  <2>6. SliceOf(a, b, 0, q.limit)
    BY <2>1, <2>5, CutSlice
  <2> QED BY <2>6, <1>3 DEF Skipped, a, b
<1> QED BY <1>2, <1>3

\* WHERE and the sources of a row do not look at the page.
LEMMA FilterRowsSame ==
  ASSUME NEW q, NEW w, Unpaged(q, w), NEW rows, isSeq(rows)
  PROVE  filterRows(w, rows) = filterRows(q, rows) /\ isSeq(filterRows(q, rows))
<1> DEFINE keep(u) == {r \in Range(rows) :
                         matchesWhere(r.data, u.where) /\ (u.parent # <<>> => isChildOf(r.key, u.parent))}
           kept(u) == only(rows, keep(u))
<1>1. w.where = q.where /\ w.parent = q.parent /\ w.name = q.name /\ w.alias = q.alias
  BY DEF Unpaged
<1>2. keep(w) = keep(q)
  BY <1>1
<1>3. \A r : withSources(w, r) = withSources(q, r)
  BY <1>1 DEF withSources, baseSources
<1>4. /\ filterRows(q, rows) = [i \in DOMAIN kept(q) |-> withSources(q, kept(q)[i])]
      /\ filterRows(w, rows) = [i \in DOMAIN kept(w) |-> withSources(w, kept(w)[i])]
  BY Zenon DEF filterRows, mapped
<1>5. isSeq(kept(q))
  BY KeptIsSeq, Zenon
<1> HIDE DEF keep
<1>6. kept(w) = kept(q)
  BY <1>2
<1> HIDE DEF kept
<1>7. isSeq(filterRows(q, rows))
  <2>1. filterRows(q, rows) = [i \in DOMAIN kept(q) |-> filterRows(q, rows)[i]]
    BY <1>4
  <2> QED BY <2>1, <1>5, SameLength
<1> QED BY <1>3, <1>4, <1>6, <1>7

\* A whole query of one collection answers a slice.
LEMMA SingleSlice ==
  ASSUME NEW q, NEW w, Unpaged(q, w), q.offset \in Int, q.limit \in Int,
         NEW rowsOf, isSeq(rowsOf[q.name])
  PROVE  SliceOf(executeSingle(q, rowsOf), executeSingle(w, rowsOf), Skipped(q), q.limit)
<1> DEFINE known(u) == {"", u.name} \cup ({u.alias} \ {""})
           wrong(u) == \/ ~validateOrderSources(u.orderBy, known(u))
                       \/ u.groupBy = <<>> /\ ~validateColumns(u.columns, known(u))
           rows == filterRows(q, rowsOf[q.name])
           Answer(u) == IF u.name \in Undefined THEN Failed("undefined")
                        ELSE IF rowsOf[u.name] = <<>> THEN Records(<<>>)
                        ELSE IF wrong(u) THEN Failed("invalid")
                        ELSE singleRecords(u, filterRows(u, rowsOf[u.name]), known(u))
<1>1. executeSingle(q, rowsOf) = Answer(q) /\ executeSingle(w, rowsOf) = Answer(w)
  BY Zenon DEF executeSingle
<1>2. w.name = q.name /\ known(w) = known(q)
  BY DEF Unpaged
<1> HIDE DEF known
<1>3. wrong(w) = wrong(q)
  BY <1>2 DEF Unpaged
<1> HIDE DEF wrong
<1>4. filterRows(w, rowsOf[w.name]) = rows /\ isSeq(rows)
  BY <1>2, FilterRowsSame
<1>5. SliceOf(singleRecords(q, rows, known(q)), singleRecords(w, rows, known(q)), Skipped(q), q.limit)
  <2> HIDE DEF rows
  <2> QED BY <1>4, SingleRecordsSlice
<1>6. /\ SliceOf(Failed("invalid"), Failed("invalid"), Skipped(q), q.limit)
      /\ SliceOf(Failed("undefined"), Failed("undefined"), Skipped(q), q.limit)
  BY SliceOfFailed
<1>7. SliceOf(Records(<<>>), Records(<<>>), Skipped(q), q.limit)
  <2>1. Skipped(q) \in Int
    BY DEF Skipped
  <2>2. from_(Skipped(q)) \in Nat
    BY <2>1 DEF from_
  <2>3. ~(from_(Skipped(q)) < last_(<<>>, Skipped(q), q.limit))
    BY <2>2, EmptyIsSeq DEF last_, to_
  <2> QED BY <2>3, EmptyIsSeq DEF SliceOf, Records
<1>8. SliceOf(Answer(q), Answer(w), Skipped(q), q.limit)
  <2>1. filterRows(q, rowsOf[q.name]) = rows
    OBVIOUS
  <2> HIDE DEF rows
  <2>2. CASE q.name \in Undefined
    BY <2>2, <1>2, <1>6
  <2>3. CASE q.name \notin Undefined /\ rowsOf[q.name] = <<>>
    BY <2>3, <1>2, <1>7
  <2>4. CASE q.name \notin Undefined /\ rowsOf[q.name] # <<>> /\ wrong(q)
    BY <2>4, <1>2, <1>3, <1>6
  <2>5. CASE q.name \notin Undefined /\ rowsOf[q.name] # <<>> /\ ~wrong(q)
    <3>1. Answer(q) = singleRecords(q, rows, known(q)) /\ Answer(w) = singleRecords(w, rows, known(q))
      BY <2>1, <2>5, <1>2, <1>3, <1>4
    <3> HIDE DEF Answer
    <3> QED BY <3>1, <1>5
  <2> QED BY <2>2, <2>3, <2>4, <2>5
<1> QED BY <1>1, <1>8

\* The pairs of a join do not look at the page.
LEMMA JoinedRowsSame ==
  ASSUME NEW q, NEW w, Unpaged(q, w), NEW join, NEW baseRows, isSeq(baseRows),
         NEW joinRows, isSeq(joinRows), NEW known
  PROVE  /\ joinedRows(w, join, baseRows, joinRows, known) = joinedRows(q, join, baseRows, joinRows, known)
         /\ isSeq(joinedRows(q, join, baseRows, joinRows, known).rows)
<1> DEFINE meets(u, b, j) == allConditionsMatch(join.on, joinSources(u, join, b, j.data), known)
           found(u, b) == only(joinRows, {j \in Range(joinRows) : meets(u, b, j) = "yes"})
           parts(u) == [i \in DOMAIN baseRows |-> pairs(u, join, baseRows[i], found(u, baseRows[i]))]
           failed(u) == \E b \in Range(baseRows), j \in Range(joinRows) : meets(u, b, j) = "error"
<1>1. \A u : joinedRows(u, join, baseRows, joinRows, known)
             = [failed |-> failed(u), rows |-> FlattenSeq(parts(u))]
  BY Zenon DEF joinedRows, mapped
<1>2. \A b, d : joinSources(w, join, b, d) = joinSources(q, join, b, d)
  <2>1. sourceKey(w) = sourceKey(q)
    BY DEF sourceKey, Unpaged
  <2> QED BY <2>1 DEF joinSources
<1>3. \A b, d : pair(w, join, b, d) = pair(q, join, b, d)
  BY <1>2 DEF pair
<1>4. \A b, m : pairs(w, join, b, m) = pairs(q, join, b, m)
  BY <1>3 DEF pairs, mapped
<1>5. \A b, j : meets(w, b, j) = meets(q, b, j)
  BY <1>2
<1> HIDE DEF meets
<1>6. ASSUME NEW b PROVE found(w, b) = found(q, b) /\ isSeq(found(q, b))
  <2>1. {j \in Range(joinRows) : meets(w, b, j) = "yes"} = {j \in Range(joinRows) : meets(q, b, j) = "yes"}
    BY <1>5
  <2>2. isSeq(found(q, b))
    BY KeptIsSeq, Zenon
  <2> QED BY <2>1, <2>2
<1>7. failed(w) = failed(q)
  BY <1>5
<1> HIDE DEF found, failed
<1>8. parts(w) = parts(q)
  BY <1>4, <1>6
<1>9. ASSUME NEW b PROVE isSeq(pairs(q, join, b, found(q, b)))
  <2> DEFINE f == found(q, b)
  <2>1. isSeq(f)
    BY <1>6
  <2> HIDE DEF f
  <2>2. CASE f = <<>> /\ keepsUnmatched(join)
    <3>1. pairs(q, join, b, f) = <<pair(q, join, b, NoData)>>
      BY <2>2 DEF pairs
    <3>2. <<pair(q, join, b, NoData)>> \in Seq({pair(q, join, b, NoData)})
      OBVIOUS
    <3> QED BY <3>1, <3>2, AnySeq DEF f
  <2>3. CASE ~(f = <<>> /\ keepsUnmatched(join))
    <3>1. pairs(q, join, b, f) = [i \in DOMAIN f |-> pair(q, join, b, f[i].data)]
      BY <2>3 DEF pairs, mapped
    <3>2. pairs(q, join, b, f) = [i \in DOMAIN f |-> pairs(q, join, b, f)[i]]
      BY <3>1
    <3> QED BY <2>1, <3>2, SameLength DEF f
  <2> QED BY <2>2, <2>3
<1>10. isSeq(FlattenSeq(parts(q)))
  <2>1. parts(q) = [i \in DOMAIN baseRows |-> parts(q)[i]]
    OBVIOUS
  <2>2. \A i \in DOMAIN baseRows : isSeq(parts(q)[i])
    BY <1>9
  <2> HIDE DEF parts
  <2>3. isSeq(parts(q)) /\ Len(parts(q)) = Len(baseRows)
    BY <2>1, SameLength
  <2>4. \A i \in 1..Len(parts(q)) : isSeq(parts(q)[i])
    BY <2>2, <2>3, SeqIsFcn
  <2> QED BY <2>3, <2>4, FlattenedIsSeq
<1> HIDE DEF parts
<1>11. joinedRows(q, join, baseRows, joinRows, known).rows = FlattenSeq(parts(q))
  BY <1>1
<1> QED BY <1>1, <1>7, <1>8, <1>10, <1>11

\* A whole join answers a slice.
LEMMA JoinSlice ==
  ASSUME NEW q, NEW w, Unpaged(q, w), q.offset \in Int, q.limit \in Int,
         NEW rowsOf, isSeq(rowsOf[q.name]), isSeq(rowsOf[q.joins[1].name])
  PROVE  SliceOf(executeJoinQuery(q, rowsOf), executeJoinQuery(w, rowsOf), Skipped(q), q.limit)
<1> DEFINE join == q.joins[1]
           known == {"", sourceKey(q), sourceKey(join)}
           wrong == \/ Len(q.joins) # 1
                    \/ join.type \notin {"INNER", "LEFT"}
                    \/ ~validateOrderSources(q.orderBy, known)
                    \/ q.groupBy = <<>> /\ ~validateColumns(q.columns, known)
           bases == sortByID(rowsOf[q.name])
           others == sortByID(rowsOf[join.name])
           joined == joinedRows(q, join, bases, others, known)
           holds(r) == matchesJoinCondition(q.where, r.sources, known)
           bad == joined.failed \/ \E r \in Range(joined.rows) : holds(r) = "error"
           kept == only(joined.rows, {r \in Range(joined.rows) : holds(r) = "yes"})
<1>1. executeJoinQuery(q, rowsOf) = IF wrong THEN Failed("invalid") ELSE filterJoined(q, joined, known)
  BY Zenon DEF executeJoinQuery
<1>2. executeJoinQuery(w, rowsOf)
      = IF wrong THEN Failed("invalid") ELSE filterJoined(w, joinedRows(w, join, bases, others, known), known)
  <2>1. /\ w.joins = q.joins /\ w.orderBy = q.orderBy /\ w.groupBy = q.groupBy
        /\ w.columns = q.columns /\ w.name = q.name
    BY DEF Unpaged
  <2>2. sourceKey(w) = sourceKey(q)
    BY DEF sourceKey, Unpaged
  <2> QED BY <2>1, <2>2, Zenon DEF executeJoinQuery
<1>3. isSeq(bases) /\ isSeq(others)
  BY SortedIsSeq, Zenon DEF sortByID
<1> HIDE DEF wrong, bases, others
<1>4. joinedRows(w, join, bases, others, known) = joined /\ isSeq(joined.rows)
  <2> HIDE DEF join, known
  <2> QED BY <1>3, JoinedRowsSame
<1> HIDE DEF joined, known, join
<1>5. filterJoined(q, joined, known) = IF bad THEN Failed("invalid") ELSE joinRecords(q, kept, known)
  BY Zenon DEF filterJoined
<1>6. filterJoined(w, joined, known) = IF bad THEN Failed("invalid") ELSE joinRecords(w, kept, known)
  <2>1. w.where = q.where
    BY DEF Unpaged
  <2> QED BY <2>1, Zenon DEF filterJoined
<1>7. isSeq(kept)
  BY <1>4, KeptIsSeq, Zenon
<1> HIDE DEF kept, bad
<1>8. SliceOf(joinRecords(q, kept, known), joinRecords(w, kept, known), Skipped(q), q.limit)
  BY <1>7, JoinRecordsSlice
<1>9. SliceOf(Failed("invalid"), Failed("invalid"), Skipped(q), q.limit)
  BY SliceOfFailed
<1> QED BY <1>1, <1>2, <1>4, <1>5, <1>6, <1>8, <1>9

\* The answer to a query is a page of the answer to the query without LIMIT and
\* OFFSET.
LEMMA QuerySlice ==
  ASSUME NEW q \in Queries, NEW rowsOf, \A c \in Collections : isSeq(rowsOf[c])
  PROVE  SliceOf(ExecuteQuery(q, rowsOf), ExecuteQuery(withoutPage(q), rowsOf), Skipped(q), q.limit)
<1> DEFINE w == withoutPage(q)
<1>1. Unpaged(q, w)
  <2>1. q = [structured |-> q.structured, name |-> q.name, alias |-> q.alias, parent |-> q.parent,
             joins |-> q.joins, where |-> q.where, groupBy |-> q.groupBy, having |-> q.having,
             orderBy |-> q.orderBy, columns |-> q.columns, into |-> q.into, limit |-> q.limit,
             offset |-> q.offset]
    BY QueryAssumption, Zenon
  <2> QED BY <2>1 DEF withoutPage, Unpaged
<1>2. q.offset \in Int /\ q.limit \in Int /\ q.name \in Collections /\ isSeq(q.joins)
  BY QueryAssumption
<1> HIDE DEF w
<1>3. CASE ~q.structured
  <2>1. ExecuteQuery(q, rowsOf) = Failed("notSupported")
    BY <1>3 DEF ExecuteQuery
  <2> QED BY <2>1, SliceOfFailed
<1>4. CASE q.structured /\ q.joins = <<>>
  <2>1. ExecuteQuery(q, rowsOf) = executeSingle(q, rowsOf) /\ ExecuteQuery(w, rowsOf) = executeSingle(w, rowsOf)
    BY <1>1, <1>4 DEF ExecuteQuery, Unpaged
  <2> QED BY <2>1, <1>1, <1>2, SingleSlice DEF w
<1>5. CASE q.structured /\ q.joins # <<>>
  <2>1. /\ ExecuteQuery(q, rowsOf) = executeJoinQuery(q, rowsOf)
        /\ ExecuteQuery(w, rowsOf) = executeJoinQuery(w, rowsOf)
    BY <1>1, <1>5 DEF ExecuteQuery, Unpaged
  <2>2. 1 \in DOMAIN q.joins
    <3>1. q.joins \in Seq(Range(q.joins)) /\ q.joins # <<>>
      BY <1>2, <1>5 DEF isSeq
    <3> QED BY <3>1, EmptySeq
  <2>3. q.joins[1].name \in Collections
    BY <2>2, QueryAssumption
  <2> QED BY <2>1, <2>3, <1>1, <1>2, JoinSlice DEF w
<1> QED BY <1>3, <1>4, <1>5

-----------------------------------------------------------------------------
(***************************************************************************)
(* What the engines return: every row once, in some order.                 *)
(***************************************************************************)
RowAt(c, id) == [id |-> id, key |-> stored[c][id].key, data |-> stored[c][id].data]
RowsIn(c) == {RowAt(c, id) : id \in DOMAIN stored[c]}

\* A collection has finitely many rows, one for each id.
LEMMA RowsAreFinite ==
  ASSUME StoreInv, NEW c \in Collections
  PROVE  IsFiniteSet(RowsIn(c)) /\ Cardinality(RowsIn(c)) = Cardinality(DOMAIN stored[c])
<1> DEFINE D == DOMAIN stored[c]
           f == [id \in D |-> RowAt(c, id)]
<1>1. IsFiniteSet(D)
  BY DEF StoreInv
<1>2. f \in [D -> RowsIn(c)] /\ (\A r \in RowsIn(c) : \E id \in D : f[id] = r)
  BY DEF RowsIn
<1>3. \A a, b \in D : f[a] = f[b] => a = b
  BY DEF RowAt
<1>4. f \in Surjection(D, RowsIn(c)) /\ f \in Injection(D, RowsIn(c))
  <2> HIDE DEF f, D
  <2> QED BY <1>2, <1>3 DEF Surjection, Injection, IsInjective
<1> HIDE DEF f, D
<1>5. IsFiniteSet(RowsIn(c)) /\ Cardinality(RowsIn(c)) = Cardinality(D)
  BY <1>1, <1>4, FS_Surjection
<1> QED BY <1>5 DEF D

\* The orders of a finite set are the sequences with each of its elements once.
LEMMA SetToSeqsFacts ==
  ASSUME NEW S, IsFiniteSet(S), NEW s \in SetToSeqs(S)
  PROVE  /\ s \in Seq(S) /\ isSeq(s) /\ Len(s) = Cardinality(S) /\ Range(s) = S
         /\ \A i, j \in 1..Len(s) : s[i] = s[j] => i = j
<1> DEFINE n == Cardinality(S)
<1>1. n \in Nat
  BY FS_CardinalityType
<1>2. s \in [1..n -> S] /\ \A i, j \in 1..n : i # j => s[i] # s[j]
  BY DEF SetToSeqs
<1> HIDE DEF n
<1>3. s \in Seq(S) /\ Len(s) = n
  BY <1>1, <1>2
<1>4. isSeq(s)
  BY <1>3, AnySeq
<1>5. s \in Injection(1..n, S)
  BY <1>2 DEF Injection, IsInjective
<1>6. IsFiniteSet(1..n) /\ Cardinality(1..n) = n
  <2>1. Cardinality(1..n) = IF 1 > n THEN 0 ELSE n - 1 + 1
    BY <1>1, FS_Interval
  <2> QED BY <1>1, <2>1, FS_Interval
<1>7. s \in Surjection(1..n, S)
  BY <1>5, <1>6, FS_Injection DEF n
<1>8. Range(s) = S
  BY <1>2, <1>7 DEF Surjection, Range
<1> QED BY <1>2, <1>3, <1>4, <1>8 DEF n

\* The rows for a query: all that are stored, or those that an index selects.
Returned(c, q, indexed) ==
    IF indexed THEN {r \in RowsIn(c) : matchesWhere(r.data, q.where)} ELSE RowsIn(c)

\* An engine returns its rows in a sequence, each of them once.
LEMMA EngineRowsFacts ==
  ASSUME StoreInv, NEW c \in Collections, NEW q, NEW indexed \in BOOLEAN, NEW s \in engineRows(c, q, indexed)
  PROVE  /\ isSeq(s) /\ s \in Seq(Returned(c, q, indexed)) /\ Range(s) = Returned(c, q, indexed)
         /\ Len(s) = Cardinality(Returned(c, q, indexed)) /\ IsFiniteSet(Returned(c, q, indexed))
         /\ \A i, j \in 1..Len(s) : s[i] = s[j] => i = j
<1>1. s \in SetToSeqs(Returned(c, q, indexed))
  BY Zenon DEF engineRows, Returned, RowsIn, RowAt
<1>2. Returned(c, q, indexed) \in SUBSET RowsIn(c)
  BY DEF Returned
<1>3. IsFiniteSet(Returned(c, q, indexed))
  BY <1>2, RowsAreFinite, FS_Subset
<1> QED BY <1>1, <1>3, SetToSeqsFacts

\* The rows of the collections of a query.
LEMMA InputsFacts ==
  ASSUME StoreInv, NEW q \in Queries, NEW indexed \in BOOLEAN, NEW rowsOf \in Inputs(q, indexed)
  PROVE  /\ \A c \in Collections : isSeq(rowsOf[c])
         /\ rowsOf[q.name] \in engineRows(q.name, q, indexed)
         /\ q.joins # <<>> /\ q.joins[1].name # q.name
            => rowsOf[q.joins[1].name] \in engineRows(q.joins[1].name, q, FALSE)
         /\ q.joins # <<>> => q.joins[1].name \in Collections
<1>1. q.name \in Collections /\ isSeq(q.joins)
  BY QueryAssumption
<1>2. ASSUME q.joins # <<>> PROVE q.joins[1].name \in Collections
  <2>1. 1 \in DOMAIN q.joins
    <3>1. q.joins \in Seq(Range(q.joins))
      BY <1>1 DEF isSeq
    <3> QED BY <3>1, <1>2, EmptySeq
  <2> QED BY <2>1, QueryAssumption
<1>3. PICK base \in engineRows(q.name, q, indexed),
           other \in IF q.joins = <<>> THEN {<<>>} ELSE engineRows(q.joins[1].name, q, FALSE) :
        rowsOf = [c \in Collections |-> IF c = q.name THEN base ELSE other]
  <2> DEFINE B == engineRows(q.name, q, indexed)
             O == IF q.joins = <<>> THEN {<<>>} ELSE engineRows(q.joins[1].name, q, FALSE)
             f(rows) == [c \in Collections |-> IF c = q.name THEN rows[1] ELSE rows[2]]
  <2>1. rowsOf \in {f(rows) : rows \in B \X O}
    <3>1. rowsOf \in Inputs(q, indexed)
      OBVIOUS
    <3>2. Inputs(q, indexed) = {f(rows) : rows \in B \X O}
      BY Zenon DEF Inputs
    <3> HIDE DEF B, O, f
    <3> QED BY <3>1, <3>2
  <2>2. PICK rows \in B \X O : rowsOf = f(rows)
    <3> HIDE DEF B, O, f
    <3> QED BY <2>1
  <2>3. rows[1] \in B /\ rows[2] \in O
    <3> HIDE DEF B, O
    <3> QED BY <2>2
  <2> QED BY <2>2, <2>3
<1>4. isSeq(base)
  BY <1>1, EngineRowsFacts
<1>5. isSeq(other)
  <2>1. CASE q.joins = <<>>
    BY <1>3, <2>1, EmptyIsSeq
  <2>2. CASE q.joins # <<>>
    <3>1. other \in engineRows(q.joins[1].name, q, FALSE)
      BY <1>3, <2>2
    <3> QED BY <3>1, <2>2, <1>2, EngineRowsFacts
  <2> QED BY <2>1, <2>2
<1> QED BY <1>1, <1>2, <1>3, <1>4, <1>5

\* The rows for a query depend on what is stored alone.
LEMMA InputsStay ==
  ASSUME stored' = stored, NEW q, NEW indexed
  PROVE  Inputs(q, indexed)' = Inputs(q, indexed)
BY DEF Inputs, engineRows

-----------------------------------------------------------------------------
\* There is no answer before the first query.
LEMMA AnswerInvInit == Init => AnswerInv
BY DEF Init, AnswerInv

\* An answer is that of its query on what is stored, until it is forgotten.
LEMMA AnswerInvStep ==
  ASSUME AnswerInv, [Next]_vars
  PROVE  AnswerInv'
<1>1. CASE answer' = NoAnswer
  BY <1>1 DEF AnswerInv, NoAnswer, NoQuery
<1>2. CASE answer' = answer /\ stored' = stored
  <2>1. CASE answer = NoAnswer
    BY <1>1, <1>2, <2>1
  <2>2. CASE answer # NoAnswer
    <3>1. PICK q \in Queries, indexed \in BOOLEAN, how \in {"records", "recordset"} :
            \E rowsOf \in Inputs(q, indexed) :
               (indexed => q.joins = <<>> /\ indexable(q.where)) /\ AnswerOf(q, how, rowsOf)
      BY <2>2 DEF AnswerInv
    <3>2. PICK rowsOf \in Inputs(q, indexed) :
               (indexed => q.joins = <<>> /\ indexable(q.where)) /\ AnswerOf(q, how, rowsOf)
      BY <3>1
    <3>3. rowsOf \in Inputs(q, indexed)'
      BY <1>2, InputsStay
    <3>4. AnswerOf(q, how, rowsOf)'
      BY <1>2, <3>2 DEF AnswerOf
    <3> QED BY <3>2, <3>3, <3>4 DEF AnswerInv
  <2> QED BY <2>1, <2>2
<1>3. ASSUME NEW q \in Queries, NEW indexed \in BOOLEAN, ExecuteQueryToRecordsReader(q, indexed) PROVE AnswerInv'
  <2>1. stored' = stored /\ (indexed => q.joins = <<>> /\ indexable(q.where))
    BY <1>3 DEF ExecuteQueryToRecordsReader
  <2>2. PICK rowsOf \in Inputs(q, indexed) :
          Answered(q, "records", ExecuteQuery(q, rowsOf), ExecuteQuery(withoutPage(q), rowsOf), <<>>)
    BY <1>3, Zenon DEF ExecuteQueryToRecordsReader
  <2>3. AnswerOf(q, "records", rowsOf)'
    BY <2>2 DEF Answered, AnswerOf
  <2>4. rowsOf \in Inputs(q, indexed)'
    BY <2>1, InputsStay
  <2> QED BY <2>1, <2>3, <2>4 DEF AnswerInv
<1>4. ASSUME NEW q \in Queries, ExecuteQueryToRecordsetReader(q) PROVE AnswerInv'
  <2>1. stored' = stored
    BY <1>4 DEF ExecuteQueryToRecordsetReader
  <2>2. PICK rowsOf \in Inputs(q, FALSE) :
          Answered(q, "recordset", ExecuteQuery(q, rowsOf), ExecuteQuery(withoutPage(q), rowsOf),
                   IF ExecuteQuery(q, rowsOf).err = "none" THEN buildRecordset(q, ExecuteQuery(q, rowsOf).records) ELSE <<>>)
    BY <1>4, Zenon DEF ExecuteQueryToRecordsetReader
  <2>3. AnswerOf(q, "recordset", rowsOf)'
    BY <2>2 DEF Answered, AnswerOf
  <2>4. rowsOf \in Inputs(q, FALSE)'
    BY <2>1, InputsStay
  <2> QED BY <2>1, <2>3, <2>4 DEF AnswerInv
<1>5. CASE Next_ \/ Close \/ Cursor
  BY <1>5, <1>2 DEF Next_, Close, Cursor
<1>6. ASSUME NEW o, NEW stop, NEW done, NEW fails, SelectAll(o, stop, done, fails) \/ ReadAllToRecordset(o, stop, done)
      PROVE  AnswerInv'
  BY <1>6, <1>2 DEF SelectAll, ReadAllToRecordset
<1>7. ASSUME NEW row \in Universe, Set(row) \/ Delete(row.key) PROVE AnswerInv'
  BY <1>7, <1>1 DEF Set, Delete, idle
<1>8. CASE Forget
  BY <1>8, <1>1 DEF Forget
<1>9. CASE UNCHANGED vars
  BY <1>9, <1>2 DEF vars
<1> QED BY <1>3, <1>4, <1>5, <1>6, <1>7, <1>8, <1>9, Zenon DEF Next, Query, QueryRecordset

\* The records of an answer are a sequence, and a page of the unpaged ones.
LEMMA AnswerFacts ==
  ASSUME StoreInv, AnswerInv
  PROVE  /\ isSeq(answer.records)
         /\ answer # NoAnswer => SliceOf(answer, [records |-> answer.unpaged], Skipped(answer.q), answer.q.limit)
<1>1. CASE answer = NoAnswer
  BY <1>1, EmptyIsSeq DEF NoAnswer
<1>2. CASE answer # NoAnswer
  <2>1. PICK q \in Queries, indexed \in BOOLEAN, how \in {"records", "recordset"} :
          \E rowsOf \in Inputs(q, indexed) : AnswerOf(q, how, rowsOf)
    BY <1>2 DEF AnswerInv
  <2>2. PICK rowsOf \in Inputs(q, indexed) : AnswerOf(q, how, rowsOf)
    BY <2>1
  <2>3. \A c \in Collections : isSeq(rowsOf[c])
    BY InputsFacts
  <2> DEFINE a == ExecuteQuery(q, rowsOf)
             b == ExecuteQuery(withoutPage(q), rowsOf)
  <2>4. SliceOf(a, b, Skipped(q), q.limit)
    BY <2>3, QuerySlice
  <2>5. answer.q = q /\ answer.err = a.err /\ answer.records = a.records /\ answer.unpaged = b.records
    BY <2>2 DEF AnswerOf
  <2> HIDE DEF a, b
  <2> QED BY <2>4, <2>5 DEF SliceOf
<1> QED BY <1>1, <1>2

-----------------------------------------------------------------------------
(***************************************************************************)
(* Reading an answer.                                                      *)
(***************************************************************************)
\* A sequence that agrees with another as far as it goes is a prefix of it.
LEMMA PrefixIntro ==
  ASSUME NEW s, isSeq(s), NEW t, isSeq(t), Len(s) <= Len(t), \A i \in 1..Len(s) : s[i] = t[i]
  PROVE  IsPrefix(s, t)
<1> DEFINE n == Len(s)
<1>1. n \in Nat /\ Len(t) \in Nat
  BY SeqIsFcn
<1>2. /\ isSeq(SubSeq(s, 1, n)) /\ Len(SubSeq(s, 1, n)) = IF 1 <= n THEN n - 1 + 1 ELSE 0
      /\ \A i \in 1..Len(SubSeq(s, 1, n)) : SubSeq(s, 1, n)[i] = s[1 + i - 1]
  BY <1>1, PartOfSeq
<1>3. /\ isSeq(SubSeq(t, 1, n)) /\ Len(SubSeq(t, 1, n)) = IF 1 <= n THEN n - 1 + 1 ELSE 0
      /\ \A i \in 1..Len(SubSeq(t, 1, n)) : SubSeq(t, 1, n)[i] = t[1 + i - 1]
  BY <1>1, PartOfSeq
<1> DEFINE a == SubSeq(s, 1, n)
           b == SubSeq(t, 1, n)
<1>4. Len(a) = n /\ Len(b) = n
  <2> HIDE DEF n
  <2> QED BY <1>1, <1>2, <1>3
<1>5. \A i \in 1..n : 1 + i - 1 = i
  BY <1>1
<1>6. \A i \in 1..n : a[i] = b[i]
  BY <1>2, <1>3, <1>4, <1>5
<1>7. a = b
  <2>1. isSeq(a) /\ isSeq(b)
    BY <1>2, <1>3
  <2> HIDE DEF a, b
  <2> QED BY <2>1, <1>4, <1>6, SameSeq
<1> QED BY <1>7 DEF IsPrefix

\* The page as a part of the sequence.
LEMMA PageIsPart ==
  ASSUME NEW s, isSeq(s), NEW offset \in Int, NEW limit \in Int
  PROVE  page(s, offset, limit) = SubSeq(s, from_(offset) + 1, last_(s, offset, limit))
<1> DEFINE p == page(s, offset, limit)
           o == from_(offset)
           l == last_(s, offset, limit)
           t == SubSeq(s, o + 1, l)
<1>1. /\ isSeq(p) /\ Len(p) = IF o < l THEN l - o ELSE 0
      /\ \A i \in 1..Len(p) : p[i] = s[o + i]
  BY PageFacts
<1>2. Len(s) \in Nat /\ o \in Nat /\ l \in Int /\ l <= Len(s)
  BY SeqIsFcn DEF from_, last_, to_
<1> HIDE DEF p, o, l
<1>3. /\ isSeq(t) /\ Len(t) = IF o + 1 <= l THEN l - (o + 1) + 1 ELSE 0
      /\ \A i \in 1..Len(t) : t[i] = s[(o + 1) + i - 1]
  <2>1. o + 1 \in Int /\ o + 1 >= 1
    BY <1>2
  <2> QED BY <1>2, <2>1, PartOfSeq, Zenon
<1> HIDE DEF t
<1>4. Len(t) = Len(p) /\ Len(p) \in Nat
  BY <1>1, <1>2, <1>3
<1>5. \A i \in 1..Len(p) : (o + 1) + i - 1 = o + i
  BY <1>2, <1>4
<1>6. \A i \in 1..Len(p) : p[i] = t[i]
  BY <1>1, <1>3, <1>4, <1>5
<1>7. p = t
  BY <1>1, <1>3, <1>4, <1>6, SameSeq
<1> QED BY <1>7 DEF p, o, l, t

\* A reading that is stopped has the beginning of what it was to read.
LEMMA StoppedIsPrefix ==
  ASSUME NEW s, isSeq(s), NEW o, o.offset \in Int, o.limit \in Int, NEW done \in Nat, done < calls(Len(s), o)
  PROVE  IsPrefix(page(SubSeq(s, 1, done), o.offset, 0), page(s, o.offset, o.limit))
<1> DEFINE n == Len(s)
           f == from_(o.offset)
           l == last_(s, o.offset, o.limit)
           c == SubSeq(s, 1, done)
           a == page(c, o.offset, 0)
           b == page(s, o.offset, o.limit)
<1>1. n \in Nat /\ f \in Nat
  BY SeqIsFcn DEF from_
<1>2. calls(n, o) = IF o.limit > 0 /\ f + o.limit <= n THEN f + o.limit ELSE n + 1
  BY DEF calls, from_
<1>3. l = IF o.limit > 0 /\ f + o.limit < n THEN f + o.limit ELSE n
  BY <1>1 DEF last_, to_
<1>4. done < calls(n, o)
  OBVIOUS
<1> HIDE DEF n, f, l
<1>5. done <= n /\ done <= l /\ l \in Int
  BY <1>1, <1>2, <1>3, <1>4
<1>6. /\ isSeq(c) /\ Len(c) = IF 1 <= done THEN done - 1 + 1 ELSE 0
      /\ \A i \in 1..Len(c) : c[i] = s[1 + i - 1]
  BY <1>5, PartOfSeq DEF n
<1> HIDE DEF c
<1>7. Len(c) = done
  BY <1>6
<1>8. \A i \in 1..done : c[i] = s[i]
  <2>1. \A i \in 1..done : 1 + i - 1 = i
    OBVIOUS
  <2> QED BY <1>6, <1>7, <2>1
<1>9. /\ isSeq(a) /\ Len(a) = IF f < done THEN done - f ELSE 0
      /\ \A i \in 1..Len(a) : a[i] = c[f + i]
  <2>1. last_(c, o.offset, 0) = done
    BY <1>7 DEF last_, to_
  <2> QED BY <1>6, <2>1, PageFacts DEF f
<1>10. /\ isSeq(b) /\ Len(b) = IF f < l THEN l - f ELSE 0
       /\ \A i \in 1..Len(b) : b[i] = s[f + i]
  BY PageFacts DEF f, l
<1> HIDE DEF a, b
<1>11. Len(a) <= Len(b) /\ Len(a) \in Nat /\ Len(b) \in Nat
  BY <1>1, <1>5, <1>9, <1>10
<1>12. ASSUME NEW i \in 1..Len(a) PROVE a[i] = b[i]
  <2>1. i \in 1..Len(b) /\ f + i \in 1..done
    BY <1>1, <1>9, <1>11
  <2> QED BY <2>1, <1>8, <1>9, <1>10
<1>13. IsPrefix(a, b)
  BY <1>9, <1>10, <1>11, <1>12, PrefixIntro
<1> QED BY <1>13 DEF a, b, c

\* What reading everything returned.
Wanted == page(answer.records, got.options.offset, got.options.limit)
AllRead ==
    got.how = "all" =>
      /\ got.options.offset \in Int /\ got.options.limit \in Int
      /\ IF got.err \in {"none", "closeFailed"} THEN got.records = Wanted ELSE IsPrefix(got.records, Wanted)

\* The helpers that read everything return the page of their own options.
LEMMA SelectAllReads ==
  ASSUME isSeq(answer.records), ReaderInv, NEW o \in ReadOptions, NEW stop \in {"none", "cancelled", "failed"},
         NEW done \in Nat, NEW closeFails, SelectAll(o, stop, done, closeFails)
  PROVE  AllRead'
<1> DEFINE s == answer.records
           stopped == stop # "none" /\ done < calls(Len(s), o)
<1>1. reader.open /\ reader.records = s /\ answer' = answer
  BY DEF SelectAll, ReaderInv
<1>2. o = [offset |-> o.offset, limit |-> o.limit] /\ o.offset \in Int /\ o.limit \in Int
  BY QueryAssumption
<1>3. got' = [how     |-> "all",
              records |-> IF stopped THEN readPage(SubSeq(s, 1, done), [o EXCEPT !.limit = 0])
                          ELSE readPage(s, o),
              options |-> o,
              err     |-> IF stopped THEN stop ELSE IF closeFails THEN "closeFailed" ELSE "none",
              cursor  |-> "unknown"]
  BY <1>1 DEF SelectAll
<1>4. [o EXCEPT !.limit = 0].offset = o.offset /\ [o EXCEPT !.limit = 0].limit = 0
  BY <1>2
<1>5. /\ readPage(SubSeq(s, 1, done), [o EXCEPT !.limit = 0]) = page(SubSeq(s, 1, done), o.offset, 0)
      /\ readPage(s, o) = page(s, o.offset, o.limit)
  BY <1>4 DEF readPage
<1>6. got.options' = o /\ Wanted' = page(s, o.offset, o.limit)
  BY <1>1, <1>3 DEF Wanted
<1> HIDE DEF s
<1>7. CASE stopped
  <2>1. IsPrefix(page(SubSeq(s, 1, done), o.offset, 0), page(s, o.offset, o.limit))
    BY <1>2, <1>7, StoppedIsPrefix DEF s
  <2>2. got.records' = page(SubSeq(s, 1, done), o.offset, 0) /\ got.err' \notin {"none", "closeFailed"}
    BY <1>3, <1>5, <1>7
  <2> QED BY <2>1, <2>2, <1>2, <1>6 DEF AllRead
<1>8. CASE ~stopped
  <2>1. got.records' = page(s, o.offset, o.limit) /\ got.err' \in {"none", "closeFailed"}
    BY <1>3, <1>5, <1>8
  <2> QED BY <2>1, <1>2, <1>6 DEF AllRead
<1> QED BY <1>7, <1>8

\* Nothing is open and nothing was read before the first query.
LEMMA ReaderInvInit == Init => ReaderInv /\ AllRead
<1> SUFFICES ASSUME Init PROVE ReaderInv /\ AllRead
  OBVIOUS
<1>1. answer = NoAnswer /\ reader = NoReader /\ got = NothingRead
  BY DEF Init
<1> QED BY <1>1 DEF ReaderInv, AllRead, NoAnswer, NoReader, NothingRead

\* Reading one record keeps what was read the beginning of the answer.
LEMMA NextReads ==
  ASSUME isSeq(answer.records), ReaderInv, Next_
  PROVE  ReaderInv' /\ AllRead'
<1> DEFINE s == answer.records
           g == got.records
           c == reader.current
<1>1. /\ answer' = answer /\ answer.how = "records" /\ answer # NoAnswer
      /\ got.how \in {"none", "next"} /\ c \in Int /\ c >= -1
  BY DEF Next_, ReaderInv, NoAnswer
<1>2. Len(s) \in Nat
  BY SeqIsFcn
<1>3. /\ isSeq(g) /\ Len(g) = (IF c + 1 <= Len(s) THEN c + 1 ELSE Len(s))
      /\ \A i \in 1..Len(g) : g[i] = s[i]
  <2>1. CASE got.how = "none"
    <3>1. g = <<>> /\ c = -1
      BY <2>1 DEF ReaderInv
    <3> QED BY <3>1, <1>2, EmptyIsSeq
  <2>2. CASE got.how = "next"
    BY <2>2 DEF ReaderInv, ReadSoFar
  <2> QED BY <1>1, <2>1, <2>2
<1>4. /\ reader = [records |-> reader.records, current |-> c, open |-> reader.open]
      /\ got = [how |-> got.how, records |-> g, options |-> got.options, err |-> got.err, cursor |-> got.cursor]
  BY DEF ReaderInv
<1>5. CASE ~reader.open
  <2>1. reader' = reader /\ got' = [got EXCEPT !.how = "next", !.err = "noRecords", !.cursor = "unknown"]
    BY <1>5 DEF Next_
  <2>2. got' = [how |-> "next", records |-> g, options |-> got.options, err |-> "noRecords", cursor |-> "unknown"]
    BY <2>1, <1>4
  <2>3. ReadSoFar'
    BY <2>1, <2>2, <1>1, <1>3 DEF ReadSoFar
  <2>4. got.how' = "next" /\ got.cursor' = "unknown" /\ reader' = reader /\ answer' = answer
    BY <2>1, <2>2, <1>1
  <2>5. AllRead'
    BY <2>4 DEF AllRead
  <2> QED BY <2>2, <2>3, <2>4, <2>5, <1>1 DEF ReaderInv
<1>6. CASE reader.open
  <2>1. reader.records = s /\ answer.err = "none"
    BY <1>6 DEF ReaderInv
  <2>2. reader' = [records |-> s, current |-> c + 1, open |-> TRUE]
    BY <1>4, <1>6, <2>1 DEF Next_, ReaderInv
  <2>3. CASE c + 1 >= Len(s)
    <3>1. got' = [got EXCEPT !.how = "next", !.err = "noMore", !.cursor = "unknown"]
      BY <1>6, <2>1, <2>3 DEF Next_
    <3>2. got' = [how |-> "next", records |-> g, options |-> got.options, err |-> "noMore", cursor |-> "unknown"]
      BY <3>1, <1>4
    <3>3. Len(g) = IF (c + 1) + 1 <= Len(s) THEN (c + 1) + 1 ELSE Len(s)
      BY <2>3, <1>1, <1>2, <1>3
    <3>4. ReadSoFar'
      BY <2>2, <3>2, <3>3, <1>1, <1>3 DEF ReadSoFar
    <3>5. AllRead'
      BY <3>2 DEF AllRead
    <3> QED BY <3>2, <3>4, <3>5, <1>1, <2>1, <2>2 DEF ReaderInv
  <2>4. CASE ~(c + 1 >= Len(s))
    <3> DEFINE x == reader.records[c + 2]
               h == Append(g, x)
    <3>1. got' = [got EXCEPT !.how = "next", !.cursor = "unknown", !.records = h]
      BY <1>6, <2>1, <2>4 DEF Next_
    <3>2. got' = [how |-> "next", records |-> h, options |-> got.options, err |-> got.err, cursor |-> "unknown"]
      BY <3>1, <1>4
    <3>3. Len(g) = c + 1 /\ (c + 1) + 1 <= Len(s) /\ c + 2 = (c + 1) + 1 /\ c + 1 \in Nat
      BY <2>4, <1>1, <1>2, <1>3
    <3>4. /\ isSeq(h) /\ Len(h) = Len(g) + 1 /\ h[Len(g) + 1] = x
          /\ \A i \in 1..Len(g) : h[i] = g[i]
      <4> HIDE DEF x
      <4> QED BY <1>3, AppendIsSeq
    <3>5. x = s[c + 2]
      BY <2>1
    <3> HIDE DEF h, x
    <3>6. ASSUME NEW i \in 1..((c + 1) + 1) PROVE h[i] = s[i]
      <4>1. CASE i = c + 2
        BY <4>1, <3>3, <3>4, <3>5
      <4>2. CASE i # c + 2
        <5>1. i \in 1..Len(g)
          BY <4>2, <3>3
        <5> QED BY <5>1, <3>4, <1>3
      <4> QED BY <4>1, <4>2
    <3>7. Len(h) = (c + 1) + 1
      BY <3>3, <3>4
    <3>8. ReadSoFar'
      <4>1. got.records' = h /\ answer.records' = s /\ reader.current' = c + 1
        BY <3>2, <2>2, <1>1
      <4>2. Len(h) = IF (c + 1) + 1 <= Len(s) THEN (c + 1) + 1 ELSE Len(s)
        BY <3>3, <3>7
      <4>3. \A i \in 1..Len(h) : h[i] = s[i]
        BY <3>6, <3>7
      <4> HIDE DEF s, c
      <4> QED BY <3>4, <4>1, <4>2, <4>3 DEF ReadSoFar
    <3>9. AllRead'
      BY <3>2 DEF AllRead
    <3> HIDE DEF s
    <3> QED BY <3>2, <3>8, <3>9, <1>1, <2>1, <2>2 DEF ReaderInv, s
  <2> QED BY <2>3, <2>4
<1> QED BY <1>5, <1>6

\* Every step keeps what ties the reader and what was read to the answer.
LEMMA ReaderInvStep ==
  ASSUME StoreInv, AnswerInv, ReaderInv, AllRead, [Next]_vars
  PROVE  ReaderInv' /\ AllRead'
<1>1. isSeq(answer.records)
  BY AnswerFacts
<1>2. CASE Next_
  BY <1>1, <1>2, NextReads
<1>3. CASE UNCHANGED <<answer, reader, got>>
  BY <1>3 DEF ReaderInv, AllRead, ReadSoFar, Wanted
<1>4. ASSUME NEW row \in Universe, Set(row) \/ Delete(row.key) PROVE ReaderInv' /\ AllRead'
  BY <1>3, <1>4 DEF Set, Delete
<1>5. ASSUME idle, NEW q \in Queries, NEW indexed \in BOOLEAN, ExecuteQueryToRecordsReader(q, indexed)
      PROVE  ReaderInv' /\ AllRead'
  <2>1. got = NothingRead /\ got' = got
    BY <1>5 DEF idle, ReaderInv, ExecuteQueryToRecordsReader
  <2>2. PICK rowsOf \in Inputs(q, indexed) :
          /\ Answered(q, "records", ExecuteQuery(q, rowsOf), ExecuteQuery(withoutPage(q), rowsOf), <<>>)
          /\ reader' = [records |-> ExecuteQuery(q, rowsOf).records, current |-> -1,
                        open |-> ExecuteQuery(q, rowsOf).err = "none"]
    BY <1>5, Zenon DEF ExecuteQueryToRecordsReader
  <2> DEFINE r == ExecuteQuery(q, rowsOf)
  <2>3. answer.records' = r.records /\ answer.err' = r.err /\ answer.how' = "records"
    BY <2>2 DEF Answered
  <2>5. answer' # NoAnswer
    BY <2>3 DEF NoAnswer
  <2>6. reader' = [records |-> r.records, current |-> -1, open |-> r.err = "none"]
    BY <2>2
  <2> HIDE DEF r
  <2>7. AllRead'
    BY <2>1 DEF AllRead, NothingRead
  <2> QED BY <2>1, <2>3, <2>5, <2>6, <2>7 DEF ReaderInv, NothingRead
<1>6. ASSUME idle, NEW q \in Queries, ExecuteQueryToRecordsetReader(q) PROVE ReaderInv' /\ AllRead'
  <2>1. got = NothingRead /\ got' = got /\ reader = NoReader /\ reader' = reader
    BY <1>6 DEF idle, ReaderInv, ExecuteQueryToRecordsetReader, NoAnswer
  <2>2. answer.how' = "recordset"
    BY <1>6 DEF ExecuteQueryToRecordsetReader, Answered
  <2>3. answer' # NoAnswer
    BY <2>2 DEF NoAnswer
  <2> QED BY <2>1, <2>2, <2>3 DEF ReaderInv, AllRead, NothingRead, NoReader
<1>7. CASE Close
  <2>1. /\ answer' = answer /\ got' = got /\ reader.open
        /\ reader' = [reader EXCEPT !.records = <<>>, !.open = FALSE]
    BY <1>7 DEF Close
  <2>2. reader' = [records |-> <<>>, current |-> reader.current, open |-> FALSE]
    BY <2>1 DEF ReaderInv
  <2>3. answer.how = "records" /\ answer # NoAnswer
    BY <2>1 DEF ReaderInv, NoAnswer
  <2> QED BY <2>1, <2>2, <2>3 DEF ReaderInv, AllRead, ReadSoFar, Wanted
<1>8. CASE Cursor
  <2> DEFINE k == IF reader.current >= Len(reader.records) THEN "closed"
                  ELSE IF reader.current < 0 THEN "notStarted" ELSE "position"
  <2>1. /\ answer' = answer /\ reader' = reader /\ got' = [got EXCEPT !.cursor = k]
        /\ answer.how = "records" /\ answer.err = "none" /\ answer # NoAnswer /\ got.how \in {"none", "next"}
    BY <1>8 DEF Cursor, NoAnswer
  <2>2. got' = [how |-> got.how, records |-> got.records, options |-> got.options, err |-> got.err, cursor |-> k]
    BY <2>1 DEF ReaderInv
  <2>3. k = "position" => 0 <= reader.current /\ reader.current + 1 <= Len(answer.records)
    <3>1. Len(reader.records) \in Nat /\ Len(reader.records) <= Len(answer.records) /\ Len(answer.records) \in Nat
      <4>1. CASE reader.open
        BY <4>1, <1>1, SeqIsFcn DEF ReaderInv
      <4>2. CASE ~reader.open
        BY <2>1, <4>2, <1>1, SeqIsFcn, EmptyIsSeq DEF ReaderInv
      <4> QED BY <4>1, <4>2
    <3>2. reader.current \in Int
      BY DEF ReaderInv
    <3> QED BY <3>1, <3>2
  <2> HIDE DEF k
  <2> QED BY <2>1, <2>2, <2>3 DEF ReaderInv, AllRead, ReadSoFar, Wanted
<1>9. ASSUME NEW o \in ReadOptions, NEW stop \in {"none", "cancelled", "failed"}, NEW done \in Nat,
             NEW fails, SelectAll(o, stop, done, fails)
      PROVE  ReaderInv' /\ AllRead'
  <2>1. AllRead'
    BY <1>1, <1>9, SelectAllReads
  <2>2. /\ answer' = answer /\ reader.open /\ got.how' = "all"
        /\ reader' = [reader EXCEPT !.records = <<>>, !.open = FALSE]
        /\ got' = [how |-> got.how', records |-> got.records', options |-> got.options', err |-> got.err',
                   cursor |-> got.cursor']
    BY <1>9 DEF SelectAll
  <2>3. reader' = [records |-> <<>>, current |-> reader.current, open |-> FALSE]
    BY <2>2 DEF ReaderInv
  <2>4. answer.how = "records" /\ answer # NoAnswer
    BY <2>2 DEF ReaderInv, NoAnswer
  <2> QED BY <2>1, <2>2, <2>3, <2>4 DEF ReaderInv
<1>10. ASSUME NEW o, NEW stop, NEW done, ReadAllToRecordset(o, stop, done) PROVE ReaderInv' /\ AllRead'
  <2>1. /\ answer' = answer /\ reader' = reader /\ got.how' = "recordset"
        /\ got' = [how |-> got.how', records |-> got.records', options |-> got.options', err |-> got.err',
                   cursor |-> got.cursor']
        /\ answer.how = "recordset"
    BY <1>10 DEF ReadAllToRecordset
  <2>2. answer # NoAnswer
    BY <2>1 DEF NoAnswer
  <2> QED BY <2>1, <2>2 DEF ReaderInv, AllRead
<1>11. CASE Forget
  <2>1. answer' = NoAnswer /\ reader' = NoReader /\ got' = NothingRead
    BY <1>11 DEF Forget
  <2> QED BY <2>1 DEF ReaderInv, AllRead, NoAnswer, NoReader, NothingRead
<1>12. CASE UNCHANGED vars
  BY <1>3, <1>12 DEF vars
<1>13. \A done \in 0..MaxRows : done \in Nat
  OBVIOUS
<1>14. CASE \E o \in ReadOptions : \E stop \in {"none", "cancelled", "failed"} : \E done \in 0..MaxRows :
               SelectAll(o, stop, done, FALSE)
  BY <1>9, <1>13, <1>14
<1>15. CASE \E o \in ReadOptions : SelectAll(o, "none", 0, TRUE)
  BY <1>9, <1>15
<1> QED BY <1>2, <1>4, <1>5, <1>6, <1>7, <1>8, <1>10, <1>11, <1>12, <1>14, <1>15, Zenon DEF Next, Query, QueryRecordset

-----------------------------------------------------------------------------
(***************************************************************************)
(* The elements of what the stages return, and the fields of the records.  *)
(***************************************************************************)
LEMMA SortElements ==
  ASSUME NEW s, isSeq(s), NEW less, NEW i \in 1..Len(stableSort(s, less))
  PROVE  stableSort(s, less)[i] \in Range(s)
<1> DEFINE S == Range(s)
<1>1. s \in Seq(S)
  BY DEF isSeq
<1> HIDE DEF S
<1>2. stableSort(s, less) \in Seq(S)
  BY <1>1, SortPermutes
<1>3. stableSort(s, less)[i] \in S
  BY <1>2
<1> QED BY <1>3 DEF S

\* What is kept of a sequence was in it.
LEMMA KeptElements ==
  ASSUME NEW s, isSeq(s), NEW keep, NEW i \in 1..Len(only(s, keep))
  PROVE  only(s, keep)[i] \in Range(s)
<1> DEFINE S == Range(s)
<1>1. s \in Seq(S)
  BY DEF isSeq
<1> HIDE DEF S
<1>2. only(s, keep) \in Seq(S)
  BY <1>1, OnlyIsSeq
<1>3. only(s, keep)[i] \in S
  BY <1>2
<1> QED BY <1>3 DEF S

\* An element of a flattened sequence is one of a part.
LEMMA FlattenedElements ==
  ASSUME NEW seqs, isSeq(seqs), \A i \in 1..Len(seqs) : isSeq(seqs[i]), NEW k \in 1..Len(FlattenSeq(seqs))
  PROVE  \E i \in 1..Len(seqs) : FlattenSeq(seqs)[k] \in Range(seqs[i])
<1> DEFINE S == UNION {Range(seqs[i]) : i \in 1..Len(seqs)}
           n == Len(seqs)
<1>1. n \in Nat /\ DOMAIN seqs = 1..n
  BY SeqIsFcn
<1>2. ASSUME NEW i \in 1..n PROVE seqs[i] \in Seq(S)
  <2> DEFINE R == Range(seqs[i])
  <2>1. seqs[i] \in Seq(R)
    BY <1>2 DEF isSeq
  <2>2. R \subseteq S
    BY <1>2
  <2> HIDE DEF R, S
  <2> QED BY <2>1, <2>2
<1>3. seqs \in Seq(Seq(S))
  <2>1. seqs = [i \in 1..n |-> seqs[i]]
    BY SeqIsFcn
  <2> HIDE DEF S, n
  <2>2. seqs \in [1..n -> Seq(S)]
    BY <2>1, <1>2
  <2> QED BY <2>2, <1>1
<1> HIDE DEF S
<1>4. PICK g : Flattens(S, seqs, g)
  BY <1>3, FlattenSteps, Zenon
<1>5. Len(seqs) \in 0..Len(seqs)
  BY <1>1
<1>6. FlattenSeq(seqs) \in Seq(S)
  BY <1>4, <1>5 DEF Flattens
<1>7. FlattenSeq(seqs)[k] \in S
  BY <1>6
<1> QED BY <1>7 DEF S

\* Rows of the records that were written have finitely many fields.
LEMMA StoredRows ==
  ASSUME StoreInv, NEW c \in Collections, NEW r \in RowsIn(c)
  PROVE  /\ r.id \in DOMAIN stored[c] /\ r = RowAt(c, r.id) /\ stored[c][r.id] \in Universe
         /\ stored[c][r.id] = [key |-> r.key, data |-> r.data]
         /\ r.key.coll = c /\ keyID(r.key) = r.id
         /\ IsFiniteSet(DOMAIN r.data) /\ \A f \in DOMAIN r.data : isValue(r.data[f])
<1>1. PICK id \in DOMAIN stored[c] : r = RowAt(c, id)
  BY DEF RowsIn
<1>2. r.id = id /\ r.key = stored[c][id].key /\ r.data = stored[c][id].data
  BY <1>1 DEF RowAt
<1>3. stored[c][id] \in Universe /\ stored[c][id].key.coll = c /\ keyID(stored[c][id].key) = id
  BY DEF StoreInv, Holds
<1>4. /\ stored[c][id] = [key |-> stored[c][id].key, data |-> stored[c][id].data]
      /\ IsFiniteSet(DOMAIN stored[c][id].data)
      /\ \A f \in DOMAIN stored[c][id].data : isValue(stored[c][id].data[f])
  BY <1>3, QueryAssumption
<1> QED BY <1>1, <1>2, <1>3, <1>4

\* Rows of a query come from what is stored in a collection.
LEMMA InputRows ==
  ASSUME StoreInv, NEW q \in Queries, NEW indexed \in BOOLEAN, NEW rowsOf \in Inputs(q, indexed),
         NEW c \in {q.name} \cup (IF q.joins = <<>> THEN {} ELSE {q.joins[1].name}), NEW r \in Range(rowsOf[c])
  PROVE  c \in Collections /\ r \in RowsIn(c)
<1>1. q.name \in Collections
  BY QueryAssumption
<1>2. CASE c = q.name
  <2>1. rowsOf[c] \in engineRows(c, q, indexed)
    BY <1>2, InputsFacts
  <2>2. Range(rowsOf[c]) = Returned(c, q, indexed)
    BY <1>1, <1>2, <2>1, EngineRowsFacts
  <2> QED BY <1>1, <1>2, <2>2 DEF Returned
<1>3. CASE c # q.name
  <2>1. q.joins # <<>> /\ c = q.joins[1].name
    BY <1>3
  <2>2. rowsOf[c] \in engineRows(c, q, FALSE) /\ c \in Collections
    BY <1>3, <2>1, InputsFacts
  <2>3. Range(rowsOf[c]) = Returned(c, q, FALSE)
    BY <2>2, EngineRowsFacts
  <2> QED BY <2>2, <2>3 DEF Returned
<1> QED BY <1>2, <1>3

FewFields(records) ==
    isSeq(records) /\ \A i \in 1..Len(records) : IsFiniteSet(DOMAIN recordToMap(records[i]))

\* The records of a query without columns have finitely many fields.
LEMMA NoRecordsFewFields == FewFields(<<>>)
BY EmptyIsSeq DEF FewFields

\* The records of a grouped query without columns have finitely many fields.
LEMMA GroupedFewFields ==
  ASSUME NEW q, q.columns = <<>>, q.offset \in Int, q.limit \in Int, NEW rows, isSeq(rows), NEW known
  PROVE  FewFields(executeGroupedReader(q, rows, known).records)
<1> DEFINE Bare(gs) == isSeq(gs) /\ \A g \in Range(gs) : DOMAIN g.out = {}
<1>1. \A err : FewFields(Failed(err).records)
  BY NoRecordsFewFields DEF Failed
<1>2. ASSUME NEW gs, Bare(gs) PROVE FewFields(groupRecords(q, page(gs, q.offset, q.limit)).records)
  <2> DEFINE p == page(gs, q.offset, q.limit)
             a == [i \in DOMAIN p |-> Rec(NewKeyWithID(q.name, <<i - 1>>), p[i].out)]
             o == from_(q.offset)
             l == last_(gs, q.offset, q.limit)
  <2>1. groupRecords(q, p).records = a
    BY DEF groupRecords, Records
  <2>2. /\ isSeq(p) /\ Len(p) = (IF o < l THEN l - o ELSE 0)
        /\ \A i \in 1..Len(p) : p[i] = gs[o + i]
    BY <1>2, PageFacts
  <2>3. /\ o \in Nat /\ Len(gs) \in Nat /\ l \in Int /\ l <= Len(gs) /\ DOMAIN gs = 1..Len(gs)
        /\ Len(p) \in Nat /\ DOMAIN p = 1..Len(p)
    <3>1. Len(gs) \in Nat /\ DOMAIN gs = 1..Len(gs) /\ Len(p) \in Nat /\ DOMAIN p = 1..Len(p)
      BY <1>2, <2>2, SeqIsFcn
    <3>2. o \in Nat /\ l \in Int /\ l <= Len(gs)
      BY <3>1 DEF from_, to_, last_
    <3> QED BY <3>1, <3>2
  <2> HIDE DEF p, o, l
  <2>4. a = [i \in DOMAIN p |-> a[i]]
    OBVIOUS
  <2>5. isSeq(a) /\ Len(a) = Len(p)
    <3> HIDE DEF a
    <3> QED BY <2>2, <2>4, SameLength
  <2>6. ASSUME NEW i \in 1..Len(a) PROVE IsFiniteSet(DOMAIN recordToMap(a[i]))
    <3>1. i \in DOMAIN p /\ i \in 1..Len(p) /\ o + i \in DOMAIN gs
      BY <2>2, <2>3, <2>5
    <3>2. p[i] \in Range(gs)
      BY <3>1, <2>2 DEF Range
    <3>3. recordToMap(a[i]) = p[i].out
      BY <3>1 DEF recordToMap, Rec
    <3> QED BY <3>2, <3>3, <1>2, FS_EmptySet
  <2> HIDE DEF a
  <2>7. FewFields(a)
    BY <2>5, <2>6 DEF FewFields
  <2> QED BY <2>1, <2>7 DEF p
<1>3. ASSUME NEW gs, Bare(gs) PROVE FewFields(orderGroups(q, gs, known).records)
  <2> DEFINE less == {p \in Pairs(gs) : groupLess(q.orderBy, known, p[1], p[2])}
             s == stableSort(gs, less)
  <2>1. \/ orderGroups(q, gs, known) = Failed("invalid")
        \/ orderGroups(q, gs, known) = groupRecords(q, page(s, q.offset, q.limit))
    BY Zenon DEF orderGroups
  <2> HIDE DEF less
  <2>2. Bare(s)
    <3>1. isSeq(s) /\ \A i \in 1..Len(s) : s[i] \in Range(gs)
      BY <1>3, SortedIsSeq, SortElements
    <3>2. DOMAIN s = 1..Len(s)
      BY <3>1, SeqIsFcn
    <3> HIDE DEF s
    <3> QED BY <3>1, <3>2, <1>3 DEF Range
  <2> HIDE DEF s, Bare
  <2> QED BY <2>1, <2>2, <1>1, <1>2
<1>4. ASSUME NEW gs, Bare(gs) PROVE FewFields(filterGroups(q, gs, known).records)
  <2> DEFINE keep == {g \in Range(gs) : matchesHaving(q.having, g, known) = "yes"}
             s == only(gs, keep)
  <2>1. \/ filterGroups(q, gs, known) = orderGroups(q, gs, known)
        \/ filterGroups(q, gs, known) = Failed("invalid")
        \/ filterGroups(q, gs, known) = orderGroups(q, s, known)
    BY Zenon DEF filterGroups
  <2> HIDE DEF keep
  <2>2. Bare(s)
    <3>1. isSeq(s) /\ \A i \in 1..Len(s) : s[i] \in Range(gs)
      BY <1>4, KeptIsSeq, KeptElements
    <3>2. DOMAIN s = 1..Len(s)
      BY <3>1, SeqIsFcn
    <3> HIDE DEF s
    <3> QED BY <3>1, <3>2, <1>4 DEF Range
  <2> HIDE DEF s, Bare
  <2> QED BY <2>1, <2>2, <1>1, <1>3, <1>4
<1>5. ASSUME NEW gs, isSeq(gs), \A i \in 1..Len(gs) : "out" \in DOMAIN gs[i]
      PROVE  FewFields(projectGroups(q, gs, known).records)
  <2> DEFINE s == [i \in DOMAIN gs |-> projectGroup(q, gs[i], known)]
  <2>1. \/ projectGroups(q, gs, known) = Failed("invalid")
        \/ projectGroups(q, gs, known) = filterGroups(q, s, known)
    BY Zenon DEF projectGroups, mapped
  <2>2. isSeq(s) /\ DOMAIN s = DOMAIN gs /\ DOMAIN gs = 1..Len(gs)
    <3>1. s = [i \in DOMAIN gs |-> s[i]]
      OBVIOUS
    <3> HIDE DEF s
    <3> QED BY <1>5, <3>1, SameLength, SeqIsFcn
  <2>3. ASSUME NEW i \in DOMAIN gs PROVE DOMAIN s[i].out = {}
    <3>1. DOMAIN <<>> = {}
      BY EmptySeq
    <3>2. {columnOutKey(q.columns[n]) : n \in DOMAIN q.columns} = {}
      BY <3>1
    <3>3. "out" \in DOMAIN gs[i]
      BY <2>2, <1>5
    <3> QED BY <3>2, <3>3 DEF projectGroup, named
  <2>4. Bare(s)
    <3> HIDE DEF s
    <3> QED BY <2>2, <2>3 DEF Range
  <2> HIDE DEF s, Bare
  <2> QED BY <2>1, <2>4, <1>1, <1>4
<1> DEFINE gs == partition(q.groupBy, rows, known)
           r == executeGroupedReader(q, rows, known)
<1>6. r = Failed("invalid") \/ r = projectGroups(q, gs, known)
  BY Zenon DEF executeGroupedReader
<1>7. isSeq(gs) /\ \A i \in 1..Len(gs) : "out" \in DOMAIN gs[i]
  <2> DEFINE G == GroupsOf(q.groupBy, rows, known)
  <2>1. PICK g : Partitions(q.groupBy, rows, known, g)
    BY PartitionSteps, Zenon
  <2>2. Len(rows) \in 0..Len(rows)
    BY SeqIsFcn
  <2>3. gs \in Seq(G)
    BY <2>1, <2>2 DEF Partitions
  <2>4. \A x \in G : "out" \in DOMAIN x
    BY DEF GroupsOf
  <2> HIDE DEF gs, G
  <2> QED BY <2>3, <2>4, AnySeq
<1> HIDE DEF gs, r
<1>8. FewFields(r.records)
  BY <1>1, <1>5, <1>6, <1>7
<1> QED BY <1>8 DEF r

\* The records of a query of one collection have finitely many fields.
LEMMA SingleFewFields ==
  ASSUME NEW q, q.columns = <<>>, q.limit \in Int, q.groupBy = <<>>,
         NEW rows, isSeq(rows), \A r \in Range(rows) : IsFiniteSet(DOMAIN r.data), NEW known
  PROVE  FewFields(singleRecords(q, rows, known).records)
<1> DEFINE s == orderBySources(rows, q.orderBy)
           c == cut(s, q.limit)
           a == [i \in DOMAIN c |-> singleRecord(q, c[i])]
<1>1. singleRecords(q, rows, known).records = a
  BY DEF singleRecords, mapped, Records
<1>2. isSeq(s) /\ \A i \in 1..Len(s) : s[i] \in Range(rows)
  BY SortedIsSeq, SortElements, Zenon DEF orderBySources
<1> HIDE DEF s
<1>3. isSeq(c) /\ Len(c) <= Len(s) /\ Len(s) \in Nat /\ Len(c) \in Nat /\ \A i \in 1..Len(c) : c[i] = s[i]
  <2>1. /\ isSeq(c) /\ Len(c) = (IF q.limit > 0 /\ q.limit < Len(s) THEN q.limit ELSE Len(s))
        /\ \A i \in 1..Len(c) : c[i] = s[i]
    BY <1>2, CutFacts
  <2>2. Len(s) \in Nat
    BY <1>2, SeqIsFcn
  <2>3. Len(c) <= Len(s) /\ Len(c) \in Nat
    BY <2>1, <2>2
  <2> QED BY <2>1, <2>2, <2>3
<1> HIDE DEF c
<1>4. a = [i \in DOMAIN c |-> a[i]]
  OBVIOUS
<1>5. isSeq(a) /\ Len(a) = Len(c) /\ DOMAIN c = 1..Len(c)
  <2> HIDE DEF a
  <2> QED BY <1>3, <1>4, SameLength, SeqIsFcn
<1>6. ASSUME NEW i \in 1..Len(a) PROVE IsFiniteSet(DOMAIN recordToMap(a[i]))
  <2>1. i \in DOMAIN c /\ i \in 1..Len(c) /\ i \in 1..Len(s)
    BY <1>3, <1>5
  <2>2. c[i] \in Range(rows)
    BY <2>1, <1>2, <1>3
  <2>3. IsFiniteSet(DOMAIN c[i].data)
    BY <2>2
  <2>4. a[i] = Rec(c[i].key, c[i].data) \/ a[i] = KeyOnly(c[i].key)
    BY <2>1 DEF singleRecord
  <2> HIDE DEF a
  <2>5. CASE a[i] = Rec(c[i].key, c[i].data)
    <3>1. recordToMap(a[i]) = c[i].data
      BY <2>5 DEF recordToMap, Rec
    <3> QED BY <3>1, <2>3
  <2>6. CASE a[i] = KeyOnly(c[i].key)
    <3>1. DOMAIN recordToMap(a[i]) = {"ID"}
      BY <2>6 DEF recordToMap, KeyOnly
    <3> QED BY <3>1, FS_Singleton
  <2> QED BY <2>4, <2>5, <2>6
<1> HIDE DEF a
<1> QED BY <1>1, <1>5, <1>6 DEF FewFields

\* The records of a join have finitely many fields.
LEMMA JoinFewFields ==
  ASSUME NEW q, q.columns = <<>>, q.limit \in Int, q.groupBy = <<>>,
         NEW rows, isSeq(rows), \A r \in Range(rows) : IsFiniteSet(DOMAIN r.merged), NEW known
  PROVE  FewFields(joinRecords(q, rows, known).records)
<1> DEFINE s == orderBySources(rows, q.orderBy)
           c == cut(s, q.limit)
           a == [i \in DOMAIN c |-> joinRecord(q, c[i])]
<1>1. joinRecords(q, rows, known).records = a
  BY DEF joinRecords, mapped, Records
<1>2. isSeq(s) /\ \A i \in 1..Len(s) : s[i] \in Range(rows)
  BY SortedIsSeq, SortElements, Zenon DEF orderBySources
<1> HIDE DEF s
<1>3. isSeq(c) /\ Len(c) <= Len(s) /\ Len(s) \in Nat /\ Len(c) \in Nat /\ \A i \in 1..Len(c) : c[i] = s[i]
  <2>1. /\ isSeq(c) /\ Len(c) = (IF q.limit > 0 /\ q.limit < Len(s) THEN q.limit ELSE Len(s))
        /\ \A i \in 1..Len(c) : c[i] = s[i]
    BY <1>2, CutFacts
  <2>2. Len(s) \in Nat
    BY <1>2, SeqIsFcn
  <2>3. Len(c) <= Len(s) /\ Len(c) \in Nat
    BY <2>1, <2>2
  <2> QED BY <2>1, <2>2, <2>3
<1> HIDE DEF c
<1>4. a = [i \in DOMAIN c |-> a[i]]
  OBVIOUS
<1>5. isSeq(a) /\ Len(a) = Len(c) /\ DOMAIN c = 1..Len(c)
  <2> HIDE DEF a
  <2> QED BY <1>3, <1>4, SameLength, SeqIsFcn
<1>6. ASSUME NEW i \in 1..Len(a) PROVE IsFiniteSet(DOMAIN recordToMap(a[i]))
  <2>1. i \in DOMAIN c /\ i \in 1..Len(c) /\ i \in 1..Len(s)
    BY <1>3, <1>5
  <2>2. c[i] \in Range(rows)
    BY <2>1, <1>2, <1>3
  <2>3. IsFiniteSet(DOMAIN c[i].merged)
    BY <2>2
  <2> DEFINE k == NewKeyWithID(q.name, c[i].id)
  <2>4. a[i] = Rec(k, c[i].merged) \/ a[i] = KeyOnly(k)
    BY <2>1 DEF joinRecord
  <2> HIDE DEF a, k
  <2>5. CASE a[i] = Rec(k, c[i].merged)
    <3>1. recordToMap(a[i]) = c[i].merged
      BY <2>5 DEF recordToMap, Rec
    <3> QED BY <3>1, <2>3
  <2>6. CASE a[i] = KeyOnly(k)
    <3>1. DOMAIN recordToMap(a[i]) = {"ID"}
      BY <2>6 DEF recordToMap, KeyOnly
    <3> QED BY <3>1, FS_Singleton
  <2> QED BY <2>4, <2>5, <2>6
<1> HIDE DEF a
<1> QED BY <1>1, <1>5, <1>6 DEF FewFields

\* The pairs of a join have the fields of their two rows.
LEMMA JoinedFewFields ==
  ASSUME NEW q, NEW join, NEW baseRows, isSeq(baseRows), \A b \in Range(baseRows) : IsFiniteSet(DOMAIN b.data),
         NEW joinRows, isSeq(joinRows), \A j \in Range(joinRows) : IsFiniteSet(DOMAIN j.data),
         NEW known, NEW r \in Range(joinedRows(q, join, baseRows, joinRows, known).rows)
  PROVE  IsFiniteSet(DOMAIN r.merged)
<1> DEFINE meets(b, j) == allConditionsMatch(join.on, joinSources(q, join, b, j.data), known)
           found(b) == only(joinRows, {j \in Range(joinRows) : meets(b, j) = "yes"})
           parts == [i \in DOMAIN baseRows |-> pairs(q, join, baseRows[i], found(baseRows[i]))]
<1>1. joinedRows(q, join, baseRows, joinRows, known).rows = FlattenSeq(parts)
  BY Zenon DEF joinedRows, mapped
<1>2. ASSUME NEW b PROVE isSeq(found(b)) /\ \A i \in 1..Len(found(b)) : found(b)[i] \in Range(joinRows)
  BY KeptIsSeq, KeptElements, Zenon
<1> HIDE DEF found
<1>3. ASSUME NEW b, IsFiniteSet(DOMAIN b.data), NEW d, IsFiniteSet(DOMAIN d)
      PROVE  IsFiniteSet(DOMAIN pair(q, join, b, d).merged)
  <2>1. DOMAIN pair(q, join, b, d).merged = DOMAIN b.data \cup DOMAIN d
    BY DEF pair
  <2> QED BY <2>1, <1>3, FS_Union
<1>4. ASSUME NEW b, IsFiniteSet(DOMAIN b.data)
      PROVE  /\ isSeq(pairs(q, join, b, found(b)))
             /\ \A x \in Range(pairs(q, join, b, found(b))) : IsFiniteSet(DOMAIN x.merged)
  <2> DEFINE f == found(b)
             t == pairs(q, join, b, f)
  <2>1. isSeq(f) /\ (\A i \in 1..Len(f) : f[i] \in Range(joinRows)) /\ DOMAIN f = 1..Len(f)
    BY <1>2, SeqIsFcn
  <2> HIDE DEF f
  <2>2. CASE f = <<>> /\ keepsUnmatched(join)
    <3> DEFINE x == pair(q, join, b, NoData)
    <3>1. t = <<x>>
      BY <2>2 DEF pairs
    <3>2. IsFiniteSet(DOMAIN x.merged)
      <4>1. DOMAIN NoData = {}
        BY DEF NoData
      <4> QED BY <4>1, <1>3, <1>4, FS_EmptySet
    <3> HIDE DEF x, t
    <3>3. <<x>> \in Seq({x}) /\ Range(<<x>>) = {x}
      BY DEF Range
    <3>4. isSeq(t)
      BY <3>1, <3>3, AnySeq
    <3> QED BY <3>1, <3>2, <3>3, <3>4 DEF f, t
  <2>3. CASE ~(f = <<>> /\ keepsUnmatched(join))
    <3>1. t = [i \in DOMAIN f |-> pair(q, join, b, f[i].data)]
      BY <2>3 DEF pairs, mapped
    <3>2. t = [i \in DOMAIN f |-> t[i]]
      BY <3>1
    <3> HIDE DEF t
    <3>3. isSeq(t) /\ DOMAIN t = DOMAIN f
      BY <2>1, <3>2, SameLength
    <3>4. ASSUME NEW i \in DOMAIN f PROVE IsFiniteSet(DOMAIN t[i].merged)
      <4>1. t[i] = pair(q, join, b, f[i].data) /\ IsFiniteSet(DOMAIN f[i].data)
        BY <3>1, <2>1
      <4> QED BY <4>1, <1>3, <1>4
    <3>5. \A x \in Range(t) : IsFiniteSet(DOMAIN x.merged)
      BY <3>3, <3>4 DEF Range
    <3> QED BY <3>3, <3>5 DEF t, f
  <2> QED BY <2>2, <2>3
<1>5. parts = [i \in DOMAIN baseRows |-> parts[i]]
  OBVIOUS
<1>6. /\ \A i \in DOMAIN baseRows : isSeq(parts[i]) /\ \A x \in Range(parts[i]) : IsFiniteSet(DOMAIN x.merged)
      /\ DOMAIN baseRows = 1..Len(baseRows)
  <2>1. \A i \in DOMAIN baseRows : IsFiniteSet(DOMAIN baseRows[i].data)
    BY DEF Range
  <2> QED BY <1>4, <2>1, SeqIsFcn
<1> HIDE DEF parts
<1>7. isSeq(parts) /\ Len(parts) = Len(baseRows) /\ DOMAIN parts = DOMAIN baseRows
  BY <1>5, SameLength
<1> DEFINE t == FlattenSeq(parts)
<1>8. isSeq(t) /\ \A k \in 1..Len(t) : \E i \in 1..Len(parts) : t[k] \in Range(parts[i])
  BY <1>6, <1>7, FlattenedIsSeq, FlattenedElements
<1>9. PICK k \in 1..Len(t) : r = t[k]
  <2>1. DOMAIN t = 1..Len(t)
    BY <1>8, SeqIsFcn
  <2>2. r \in Range(t)
    BY <1>1
  <2> HIDE DEF t
  <2> QED BY <2>1, <2>2 DEF Range
<1> QED BY <1>6, <1>7, <1>8, <1>9

\* The records of every query have finitely many fields.
LEMMA QueryFewFields ==
  ASSUME StoreInv, NEW q \in Queries, q.columns = <<>>, NEW indexed \in BOOLEAN, NEW rowsOf \in Inputs(q, indexed)
  PROVE  FewFields(ExecuteQuery(q, rowsOf).records)
<1>1. /\ q.offset \in Int /\ q.limit \in Int /\ q.name \in Collections
      /\ \A c \in Collections : isSeq(rowsOf[c])
  BY QueryAssumption, InputsFacts
<1>2. \A err : FewFields(Failed(err).records)
  BY NoRecordsFewFields DEF Failed
<1>3. ASSUME NEW c \in {q.name} \cup (IF q.joins = <<>> THEN {} ELSE {q.joins[1].name}), NEW r \in Range(rowsOf[c])
      PROVE  IsFiniteSet(DOMAIN r.data)
  <2>1. c \in Collections /\ r \in RowsIn(c)
    BY InputRows
  <2> QED BY <2>1, StoredRows
<1>4. CASE ~q.structured
  BY <1>2, <1>4 DEF ExecuteQuery
<1>5. CASE q.structured /\ q.joins = <<>>
  <2> DEFINE known == {"", q.name} \cup ({q.alias} \ {""})
             rows == rowsOf[q.name]
             F == filterRows(q, rows)
             a == executeSingle(q, rowsOf)
  <2>1. ExecuteQuery(q, rowsOf) = a
    BY <1>5 DEF ExecuteQuery
  <2>2. (\E err : a = Failed(err)) \/ a = Records(<<>>) \/ a = singleRecords(q, F, known)
    BY Zenon DEF executeSingle
  <2>3. isSeq(rows) /\ \A r \in Range(rows) : IsFiniteSet(DOMAIN r.data)
    BY <1>1, <1>3
  <2> HIDE DEF rows
  <2>4. isSeq(F) /\ \A r \in Range(F) : IsFiniteSet(DOMAIN r.data)
    <3> DEFINE keep == {r \in Range(rows) :
                          matchesWhere(r.data, q.where) /\ (q.parent # <<>> => isChildOf(r.key, q.parent))}
               kept == only(rows, keep)
    <3>1. F = [i \in DOMAIN kept |-> withSources(q, kept[i])]
      BY Zenon DEF filterRows, mapped
    <3> HIDE DEF keep
    <3>2. isSeq(kept) /\ \A i \in 1..Len(kept) : kept[i] \in Range(rows)
      BY <2>3, KeptIsSeq, KeptElements
    <3> HIDE DEF kept, F
    <3>3. F = [i \in DOMAIN kept |-> F[i]] /\ DOMAIN kept = 1..Len(kept)
      BY <3>1, <3>2, SeqIsFcn
    <3>4. isSeq(F) /\ DOMAIN F = DOMAIN kept
      BY <3>2, <3>3, SameLength
    <3>5. ASSUME NEW i \in DOMAIN kept PROVE IsFiniteSet(DOMAIN F[i].data)
      <4>1. F[i].data = kept[i].data
        BY <3>1 DEF withSources
      <4> QED BY <4>1, <3>2, <3>3, <2>3
    <3> QED BY <3>4, <3>5 DEF Range
  <2>5. FewFields(singleRecords(q, F, known).records)
    <3> HIDE DEF F, known
    <3>1. CASE q.groupBy = <<>>
      BY <1>1, <2>4, <3>1, SingleFewFields
    <3>2. CASE q.groupBy # <<>>
      <4> DEFINE m == [i \in DOMAIN F |-> F[i].sources]
      <4>1. singleRecords(q, F, known) = executeGroupedReader(q, m, known)
        BY <3>2, Zenon DEF singleRecords, mapped
      <4>2. m = [i \in DOMAIN F |-> m[i]]
        OBVIOUS
      <4> HIDE DEF m
      <4>3. isSeq(m)
        BY <4>2, <2>4, SameLength
      <4> QED BY <4>1, <4>3, <1>1, GroupedFewFields
    <3> QED BY <3>1, <3>2
  <2>6. FewFields(Records(<<>>).records)
    BY NoRecordsFewFields DEF Records
  <2> HIDE DEF a, F, known
  <2> QED BY <2>1, <2>2, <2>5, <2>6, <1>2
<1>6. CASE q.structured /\ q.joins # <<>>
  <2> DEFINE join == q.joins[1]
             known == {"", sourceKey(q), sourceKey(join)}
             bases == sortByID(rowsOf[q.name])
             others == sortByID(rowsOf[join.name])
             joined == joinedRows(q, join, bases, others, known)
             kept == only(joined.rows, {r \in Range(joined.rows) : matchesJoinCondition(q.where, r.sources, known) = "yes"})
             a == executeJoinQuery(q, rowsOf)
  <2>1. ExecuteQuery(q, rowsOf) = a
    BY <1>6 DEF ExecuteQuery
  <2>2. a = Failed("invalid") \/ a = filterJoined(q, joined, known)
    BY Zenon DEF executeJoinQuery
  <2>3. filterJoined(q, joined, known) = Failed("invalid") \/ filterJoined(q, joined, known) = joinRecords(q, kept, known)
    BY Zenon DEF filterJoined
  <2>4. join.name \in Collections
    BY <1>6, InputsFacts
  <2>5. ASSUME NEW c \in {q.name, join.name}
        PROVE  isSeq(sortByID(rowsOf[c])) /\ \A r \in Range(sortByID(rowsOf[c])) : IsFiniteSet(DOMAIN r.data)
    <3> DEFINE less == {p \in Pairs(rowsOf[c]) : textLess(p[1].id, p[2].id)}
               s == stableSort(rowsOf[c], less)
    <3>1. s = sortByID(rowsOf[c])
      BY Zenon DEF sortByID
    <3>2. isSeq(rowsOf[c]) /\ \A r \in Range(rowsOf[c]) : IsFiniteSet(DOMAIN r.data)
      BY <1>1, <1>3, <1>6, <2>4
    <3> HIDE DEF less
    <3>3. isSeq(s) /\ \A i \in 1..Len(s) : s[i] \in Range(rowsOf[c])
      BY <3>2, SortedIsSeq, SortElements
    <3> HIDE DEF s
    <3>4. DOMAIN s = 1..Len(s)
      BY <3>3, SeqIsFcn
    <3>5. \A r \in Range(s) : IsFiniteSet(DOMAIN r.data)
      BY <3>2, <3>3, <3>4 DEF Range
    <3> QED BY <3>1, <3>3, <3>5
  <2>6. /\ isSeq(bases) /\ isSeq(others)
        /\ \A r \in Range(bases) : IsFiniteSet(DOMAIN r.data)
        /\ \A r \in Range(others) : IsFiniteSet(DOMAIN r.data)
    BY <2>5
  <2> HIDE DEF bases, others, join, known, a
  <2>7. isSeq(joined.rows) /\ \A r \in Range(joined.rows) : IsFiniteSet(DOMAIN r.merged)
    <3>1. \A r \in Range(joined.rows) : IsFiniteSet(DOMAIN r.merged)
      BY <2>6, JoinedFewFields
    <3>2. Unpaged(q, [structured |-> q.structured, name |-> q.name, alias |-> q.alias, parent |-> q.parent,
                      joins |-> q.joins, where |-> q.where, groupBy |-> q.groupBy, having |-> q.having,
                      orderBy |-> q.orderBy, columns |-> q.columns, into |-> q.into, limit |-> 0, offset |-> 0])
      BY DEF Unpaged
    <3>3. isSeq(joined.rows)
      BY <2>6, <3>2, JoinedRowsSame
    <3> QED BY <3>1, <3>3
  <2> HIDE DEF joined
  <2>8. isSeq(kept) /\ \A r \in Range(kept) : IsFiniteSet(DOMAIN r.merged)
    <3> DEFINE keep == {r \in Range(joined.rows) : matchesJoinCondition(q.where, r.sources, known) = "yes"}
               s == only(joined.rows, keep)
    <3>1. s = kept
      OBVIOUS
    <3> HIDE DEF keep
    <3>2. isSeq(s) /\ \A i \in 1..Len(s) : s[i] \in Range(joined.rows)
      BY <2>7, KeptIsSeq, KeptElements
    <3> HIDE DEF s
    <3>3. DOMAIN s = 1..Len(s)
      BY <3>2, SeqIsFcn
    <3>4. \A r \in Range(s) : IsFiniteSet(DOMAIN r.merged)
      BY <2>7, <3>2, <3>3 DEF Range
    <3> HIDE DEF kept
    <3> QED BY <3>1, <3>2, <3>4
  <2> HIDE DEF kept
  <2>9. FewFields(joinRecords(q, kept, known).records)
    <3>1. CASE q.groupBy = <<>>
      BY <1>1, <2>8, <3>1, JoinFewFields
    <3>2. CASE q.groupBy # <<>>
      <4> DEFINE m == [i \in DOMAIN kept |-> kept[i].sources]
      <4>1. joinRecords(q, kept, known) = executeGroupedReader(q, m, known)
        BY <3>2, Zenon DEF joinRecords, mapped
      <4>2. m = [i \in DOMAIN kept |-> m[i]]
        OBVIOUS
      <4> HIDE DEF m
      <4>3. isSeq(m)
        BY <4>2, <2>8, SameLength
      <4> QED BY <4>1, <4>3, <1>1, GroupedFewFields
    <3> QED BY <3>1, <3>2
  <2> QED BY <2>1, <2>2, <2>3, <2>9, <1>2
<1> QED BY <1>4, <1>5, <1>6

\* The columns of a recordset are a list.
LEMMA ColumnNamesAreList ==
  ASSUME NEW q, isSeq(q.columns), NEW rows, isSeq(rows),
         q.columns = <<>> => \A i \in 1..Len(rows) : IsFiniteSet(DOMAIN rows[i])
  PROVE  isSeq(recordsetColumnNames(q, rows))
<1> DEFINE names == recordsetColumnNames(q, rows)
<1>1. CASE q.columns # <<>>
  <2>1. names = [i \in DOMAIN q.columns |-> columnOutKey(q.columns[i])]
    BY <1>1 DEF recordsetColumnNames
  <2>2. names = [i \in DOMAIN q.columns |-> names[i]]
    BY <2>1
  <2> HIDE DEF names
  <2> QED BY <2>2, SameLength DEF names
<1>2. CASE q.columns = <<>>
  <2> DEFINE U == {DOMAIN rows[i] : i \in DOMAIN rows}
             S == UNION U
             n == Len(rows)
  <2>1. names = SetToSeq(S)
    BY <1>2 DEF recordsetColumnNames
  <2>2. n \in Nat /\ DOMAIN rows = 1..n
    BY SeqIsFcn
  <2>3. IsFiniteSet(U)
    <3> DEFINE f == [i \in 1..n |-> DOMAIN rows[i]]
    <3>1. f \in Surjection(1..n, U)
      BY <2>2 DEF Surjection
    <3>2. IsFiniteSet(1..n)
      BY <2>2, FS_Interval
    <3> HIDE DEF f, U
    <3> QED BY <3>1, <3>2, FS_Surjection
  <2>4. \A T \in U : IsFiniteSet(T)
    BY <1>2, <2>2
  <2> HIDE DEF U
  <2>5. IsFiniteSet(S)
    BY <2>3, <2>4, FS_UNION
  <2> HIDE DEF S
  <2>6. Cardinality(S) \in Nat /\ ExistsBijection(1..Cardinality(S), S)
    BY <2>5, FS_CardinalityType
  <2>7. \E f \in [1..Cardinality(S) -> S] : IsInjective(f)
    BY <2>6 DEF ExistsBijection, Bijection, Injection
  <2>8. SetToSeq(S) \in [1..Cardinality(S) -> S]
    BY <2>7 DEF SetToSeq
  <2>9. SetToSeq(S) \in Seq(S)
    BY <2>6, <2>8
  <2>10. isSeq(SetToSeq(S))
    BY <2>9, AnySeq
  <2> QED BY <2>1, <2>10
<1> QED BY <1>1, <1>2

\* A cell of the first column of a name is the value of that field, or nil.
LEMMA CellsAgree ==
  ASSUME NEW names, isSeq(names), NEW rows, NEW n \in DOMAIN names,
         \A m \in 1..(n - 1) : names[m] # names[n], NEW i \in DOMAIN rows
  PROVE  pivot(names, rows)[n].name = names[n] /\ pivot(names, rows)[n].cells[i] = at(rows[i], names[n])
<1> DEFINE type == inferColumn(names[n], rows)
<1>1. pivot(names, rows)[n] = pivotColumn(names, n, rows, type)
  BY DEF pivot
<1>2. /\ pivot(names, rows)[n].name = names[n]
      /\ pivot(names, rows)[n].cells[i]
         = IF names[n] \in DOMAIN rows[i] THEN rows[i][names[n]] ELSE defaultOf(type)
  BY <1>1 DEF pivotColumn, pivotCells
<1>3. CASE names[n] \in DOMAIN rows[i]
  BY <1>2, <1>3 DEF at
<1>4. CASE names[n] \notin DOMAIN rows[i]
  <2>1. at(rows[i], names[n]) = Nil
    BY <1>4 DEF at
  <2>2. at(rows[i], names[n]).t = "nil"
    BY <2>1 DEF Nil, Value
  <2> DEFINE types == {at(rows[j], names[n]).t : j \in DOMAIN rows}
  <2>3. "nil" \in types
    BY <2>2
  <2>4. type = "any"
    <3>1. type = IF types \in {{"float"}, {"string"}, {"bool"}, {"int"}} THEN CHOOSE t \in types : TRUE ELSE "any"
      BY Zenon DEF inferColumn
    <3> HIDE DEF types, type
    <3>2. types \notin {{"float"}, {"string"}, {"bool"}, {"int"}}
      BY <2>3
    <3> QED BY <3>1, <3>2
  <2>5. defaultOf(type) = Nil
    BY <2>4 DEF defaultOf
  <2> QED BY <1>2, <1>4, <2>1, <2>5
<1> QED BY <1>3, <1>4

-----------------------------------------------------------------------------
(***************************************************************************)
(* Sequences that list a set, each element once.                           *)
(***************************************************************************)
Lists(s, S) ==
    /\ isSeq(s) /\ Range(s) = S
    /\ \A i, j \in 1..Len(s) : s[i] = s[j] => i = j

\* Such a sequence is as long as its set.
LEMMA ListLength ==
  ASSUME NEW s, NEW S, Lists(s, S)
  PROVE  IsFiniteSet(S) /\ Cardinality(S) = Len(s)
<1> DEFINE n == Len(s)
<1>1. n \in Nat /\ DOMAIN s = 1..n /\ s = [i \in 1..n |-> s[i]]
  BY SeqIsFcn DEF Lists
<1> HIDE DEF n
<1>2. s \in [1..n -> S] /\ \A x \in S : \E i \in 1..n : s[i] = x
  BY <1>1 DEF Lists, Range
<1>3. \A i, j \in 1..n : s[i] = s[j] => i = j
  BY DEF Lists, n
<1>4. s \in Surjection(1..n, S) /\ s \in Injection(1..n, S)
  BY <1>2, <1>3 DEF Surjection, Injection, IsInjective
<1>5. IsFiniteSet(1..n) /\ Cardinality(1..n) = n
  <2>1. Cardinality(1..n) = IF 1 > n THEN 0 ELSE n - 1 + 1
    BY <1>1, FS_Interval
  <2> QED BY <1>1, <2>1, FS_Interval
<1>6. IsFiniteSet(S) /\ Cardinality(S) = Cardinality(1..n)
  BY <1>4, <1>5, FS_Surjection
<1> QED BY <1>5, <1>6 DEF n

\* The list of the elements that are kept.
LEMMA KeptLists ==
  ASSUME NEW s, NEW S, Lists(s, S), NEW keep
  PROVE  Lists(only(s, keep), {x \in S : x \in keep})
<1>1. s \in Seq(S)
  BY DEF Lists, isSeq
<1> DEFINE n == Len(s)
<1>2. PICK g : Keepings(S, s, keep, g)
  BY <1>1, OnlySteps, Zenon
<1>3. n \in Nat /\ DOMAIN s = 1..n /\ \A i \in 1..n : s[i] \in S
  BY <1>1
<1>4. /\ g \in [0..n -> Seq(S)] /\ only(s, keep) = g[n] /\ g[0] = <<>>
      /\ \A j \in 1..n : g[j] = Kept(s, keep, g[j - 1], s[j])
  BY <1>2 DEF Keepings
<1>5. \A i, j \in 1..n : s[i] = s[j] => i = j
  BY DEF Lists
<1> HIDE DEF n
<1> DEFINE Has(m) == Lists(g[m], {x \in S : x \in keep /\ \E i \in 1..m : x = s[i]})
           Bad == {m \in 0..n : ~Has(m)}
<1>6. Has(0)
  <2>1. Range(<<>>) = {} /\ {x \in S : x \in keep /\ \E i \in 1..0 : x = s[i]} = {}
    BY DEF Range
  <2> QED BY <2>1, <1>4, EmptyIsSeq DEF Lists
<1>7. ASSUME NEW m \in 1..n, Has(m - 1) PROVE Has(m)
  <2> DEFINE t == g[m - 1]
             x == s[m]
             T == {y \in S : y \in keep /\ \E i \in 1..(m - 1) : y = s[i]}
             U == {y \in S : y \in keep /\ \E i \in 1..m : y = s[i]}
  <2>1. /\ m \in Nat /\ m \in 1..m /\ (\A i \in 1..(m - 1) : i \in 1..m /\ i \in 1..n /\ i # m)
        /\ \A i \in 1..m : i = m \/ i \in 1..(m - 1)
    BY <1>3
  <2>2. g[m] = Kept(s, keep, t, x) /\ x \in S /\ Lists(t, T)
    BY <1>3, <1>4, <1>7
  <2>3. CASE x \notin keep
    <3>1. g[m] = t
      BY <2>2, <2>3 DEF Kept
    <3>2. U = T
      BY <2>1, <2>3
    <3> HIDE DEF T, U, t
    <3>3. Lists(g[m], U)
      BY <2>2, <3>1, <3>2
    <3> QED BY <3>3 DEF U
  <2>4. CASE x \in keep
    <3>1. g[m] = Append(t, x)
      BY <2>2, <2>4 DEF Kept
    <3>2. x \notin T
      BY <2>1, <1>5
    <3>3. U = T \cup {x}
      BY <2>1, <2>2, <2>4
    <3> HIDE DEF T, U, t, x
    <3>4. /\ isSeq(t) /\ Len(t) \in Nat /\ DOMAIN t = 1..Len(t) /\ Range(t) = T
          /\ \A i, j \in 1..Len(t) : t[i] = t[j] => i = j
      BY <2>2, SeqIsFcn DEF Lists
    <3>5. /\ isSeq(Append(t, x)) /\ Len(Append(t, x)) = Len(t) + 1
          /\ Append(t, x)[Len(t) + 1] = x
          /\ \A i \in 1..Len(t) : Append(t, x)[i] = t[i]
      BY <3>4, AppendIsSeq
    <3> DEFINE u == Append(t, x)
               k == Len(t)
    <3>6. DOMAIN u = 1..(k + 1)
      BY <3>5, SeqIsFcn
    <3> HIDE DEF u, k
    <3>7. /\ k \in Nat /\ k + 1 \in 1..(k + 1) /\ (\A i \in 1..k : i \in 1..(k + 1))
          /\ \A i \in 1..(k + 1) : i = k + 1 \/ i \in 1..k
      BY <3>4 DEF k
    <3>8. u[k + 1] = x /\ (\A i \in 1..k : u[i] = t[i] /\ t[i] \in T) /\ \A y \in T : \E i \in 1..k : t[i] = y
      BY <3>4, <3>5 DEF u, k, Range
    <3>9. Range(u) = T \cup {x}
      BY <3>6, <3>7, <3>8 DEF Range
    <3>10. ASSUME NEW i \in 1..(k + 1), NEW j \in 1..(k + 1), u[i] = u[j] PROVE i = j
      <4>1. CASE i \in 1..k /\ j \in 1..k
        BY <3>4, <3>8, <3>10, <4>1 DEF k
      <4>2. CASE i = k + 1 /\ j \in 1..k
        BY <3>2, <3>8, <3>10, <4>2
      <4>3. CASE j = k + 1 /\ i \in 1..k
        BY <3>2, <3>8, <3>10, <4>3
      <4>4. CASE i = k + 1 /\ j = k + 1
        BY <4>4
      <4> QED BY <3>7, <4>1, <4>2, <4>3, <4>4
    <3>11. Lists(u, U)
      <4>1. isSeq(u) /\ Len(u) = k + 1
        BY <3>5 DEF u, k
      <4> QED BY <3>3, <3>9, <3>10, <4>1 DEF Lists
    <3> QED BY <3>1, <3>11 DEF u, U
  <2> QED BY <2>3, <2>4
<1>8. Bad = {}
  <2>1. SUFFICES ASSUME Bad # {} PROVE FALSE
    BY <2>1
  <2> HIDE DEF Has
  <2>2. PICK j \in Bad : \A l \in Bad : j <= l
    <3>1. Bad \in SUBSET Nat
      OBVIOUS
    <3> HIDE DEF Bad
    <3> QED BY <2>1, <3>1, LeastElement
  <2>3. j \in 1..n /\ j - 1 \in 0..n /\ ~(j <= j - 1) /\ ~Has(j)
    BY <2>2, <1>3, <1>6
  <2>4. Has(j - 1)
    BY <2>2, <2>3
  <2> QED BY <1>7, <2>3, <2>4
<1>9. Has(n)
  <2> HIDE DEF Has
  <2> QED BY <1>3, <1>8
<1>10. {x \in S : x \in keep /\ \E i \in 1..n : x = s[i]} = {x \in S : x \in keep}
  <2>1. \A x \in S : \E i \in 1..n : x = s[i]
    BY <1>3 DEF Lists, Range
  <2> QED BY <2>1
<1> QED BY <1>4, <1>9, <1>10

\* A sorted list lists the same set.
LEMMA SortLists ==
  ASSUME NEW s, NEW S, Lists(s, S), NEW less
  PROVE  Lists(stableSort(s, less), S)
<1> DEFINE n == Len(s)
           t == stableSort(s, less)
<1>1. s \in Seq(S)
  BY DEF Lists, isSeq
<1>2. t \in Seq(S) /\ Len(t) = n
  BY <1>1, SortPermutes
<1>3. PICK p : Permutes(p, n) /\ \A i \in 1..n : t[i] = s[p[i]]
  BY <1>1, SortPermutes
<1> HIDE DEF t
<1>4. n \in Nat /\ DOMAIN s = 1..n /\ DOMAIN t = 1..n /\ isSeq(t)
  BY <1>1, <1>2, AnySeq
<1>5. Range(s) = S /\ \A i, j \in 1..n : s[i] = s[j] => i = j
  BY DEF Lists
<1> HIDE DEF n
<1>6. /\ \A a \in 1..n : p[a] \in 1..n
      /\ \A a, b \in 1..n : p[a] = p[b] => a = b
      /\ \A c \in 1..n : \E a \in 1..n : p[a] = c
  BY <1>3 DEF Permutes
<1>7. Range(t) = S
  <2>1. \A x \in S : \E i \in 1..n : x = s[i]
    BY <1>4, <1>5 DEF Range
  <2>2. \A i \in 1..n : s[i] \in S
    BY <1>4, <1>5 DEF Range
  <2>3. ASSUME NEW x \in S PROVE x \in Range(t)
    <3>1. PICK i \in 1..n : x = s[i]
      BY <2>1
    <3>2. PICK a \in 1..n : p[a] = i
      BY <1>6
    <3> QED BY <1>3, <1>4, <3>1, <3>2 DEF Range
  <2>4. ASSUME NEW x \in Range(t) PROVE x \in S
    <3>1. PICK a \in 1..n : x = t[a]
      BY <1>4, <2>4 DEF Range
    <3> QED BY <1>3, <1>6, <2>2, <3>1
  <2> QED BY <2>3, <2>4
<1>8. \A i, j \in 1..n : t[i] = t[j] => i = j
  BY <1>3, <1>5, <1>6
<1> QED BY <1>2, <1>4, <1>7, <1>8 DEF Lists, t

-----------------------------------------------------------------------------
(***************************************************************************)
(* The order of texts: s is less than t at the first place where they      *)
(* differ.                                                                 *)
(***************************************************************************)
Texts == Seq(Int)
LessAt(s, t, n) ==
    /\ n \in 1..Len(t) /\ n <= Len(s) + 1
    /\ \A m \in 1..(n - 1) : s[m] = t[m]
    /\ n <= Len(s) => s[n] < t[n]

\* textLess, in these terms.
LEMMA TextLessAt ==
  ASSUME NEW s \in Texts, NEW t \in Texts
  PROVE  textLess(s, t) <=> \E n \in Nat : LessAt(s, t, n)
<1>1. /\ Len(s) \in Nat /\ DOMAIN s = 1..Len(s) /\ Len(t) \in Nat /\ DOMAIN t = 1..Len(t)
      /\ isSeq(s) /\ isSeq(t)
  BY AnySeq DEF Texts
<1>2. ASSUME textLess(s, t) PROVE \E n \in Nat : LessAt(s, t, n)
  <2>1. CASE IsStrictPrefix(s, t)
    <3> DEFINE k == Len(s)
    <3>1. k <= Len(t) /\ SubSeq(s, 1, k) = SubSeq(t, 1, k) /\ s # t
      BY <2>1 DEF IsStrictPrefix, IsPrefix
    <3>2. ASSUME NEW m \in 1..k PROVE s[m] = t[m]
      <4>1. /\ Len(SubSeq(s, 1, k)) = IF 1 <= k THEN k - 1 + 1 ELSE 0
            /\ \A i \in 1..Len(SubSeq(s, 1, k)) : SubSeq(s, 1, k)[i] = s[1 + i - 1]
        BY <1>1, PartOfSeq
      <4>2. /\ Len(SubSeq(t, 1, k)) = IF 1 <= k THEN k - 1 + 1 ELSE 0
            /\ \A i \in 1..Len(SubSeq(t, 1, k)) : SubSeq(t, 1, k)[i] = t[1 + i - 1]
        BY <1>1, <3>1, PartOfSeq
      <4> HIDE DEF k
      <4>3. k \in Nat
        BY <1>1 DEF k
      <4>4. 1 + m - 1 = m /\ m \in 1..Len(SubSeq(s, 1, k)) /\ m \in 1..Len(SubSeq(t, 1, k))
        BY <4>1, <4>2, <4>3
      <4>5. SubSeq(s, 1, k)[m] = s[m]
        BY <4>1, <4>4
      <4>6. SubSeq(t, 1, k)[m] = t[m]
        BY <4>2, <4>4
      <4> QED BY <3>1, <4>5, <4>6
    <3>3. k # Len(t)
      <4>1. k = Len(t) => s = t
        BY <1>1, <3>2, SameSeq
      <4> QED BY <3>1, <4>1
    <3>4. k + 1 \in Nat /\ k + 1 \in 1..Len(t) /\ (k + 1) - 1 = k /\ ~(k + 1 <= Len(s)) /\ k + 1 <= Len(s) + 1
      <4> DEFINE lt == Len(t)
      <4>1. k \in Nat /\ lt \in Nat /\ k <= lt /\ k # lt /\ Len(s) = k
        BY <1>1, <3>1, <3>3
      <4> HIDE DEF k, lt
      <4>2. k + 1 \in Nat /\ k + 1 \in 1..lt /\ (k + 1) - 1 = k /\ ~(k + 1 <= k) /\ k + 1 <= k + 1
        BY <4>1
      <4> QED BY <4>1, <4>2 DEF lt
    <3>5. LessAt(s, t, k + 1)
      BY <3>2, <3>4 DEF LessAt
    <3> QED BY <3>4, <3>5
  <2>2. CASE ~IsStrictPrefix(s, t)
    <3>1. PICK n \in DOMAIN s \cap DOMAIN t : s[n] < t[n] /\ \A m \in 1..(n - 1) : s[m] = t[m]
      BY <1>2, <2>2 DEF textLess
    <3>2. n \in Nat /\ n \in 1..Len(t) /\ n <= Len(s) + 1
      BY <1>1, <3>1
    <3>3. LessAt(s, t, n)
      BY <3>1, <3>2 DEF LessAt
    <3> QED BY <3>2, <3>3
  <2> QED BY <2>1, <2>2
<1>3. ASSUME NEW n \in Nat, LessAt(s, t, n) PROVE textLess(s, t)
  <2>1. /\ n \in 1..Len(t) /\ n <= Len(s) + 1 /\ (\A m \in 1..(n - 1) : s[m] = t[m])
        /\ (n <= Len(s) => s[n] < t[n])
    BY <1>3 DEF LessAt
  <2>2. CASE n <= Len(s)
    <3>1. n \in DOMAIN s \cap DOMAIN t
      BY <1>1, <2>1, <2>2
    <3> QED BY <2>1, <2>2, <3>1 DEF textLess
  <2>3. CASE ~(n <= Len(s))
    <3>1. Len(s) = n - 1 /\ Len(s) <= Len(t) /\ Len(s) # Len(t)
      <4> DEFINE ls == Len(s)
                 lt == Len(t)
      <4>1. ls \in Nat /\ lt \in Nat /\ n \in 1..lt /\ n <= ls + 1 /\ ~(n <= ls)
        BY <1>1, <2>1, <2>3
      <4> HIDE DEF ls, lt
      <4>2. ls = n - 1 /\ ls <= lt /\ ls # lt
        BY <4>1
      <4> QED BY <4>2 DEF ls, lt
    <3>2. \A i \in 1..Len(s) : s[i] = t[i]
      BY <2>1, <3>1
    <3>3. IsPrefix(s, t)
      BY <1>1, <3>1, <3>2, PrefixIntro
    <3>4. IsStrictPrefix(s, t)
      BY <3>1, <3>3 DEF IsStrictPrefix
    <3> QED BY <3>4 DEF textLess
  <2> QED BY <2>2, <2>3
<1> QED BY <1>2, <1>3

\* It is a strict order,
LEMMA TextTransitive ==
  ASSUME NEW s \in Texts, NEW t \in Texts, NEW u \in Texts, textLess(s, t), textLess(t, u)
  PROVE  textLess(s, u)
<1>1. PICK n \in Nat : LessAt(s, t, n)
  BY TextLessAt
<1>2. PICK k \in Nat : LessAt(t, u, k)
  BY TextLessAt
<1>3. Len(s) \in Nat /\ Len(t) \in Nat /\ Len(u) \in Nat
      /\ (\A i \in 1..Len(s) : s[i] \in Int) /\ (\A i \in 1..Len(t) : t[i] \in Int) /\ \A i \in 1..Len(u) : u[i] \in Int
  BY DEF Texts
<1> DEFINE m == IF n <= k THEN n ELSE k
<1>4. LessAt(s, u, m)
  BY <1>1, <1>2, <1>3 DEF LessAt
<1>5. m \in Nat
  OBVIOUS
<1> QED BY <1>4, <1>5, TextLessAt

\* that holds of no text and itself,
LEMMA TextIrreflexive ==
  ASSUME NEW s \in Texts
  PROVE  ~textLess(s, s)
<1>1. Len(s) \in Nat /\ \A i \in 1..Len(s) : s[i] \in Int
  BY DEF Texts
<1>2. ASSUME NEW n \in Nat, LessAt(s, s, n) PROVE FALSE
  <2>1. n \in 1..Len(s) /\ s[n] < s[n]
    BY <1>1, <1>2 DEF LessAt
  <2> QED BY <1>1, <2>1
<1> QED BY <1>2, TextLessAt

\* in which different texts are ordered.
LEMMA TextTotal ==
  ASSUME NEW s \in Texts, NEW t \in Texts, s # t
  PROVE  textLess(s, t) \/ textLess(t, s)
<1>1. /\ Len(s) \in Nat /\ Len(t) \in Nat /\ isSeq(s) /\ isSeq(t)
      /\ (\A i \in 1..Len(s) : s[i] \in Int) /\ (\A i \in 1..Len(t) : t[i] \in Int)
  BY AnySeq DEF Texts
<1> DEFINE Differ == {n \in Nat : n >= 1 /\ ~(n <= Len(s) /\ n <= Len(t) /\ s[n] = t[n])}
<1>2. Len(s) + 1 \in Differ /\ Differ \in SUBSET Nat
  BY <1>1
<1>3. PICK n \in Differ : \A m \in Differ : n <= m
  <2> HIDE DEF Differ
  <2> QED BY <1>2, LeastElement
<1>4. n \in Nat /\ n >= 1 /\ n <= Len(s) + 1 /\ ~(n <= Len(s) /\ n <= Len(t) /\ s[n] = t[n])
  BY <1>2, <1>3
<1>5. ASSUME NEW m \in 1..(n - 1) PROVE m <= Len(s) /\ m <= Len(t) /\ s[m] = t[m]
  <2>1. m \in Nat /\ m >= 1 /\ ~(n <= m)
    BY <1>4
  <2>2. m \notin Differ
    <3> HIDE DEF Differ
    <3> QED BY <1>3, <2>1
  <2> QED BY <2>1, <2>2
<1> HIDE DEF Differ
<1>6. n <= Len(t) + 1
  <2>1. CASE n = 1
    BY <1>1, <2>1
  <2>2. CASE n # 1
    <3>1. n - 1 \in 1..(n - 1)
      BY <1>4, <2>2
    <3>2. n - 1 <= Len(t)
      BY <1>5, <3>1
    <3> QED BY <1>1, <1>4, <3>2
  <2> QED BY <2>1, <2>2
<1>7. CASE n <= Len(s) /\ n <= Len(t)
  <2>1. n \in 1..Len(s) /\ n \in 1..Len(t) /\ s[n] # t[n]
    BY <1>1, <1>4, <1>7
  <2>2. s[n] < t[n] \/ t[n] < s[n]
    BY <1>1, <2>1
  <2>3. s[n] < t[n] => LessAt(s, t, n)
    BY <1>4, <1>5, <1>7, <2>1 DEF LessAt
  <2>4. t[n] < s[n] => LessAt(t, s, n)
    BY <1>5, <1>6, <1>7, <2>1 DEF LessAt
  <2> QED BY <1>4, <2>2, <2>3, <2>4, TextLessAt
<1>8. CASE ~(n <= Len(s)) /\ n <= Len(t)
  <2>1. LessAt(s, t, n)
    BY <1>1, <1>4, <1>5, <1>8 DEF LessAt
  <2> QED BY <1>4, <2>1, TextLessAt
<1>9. CASE n <= Len(s) /\ ~(n <= Len(t))
  <2>1. LessAt(t, s, n)
    BY <1>1, <1>4, <1>5, <1>6, <1>9 DEF LessAt
  <2> QED BY <1>4, <2>1, TextLessAt
<1>10. CASE ~(n <= Len(s)) /\ ~(n <= Len(t))
  <2>1. Len(s) = n - 1 /\ Len(t) = n - 1
    BY <1>1, <1>4, <1>6, <1>10
  <2>2. s = t
    BY <1>1, <1>5, <2>1, SameSeq
  <2> QED BY <2>2
<1> QED BY <1>7, <1>8, <1>9, <1>10

\* The ids that engines know records by are texts.
LEMMA KeyIDsAreTexts ==
  ASSUME NEW row \in Universe
  PROVE  keyID(row.key) \in Texts
<1> DEFINE k == row.key
<1>1. k.parent \in Seq(Int) /\ Sprint(k.id) \in Seq(Int) /\ NameText[k.coll] \in Int
  BY QueryAssumption
<1> HIDE DEF k
<1>2. <<NameText[k.coll]>> \in Seq(Int)
  BY <1>1
<1>3. k.parent \o <<NameText[k.coll]>> \in Seq(Int)
  BY <1>1, <1>2, ConcatProperties
<1>4. keyPath(k) \in Seq(Int)
  BY <1>1, <1>3, ConcatProperties DEF keyPath
<1> QED BY <1>1, <1>4 DEF keyID, Texts, k

-----------------------------------------------------------------------------
(***************************************************************************)
(* The order of rows, when each key of ORDER BY gives a row a number by    *)
(* which it is compared.                                                   *)
(***************************************************************************)
Keyed(orderBy, W, K) ==
    /\ isSeq(orderBy)
    /\ K \in [(1..Len(orderBy)) \X W -> Int]
    /\ \A a \in W : a.id \in Texts
    /\ \A m \in 1..Len(orderBy) : \A a, b \in W : compareKey(orderBy[m], a, b) = sign(K[<<m, a>>], K[<<m, b>>])

Before(N, K, a, b, n) == n \in 1..N /\ K[<<n, a>>] < K[<<n, b>>] /\ \A m \in 1..(n - 1) : K[<<m, a>>] = K[<<m, b>>]
Tied(N, K, a, b) == \A m \in 1..N : K[<<m, a>>] = K[<<m, b>>]

\* The comparison of sort keys, in terms of these numbers.
LEMMA SignFacts ==
  ASSUME NEW x \in Int, NEW y \in Int
  PROVE  (sign(x, y) < 0 <=> x < y) /\ (sign(x, y) = 0 <=> x = y)
BY DEF sign

\* The comparison of rows, in terms of these numbers.
LEMMA RowLessByKeys ==
  ASSUME NEW orderBy, NEW W, NEW K, Keyed(orderBy, W, K), NEW a \in W, NEW b \in W
  PROVE  rowLess(orderBy, a, b) <=> \/ \E n \in Nat : Before(Len(orderBy), K, a, b, n)
                                    \/ Tied(Len(orderBy), K, a, b) /\ textLess(a.id, b.id)
<1> DEFINE N == Len(orderBy)
<1>1. N \in Nat /\ DOMAIN orderBy = 1..N
  BY SeqIsFcn DEF Keyed
<1> HIDE DEF N
<1>2. ASSUME NEW m \in 1..N
      PROVE  /\ compareKey(orderBy[m], a, b) < 0 <=> K[<<m, a>>] < K[<<m, b>>]
             /\ compareKey(orderBy[m], a, b) = 0 <=> K[<<m, a>>] = K[<<m, b>>]
  <2>1. /\ K[<<m, a>>] \in Int /\ K[<<m, b>>] \in Int
        /\ compareKey(orderBy[m], a, b) = sign(K[<<m, a>>], K[<<m, b>>])
    BY DEF Keyed, N
  <2> QED BY <2>1, SignFacts
<1>3. ASSUME NEW n \in 0..N
      PROVE  keysTie(orderBy, a, b, n) <=> \A m \in 1..n : K[<<m, a>>] = K[<<m, b>>]
  <2>1. \A m \in 1..n : m \in 1..N
    BY <1>1
  <2> QED BY <1>2, <2>1 DEF keysTie
<1>4. keysTie(orderBy, a, b, N) <=> Tied(N, K, a, b)
  <2>1. N \in 0..N
    BY <1>1
  <2> QED BY <1>3, <2>1 DEF Tied
<1>5. keysLess(orderBy, a, b) <=> \E n \in Nat : Before(N, K, a, b, n)
  <2>1. ASSUME NEW n \in 1..N
        PROVE  compareKey(orderBy[n], a, b) < 0 /\ keysTie(orderBy, a, b, n - 1) <=> Before(N, K, a, b, n)
    <3>1. n - 1 \in 0..N
      BY <1>1
    <3> QED BY <1>2, <1>3, <3>1 DEF Before
  <2>2. \A n : Before(N, K, a, b, n) => n \in 1..N
    BY DEF Before
  <2>3. \A n \in 1..N : n \in Nat
    OBVIOUS
  <2> QED BY <1>1, <2>1, <2>2, <2>3 DEF keysLess
<1> QED BY <1>4, <1>5 DEF rowLess, N

\* It is transitive, on the numbers,
LEMMA BeforeTransitive ==
  ASSUME NEW N \in Nat, NEW W, NEW K \in [(1..N) \X W -> Int], NEW a \in W, NEW b \in W, NEW c \in W,
         NEW n \in Nat, NEW k \in Nat, Before(N, K, a, b, n), Before(N, K, b, c, k)
  PROVE  \E m \in Nat : Before(N, K, a, c, m)
<1>1. \A m \in 1..N : K[<<m, a>>] \in Int /\ K[<<m, b>>] \in Int /\ K[<<m, c>>] \in Int
  OBVIOUS
<1> DEFINE x(m) == K[<<m, a>>]
           y(m) == K[<<m, b>>]
           z(m) == K[<<m, c>>]
<1>2. /\ n \in 1..N /\ x(n) < y(n) /\ (\A m \in 1..(n - 1) : x(m) = y(m))
      /\ k \in 1..N /\ y(k) < z(k) /\ (\A m \in 1..(k - 1) : y(m) = z(m))
  BY DEF Before
<1>3. \A m \in 1..N : x(m) \in Int /\ y(m) \in Int /\ z(m) \in Int
  BY <1>1
<1> DEFINE i == IF n <= k THEN n ELSE k
<1>4. i \in Nat /\ i \in 1..N /\ x(i) < z(i) /\ \A m \in 1..(i - 1) : x(m) = z(m)
  <2> HIDE DEF x, y, z
  <2>1. CASE n < k
    <3>1. i = n /\ n \in 1..(k - 1)
      BY <2>1, <1>2
    <3>2. y(n) = z(n)
      BY <1>2, <3>1
    <3>3. \A m \in 1..(n - 1) : m \in 1..(k - 1)
      BY <2>1, <1>2
    <3> HIDE DEF i
    <3> QED BY <1>2, <1>3, <3>1, <3>2, <3>3
  <2>2. CASE n = k
    <3>1. i = n
      BY <2>2
    <3>2. x(n) < z(n)
      BY <1>2, <1>3, <2>2
    <3> HIDE DEF i
    <3> QED BY <1>2, <2>2, <3>1, <3>2
  <2>3. CASE k < n
    <3>1. i = k /\ k \in 1..(n - 1)
      BY <2>3, <1>2
    <3>2. x(k) = y(k)
      BY <1>2, <3>1
    <3>3. \A m \in 1..(k - 1) : m \in 1..(n - 1)
      BY <2>3, <1>2
    <3> HIDE DEF i
    <3> QED BY <1>2, <1>3, <3>1, <3>2, <3>3
  <2> QED BY <2>1, <2>2, <2>3
<1>5. Before(N, K, a, c, i)
  <2> HIDE DEF i
  <2> QED BY <1>4 DEF Before
<1> QED BY <1>4, <1>5

\* and rows that are not tied differ in some key first.
LEMMA BeforeTotal ==
  ASSUME NEW N \in Nat, NEW W, NEW K \in [(1..N) \X W -> Int], NEW a \in W, NEW b \in W, ~Tied(N, K, a, b)
  PROVE  \E n \in Nat : Before(N, K, a, b, n) \/ Before(N, K, b, a, n)
<1> DEFINE Differ == {n \in 1..N : K[<<n, a>>] # K[<<n, b>>]}
<1>1. Differ \in SUBSET Nat /\ Differ # {}
  BY DEF Tied
<1>2. PICK n \in Differ : \A m \in Differ : n <= m
  <2> HIDE DEF Differ
  <2> QED BY <1>1, LeastElement
<1>3. n \in 1..N /\ n \in Nat /\ K[<<n, a>>] # K[<<n, b>>]
  BY <1>2
<1>4. ASSUME NEW m \in 1..(n - 1) PROVE K[<<m, a>>] = K[<<m, b>>]
  <2>1. m \in 1..N /\ ~(n <= m)
    BY <1>3
  <2>2. m \notin Differ
    <3> HIDE DEF Differ
    <3> QED BY <1>2, <2>1
  <2> QED BY <2>1, <2>2
<1>5. K[<<n, a>>] \in Int /\ K[<<n, b>>] \in Int
  BY <1>3
<1>6. K[<<n, a>>] < K[<<n, b>>] \/ K[<<n, b>>] < K[<<n, a>>]
  BY <1>3, <1>5
<1>7. Before(N, K, a, b, n) \/ Before(N, K, b, a, n)
  BY <1>3, <1>4, <1>6 DEF Before
<1> QED BY <1>3, <1>7

\* The comparison of rows is a strict weak order, in which rows that are not
\* ordered have the same id.
LEMMA RowLessOrders ==
  ASSUME NEW orderBy, NEW W, NEW K, Keyed(orderBy, W, K)
  PROVE  /\ \A a, b, c \in W : rowLess(orderBy, a, b) /\ rowLess(orderBy, b, c) => rowLess(orderBy, a, c)
         /\ \A a \in W : ~rowLess(orderBy, a, a)
         /\ \A a, b \in W : \/ rowLess(orderBy, a, b) \/ rowLess(orderBy, b, a)
                            \/ a.id = b.id /\ \A c \in W : rowLess(orderBy, a, c) => rowLess(orderBy, b, c)
<1> DEFINE N == Len(orderBy)
           Less(a, b) == rowLess(orderBy, a, b)
           First(a, b) == \E n \in Nat : Before(N, K, a, b, n)
<1>1. N \in Nat /\ K \in [(1..N) \X W -> Int] /\ \A a \in W : a.id \in Texts
  BY SeqIsFcn DEF Keyed
<1> HIDE DEF N
<1>2. \A a, b \in W : Less(a, b) <=> (First(a, b) \/ (Tied(N, K, a, b) /\ textLess(a.id, b.id)))
  BY RowLessByKeys DEF N
<1>3. \A a, b, c \in W : Tied(N, K, a, b) /\ First(b, c) => First(a, c)
  <2> SUFFICES ASSUME NEW a \in W, NEW b \in W, NEW c \in W, Tied(N, K, a, b), NEW n \in Nat, Before(N, K, b, c, n)
               PROVE  Before(N, K, a, c, n)
    OBVIOUS
  <2>1. \A m \in 1..(n - 1) : m \in 1..N
    BY <1>1 DEF Before
  <2> QED BY <2>1 DEF Before, Tied
<1>4. \A a, b, c \in W : First(a, b) /\ Tied(N, K, b, c) => First(a, c)
  <2> SUFFICES ASSUME NEW a \in W, NEW b \in W, NEW c \in W, Tied(N, K, b, c), NEW n \in Nat, Before(N, K, a, b, n)
               PROVE  Before(N, K, a, c, n)
    OBVIOUS
  <2>1. \A m \in 1..(n - 1) : m \in 1..N
    BY <1>1 DEF Before
  <2> QED BY <2>1 DEF Before, Tied
<1>5. \A a, b, c \in W : First(a, b) /\ First(b, c) => First(a, c)
  BY <1>1, BeforeTransitive
<1>6. \A a, b, c \in W : Tied(N, K, a, b) /\ Tied(N, K, b, c) => Tied(N, K, a, c)
  BY DEF Tied
<1>7. \A a, b \in W : Tied(N, K, a, b) => Tied(N, K, b, a)
  BY DEF Tied
<1>8. \A a \in W : ~First(a, a)
  <2> SUFFICES ASSUME NEW a \in W, NEW n \in Nat, Before(N, K, a, a, n) PROVE FALSE
    OBVIOUS
  <2>1. K[<<n, a>>] \in Int /\ K[<<n, a>>] < K[<<n, a>>]
    BY <1>1 DEF Before
  <2> QED BY <2>1
<1>9. \A a, b \in W : First(a, b) \/ First(b, a) \/ Tied(N, K, a, b)
  BY <1>1, BeforeTotal
<1> HIDE DEF First
<1>10. \A a, b, c \in W : textLess(a.id, b.id) /\ textLess(b.id, c.id) => textLess(a.id, c.id)
  BY <1>1, TextTransitive
<1>11. \A a, b, c \in W : Less(a, b) /\ Less(b, c) => Less(a, c)
  <2> HIDE DEF Less
  <2> QED BY <1>2, <1>3, <1>4, <1>5, <1>6, <1>10
<1>12. \A a \in W : ~Less(a, a)
  <2>1. \A a \in W : ~textLess(a.id, a.id)
    BY <1>1, TextIrreflexive
  <2> HIDE DEF Less
  <2> QED BY <1>2, <1>8, <2>1
<1>13. ASSUME NEW a \in W, NEW b \in W, ~Less(a, b), ~Less(b, a)
       PROVE  a.id = b.id /\ \A c \in W : Less(a, c) => Less(b, c)
  <2> HIDE DEF Less
  <2>1. Tied(N, K, a, b) /\ Tied(N, K, b, a)
    BY <1>2, <1>7, <1>9, <1>13
  <2>2. ~textLess(a.id, b.id) /\ ~textLess(b.id, a.id)
    BY <1>2, <1>13, <2>1
  <2>3. a.id = b.id
    BY <1>1, <2>2, TextTotal
  <2> QED BY <1>2, <1>3, <1>6, <2>1, <2>3
<1> QED BY <1>11, <1>12, <1>13

\* So rows are sorted by it.
LEMMA RowsSorted ==
  ASSUME NEW orderBy, NEW W, NEW K, Keyed(orderBy, W, K), NEW s, isSeq(s), Range(s) = W
  PROVE  Ascending(orderBySources(s, orderBy), {p \in Pairs(s) : rowLess(orderBy, p[1], p[2])})
<1> DEFINE less == {p \in Pairs(s) : rowLess(orderBy, p[1], p[2])}
<1>1. \A a, b \in W : <<a, b>> \in less <=> rowLess(orderBy, a, b)
  BY DEF Pairs
<1>2. Orders(less, W)
  <2> HIDE DEF less
  <2>1. \A a, b \in W : rowLess(orderBy, a, b) => ~rowLess(orderBy, b, a)
    BY RowLessOrders
  <2>2. \A a, b, c \in W : ~rowLess(orderBy, a, b) /\ ~rowLess(orderBy, b, c) => ~rowLess(orderBy, a, c)
    BY RowLessOrders
  <2> QED BY <1>1, <2>1, <2>2 DEF Orders
<1>3. s \in Seq(W)
  BY DEF isSeq
<1>4. orderBySources(s, orderBy) = stableSort(s, less)
  BY Zenon DEF orderBySources
<1> HIDE DEF less
<1>5. Ascending(orderBySources(s, orderBy), less)
  BY <1>2, <1>3, <1>4, SortOrders
<1> QED BY <1>5 DEF less

-----------------------------------------------------------------------------
(***************************************************************************)
(* The numbers by which the rows of one collection are compared: of a sort *)
(* field that holds numbers only, the number; of one that holds none, the  *)
(* place of its text.                                                      *)
(***************************************************************************)
Known(q) == {"", q.name} \cup ({q.alias} \ {""})
Raw(R, f, d) == IF \A r \in R : isNumber(at(r.data, f)) THEN at(d, f).n ELSE Text(at(d, f))
KeyNumber(o, R, d) ==
    IF o.e.k # "field" THEN 0 ELSE IF o.desc THEN -Raw(R, o.e.name, d) ELSE Raw(R, o.e.name, d)
Valued(R) == \A r \in R : \A f \in DOMAIN r.data : isValue(r.data[f])

\* A field of a row is what its name or its alias, or no qualifier at all, finds.
LEMMA LookupIsField ==
  ASSUME NEW q, NEW r, NEW e, e.src \in Known(q)
  PROVE  lookup(withSources(q, r).sources, e) = at(r.data, e.name)
<1>1. withSources(q, r).sources = baseSources(q, r.data)
  BY DEF withSources
<1>2. baseSources(q, r.data) = [s \in Known(q) |-> r.data]
  BY DEF baseSources, Known
<1>3. e.src \in DOMAIN baseSources(q, r.data) /\ baseSources(q, r.data)[e.src] = r.data
  BY <1>2
<1> QED BY <1>1, <1>3 DEF lookup

\* What compare and the reference say of two rows is the order of their numbers.
LEMMA RawCompares ==
  ASSUME NEW R, Valued(R), NEW f, alike(f, R), NEW a \in R, NEW b \in R
  PROVE  /\ Raw(R, f, a.data) \in Int /\ Raw(R, f, b.data) \in Int
         /\ compare(at(a.data, f), at(b.data, f)) = sign(Raw(R, f, a.data), Raw(R, f, b.data))
         /\ smaller(at(a.data, f), at(b.data, f)) <=> Raw(R, f, a.data) < Raw(R, f, b.data)
<1> DEFINE v == at(a.data, f)
           w == at(b.data, f)
<1>1. isValue(Nil)
  BY QueryAssumption
<1>2. isValue(v) /\ isValue(w)
  BY <1>1 DEF at, Valued
<1>3. v.n \in Int /\ w.n \in Int /\ Text(v) \in Int /\ Text(w) \in Int
  BY <1>2 DEF isValue
<1>4. CASE \A r \in R : isNumber(at(r.data, f))
  <2>1. isNumber(v) /\ isNumber(w) /\ Raw(R, f, a.data) = v.n /\ Raw(R, f, b.data) = w.n
    BY <1>4 DEF Raw
  <2> HIDE DEF v, w
  <2>2. compare(v, w) = sign(v.n, w.n) /\ (smaller(v, w) <=> v.n < w.n)
    BY <2>1 DEF compare, smaller
  <2> QED BY <1>3, <2>1, <2>2 DEF v, w
<1>5. CASE ~\A r \in R : isNumber(at(r.data, f))
  <2>1. ~isNumber(v) /\ ~isNumber(w) /\ Raw(R, f, a.data) = Text(v) /\ Raw(R, f, b.data) = Text(w)
    BY <1>5 DEF Raw, alike
  <2> HIDE DEF v, w
  <2>2. compare(v, w) = sign(Text(v), Text(w)) /\ (smaller(v, w) <=> Text(v) < Text(w))
    BY <2>1 DEF compare, smaller
  <2> QED BY <1>3, <2>1, <2>2 DEF v, w
<1> QED BY <1>4, <1>5

\* One key of ORDER BY, both ways.
LEMMA KeyNumberCompares ==
  ASSUME NEW q, NEW R, Valued(R), NEW o, validSource(o.e, Known(q)), o.e.k = "field" => alike(o.e.name, R),
         NEW a \in R, NEW b \in R
  PROVE  /\ KeyNumber(o, R, a.data) \in Int /\ KeyNumber(o, R, b.data) \in Int
         /\ compareKey(o, withSources(q, a), withSources(q, b))
            = sign(KeyNumber(o, R, a.data), KeyNumber(o, R, b.data))
         /\ ahead(o, a, b) <=> KeyNumber(o, R, a.data) < KeyNumber(o, R, b.data)
<1> DEFINE f == o.e.name
           x == Raw(R, f, a.data)
           y == Raw(R, f, b.data)
           v == at(a.data, f)
           w == at(b.data, f)
<1>1. CASE o.e.k # "field"
  <2>1. /\ KeyNumber(o, R, a.data) = 0 /\ KeyNumber(o, R, b.data) = 0 /\ ~ahead(o, a, b)
        /\ compareKey(o, withSources(q, a), withSources(q, b)) = 0
    BY <1>1 DEF KeyNumber, ahead, compareKey
  <2>2. sign(0, 0) = 0
    BY DEF sign
  <2> QED BY <2>1, <2>2
<1>2. CASE o.e.k = "field"
  <2>1. /\ x \in Int /\ y \in Int /\ compare(v, w) = sign(x, y)
        /\ (smaller(v, w) <=> x < y) /\ (smaller(w, v) <=> y < x)
    BY <1>2, RawCompares
  <2>2. o.e.src \in Known(q)
    BY <1>2 DEF validSource, Known
  <2>3. lookup(withSources(q, a).sources, o.e) = v /\ lookup(withSources(q, b).sources, o.e) = w
    BY <2>2, LookupIsField
  <2>4. CASE o.desc
    <3>1. /\ compareKey(o, withSources(q, a), withSources(q, b)) = (-1) * compare(v, w)
          /\ KeyNumber(o, R, a.data) = -x /\ KeyNumber(o, R, b.data) = -y
          /\ (ahead(o, a, b) <=> smaller(w, v))
      BY <1>2, <2>3, <2>4 DEF compareKey, KeyNumber, ahead
    <3> HIDE DEF x, y, v, w
    <3>2. (-1) * sign(x, y) = sign(-x, -y) /\ (y < x <=> -x < -y) /\ -x \in Int /\ -y \in Int
      BY <2>1 DEF sign
    <3> QED BY <2>1, <3>1, <3>2
  <2>5. CASE ~o.desc
    <3>1. /\ compareKey(o, withSources(q, a), withSources(q, b)) = 1 * compare(v, w)
          /\ KeyNumber(o, R, a.data) = x /\ KeyNumber(o, R, b.data) = y
          /\ (ahead(o, a, b) <=> smaller(v, w))
      BY <1>2, <2>3, <2>5 DEF compareKey, KeyNumber, ahead
    <3> HIDE DEF x, y, v, w
    <3>2. 1 * sign(x, y) = sign(x, y)
      BY <2>1 DEF sign
    <3> QED BY <2>1, <3>1, <3>2
  <2> QED BY <2>4, <2>5
<1> QED BY <1>1, <1>2

\* What the reference of a query says of two rows.
Precedes(q, r, s) ==
    \/ \E n \in DOMAIN q.orderBy :
          /\ \A m \in 1..(n - 1) : ~ahead(q.orderBy[m], r, s) /\ ~ahead(q.orderBy[m], s, r)
          /\ ahead(q.orderBy[n], r, s)
    \/ /\ \A m \in 1..Len(q.orderBy) : ~ahead(q.orderBy[m], r, s) /\ ~ahead(q.orderBy[m], s, r)
       /\ textLess(keyID(r.key), keyID(s.key))

\* Rows of one collection, with their sources, are compared by numbers, and as the
\* reference says.
LEMMA RowsAreKeyed ==
  ASSUME NEW q, isSeq(q.orderBy), validateOrderSources(q.orderBy, Known(q)),
         NEW R, Valued(R), \A r \in R : r.id \in Texts /\ keyID(r.key) = r.id,
         \A n \in DOMAIN q.orderBy : q.orderBy[n].e.k = "field" => alike(q.orderBy[n].e.name, R)
  PROVE  \E K : /\ Keyed(q.orderBy, {withSources(q, r) : r \in R}, K)
                /\ \A a, b \in R : rowLess(q.orderBy, withSources(q, a), withSources(q, b)) <=> Precedes(q, a, b)
<1> DEFINE N == Len(q.orderBy)
           W == {withSources(q, r) : r \in R}
           K == [z \in (1..N) \X W |-> KeyNumber(q.orderBy[z[1]], R, z[2].data)]
           kn(m, r) == KeyNumber(q.orderBy[m], R, r.data)
<1>1. N \in Nat /\ DOMAIN q.orderBy = 1..N
  BY SeqIsFcn
<1>2. \A r : /\ withSources(q, r).data = r.data /\ withSources(q, r).id = r.id
  BY DEF withSources
<1> HIDE DEF N
<1>3. ASSUME NEW m \in 1..N, NEW a \in R, NEW b \in R
      PROVE  /\ kn(m, a) \in Int /\ kn(m, b) \in Int
             /\ compareKey(q.orderBy[m], withSources(q, a), withSources(q, b)) = sign(kn(m, a), kn(m, b))
             /\ ahead(q.orderBy[m], a, b) <=> kn(m, a) < kn(m, b)
  <2>1. validSource(q.orderBy[m].e, Known(q)) /\ (q.orderBy[m].e.k = "field" => alike(q.orderBy[m].e.name, R))
    BY <1>1 DEF validateOrderSources
  <2> QED BY <2>1, KeyNumberCompares
<1>4. ASSUME NEW m \in 1..N, NEW r \in R PROVE K[<<m, withSources(q, r)>>] = kn(m, r)
  <2>1. withSources(q, r) \in W
    OBVIOUS
  <2>2. K[<<m, withSources(q, r)>>] = KeyNumber(q.orderBy[m], R, withSources(q, r).data)
    BY <2>1
  <2> QED BY <2>2, <1>2
<1>5. K \in [(1..N) \X W -> Int]
  <2>1. ASSUME NEW z \in (1..N) \X W PROVE KeyNumber(q.orderBy[z[1]], R, z[2].data) \in Int
    <3>1. PICK r \in R : z[2] = withSources(q, r)
      OBVIOUS
    <3>2. z[1] \in 1..N /\ z[2].data = r.data
      BY <3>1, <1>2
    <3> QED BY <3>2, <1>3
  <2> QED BY <2>1
<1>6. Keyed(q.orderBy, W, K)
  <2>1. \A a \in W : a.id \in Texts
    BY <1>2
  <2>2. ASSUME NEW m \in 1..N, NEW a \in W, NEW b \in W
        PROVE  compareKey(q.orderBy[m], a, b) = sign(K[<<m, a>>], K[<<m, b>>])
    <3>1. PICK r \in R : a = withSources(q, r)
      OBVIOUS
    <3>2. PICK s \in R : b = withSources(q, s)
      OBVIOUS
    <3> HIDE DEF K, W
    <3> QED BY <3>1, <3>2, <1>3, <1>4
  <2> HIDE DEF K, W
  <2> QED BY <2>1, <2>2, <1>5 DEF Keyed, N
<1>7. ASSUME NEW a \in R, NEW b \in R
      PROVE  rowLess(q.orderBy, withSources(q, a), withSources(q, b)) <=> Precedes(q, a, b)
  <2> DEFINE u == withSources(q, a)
             v == withSources(q, b)
  <2>1. u \in W /\ v \in W /\ u.id = keyID(a.key) /\ v.id = keyID(b.key)
    BY <1>2
  <2>2. \A m \in 1..N : K[<<m, u>>] = kn(m, a) /\ K[<<m, v>>] = kn(m, b)
    BY <1>4
  <2> HIDE DEF K, W, u, v
  <2>3. rowLess(q.orderBy, u, v) <=> \/ \E n \in Nat : Before(N, K, u, v, n)
                                     \/ Tied(N, K, u, v) /\ textLess(u.id, v.id)
    BY <1>6, <2>1, RowLessByKeys DEF N
  <2>4. \A m \in 1..N : /\ ahead(q.orderBy[m], a, b) <=> K[<<m, u>>] < K[<<m, v>>]
                        /\ (~ahead(q.orderBy[m], a, b) /\ ~ahead(q.orderBy[m], b, a)) <=> K[<<m, u>>] = K[<<m, v>>]
    <3> SUFFICES ASSUME NEW m \in 1..N
                 PROVE  /\ ahead(q.orderBy[m], a, b) <=> K[<<m, u>>] < K[<<m, v>>]
                        /\ (~ahead(q.orderBy[m], a, b) /\ ~ahead(q.orderBy[m], b, a)) <=> K[<<m, u>>] = K[<<m, v>>]
      OBVIOUS
    <3>1. /\ kn(m, a) \in Int /\ kn(m, b) \in Int
          /\ ahead(q.orderBy[m], a, b) <=> kn(m, a) < kn(m, b)
          /\ ahead(q.orderBy[m], b, a) <=> kn(m, b) < kn(m, a)
      BY <1>3
    <3> HIDE DEF kn
    <3>2. (~(kn(m, a) < kn(m, b)) /\ ~(kn(m, b) < kn(m, a))) <=> kn(m, a) = kn(m, b)
      BY <3>1
    <3> QED BY <3>1, <3>2, <2>2
  <2>5. (\A m \in 1..Len(q.orderBy) : ~ahead(q.orderBy[m], a, b) /\ ~ahead(q.orderBy[m], b, a)) <=> Tied(N, K, u, v)
    BY <2>4 DEF Tied, N
  <2>6. ASSUME NEW n \in 1..N
        PROVE  /\ (\A m \in 1..(n - 1) : ~ahead(q.orderBy[m], a, b) /\ ~ahead(q.orderBy[m], b, a))
               /\ ahead(q.orderBy[n], a, b)
               <=> Before(N, K, u, v, n)
    <3>1. \A m \in 1..(n - 1) : m \in 1..N
      BY <1>1
    <3> QED BY <2>4, <3>1 DEF Before
  <2>7. \A n : Before(N, K, u, v, n) => n \in 1..N
    BY DEF Before
  <2>8. \A n \in 1..N : n \in Nat
    OBVIOUS
  <2>9. Precedes(q, a, b) <=> \/ \E n \in Nat : Before(N, K, u, v, n)
                              \/ Tied(N, K, u, v) /\ textLess(u.id, v.id)
    BY <1>1, <2>1, <2>5, <2>6, <2>7, <2>8 DEF Precedes
  <2> QED BY <2>3, <2>9 DEF u, v
<1> QED BY <1>6, <1>7

-----------------------------------------------------------------------------
(***************************************************************************)
(* The answer of a query of one collection.                                *)
(***************************************************************************)
Chosen(q, r) == matchesWhere(r.data, q.where) /\ (q.parent # <<>> => r.key.parent = q.parent)
Selected(q) == {r \in Range(stored[q.name]) : Chosen(q, r)}
ChosenRows(q) == {r \in RowsIn(q.name) : Chosen(q, r)}
Bare(r) == [key |-> r.key, data |-> r.data]

\* t lists the rows that are selected, in the order that is asked for, and the
\* records are the first of them.
OrderedTop(q, t, records) ==
    /\ Lists(t, Selected(q))
    /\ \A i, j \in 1..Len(t) : i < j => Precedes(q, t[i], t[j])
    /\ isSeq(records)
    /\ Len(records) = IF q.limit > 0 /\ q.limit < Len(t) THEN q.limit ELSE Len(t)
    /\ \A i \in 1..Len(records) : records[i].key = t[i].key

\* The rows that are kept, whatever the engine selected before.
LEMMA FilterKeeps ==
  ASSUME StoreInv, NEW q \in Queries, NEW indexed \in BOOLEAN, NEW rowsOf \in Inputs(q, indexed)
  PROVE  Lists(filterRows(q, rowsOf[q.name]), {withSources(q, r) : r \in ChosenRows(q)})
<1> DEFINE c == q.name
           rows == rowsOf[c]
           A == Returned(c, q, indexed)
           keep == {r \in Range(rows) : matchesWhere(r.data, q.where) /\ (q.parent # <<>> => isChildOf(r.key, q.parent))}
           R == ChosenRows(q)
           k == only(rows, keep)
           f == filterRows(q, rows)
           W == {withSources(q, r) : r \in R}
<1>1. c \in Collections /\ rows \in engineRows(c, q, indexed)
  BY QueryAssumption, InputsFacts
<1>2. Lists(rows, A)
  <2>1. isSeq(rows) /\ Range(rows) = A /\ \A i, j \in 1..Len(rows) : rows[i] = rows[j] => i = j
    <3> HIDE DEF rows, c, A
    <3> QED BY <1>1, EngineRowsFacts DEF A
  <2> QED BY <2>1 DEF Lists
<1>3. {x \in A : x \in keep} = R
  <2>1. \A r : (q.parent # <<>> => isChildOf(r.key, q.parent)) <=> (q.parent # <<>> => r.key.parent = q.parent)
    BY DEF isChildOf
  <2>2. Range(rows) = A
    BY <1>2 DEF Lists
  <2> QED BY <2>1, <2>2 DEF ChosenRows, Chosen, Returned
<1>4. Lists(k, R)
  <2> HIDE DEF rows, A, keep, R, k
  <2>1. Lists(only(rows, keep), {x \in A : x \in keep})
    BY <1>2, KeptLists
  <2> QED BY <2>1, <1>3 DEF k
<1>5. f = [i \in DOMAIN k |-> withSources(q, k[i])]
  BY Zenon DEF filterRows, mapped
<1>6. ASSUME NEW a \in R, NEW b \in R, withSources(q, a) = withSources(q, b) PROVE a = b
  <2>1. a.id = b.id
    BY <1>6 DEF withSources
  <2>2. a \in RowsIn(c) /\ b \in RowsIn(c)
    BY DEF ChosenRows
  <2>3. a = RowAt(c, a.id) /\ b = RowAt(c, b.id)
    <3> HIDE DEF c
    <3> QED BY <1>1, <2>2, StoredRows
  <2> QED BY <2>1, <2>3
<1> HIDE DEF k, f, R, rows, c
<1>7. isSeq(k) /\ Range(k) = R /\ (\A i, j \in 1..Len(k) : k[i] = k[j] => i = j) /\ DOMAIN k = 1..Len(k)
  BY <1>4, SeqIsFcn DEF Lists
<1>8. isSeq(f) /\ Len(f) = Len(k) /\ DOMAIN f = DOMAIN k
  <2>1. f = [i \in DOMAIN k |-> f[i]]
    BY <1>5
  <2> QED BY <2>1, <1>7, SameLength
<1>9. \A i \in 1..Len(k) : k[i] \in R
  BY <1>7 DEF Range
<1>10. Range(f) = W
  <2>1. ASSUME NEW w \in W PROVE w \in Range(f)
    <3>1. PICK r \in R : w = withSources(q, r)
      OBVIOUS
    <3>2. PICK i \in DOMAIN k : k[i] = r
      BY <1>7 DEF Range
    <3> QED BY <1>5, <1>8, <3>1, <3>2 DEF Range
  <2>2. ASSUME NEW i \in DOMAIN f PROVE f[i] \in W
    BY <1>5, <1>7, <1>8, <1>9
  <2> QED BY <2>1, <2>2 DEF Range
<1>11. \A i, j \in 1..Len(f) : f[i] = f[j] => i = j
  BY <1>5, <1>6, <1>7, <1>8, <1>9
<1> QED BY <1>8, <1>10, <1>11 DEF Lists, f, rows, c, R

\* The chosen rows are those of the reference.
LEMMA ChosenFacts ==
  ASSUME StoreInv, NEW q \in Queries
  PROVE  /\ Selected(q) = {Bare(r) : r \in ChosenRows(q)}
         /\ \A r, s \in ChosenRows(q) : r.key = s.key => r = s
         /\ \A r \in ChosenRows(q) : keyID(r.key) = r.id /\ r.id \in Texts
         /\ Valued(ChosenRows(q))
<1> DEFINE c == q.name
           R == ChosenRows(q)
<1>1. c \in Collections
  BY QueryAssumption
<1>2. ASSUME NEW r \in R
      PROVE  /\ r \in RowsIn(c) /\ Chosen(q, r) /\ r.id \in DOMAIN stored[c] /\ r = RowAt(c, r.id)
             /\ stored[c][r.id] \in Universe /\ stored[c][r.id] = Bare(r)
             /\ keyID(r.key) = r.id /\ \A f \in DOMAIN r.data : isValue(r.data[f])
  <2>1. r \in RowsIn(c) /\ Chosen(q, r)
    BY DEF ChosenRows
  <2> HIDE DEF c, R
  <2> QED BY <1>1, <2>1, StoredRows DEF Bare
<1>3. ASSUME NEW r \in R PROVE Bare(r) \in Selected(q)
  <2>1. Bare(r) \in Range(stored[c])
    BY <1>2 DEF Range
  <2>2. Chosen(q, Bare(r))
    BY <1>2 DEF Chosen, Bare
  <2> QED BY <2>1, <2>2 DEF Selected
<1>4. ASSUME NEW x \in Selected(q) PROVE \E r \in R : x = Bare(r)
  <2>1. x \in Range(stored[c]) /\ Chosen(q, x)
    BY DEF Selected
  <2>2. PICK id \in DOMAIN stored[c] : x = stored[c][id]
    BY <2>1 DEF Range
  <2>3. x \in Universe
    BY <1>1, <2>2 DEF StoreInv, Holds
  <2>4. x = Bare(x)
    BY <2>3, QueryAssumption DEF Bare
  <2>5. RowAt(c, id) \in RowsIn(c) /\ RowAt(c, id).key = x.key /\ RowAt(c, id).data = x.data
    BY <2>2 DEF RowsIn, RowAt
  <2>6. RowAt(c, id) \in R /\ Bare(RowAt(c, id)) = Bare(x)
    BY <2>1, <2>5 DEF ChosenRows, Chosen, Bare
  <2> QED BY <2>4, <2>6
<1>5. ASSUME NEW r \in R PROVE r.id \in Texts
  <2>1. stored[c][r.id] \in Universe /\ stored[c][r.id] = Bare(r) /\ keyID(r.key) = r.id
    BY <1>2
  <2>2. Bare(r).key = r.key
    BY DEF Bare
  <2>3. keyID(stored[c][r.id].key) \in Texts
    BY <2>1, KeyIDsAreTexts
  <2> HIDE DEF c
  <2> QED BY <2>1, <2>2, <2>3
<1>6. ASSUME NEW r \in R, NEW s \in R, r.key = s.key PROVE r = s
  <2>1. r.id = s.id
    BY <1>2, <1>6
  <2> QED BY <1>2, <2>1
<1> QED BY <1>2, <1>3, <1>4, <1>5, <1>6 DEF Valued

\* What a query of one collection without groups answers, when it does not fail.
LEMMA SingleCases ==
  ASSUME NEW q, NEW rowsOf, q.structured, q.joins = <<>>, q.groupBy = <<>>, ExecuteQuery(q, rowsOf).err = "none"
  PROVE  \/ /\ rowsOf[q.name] = <<>> /\ ExecuteQuery(q, rowsOf).records = <<>>
         \/ /\ validateOrderSources(q.orderBy, Known(q))
            /\ ExecuteQuery(q, rowsOf).records
               = [i \in DOMAIN cut(orderBySources(filterRows(q, rowsOf[q.name]), q.orderBy), q.limit) |->
                    singleRecord(q, cut(orderBySources(filterRows(q, rowsOf[q.name]), q.orderBy), q.limit)[i])]
<1> DEFINE c == cut(orderBySources(filterRows(q, rowsOf[q.name]), q.orderBy), q.limit)
           wrong == \/ ~validateOrderSources(q.orderBy, Known(q))
                    \/ q.groupBy = <<>> /\ ~validateColumns(q.columns, Known(q))
           a == singleRecords(q, filterRows(q, rowsOf[q.name]), Known(q))
<1>1. ExecuteQuery(q, rowsOf) = IF q.name \in Undefined THEN Failed("undefined")
                                ELSE IF rowsOf[q.name] = <<>> THEN Records(<<>>)
                                ELSE IF wrong THEN Failed("invalid") ELSE a
  BY Zenon DEF ExecuteQuery, executeSingle, Known
<1>2. a = Records([i \in DOMAIN c |-> singleRecord(q, c[i])])
  BY Zenon DEF singleRecords, mapped
<1>3. Failed("undefined").err # "none" /\ Failed("invalid").err # "none"
  BY DEF Failed
<1> HIDE DEF a
<1>5. ~wrong => validateOrderSources(q.orderBy, Known(q))
  OBVIOUS
<1> HIDE DEF wrong
<1>6. \/ rowsOf[q.name] = <<>> /\ ExecuteQuery(q, rowsOf) = Records(<<>>)
      \/ ~wrong /\ ExecuteQuery(q, rowsOf) = a
  BY <1>1, <1>3
<1>7. Records(<<>>).records = <<>>
  BY DEF Records
<1>8. a.records = [i \in DOMAIN c |-> singleRecord(q, c[i])]
  <2> HIDE DEF c
  <2> QED BY <1>2 DEF Records
<1> QED BY <1>5, <1>6, <1>7, <1>8

\* An engine that returns no row has none that is selected.
LEMMA NoRowsSelected ==
  ASSUME StoreInv, NEW q \in Queries, NEW indexed \in BOOLEAN, NEW rowsOf \in Inputs(q, indexed),
         rowsOf[q.name] = <<>>
  PROVE  ChosenRows(q) = {} /\ Selected(q) = {}
<1> DEFINE R == ChosenRows(q)
           W == {withSources(q, r) : r \in R}
           f == filterRows(q, rowsOf[q.name])
           rows == rowsOf[q.name]
           keep == {r \in Range(rows) : matchesWhere(r.data, q.where) /\ (q.parent # <<>> => isChildOf(r.key, q.parent))}
           k == only(rows, keep)
<1>1. Range(f) = W
  BY FilterKeeps DEF Lists
<1>2. f = [i \in DOMAIN k |-> withSources(q, k[i])]
  BY Zenon DEF filterRows, mapped
<1>3. rows = <<>> /\ isSeq(rows)
  BY EmptyIsSeq
<1> HIDE DEF keep, rows
<1>4. Len(k) \in Nat /\ DOMAIN k = 1..Len(k)
  BY <1>3, KeptIsSeq, SeqIsFcn
<1>5. \A i \in 1..Len(k) : k[i] \in Range(rows)
  BY <1>3, KeptElements
<1>6. Range(rows) = {}
  BY <1>3 DEF Range
<1>7. DOMAIN k = {}
  BY <1>4, <1>5, <1>6
<1> HIDE DEF k, f
<1>8. Range(f) = {}
  BY <1>2, <1>7 DEF Range
<1>9. R = {}
  BY <1>1, <1>8
<1>10. Selected(q) = {Bare(r) : r \in R}
  BY ChosenFacts
<1> QED BY <1>9, <1>10

\* A query of one collection answers the first rows of the order asked for.
LEMMA SingleOrdered ==
  ASSUME StoreInv, NEW q \in Queries, NEW indexed \in BOOLEAN, NEW rowsOf \in Inputs(q, indexed),
         q.structured, q.joins = <<>>, q.groupBy = <<>>, ExecuteQuery(q, rowsOf).err = "none",
         \A n \in DOMAIN q.orderBy : q.orderBy[n].e.k = "field" => alike(q.orderBy[n].e.name, Selected(q))
  PROVE  \E t : OrderedTop(q, t, ExecuteQuery(q, rowsOf).records)
<1> DEFINE R == ChosenRows(q)
           W == {withSources(q, r) : r \in R}
           f == filterRows(q, rowsOf[q.name])
           s == orderBySources(f, q.orderBy)
           c == cut(s, q.limit)
           a == ExecuteQuery(q, rowsOf).records
           less == {p \in Pairs(f) : rowLess(q.orderBy, p[1], p[2])}
<1>1. isSeq(q.orderBy) /\ q.limit \in Int
  BY QueryAssumption
<1>2. /\ Selected(q) = {Bare(r) : r \in R} /\ (\A r, u \in R : r.key = u.key => r = u)
      /\ (\A r \in R : keyID(r.key) = r.id /\ r.id \in Texts) /\ Valued(R)
  BY ChosenFacts
<1>3. Lists(f, W)
  BY FilterKeeps
<1>4. CASE rowsOf[q.name] = <<>> /\ a = <<>>
  <2>1. Lists(<<>>, {})
    BY EmptyIsSeq DEF Lists, Range
  <2>3. Selected(q) = {}
    BY <1>4, NoRowsSelected
  <2>4. OrderedTop(q, <<>>, a)
    <3>1. Len(<<>>) = 0 /\ isSeq(<<>>)
      BY EmptyIsSeq
    <3>2. 1..0 = {}
      OBVIOUS
    <3>3. (IF q.limit > 0 /\ q.limit < Len(<<>>) THEN q.limit ELSE Len(<<>>)) = 0
      BY <3>1, <1>1
    <3> HIDE DEF a
    <3> QED BY <1>4, <2>1, <2>3, <3>1, <3>2, <3>3 DEF OrderedTop
  <2> QED BY <2>4
<1>5. CASE /\ validateOrderSources(q.orderBy, Known(q))
           /\ a = [i \in DOMAIN c |-> singleRecord(q, c[i])]
  <2>1. \A n \in DOMAIN q.orderBy : q.orderBy[n].e.k = "field" => alike(q.orderBy[n].e.name, R)
    <3>1. ASSUME NEW name, alike(name, Selected(q)) PROVE alike(name, R)
      <4>1. \A r \in R : Bare(r) \in Selected(q) /\ Bare(r).data = r.data
        BY <1>2 DEF Bare
      <4> HIDE DEF R
      <4> QED BY <3>1, <4>1 DEF alike
    <3> QED BY <3>1
  <2>2. PICK K : /\ Keyed(q.orderBy, W, K)
                 /\ \A x, y \in R : rowLess(q.orderBy, withSources(q, x), withSources(q, y)) <=> Precedes(q, x, y)
    <3> HIDE DEF R
    <3> QED BY <1>1, <1>2, <1>5, <2>1, RowsAreKeyed
  <2>3. isSeq(f) /\ Range(f) = W
    BY <1>3 DEF Lists
  <2>4. Ascending(s, less)
    <3> HIDE DEF W, f
    <3> QED BY <2>2, <2>3, RowsSorted
  <2>5. Lists(s, W)
    <3>1. s = stableSort(f, less)
      BY Zenon DEF orderBySources
    <3> HIDE DEF W, f, less, s
    <3> QED BY <1>3, <3>1, SortLists
  <2>6. isSeq(s) /\ Len(s) \in Nat /\ DOMAIN s = 1..Len(s) /\ (\A i \in 1..Len(s) : s[i] \in W)
    <3> HIDE DEF W, s
    <3> QED BY <2>5, SeqIsFcn DEF Lists, Range
  <2>7. \A x, y \in W : <<x, y>> \in less <=> rowLess(q.orderBy, x, y)
    <3> HIDE DEF W, f
    <3> QED BY <2>3 DEF Pairs
  <2> DEFINE rowOf(x) == [id |-> x.id, key |-> x.key, data |-> x.data]
  <2>8. \A r \in R : r = rowOf(r)
    BY DEF ChosenRows, RowsIn, RowAt
  <2>9. \A x \in W : rowOf(x) \in R /\ x = withSources(q, rowOf(x)) /\ Bare(rowOf(x)) = Bare(x)
    <3> SUFFICES ASSUME NEW r \in R
                 PROVE  rowOf(withSources(q, r)) = r /\ Bare(r) = Bare(withSources(q, r))
      BY <2>8
    <3>1. rowOf(withSources(q, r)) = rowOf(r) /\ Bare(r) = Bare(withSources(q, r))
      BY DEF withSources, Bare
    <3> QED BY <2>8, <3>1
  <2> DEFINE t == [i \in DOMAIN s |-> Bare(s[i])]
  <2>10. isSeq(t) /\ Len(t) = Len(s) /\ DOMAIN t = DOMAIN s
    <3>1. t = [i \in DOMAIN s |-> t[i]]
      OBVIOUS
    <3> HIDE DEF t, s
    <3> QED BY <2>6, <3>1, SameLength
  <2> HIDE DEF R, W, f, s, less, rowOf, a
  <2>11. \A i \in 1..Len(s) : t[i] = Bare(s[i]) /\ t[i] = Bare(rowOf(s[i])) /\ rowOf(s[i]) \in R
    BY <2>6, <2>9
  <2> HIDE DEF t
  <2>12. Lists(t, Selected(q))
    <3>1. ASSUME NEW x \in Selected(q) PROVE \E i \in 1..Len(s) : t[i] = x
      <4>1. PICK r \in R : x = Bare(r)
        BY <1>2
      <4>2. withSources(q, r) \in W
        BY DEF W
      <4>3. PICK i \in 1..Len(s) : s[i] = withSources(q, r)
        BY <2>5, <2>6, <4>2 DEF Lists, Range
      <4>4. Bare(withSources(q, r)) = Bare(r)
        BY DEF withSources, Bare
      <4> QED BY <2>11, <4>1, <4>3, <4>4
    <3>2. \A i \in 1..Len(s) : t[i] \in Selected(q)
      BY <1>2, <2>11
    <3>3. Range(t) = Selected(q)
      BY <2>6, <2>10, <3>1, <3>2 DEF Range
    <3>4. ASSUME NEW i \in 1..Len(s), NEW j \in 1..Len(s), t[i] = t[j] PROVE i = j
      <4>1. \A x : Bare(x).key = x.key
        BY DEF Bare
      <4>2. rowOf(s[i]) = rowOf(s[j])
        BY <1>2, <2>11, <3>4, <4>1
      <4>3. s[i] = s[j]
        BY <2>6, <2>9, <4>2
      <4> QED BY <2>5, <4>3 DEF Lists
    <3> QED BY <2>10, <3>3, <3>4 DEF Lists
  <2>13. ASSUME NEW i \in 1..Len(t), NEW j \in 1..Len(t), i < j PROVE Precedes(q, t[i], t[j])
    <3> DEFINE x == s[i]
               y == s[j]
               u == rowOf(x)
               v == rowOf(y)
    <3>1. i \in 1..Len(s) /\ j \in 1..Len(s) /\ x \in W /\ y \in W /\ x # y
      BY <2>5, <2>6, <2>10, <2>13 DEF Lists
    <3>2. ~rowLess(q.orderBy, y, x)
      BY <2>4, <2>7, <2>13, <3>1 DEF Ascending
    <3>3. u \in R /\ v \in R /\ x = withSources(q, u) /\ y = withSources(q, v) /\ t[i] = Bare(u) /\ t[j] = Bare(v)
      BY <2>9, <2>11, <3>1
    <3> HIDE DEF u, v, x, y
    <3>4. x.id # y.id
      <4>1. x.id = u.id /\ y.id = v.id
        BY <3>3 DEF withSources
      <4>2. u = RowAt(q.name, u.id) /\ v = RowAt(q.name, v.id)
        <5>1. u \in RowsIn(q.name) /\ v \in RowsIn(q.name) /\ q.name \in Collections
          BY <3>3, QueryAssumption DEF R, ChosenRows
        <5>2. q.name \in Collections /\ StoreInv
          BY <5>1
        <5>3. \A r \in RowsIn(q.name) : r = RowAt(q.name, r.id)
          BY <5>2, StoredRows
        <5> QED BY <5>1, <5>3
      <4> QED BY <3>1, <3>3, <4>1, <4>2
    <3>5. rowLess(q.orderBy, x, y)
      BY <2>2, <3>1, <3>2, <3>4, RowLessOrders
    <3>6. Precedes(q, u, v)
      BY <2>2, <3>3, <3>5
    <3>7. Bare(u).data = u.data /\ Bare(u).key = u.key /\ Bare(v).data = v.data /\ Bare(v).key = v.key
      BY DEF Bare
    <3>8. Precedes(q, Bare(u), Bare(v)) <=> Precedes(q, u, v)
      BY <3>7 DEF Precedes, ahead
    <3> QED BY <3>3, <3>6, <3>8
  <2>14. /\ isSeq(c) /\ Len(c) = (IF q.limit > 0 /\ q.limit < Len(s) THEN q.limit ELSE Len(s))
         /\ \A i \in 1..Len(c) : c[i] = s[i]
    BY <1>1, <2>6, CutFacts
  <2>15. Len(c) \in Nat /\ Len(c) <= Len(s) /\ DOMAIN c = 1..Len(c)
    BY <1>1, <2>6, <2>14, SeqIsFcn
  <2> HIDE DEF c
  <2>16. isSeq(a) /\ Len(a) = Len(c) /\ DOMAIN a = DOMAIN c
    <3>1. a = [i \in DOMAIN c |-> a[i]]
      BY <1>5
    <3> QED BY <2>14, <3>1, SameLength
  <2>17. ASSUME NEW i \in 1..Len(a) PROVE a[i].key = t[i].key
    <3>1. a[i] = singleRecord(q, c[i]) /\ c[i] = s[i] /\ i \in 1..Len(s)
      BY <1>5, <2>6, <2>14, <2>15, <2>16
    <3>2. singleRecord(q, c[i]).key = c[i].key
      BY DEF singleRecord, Rec, KeyOnly
    <3>3. Bare(s[i]).key = s[i].key
      BY DEF Bare
    <3> QED BY <2>11, <3>1, <3>2, <3>3
  <2>18. OrderedTop(q, t, a)
    BY <2>10, <2>12, <2>13, <2>14, <2>16, <2>17 DEF OrderedTop
  <2> QED BY <2>18 DEF a
<1>6. \/ rowsOf[q.name] = <<>> /\ a = <<>>
      \/ /\ validateOrderSources(q.orderBy, Known(q))
         /\ a = [i \in DOMAIN c |-> singleRecord(q, c[i])]
  BY SingleCases
<1> HIDE DEF a, c
<1> QED BY <1>4, <1>5, <1>6

-----------------------------------------------------------------------------
(***************************************************************************)
(* Counting the rows of a join.                                            *)
(***************************************************************************)
\* A filter that every element passes.
LEMMA KeepsAll ==
  ASSUME NEW s, isSeq(s), NEW keep, Range(s) \subseteq keep
  PROVE  only(s, keep) = s
<1> DEFINE n == Len(s)
           S == Range(s)
<1>1. n \in Nat /\ DOMAIN s = 1..n /\ s \in Seq(S) /\ \A j \in 1..n : s[j] \in keep
  BY SeqIsFcn DEF isSeq, Range
<1>2. PICK g : Keepings(S, s, keep, g)
  <2> HIDE DEF S
  <2> QED BY <1>1, OnlySteps, Zenon
<1>3. /\ g \in [0..n -> Seq(S)] /\ only(s, keep) = g[n] /\ g[0] = <<>>
      /\ \A j \in 1..n : g[j] = Kept(s, keep, g[j - 1], s[j])
  BY <1>2 DEF Keepings
<1> HIDE DEF n, S
<1> DEFINE Good(m) == isSeq(g[m]) /\ Len(g[m]) = m /\ \A i \in 1..m : g[m][i] = s[i]
           Bad == {m \in 0..n : ~Good(m)}
<1>4. Good(0)
  BY <1>3, EmptyIsSeq
<1>5. ASSUME NEW m \in 1..n, Good(m - 1) PROVE Good(m)
  <2> DEFINE h == g[m - 1]
  <2>1. g[m] = Append(h, s[m])
    BY <1>1, <1>3 DEF Kept
  <2>2. isSeq(h) /\ Len(h) = m - 1 /\ \A i \in 1..(m - 1) : h[i] = s[i]
    BY <1>5
  <2> HIDE DEF h
  <2>3. /\ isSeq(Append(h, s[m])) /\ Len(Append(h, s[m])) = (m - 1) + 1
        /\ Append(h, s[m])[(m - 1) + 1] = s[m]
        /\ \A i \in 1..(m - 1) : Append(h, s[m])[i] = h[i]
    BY <2>2, AppendIsSeq
  <2>4. (m - 1) + 1 = m /\ \A i \in 1..m : i = m \/ i \in 1..(m - 1)
    BY <1>1
  <2> QED BY <2>1, <2>2, <2>3, <2>4
<1> HIDE DEF Good
<1>6. Bad = {}
  <2>1. SUFFICES ASSUME Bad # {} PROVE FALSE
    OBVIOUS
  <2>2. PICK m \in Bad : \A k \in Bad : m <= k
    <3>1. Bad \in SUBSET Nat
      BY <1>1
    <3> HIDE DEF Bad
    <3> QED BY <2>1, <3>1, LeastElement
  <2>3. m \in 1..n /\ m - 1 \in 0..n /\ ~(m <= m - 1)
    BY <1>1, <1>4, <2>2
  <2>4. Good(m - 1)
    BY <2>2, <2>3
  <2> QED BY <1>5, <2>2, <2>3, <2>4
<1>7. Good(n)
  BY <1>1, <1>6
<1>8. isSeq(g[n]) /\ Len(g[n]) = Len(s) /\ \A i \in 1..Len(s) : g[n][i] = s[i]
  BY <1>7 DEF Good, n
<1>9. g[n] = s
  BY <1>8, SameSeq
<1> QED BY <1>3, <1>9

CountOf(s, id) == Cardinality({k \in 1..Len(s) : s[k].id = id})

\* Each part of a flattened sequence has an id of its own: as many elements have
\* that id as there are in the part.
LEMMA FlattenedCount ==
  ASSUME NEW seqs, isSeq(seqs), \A i \in 1..Len(seqs) : isSeq(seqs[i]),
         NEW ids, \A i \in 1..Len(seqs) : \A k \in 1..Len(seqs[i]) : seqs[i][k].id = ids[i],
         \A i, j \in 1..Len(seqs) : ids[i] = ids[j] => i = j,
         NEW p \in 1..Len(seqs)
  PROVE  CountOf(FlattenSeq(seqs), ids[p]) = Len(seqs[p])
<1> DEFINE S == UNION {Range(seqs[i]) : i \in 1..Len(seqs)}
           n == Len(seqs)
<1>1. n \in Nat /\ DOMAIN seqs = 1..n
  BY SeqIsFcn
<1>2. ASSUME NEW i \in 1..n PROVE seqs[i] \in Seq(S)
  <2> DEFINE R == Range(seqs[i])
  <2>1. seqs[i] \in Seq(R)
    BY <1>2 DEF isSeq
  <2>2. R \subseteq S
    BY <1>2
  <2> HIDE DEF R, S
  <2> QED BY <2>1, <2>2
<1>3. seqs \in Seq(Seq(S))
  <2>1. seqs = [i \in 1..n |-> seqs[i]]
    BY SeqIsFcn
  <2> HIDE DEF S, n
  <2>2. seqs \in [1..n -> Seq(S)]
    BY <2>1, <1>2
  <2> QED BY <2>2, <1>1
<1> HIDE DEF S
<1>4. PICK g : Flattens(S, seqs, g)
  BY <1>3, FlattenSteps, Zenon
<1>5. /\ g \in [0..n -> Seq(S)] /\ FlattenSeq(seqs) = g[n] /\ g[0] = <<>>
      /\ \A j \in 1..n : g[j] = g[j - 1] \o seqs[j]
  BY <1>4 DEF Flattens
<1> HIDE DEF n
<1> DEFINE len(j) == Len(g[j])
           lo == len(p - 1)
           hi == len(p)
<1>6. \A j \in 0..n : isSeq(g[j]) /\ len(j) \in Nat
  <2> SUFFICES ASSUME NEW j \in 0..n PROVE isSeq(g[j]) /\ len(j) \in Nat
    OBVIOUS
  <2>1. g[j] \in Seq(S)
    BY <1>5
  <2> QED BY <2>1, AnySeq
<1>7. \A j \in 1..n : Len(seqs[j]) \in Nat /\ isSeq(seqs[j])
  BY SeqIsFcn DEF n
<1>8. ASSUME NEW j \in 1..n
      PROVE  /\ len(j) = len(j - 1) + Len(seqs[j])
             /\ \A k \in 1..len(j - 1) : g[j][k] = g[j - 1][k]
             /\ \A k \in 1..Len(seqs[j]) : g[j][len(j - 1) + k] = seqs[j][k]
  <2>1. j - 1 \in 0..n
    BY <1>1
  <2>2. isSeq(g[j - 1]) /\ isSeq(seqs[j])
    BY <2>1, <1>6, <1>7
  <2> DEFINE u == g[j - 1]
             v == seqs[j]
  <2> HIDE DEF u, v
  <2>3. /\ Len(u \o v) = Len(u) + Len(v) /\ (\A k \in 1..Len(u) : (u \o v)[k] = u[k])
        /\ \A k \in 1..Len(v) : (u \o v)[Len(u) + k] = v[k]
    <3>1. isSeq(u) /\ isSeq(v)
      BY <2>2 DEF u, v
    <3> QED BY <3>1, ConcatIsSeq
  <2>4. g[j] = u \o v
    BY <1>5 DEF u, v
  <2> QED BY <2>3, <2>4 DEF u, v
<1>9. p \in 1..n /\ p - 1 \in 0..n /\ lo \in Nat /\ hi \in Nat /\ hi = lo + Len(seqs[p])
  <2>1. p \in 1..n /\ p - 1 \in 0..n /\ p \in 0..n
    BY <1>1 DEF n
  <2> QED BY <2>1, <1>6, <1>8
<1> DEFINE Good(j) == /\ \A k \in 1..len(j) : g[j][k].id = ids[p] <=> (j >= p /\ lo < k /\ k <= hi)
                      /\ j >= p => hi <= len(j)
           Bad == {j \in 0..n : ~Good(j)}
<1>10. Good(0)
  <2>1. len(0) = 0
    BY <1>5, EmptyIsSeq
  <2>2. ~(0 >= p)
    BY <1>9
  <2> QED BY <2>1, <2>2
<1>11. ASSUME NEW j \in 1..n, Good(j - 1) PROVE Good(j)
  <2> DEFINE a == len(j - 1)
             b == Len(seqs[j])
             c == len(j)
  <2>1. j - 1 \in 0..n /\ j \in 0..n /\ j \in Nat
    BY <1>1
  <2>2. a \in Nat /\ b \in Nat /\ c = a + b
    BY <2>1, <1>6, <1>7, <1>8
  <2>3. \A k \in 1..b : seqs[j][k].id = ids[j]
    BY DEF n
  <2>4. ids[j] = ids[p] => j = p
    BY <1>9 DEF n
  <2>5. j = p => a = lo /\ c = hi
    OBVIOUS
  <2>6. \A k \in 1..a : g[j - 1][k].id = ids[p] <=> (j - 1 >= p /\ lo < k /\ k <= hi)
    BY <1>11
  <2>7. j - 1 >= p => hi <= a
    BY <1>11
  <2>8. /\ \A k \in 1..a : g[j][k] = g[j - 1][k]
        /\ \A k \in 1..b : g[j][a + k] = seqs[j][k]
    BY <1>8
  <2> HIDE DEF a, b, c, lo, hi
  <2>9. ASSUME NEW k \in 1..c PROVE g[j][k].id = ids[p] <=> (j >= p /\ lo < k /\ k <= hi)
    <3>1. CASE k <= a
      <4>1. k \in 1..a
        BY <2>2, <3>1
      <4>2. g[j][k].id = ids[p] <=> (j - 1 >= p /\ lo < k /\ k <= hi)
        BY <2>6, <2>8, <4>1
      <4>3. (j - 1 >= p /\ lo < k /\ k <= hi) <=> (j >= p /\ lo < k /\ k <= hi)
        BY <1>9, <2>1, <2>2, <2>5, <3>1
      <4> QED BY <4>2, <4>3
    <3>2. CASE ~(k <= a)
      <4>1. k - a \in 1..b /\ a + (k - a) = k
        BY <2>2, <3>2
      <4>2. g[j][k].id = ids[j]
        BY <2>3, <2>8, <4>1
      <4>3. CASE j = p
        BY <1>9, <2>2, <2>5, <3>2, <4>2, <4>3
      <4>4. CASE j # p
        <5>1. ~(j >= p /\ lo < k /\ k <= hi)
          BY <1>9, <2>1, <2>2, <2>7, <3>2, <4>4
        <5> QED BY <2>4, <4>2, <4>4, <5>1
      <4> QED BY <4>3, <4>4
    <3> QED BY <3>1, <3>2
  <2>10. j >= p => hi <= c
    BY <1>9, <2>1, <2>2, <2>5, <2>7
  <2> QED BY <2>9, <2>10 DEF c, lo, hi
<1> HIDE DEF Good
<1>12. Bad = {}
  <2>1. SUFFICES ASSUME Bad # {} PROVE FALSE
    OBVIOUS
  <2>2. PICK m \in Bad : \A k \in Bad : m <= k
    <3>1. Bad \in SUBSET Nat
      BY <1>1
    <3> HIDE DEF Bad
    <3> QED BY <2>1, <3>1, LeastElement
  <2>3. m \in 1..n /\ m - 1 \in 0..n /\ ~(m <= m - 1)
    BY <1>1, <1>10, <2>2
  <2>4. Good(m - 1)
    BY <2>2, <2>3
  <2> QED BY <1>11, <2>2, <2>3, <2>4
<1>13. Good(n) /\ n >= p /\ n \in 0..n
  BY <1>1, <1>9, <1>12
<1> DEFINE f == FlattenSeq(seqs)
<1>14. f = g[n] /\ Len(f) = len(n) /\ len(n) \in Nat
  BY <1>5, <1>6, <1>13
<1>15. hi <= Len(f) /\ \A k \in 1..Len(f) : f[k].id = ids[p] <=> (lo < k /\ k <= hi)
  BY <1>13, <1>14 DEF Good
<1> HIDE DEF f, lo, hi, len
<1>16. {k \in 1..Len(f) : f[k].id = ids[p]} = (lo + 1)..hi
  BY <1>9, <1>14, <1>15
<1>17. Cardinality((lo + 1)..hi) = IF lo + 1 > hi THEN 0 ELSE hi - (lo + 1) + 1
  <2>1. lo + 1 \in Int /\ hi \in Int
    BY <1>9
  <2> QED BY <2>1, FS_Interval
<1>18. (IF lo + 1 > hi THEN 0 ELSE hi - (lo + 1) + 1) = Len(seqs[p])
  <2> DEFINE b == Len(seqs[p])
  <2>1. lo \in Nat /\ hi \in Nat /\ b \in Nat /\ hi = lo + b
    BY <1>7, <1>9
  <2> HIDE DEF b
  <2>2. (IF lo + 1 > hi THEN 0 ELSE hi - (lo + 1) + 1) = b
    BY <2>1
  <2> QED BY <2>2 DEF b
<1> QED BY <1>16, <1>17, <1>18 DEF f, CountOf

\* Sorting keeps how often an id occurs.
LEMMA SortedCount ==
  ASSUME NEW s, isSeq(s), NEW less, NEW x
  PROVE  CountOf(stableSort(s, less), x) = CountOf(s, x)
<1> DEFINE t == stableSort(s, less)
           n == Len(s)
           A == {k \in 1..n : t[k].id = x}
           B == {k \in 1..n : s[k].id = x}
           S == Range(s)
<1>1. s \in Seq(S) /\ n \in Nat
  BY SeqIsFcn DEF isSeq
<1> HIDE DEF S
<1>2. PICK p : Permutes(p, n) /\ \A i \in 1..n : t[i] = s[p[i]]
  BY <1>1, SortPermutes
<1> HIDE DEF t, n
<1> DEFINE f == [k \in A |-> p[k]]
<1>3. /\ p \in [1..n -> 1..n] /\ (\A a, b \in 1..n : p[a] = p[b] => a = b)
      /\ \A c \in 1..n : \E a \in 1..n : p[a] = c
  BY <1>2 DEF Permutes
<1>4. f \in [A -> B] /\ (\A a, b \in A : f[a] = f[b] => a = b) /\ \A c \in B : \E a \in A : f[a] = c
  <2>1. \A k \in 1..n : p[k] \in 1..n /\ (k \in A <=> p[k] \in B)
    BY <1>2, <1>3
  <2>2. A \subseteq 1..n /\ B \subseteq 1..n
    OBVIOUS
  <2> HIDE DEF A, B
  <2>3. f \in [A -> B] /\ \A a \in A : f[a] = p[a]
    BY <2>1, <2>2
  <2> HIDE DEF f
  <2>4. \A a, b \in A : f[a] = f[b] => a = b
    BY <1>3, <2>2, <2>3
  <2>5. ASSUME NEW c \in B PROVE \E a \in A : f[a] = c
    <3>1. PICK a \in 1..n : p[a] = c
      BY <1>3, <2>2
    <3>2. a \in A
      BY <2>1, <3>1
    <3> QED BY <2>3, <3>1, <3>2
  <2> QED BY <2>3, <2>4, <2>5
<1>5. IsFiniteSet(A)
  <2>1. IsFiniteSet(1..n)
    BY <1>1, FS_Interval
  <2>2. A \subseteq 1..n
    OBVIOUS
  <2> HIDE DEF A
  <2> QED BY <2>1, <2>2, FS_Subset
<1> HIDE DEF A, B, f
<1>6. f \in Bijection(A, B)
  BY <1>4 DEF Bijection, Injection, Surjection, IsInjective
<1>7. Cardinality(B) = Cardinality(A)
  BY <1>5, <1>6, FS_Bijection DEF ExistsBijection
<1>8. Len(t) = n
  BY SortedIsSeq DEF t, n
<1> QED BY <1>7, <1>8 DEF A, B, t, n, CountOf

-----------------------------------------------------------------------------
(***************************************************************************)
(* The conditions of a join, and what the reference says of them.          *)
(***************************************************************************)
KnownIn(q, join) == {"", sourceKey(q), sourceKey(join)}
Side(join, e, b, j) == IF e.src = sourceKey(join) THEN j.data ELSE b.data
Given(join, e, b, j) ==
    CASE e.k = "const" -> {e.v}
      [] e.k = "field" -> {Side(join, e, b, j)[f] : f \in {e.name} \cap DOMAIN Side(join, e, b, j)}
      [] OTHER -> {}
Meets(join, c, b, j) ==
    \/ c.k = "none"
    \/ /\ c.k = "comparison" /\ c.op = "=="
       /\ \E v \in Given(join, c.l, b, j), w \in Given(join, c.r, b, j) : valuesEqual(v, w)

\* An expression that resolves has the value of the reference, if any.
LEMMA ExprAgrees ==
  ASSUME NEW q, NEW join, NEW e, NEW b, NEW j,
         resolveJoinExpr(e, joinSources(q, join, b, j.data), KnownIn(q, join)).ok
  PROVE  Given(join, e, b, j) = IF resolveJoinExpr(e, joinSources(q, join, b, j.data), KnownIn(q, join)).present
                                THEN {resolveJoinExpr(e, joinSources(q, join, b, j.data), KnownIn(q, join)).v} ELSE {}
<1> DEFINE sources == joinSources(q, join, b, j.data)
           known == KnownIn(q, join)
           r == resolveJoinExpr(e, sources, known)
           d == Side(join, e, b, j)
<1>1. CASE e.k = "const"
  <2>1. r.present /\ r.v = e.v
    BY <1>1 DEF resolveJoinExpr
  <2>2. Given(join, e, b, j) = {e.v}
    BY <1>1 DEF Given
  <2> HIDE DEF r
  <2> QED BY <2>1, <2>2 DEF r
<1>2. CASE e.k = "field"
  <2>1. /\ r.ok = (e.src \in known) /\ r.v = lookup(sources, e)
        /\ r.present = (e.src \in DOMAIN sources /\ e.name \in DOMAIN sources[e.src])
    BY <1>2 DEF resolveJoinExpr
  <2>2. e.src \in known
    BY <2>1
  <2>3. e.src \in DOMAIN sources /\ sources[e.src] = d
    BY <2>2 DEF joinSources, KnownIn, Side
  <2> HIDE DEF sources, known, d
  <2>4. lookup(sources, e) = at(d, e.name)
    BY <2>3 DEF lookup
  <2>5. Given(join, e, b, j) = {d[f] : f \in {e.name} \cap DOMAIN d}
    BY <1>2 DEF Given, d
  <2> HIDE DEF r
  <2>6. CASE e.name \in DOMAIN d
    <3>1. r.present /\ r.v = d[e.name]
      BY <2>1, <2>3, <2>4, <2>6 DEF at
    <3>2. {d[f] : f \in {e.name} \cap DOMAIN d} = {d[e.name]}
      BY <2>6
    <3> QED BY <2>5, <3>1, <3>2 DEF r, sources, known
  <2>7. CASE e.name \notin DOMAIN d
    <3>1. ~r.present
      BY <2>1, <2>3, <2>7
    <3>2. {d[f] : f \in {e.name} \cap DOMAIN d} = {}
      BY <2>7
    <3> QED BY <2>5, <3>1, <3>2 DEF r, sources, known
  <2> QED BY <2>6, <2>7
<1>3. CASE e.k \notin {"const", "field"}
  <2>1. ~r.ok
    BY <1>3 DEF resolveJoinExpr
  <2> QED BY <2>1
<1> QED BY <1>1, <1>2, <1>3

\* A condition that is not refused is decided as the reference says.
LEMMA ConditionAgrees ==
  ASSUME NEW q, NEW join, NEW c, NEW b, NEW j
  PROVE  LET v == matchesJoinCondition(c, joinSources(q, join, b, j.data), KnownIn(q, join))
         IN  v \in {"yes", "no", "error"} /\ (v = "yes" => Meets(join, c, b, j)) /\ (v = "no" => ~Meets(join, c, b, j))
<1> DEFINE sources == joinSources(q, join, b, j.data)
           known == KnownIn(q, join)
           v == matchesJoinCondition(c, sources, known)
           l == resolveJoinExpr(c.l, sources, known)
           r == resolveJoinExpr(c.r, sources, known)
<1>1. v = IF c.k = "none" THEN "yes" ELSE IF c.k # "comparison" \/ c.op # "==" THEN "no"
          ELSE verdict(l.ok /\ r.ok, l.present /\ r.present /\ valuesEqual(l.v, r.v))
  BY Zenon DEF matchesJoinCondition
<1>2. l.ok => Given(join, c.l, b, j) = IF l.present THEN {l.v} ELSE {}
  BY ExprAgrees
<1>3. r.ok => Given(join, c.r, b, j) = IF r.present THEN {r.v} ELSE {}
  BY ExprAgrees
<1> HIDE DEF l, r, v
<1>4. CASE c.k = "none"
  BY <1>1, <1>4 DEF Meets, v
<1>5. CASE c.k # "none" /\ (c.k # "comparison" \/ c.op # "==")
  BY <1>1, <1>5 DEF Meets, v
<1>6. CASE c.k = "comparison" /\ c.op = "=="
  <2>1. v = verdict(l.ok /\ r.ok, l.present /\ r.present /\ valuesEqual(l.v, r.v))
    BY <1>1, <1>6
  <2>2. Meets(join, c, b, j) <=> \E x \in Given(join, c.l, b, j), y \in Given(join, c.r, b, j) : valuesEqual(x, y)
    BY <1>6 DEF Meets
  <2>3. CASE ~(l.ok /\ r.ok)
    <3>1. v = "error"
      BY <2>1, <2>3 DEF verdict
    <3> QED BY <3>1 DEF v
  <2>4. CASE l.ok /\ r.ok
    <3>1. Meets(join, c, b, j) <=> l.present /\ r.present /\ valuesEqual(l.v, r.v)
      BY <1>2, <1>3, <2>2, <2>4
    <3>2. v = IF l.present /\ r.present /\ valuesEqual(l.v, r.v) THEN "yes" ELSE "no"
      BY <2>1, <2>4 DEF verdict
    <3> QED BY <3>1, <3>2 DEF v
  <2> QED BY <2>3, <2>4
<1> QED BY <1>4, <1>5, <1>6

\* The conditions of a join together.
LEMMA ConditionsAgree ==
  ASSUME NEW q, NEW join, isSeq(join.on), NEW b, NEW j,
         allConditionsMatch(join.on, joinSources(q, join, b, j.data), KnownIn(q, join)) # "error"
  PROVE  allConditionsMatch(join.on, joinSources(q, join, b, j.data), KnownIn(q, join)) = "yes"
         <=> \A n \in DOMAIN join.on : Meets(join, join.on[n], b, j)
<1> DEFINE on == join.on
           sources == joinSources(q, join, b, j.data)
           known == KnownIn(q, join)
           vs == [i \in DOMAIN on |-> matchesJoinCondition(on[i], sources, known)]
           others == {i \in DOMAIN vs : vs[i] # "yes"}
           first == CHOOSE i \in others : \A k \in others : i <= k
           all == allConditionsMatch(on, sources, known)
<1>1. all = IF others = {} THEN "yes" ELSE vs[first]
  BY Zenon DEF allConditionsMatch, firstNot
<1>2. \A i \in DOMAIN on : /\ vs[i] \in {"yes", "no", "error"}
                           /\ vs[i] = "yes" => Meets(join, on[i], b, j)
                           /\ vs[i] = "no" => ~Meets(join, on[i], b, j)
  BY ConditionAgrees
<1>3. DOMAIN vs = DOMAIN on /\ DOMAIN on = 1..Len(on) /\ Len(on) \in Nat
  BY SeqIsFcn
<1> HIDE DEF vs, all
<1>4. CASE others = {}
  <2>1. all = "yes"
    BY <1>1, <1>4
  <2>2. \A i \in DOMAIN on : vs[i] = "yes"
    BY <1>3, <1>4
  <2> QED BY <1>2, <2>1, <2>2 DEF all
<1>5. CASE others # {}
  <2>1. \E i \in others : \A k \in others : i <= k
    <3>1. others \in SUBSET Nat
      BY <1>3
    <3> HIDE DEF others
    <3> QED BY <1>5, <3>1, LeastElement
  <2>2. first \in others
    <3> HIDE DEF others
    <3> QED BY <2>1
  <2> HIDE DEF first
  <2>3. first \in DOMAIN on /\ vs[first] # "yes" /\ all = vs[first]
    BY <1>1, <1>3, <1>5, <2>2
  <2>4. all # "error"
    BY DEF all
  <2>5. vs[first] = "no"
    BY <1>2, <2>3, <2>4
  <2>6. ~Meets(join, on[first], b, j)
    BY <1>2, <2>3, <2>5
  <2> QED BY <2>3, <2>6 DEF all
<1> QED BY <1>4, <1>5

\* A list of which every element is replaced by one of its own.
LEMMA MappedLists ==
  ASSUME NEW s, NEW S, Lists(s, S), NEW f, \A x, y \in S : f[x] = f[y] => x = y
  PROVE  Lists([i \in DOMAIN s |-> f[s[i]]], {f[x] : x \in S})
<1> DEFINE t == [i \in DOMAIN s |-> f[s[i]]]
<1>1. isSeq(s) /\ Range(s) = S /\ DOMAIN s = 1..Len(s) /\ \A i, j \in 1..Len(s) : s[i] = s[j] => i = j
  BY SeqIsFcn DEF Lists
<1>2. isSeq(t) /\ Len(t) = Len(s) /\ DOMAIN t = DOMAIN s
  <2>1. t = [i \in DOMAIN s |-> t[i]]
    OBVIOUS
  <2> HIDE DEF t
  <2> QED BY <1>1, <2>1, SameLength
<1>3. \A i \in 1..Len(s) : t[i] = f[s[i]] /\ s[i] \in S
  BY <1>1 DEF Range
<1> HIDE DEF t
<1>4. Range(t) = {f[x] : x \in S}
  <2>1. \A x \in S : \E i \in 1..Len(s) : s[i] = x
    BY <1>1 DEF Range
  <2>2. \A i \in DOMAIN t : t[i] \in {f[x] : x \in S}
    BY <1>1, <1>2, <1>3
  <2>3. \A x \in S : \E i \in DOMAIN t : t[i] = f[x]
    BY <1>1, <1>2, <1>3, <2>1
  <2> QED BY <2>2, <2>3 DEF Range
<1>5. \A i, j \in 1..Len(t) : t[i] = t[j] => i = j
  BY <1>1, <1>2, <1>3
<1> QED BY <1>2, <1>4, <1>5 DEF Lists, t

-----------------------------------------------------------------------------
(***************************************************************************)
(* The rows of a join.                                                     *)
(***************************************************************************)
Matching(join, b) == {j \in Range(stored[join.name]) : \A n \in DOMAIN join.on : Meets(join, join.on[n], b, j)}
Times(join, b) == IF Cardinality(Matching(join, b)) = 0 /\ join.type = "LEFT" THEN 1 ELSE Cardinality(Matching(join, b))

\* The stored records are the rows without their ids, which their keys determine.
LEMMA RowsBare ==
  ASSUME StoreInv, NEW c \in Collections
  PROVE  /\ Range(stored[c]) = {Bare(r) : r \in RowsIn(c)}
         /\ \A r, s \in RowsIn(c) : Bare(r) = Bare(s) \/ r.id = s.id => r = s
         /\ \A r \in RowsIn(c) : keyID(r.key) = r.id /\ r.id \in Texts
<1>1. ASSUME NEW r \in RowsIn(c)
      PROVE  /\ r.id \in DOMAIN stored[c] /\ r = RowAt(c, r.id) /\ stored[c][r.id] \in Universe
             /\ stored[c][r.id] = Bare(r) /\ keyID(r.key) = r.id
  BY StoredRows DEF Bare
<1>2. \A r : Bare(r).key = r.key
  BY DEF Bare
<1>3. ASSUME NEW r \in RowsIn(c) PROVE r.id \in Texts
  <2>1. keyID(stored[c][r.id].key) \in Texts
    BY <1>1, KeyIDsAreTexts
  <2> QED BY <1>1, <1>2, <2>1
<1>4. ASSUME NEW r \in RowsIn(c), NEW s \in RowsIn(c), Bare(r) = Bare(s) \/ r.id = s.id PROVE r = s
  <2>1. r.id = s.id
    BY <1>1, <1>2, <1>4
  <2> QED BY <1>1, <2>1
<1>5. ASSUME NEW x \in Range(stored[c]) PROVE \E r \in RowsIn(c) : x = Bare(r)
  <2>1. PICK id \in DOMAIN stored[c] : x = stored[c][id]
    BY DEF Range
  <2>2. RowAt(c, id) \in RowsIn(c) /\ RowAt(c, id).id = id
    BY DEF RowsIn, RowAt
  <2>3. stored[c][id] = Bare(RowAt(c, id))
    BY <1>1, <2>2
  <2> QED BY <2>1, <2>2, <2>3
<1>6. ASSUME NEW r \in RowsIn(c) PROVE Bare(r) \in Range(stored[c])
  BY <1>1 DEF Range
<1> QED BY <1>1, <1>3, <1>4, <1>5, <1>6

\* A base row is paired with its matches, or stays alone in a LEFT join.
LEMMA PairsCount ==
  ASSUME NEW q, NEW join, NEW b, NEW m, isSeq(m)
  PROVE  /\ isSeq(pairs(q, join, b, m))
         /\ Len(pairs(q, join, b, m)) = IF Len(m) = 0 /\ join.type = "LEFT" THEN 1 ELSE Len(m)
         /\ \A k \in 1..Len(pairs(q, join, b, m)) : pairs(q, join, b, m)[k].id = b.id
<1> DEFINE t == pairs(q, join, b, m)
<1>1. \A d : pair(q, join, b, d).id = b.id
  BY DEF pair
<1>2. m = <<>> <=> Len(m) = 0
  <2>1. Len(m) = 0 => m = <<>>
    <3>1. m \in Seq(Range(m))
      BY DEF isSeq
    <3> QED BY <3>1, EmptySeq
  <2> QED BY <2>1, EmptyIsSeq
<1>3. CASE m = <<>> /\ join.type = "LEFT"
  <2> DEFINE x == pair(q, join, b, NoData)
  <2>1. t = <<x>>
    BY <1>3 DEF pairs, keepsUnmatched
  <2>2. x.id = b.id
    BY <1>1
  <2> HIDE DEF x, t
  <2>3. <<x>> \in Seq({x}) /\ Len(<<x>>) = 1 /\ <<x>>[1] = x
    OBVIOUS
  <2>4. isSeq(t) /\ Len(t) = 1 /\ t[1].id = b.id
    BY <2>1, <2>2, <2>3, AnySeq
  <2>5. \A k \in 1..1 : k = 1
    OBVIOUS
  <2> QED BY <1>2, <1>3, <2>4, <2>5 DEF t
<1>4. CASE ~(m = <<>> /\ join.type = "LEFT")
  <2>1. t = [i \in DOMAIN m |-> pair(q, join, b, m[i].data)]
    BY <1>4 DEF pairs, mapped, keepsUnmatched
  <2>2. t = [i \in DOMAIN m |-> t[i]]
    BY <2>1
  <2> HIDE DEF t
  <2>3. isSeq(t) /\ Len(t) = Len(m) /\ DOMAIN t = DOMAIN m /\ DOMAIN m = 1..Len(m)
    BY <2>2, SameLength, SeqIsFcn
  <2>4. \A k \in 1..Len(t) : t[k].id = b.id
    BY <1>1, <2>1, <2>3
  <2> QED BY <1>2, <1>4, <2>3, <2>4 DEF t
<1> QED BY <1>3, <1>4

\* Each base row appears as often as the reference says, under its own id.
LEMMA JoinedCount ==
  ASSUME StoreInv, NEW q, q.name \in Collections, NEW join, join.name \in Collections, isSeq(join.on),
         NEW B, Lists(B, RowsIn(q.name)), NEW J, Lists(J, RowsIn(join.name)),
         ~joinedRows(q, join, B, J, KnownIn(q, join)).failed
  PROVE  /\ isSeq(joinedRows(q, join, B, J, KnownIn(q, join)).rows)
         /\ \A k \in 1..Len(joinedRows(q, join, B, J, KnownIn(q, join)).rows) :
               joinedRows(q, join, B, J, KnownIn(q, join)).rows[k].id \in Texts
         /\ \A b \in Range(stored[q.name]) :
               CountOf(joinedRows(q, join, B, J, KnownIn(q, join)).rows, keyID(b.key)) = Times(join, b)
<1> DEFINE known == KnownIn(q, join)
           meets(b, j) == allConditionsMatch(join.on, joinSources(q, join, b, j.data), known)
           ok(b) == {j \in Range(J) : meets(b, j) = "yes"}
           found(b) == only(J, ok(b))
           parts == [i \in DOMAIN B |-> pairs(q, join, B[i], found(B[i]))]
           joined == joinedRows(q, join, B, J, known)
           f == FlattenSeq(parts)
           ids == [i \in DOMAIN B |-> B[i].id]
           n == Len(B)
<1>1. joined = [failed |-> \E b \in Range(B), j \in Range(J) : meets(b, j) = "error", rows |-> f]
  BY Zenon DEF joinedRows, mapped
<1>2. joined.rows = f /\ \A b \in Range(B), j \in Range(J) : meets(b, j) # "error"
  <2>1. ~joined.failed
    OBVIOUS
  <2> HIDE DEF meets, f, joined
  <2> QED BY <1>1, <2>1
<1> HIDE DEF joined
<1>3. /\ isSeq(B) /\ isSeq(J) /\ Range(B) = RowsIn(q.name) /\ Range(J) = RowsIn(join.name)
      /\ n \in Nat /\ DOMAIN B = 1..n /\ (\A i \in 1..n : B[i] \in RowsIn(q.name))
      /\ \A i, k \in 1..n : B[i] = B[k] => i = k
  BY SeqIsFcn DEF Lists, Range
<1>4. \A b : isSeq(found(b))
  BY <1>3, KeptIsSeq, Zenon
<1>5. isSeq(parts) /\ Len(parts) = n /\ DOMAIN parts = DOMAIN B
  <2>1. parts = [i \in DOMAIN B |-> parts[i]]
    OBVIOUS
  <2> HIDE DEF parts
  <2> QED BY <1>3, <2>1, SameLength
<1>6. \A i \in 1..n : parts[i] = pairs(q, join, B[i], found(B[i])) /\ ids[i] = B[i].id
  BY <1>3
<1> HIDE DEF parts, found, ids, n
<1>7. ASSUME NEW i \in 1..n
      PROVE  /\ isSeq(parts[i])
             /\ Len(parts[i]) = IF Len(found(B[i])) = 0 /\ join.type = "LEFT" THEN 1 ELSE Len(found(B[i]))
             /\ \A k \in 1..Len(parts[i]) : parts[i][k].id = ids[i]
  <2> DEFINE b == B[i]
             m == found(b)
             t == pairs(q, join, b, m)
  <2>1. isSeq(m)
    BY <1>4
  <2>2. parts[i] = t /\ ids[i] = b.id
    BY <1>6
  <2>3. m = found(B[i])
    OBVIOUS
  <2> HIDE DEF b, m, t
  <2>4. /\ isSeq(t) /\ Len(t) = IF Len(m) = 0 /\ join.type = "LEFT" THEN 1 ELSE Len(m)
        /\ \A k \in 1..Len(t) : t[k].id = b.id
    BY <2>1, PairsCount DEF t
  <2> QED BY <2>2, <2>3, <2>4
<1>8. \A i, k \in 1..n : ids[i] = ids[k] => i = k
  <2>1. \A r, s \in RowsIn(q.name) : r.id = s.id => r = s
    BY RowsBare
  <2> QED BY <1>3, <1>6, <2>1
<1>9. isSeq(f)
  BY <1>5, <1>7, FlattenedIsSeq
<1>10. ASSUME NEW k \in 1..Len(f) PROVE f[k].id \in Texts
  <2>1. PICK i \in 1..n : f[k] \in Range(parts[i])
    <3> HIDE DEF f
    <3>1. \E i \in 1..Len(parts) : f[k] \in Range(parts[i])
      BY <1>5, <1>7, FlattenedElements DEF f
    <3> QED BY <1>5, <3>1
  <2>2. PICK m \in DOMAIN parts[i] : f[k] = parts[i][m]
    BY <2>1 DEF Range
  <2>3. DOMAIN parts[i] = 1..Len(parts[i])
    BY <1>7, SeqIsFcn
  <2> HIDE DEF f
  <2>4. f[k].id = B[i].id
    BY <1>6, <1>7, <2>2, <2>3
  <2> QED BY <1>3, <2>4, RowsBare
<1>11. ASSUME NEW p \in 1..n PROVE CountOf(f, ids[p]) = Len(parts[p])
  <2>1. \A i \in 1..Len(parts) : isSeq(parts[i])
    BY <1>5, <1>7
  <2>2. \A i \in 1..Len(parts) : \A k \in 1..Len(parts[i]) : parts[i][k].id = ids[i]
    BY <1>5, <1>7
  <2>3. \A i, k \in 1..Len(parts) : ids[i] = ids[k] => i = k
    BY <1>5, <1>8
  <2>4. p \in 1..Len(parts) /\ isSeq(parts)
    BY <1>5
  <2> QED BY <2>1, <2>2, <2>3, <2>4, FlattenedCount
<1>12. ASSUME NEW b \in Range(stored[q.name])
       PROVE  CountOf(f, keyID(b.key)) = Times(join, b)
  <2>1. PICK r \in RowsIn(q.name) : b = Bare(r)
    BY RowsBare
  <2>2. PICK p \in 1..n : B[p] = r
    BY <1>3 DEF Range
  <2>3. b.key = r.key /\ b.data = r.data /\ keyID(r.key) = r.id
    BY <2>1, RowsBare DEF Bare
  <2>4. ids[p] = keyID(b.key)
    BY <1>6, <2>2, <2>3
  <2> DEFINE F == {j \in RowsIn(join.name) : j \in ok(r)}
             g == [j \in RowsIn(join.name) |-> Bare(j)]
  <2>5. Lists(found(r), F)
    <3> HIDE DEF ok
    <3> QED BY KeptLists DEF found
  <2>6. \A x, y \in F : g[x] = g[y] => x = y
    BY RowsBare
  <2>7. \A j \in RowsIn(join.name) :
          j \in F <=> \A m \in DOMAIN join.on : Meets(join, join.on[m], b, Bare(j))
    <3> SUFFICES ASSUME NEW j \in RowsIn(join.name)
                 PROVE  j \in F <=> \A m \in DOMAIN join.on : Meets(join, join.on[m], b, Bare(j))
      OBVIOUS
    <3>1. r \in Range(B) /\ j \in Range(J)
      BY <1>3
    <3>2. meets(r, j) # "error"
      BY <1>2, <3>1
    <3>3. meets(r, j) = "yes" <=> \A m \in DOMAIN join.on : Meets(join, join.on[m], r, j)
      BY <3>2, ConditionsAgree
    <3>4. \A m : Meets(join, join.on[m], r, j) <=> Meets(join, join.on[m], b, Bare(j))
      <4>1. Bare(j).data = j.data
        BY DEF Bare
      <4>2. \A e : Side(join, e, r, j) = Side(join, e, b, Bare(j))
        BY <2>3, <4>1 DEF Side
      <4>3. \A e : Given(join, e, r, j) = Given(join, e, b, Bare(j))
        BY <4>2 DEF Given
      <4> QED BY <4>3 DEF Meets
    <3> HIDE DEF meets
    <3> QED BY <3>1, <3>3, <3>4
  <2>8. {g[x] : x \in F} = Matching(join, b)
    <3>1. \A j \in RowsIn(join.name) : g[j] = Bare(j)
      OBVIOUS
    <3>2. Range(stored[join.name]) = {Bare(j) : j \in RowsIn(join.name)}
      BY RowsBare
    <3>3. \A j \in F : j \in RowsIn(join.name)
      OBVIOUS
    <3> HIDE DEF F, g
    <3> QED BY <2>7, <3>1, <3>2, <3>3 DEF Matching
  <2> HIDE DEF F, g
  <2>9. Lists([i \in DOMAIN found(r) |-> g[found(r)[i]]], {g[x] : x \in F})
    BY <2>5, <2>6, MappedLists
  <2>10. Cardinality(Matching(join, b)) = Len(found(r))
    <3> DEFINE t == [i \in DOMAIN found(r) |-> g[found(r)[i]]]
    <3>1. t = [i \in DOMAIN found(r) |-> t[i]]
      OBVIOUS
    <3>2. Lists(t, Matching(join, b))
      BY <2>8, <2>9
    <3> HIDE DEF t
    <3>3. Len(t) = Len(found(r))
      BY <1>4, <3>1, SameLength
    <3> QED BY <3>2, <3>3, ListLength
  <2>11. Len(parts[p]) = Times(join, b)
    BY <1>7, <2>2, <2>10 DEF Times
  <2> QED BY <1>11, <2>4, <2>11
<1> HIDE DEF f
<1> QED BY <1>2, <1>9, <1>10, <1>12 DEF joined, known


\* Both sides of a join are read whole.
LEMMA JoinInputs ==
  ASSUME StoreInv, NEW q \in Queries, NEW rowsOf \in Inputs(q, FALSE), q.joins # <<>>
  PROVE  /\ Lists(rowsOf[q.name], RowsIn(q.name))
         /\ Lists(rowsOf[q.joins[1].name], RowsIn(q.joins[1].name))
         /\ q.joins[1].name \in Collections /\ isSeq(q.joins[1].on)
<1> DEFINE c == q.joins[1].name
<1>1. q.name \in Collections /\ c \in Collections
  BY InputsFacts, QueryAssumption
<1>2. /\ rowsOf[q.name] \in engineRows(q.name, q, FALSE)
      /\ c # q.name => rowsOf[c] \in engineRows(c, q, FALSE)
  BY InputsFacts
<1>3. isSeq(q.joins[1].on)
  <2>1. 1 \in DOMAIN q.joins
    <3>1. isSeq(q.joins)
      BY QueryAssumption
    <3>2. q.joins \in Seq(Range(q.joins))
      BY <3>1 DEF isSeq
    <3> QED BY <3>2, EmptySeq
  <2> QED BY <2>1, QueryAssumption
<1> HIDE DEF c
<1>4. ASSUME NEW d \in Collections, NEW s \in engineRows(d, q, FALSE) PROVE Lists(s, RowsIn(d))
  <2>1. Returned(d, q, FALSE) = RowsIn(d)
    BY DEF Returned
  <2>2. /\ isSeq(s) /\ Range(s) = Returned(d, q, FALSE)
        /\ \A i, j \in 1..Len(s) : s[i] = s[j] => i = j
    BY EngineRowsFacts
  <2> QED BY <2>1, <2>2 DEF Lists
<1>5. Lists(rowsOf[q.name], RowsIn(q.name))
  BY <1>1, <1>2, <1>4
<1>6. Lists(rowsOf[c], RowsIn(c))
  <2>1. CASE c = q.name
    BY <2>1, <1>5
  <2>2. CASE c # q.name
    BY <2>2, <1>1, <1>2, <1>4
  <2> QED BY <2>1, <2>2
<1> QED BY <1>1, <1>3, <1>5, <1>6 DEF c

\* The records of the rows of a join, in the order that is asked for.
JoinAnswer(q, joined) ==
    [i \in DOMAIN orderBySources(joined.rows, q.orderBy) |->
       joinRecord(q, orderBySources(joined.rows, q.orderBy)[i])]

\* A join without a filter, a group and a limit answers its rows as they are.
LEMMA JoinCases ==
  ASSUME NEW q, NEW rowsOf, q.structured, q.joins # <<>>, q.groupBy = <<>>, q.where = NoCond,
         q.limit \in Int, q.limit <= 0, ExecuteQuery(q, rowsOf).err = "none",
         NEW joined, joined = joinedRows(q, q.joins[1], sortByID(rowsOf[q.name]),
                                         sortByID(rowsOf[q.joins[1].name]), KnownIn(q, q.joins[1]))
  PROVE  /\ ~joined.failed
         /\ isSeq(joined.rows)
            => ExecuteQuery(q, rowsOf).records = JoinAnswer(q, joined)
<1> DEFINE join == q.joins[1]
           known == {"", sourceKey(q), sourceKey(join)}
           wrong == \/ Len(q.joins) # 1
                    \/ join.type \notin {"INNER", "LEFT"}
                    \/ ~validateOrderSources(q.orderBy, known)
                    \/ q.groupBy = <<>> /\ ~validateColumns(q.columns, known)
           x == ExecuteQuery(q, rowsOf)
           holds(r) == matchesJoinCondition(q.where, r.sources, known)
           bad == joined.failed \/ \E r \in Range(joined.rows) : holds(r) = "error"
           yes == {r \in Range(joined.rows) : holds(r) = "yes"}
           kept == only(joined.rows, yes)
           s == orderBySources(kept, q.orderBy)
<1>1. x = executeJoinQuery(q, rowsOf)
  BY DEF ExecuteQuery
<1>2. joined = joinedRows(q, join, sortByID(rowsOf[q.name]), sortByID(rowsOf[join.name]), known)
  BY DEF KnownIn
<1>3. x = IF wrong THEN Failed("invalid")
          ELSE filterJoined(q, joinedRows(q, join, sortByID(rowsOf[q.name]), sortByID(rowsOf[join.name]), known), known)
  BY <1>1, Zenon DEF executeJoinQuery
<1>4. filterJoined(q, joined, known) = IF bad THEN Failed("invalid") ELSE joinRecords(q, kept, known)
  BY Zenon DEF filterJoined
<1>5. joinRecords(q, kept, known) = Records([i \in DOMAIN cut(s, q.limit) |-> joinRecord(q, cut(s, q.limit)[i])])
  BY Zenon DEF joinRecords, mapped
<1>6. \A r : holds(r) = "yes"
  <2>1. q.where.k = "none"
    <3>1. NoCond.k = "none"
      BY DEF NoCond, Cond
    <3> QED BY <3>1
  <2> QED BY <2>1 DEF matchesJoinCondition
<1>7. cut(s, q.limit) = s
  <2>1. ~(q.limit > 0)
    OBVIOUS
  <2> HIDE DEF s
  <2> QED BY <2>1 DEF cut
<1>8. isSeq(joined.rows) => kept = joined.rows
  <2> HIDE DEF holds
  <2>1. Range(joined.rows) \subseteq yes
    BY <1>6
  <2> HIDE DEF yes
  <2> QED BY <2>1, KeepsAll
<1>9. x.err = "none"
  OBVIOUS
<1>10. \A r : Records(r).records = r
  BY DEF Records
<1>11. Failed("invalid").err # "none"
  BY DEF Failed
<1> HIDE DEF wrong, x, holds, yes, kept, known, join
<1>12. ~wrong /\ x = filterJoined(q, joined, known)
  BY <1>2, <1>3, <1>9, <1>11
<1> HIDE DEF bad
<1>13. ~bad /\ x = joinRecords(q, kept, known)
  BY <1>4, <1>9, <1>11, <1>12
<1>14. ~joined.failed
  BY <1>13 DEF bad
<1>15. x.records = [i \in DOMAIN s |-> joinRecord(q, s[i])]
  <2> HIDE DEF s
  <2> QED BY <1>5, <1>7, <1>10, <1>13
<1>16. ASSUME isSeq(joined.rows)
       PROVE  x.records = [i \in DOMAIN orderBySources(joined.rows, q.orderBy) |->
                             joinRecord(q, orderBySources(joined.rows, q.orderBy)[i])]
  <2>1. kept = joined.rows
    BY <1>8, <1>16
  <2> QED BY <1>15, <2>1
<1> QED BY <1>14, <1>16 DEF x, JoinAnswer

Shown(records, id) == Cardinality({i \in DOMAIN records : Sprint(records[i].key.id) = id})
InIDOrder(records) == \A i, n \in DOMAIN records : i < n => ~textLess(Sprint(records[n].key.id), Sprint(records[i].key.id))

\* The records of a join have the ids of its rows, as often as these, and, when no
\* order is asked for, in the order of the ids.
LEMMA RecordsOfRows ==
  ASSUME NEW q, NEW rows, isSeq(rows), \A k \in 1..Len(rows) : rows[k].id \in Texts,
         NEW records, records = [i \in DOMAIN orderBySources(rows, q.orderBy) |->
                                   joinRecord(q, orderBySources(rows, q.orderBy)[i])]
  PROVE  /\ \A id : Shown(records, id) = CountOf(rows, id)
         /\ q.orderBy = <<>> => InIDOrder(records)
<1> DEFINE s == orderBySources(rows, q.orderBy)
           less == {p \in Pairs(rows) : rowLess(q.orderBy, p[1], p[2])}
<1>1. s = stableSort(rows, less)
  BY Zenon DEF orderBySources
<1> HIDE DEF less
<1>2. isSeq(s) /\ Len(s) = Len(rows) /\ DOMAIN s = 1..Len(s) /\ Len(s) \in Nat
  <2> HIDE DEF s
  <2>1. isSeq(s) /\ Len(s) = Len(rows)
    BY <1>1, SortedIsSeq
  <2> QED BY <2>1, SeqIsFcn
<1>3. \A id : CountOf(s, id) = CountOf(rows, id)
  <2> HIDE DEF s
  <2> QED BY <1>1, SortedCount
<1>4. \A r : Sprint(joinRecord(q, r).key.id) = r.id
  <2> TAKE r
  <2> DEFINE key == NewKeyWithID(q.name, r.id)
  <2>1. Sprint(key.id) = r.id
    BY DEF NewKeyWithID, Key, ID, Sprint
  <2>2. \A d : Rec(key, d).key = key /\ KeyOnly(key).key = key
    BY DEF Rec, KeyOnly
  <2>3. joinRecord(q, r) = CASE q.columns # <<>> -> Rec(key, projectRow(q.columns, r.sources))
                             [] q.columns = <<>> /\ q.into -> Rec(key, r.merged)
                             [] OTHER -> KeyOnly(key)
    BY Zenon DEF joinRecord
  <2> HIDE DEF key
  <2>4. \/ joinRecord(q, r) = Rec(key, projectRow(q.columns, r.sources))
        \/ joinRecord(q, r) = Rec(key, r.merged)
        \/ joinRecord(q, r) = KeyOnly(key)
    BY <2>3
  <2> QED BY <2>1, <2>2, <2>4
<1>5. DOMAIN records = DOMAIN s /\ \A i \in DOMAIN s : records[i] = joinRecord(q, s[i])
  OBVIOUS
<1>6. q.orderBy = <<>> => Ascending(s, less)
  <2> SUFFICES ASSUME q.orderBy = <<>> PROVE Ascending(s, less)
    OBVIOUS
  <2> DEFINE W == Range(rows)
             K == [x \in (1..0) \X W |-> 0]
  <2>1. Keyed(q.orderBy, W, K)
    <3>1. isSeq(q.orderBy) /\ Len(q.orderBy) = 0
      BY EmptyIsSeq
    <3>2. \A a \in W : a.id \in Texts
      BY SeqIsFcn DEF Range
    <3>3. K \in [(1..0) \X W -> Int]
      OBVIOUS
    <3>4. \A m : m \notin 1..0
      OBVIOUS
    <3> HIDE DEF W, K
    <3> QED BY <3>1, <3>2, <3>3, <3>4 DEF Keyed
  <2> HIDE DEF K
  <2>2. Range(rows) = W
    OBVIOUS
  <2> HIDE DEF W
  <2>3. Ascending(orderBySources(rows, q.orderBy), {p \in Pairs(rows) : rowLess(q.orderBy, p[1], p[2])})
    BY <2>1, <2>2, RowsSorted, Zenon
  <2> QED BY <2>3 DEF less
<1>7. \A i \in DOMAIN s : s[i] \in Range(rows)
  <2> HIDE DEF s
  <2> QED BY <1>1, <1>2, SortElements
<1> HIDE DEF s
<1>8. ASSUME NEW i \in DOMAIN s PROVE Sprint(records[i].key.id) = s[i].id
  BY <1>4, <1>5
<1>9. ASSUME NEW id PROVE Shown(records, id) = CountOf(rows, id)
  <2>1. {i \in DOMAIN records : Sprint(records[i].key.id) = id} = {k \in 1..Len(s) : s[k].id = id}
    BY <1>2, <1>5, <1>8
  <2>2. CountOf(s, id) = CountOf(rows, id)
    BY <1>3
  <2> QED BY <2>1, <2>2 DEF CountOf, Shown
<1>10. ASSUME q.orderBy = <<>>, NEW i \in DOMAIN records, NEW n \in DOMAIN records, i < n
       PROVE  ~textLess(Sprint(records[n].key.id), Sprint(records[i].key.id))
  <2>1. i \in 1..Len(s) /\ n \in 1..Len(s) /\ i \in DOMAIN s /\ n \in DOMAIN s
    BY <1>2, <1>5
  <2>2. <<s[n], s[i]>> \notin less
    BY <1>6, <1>10, <2>1 DEF Ascending
  <2>3. s[i] \in Range(rows) /\ s[n] \in Range(rows)
    BY <1>7, <2>1
  <2>4. \A a, b \in Range(rows) : rowLess(q.orderBy, a, b) => <<a, b>> \in less
    BY DEF less, Pairs
  <2>5. \A a, b : textLess(a.id, b.id) => rowLess(q.orderBy, a, b)
    <3>1. Len(q.orderBy) = 0
      BY <1>10, EmptyIsSeq
    <3>2. \A m : m \notin 1..0
      OBVIOUS
    <3>3. \A a, b : keysTie(q.orderBy, a, b, Len(q.orderBy))
      BY <3>1, <3>2 DEF keysTie
    <3> QED BY <3>3 DEF rowLess
  <2>6. ~textLess(s[n].id, s[i].id)
    BY <2>2, <2>3, <2>4, <2>5
  <2> QED BY <1>8, <2>1, <2>6
<1> QED BY <1>9, <1>10 DEF InIDOrder

-----------------------------------------------------------------------------
(***************************************************************************)
(* The groups of a partition are the classes of the rows with one key.     *)
(***************************************************************************)
KeyIn(q, known, r) == groupKey(q.groupBy, baseSources(q, r.data), known)

\* g holds the rows of S with its key, in some order.
GroupOf(q, known, S, g) ==
    /\ g = [key |-> g.key, rows |-> g.rows, out |-> NoData]
    /\ \E u : /\ Lists(u, {r \in S : KeyIn(q, known, r) = g.key}) /\ Len(u) >= 1
              /\ g.rows = [x \in DOMAIN u |-> baseSources(q, u[x].data)]

\* Every row of S is in the group of its key.
Groups(q, known, S, G) ==
    /\ isSeq(G) /\ \A i, j \in 1..Len(G) : G[i].key = G[j].key => i = j
    /\ \A r \in S : \E i \in 1..Len(G) : G[i].key = KeyIn(q, known, r)
    /\ \A i \in 1..Len(G) : GroupOf(q, known, S, G[i])

\* A list with one more element.
LEMMA ListGrows ==
  ASSUME NEW u, NEW A, Lists(u, A), NEW x, x \notin A
  PROVE  Lists(Append(u, x), A \cup {x}) /\ Len(Append(u, x)) = Len(u) + 1
<1> DEFINE n == Len(u)
           t == Append(u, x)
<1>1. isSeq(u) /\ n \in Nat /\ DOMAIN u = 1..n /\ Range(u) = A /\ \A i, j \in 1..n : u[i] = u[j] => i = j
  BY SeqIsFcn DEF Lists
<1>2. isSeq(t) /\ Len(t) = n + 1 /\ t[n + 1] = x /\ \A i \in 1..n : t[i] = u[i]
  BY <1>1, AppendIsSeq
<1>3. DOMAIN t = 1..(n + 1)
  BY <1>2, SeqIsFcn
<1> HIDE DEF n, t
<1>4. \A i \in 1..(n + 1) : i = n + 1 \/ i \in 1..n
  BY <1>1
<1>5. \A i \in 1..n : u[i] \in A /\ u[i] # x
  BY <1>1 DEF Range
<1>6. \A y \in A : \E i \in 1..n : u[i] = y
  BY <1>1 DEF Range
<1>7. Range(t) = A \cup {x}
  <2>1. \A i \in 1..(n + 1) : t[i] \in A \cup {x}
    BY <1>2, <1>4, <1>5
  <2>2. \A i \in 1..n : i \in 1..(n + 1)
    BY <1>1
  <2>3. n + 1 \in 1..(n + 1)
    BY <1>1
  <2>4. \A y \in A \cup {x} : \E i \in 1..(n + 1) : t[i] = y
    BY <1>2, <1>6, <2>2, <2>3
  <2> QED BY <1>3, <2>1, <2>4 DEF Range
<1>8. \A i, j \in 1..(n + 1) : t[i] = t[j] => i = j
  BY <1>1, <1>2, <1>4, <1>5
<1> QED BY <1>2, <1>7, <1>8 DEF Lists, t, n

\* Rows mapped to their sources, with one more row.
LEMMA SourcesGrow ==
  ASSUME NEW q, NEW u, isSeq(u), NEW r
  PROVE  Append([x \in DOMAIN u |-> baseSources(q, u[x].data)], baseSources(q, r.data))
         = [x \in DOMAIN Append(u, r) |-> baseSources(q, Append(u, r)[x].data)]
<1> DEFINE n == Len(u)
           v == [x \in DOMAIN u |-> baseSources(q, u[x].data)]
           t == Append(u, r)
           a == Append(v, baseSources(q, r.data))
           b == [x \in DOMAIN t |-> baseSources(q, t[x].data)]
<1>1. n \in Nat /\ DOMAIN u = 1..n
  BY SeqIsFcn
<1>2. isSeq(v) /\ Len(v) = n
  <2>1. v = [x \in DOMAIN u |-> v[x]]
    OBVIOUS
  <2> HIDE DEF v
  <2> QED BY <2>1, SameLength
<1>3. isSeq(t) /\ Len(t) = n + 1 /\ t[n + 1] = r /\ \A x \in 1..n : t[x] = u[x]
  BY AppendIsSeq
<1>4. \A x \in 1..n : v[x] = baseSources(q, u[x].data)
  BY <1>1
<1> HIDE DEF v, t, n
<1>5. isSeq(a) /\ Len(a) = n + 1 /\ a[n + 1] = baseSources(q, r.data) /\ \A x \in 1..n : a[x] = v[x]
  BY <1>2, AppendIsSeq
<1>6. isSeq(b) /\ Len(b) = n + 1 /\ DOMAIN t = 1..(n + 1)
  <2>1. b = [x \in DOMAIN t |-> b[x]]
    OBVIOUS
  <2> HIDE DEF b
  <2> QED BY <1>3, <2>1, SameLength, SeqIsFcn
<1>7. \A x \in 1..(n + 1) : x = n + 1 \/ x \in 1..n
  BY <1>1
<1>8. \A x \in 1..(n + 1) : b[x] = baseSources(q, t[x].data)
  BY <1>6
<1> HIDE DEF a, b
<1>9. \A x \in 1..(n + 1) : a[x] = b[x]
  BY <1>3, <1>4, <1>5, <1>7, <1>8
<1>10. a = b
  BY <1>5, <1>6, <1>9, SameSeq
<1> QED BY <1>10 DEF a, b, t, v

\* Placing a new row keeps every row in the group of its key.
LEMMA PlacedGroups ==
  ASSUME NEW q, NEW known, NEW S, NEW G, Groups(q, known, S, G), NEW r, r \notin S
  PROVE  Groups(q, known, S \cup {r}, placed(G, KeyIn(q, known, r), baseSources(q, r.data)))
<1> DEFINE n == Len(G)
           k == KeyIn(q, known, r)
           row == baseSources(q, r.data)
           P == placed(G, k, row)
           T == S \cup {r}
           same == {i \in DOMAIN G : G[i].key = k}
           new == [key |-> k, rows |-> <<row>>, out |-> NoData]
           grown(i) == [G[i] EXCEPT !.rows = Append(G[i].rows, row)]
           class(X, key) == {s \in X : KeyIn(q, known, s) = key}
<1>1. P = IF same = {} THEN Append(G, new) ELSE [i \in DOMAIN G |-> IF i \in same THEN grown(i) ELSE G[i]]
  BY Zenon DEF placed
<1>2. /\ isSeq(G) /\ n \in Nat /\ DOMAIN G = 1..n /\ (\A i, j \in 1..n : G[i].key = G[j].key => i = j)
      /\ (\A s \in S : \E i \in 1..n : G[i].key = KeyIn(q, known, s))
      /\ \A i \in 1..n : GroupOf(q, known, S, G[i])
  BY SeqIsFcn DEF Groups
<1>3. \A key : class(T, key) = IF key = k THEN class(S, key) \cup {r} ELSE class(S, key)
  OBVIOUS
<1> HIDE DEF n, P, row
<1>4. ASSUME NEW g, GroupOf(q, known, S, g), g.key # k PROVE GroupOf(q, known, T, g)
  <2>1. class(T, g.key) = class(S, g.key)
    BY <1>3, <1>4
  <2> HIDE DEF T
  <2> QED BY <1>4, <2>1 DEF GroupOf
<1>5. CASE same = {}
  <2>1. P = Append(G, new)
    BY <1>1, <1>5
  <2>2. isSeq(P) /\ Len(P) = n + 1 /\ P[n + 1] = new /\ \A i \in 1..n : P[i] = G[i]
    <3> HIDE DEF new
    <3> QED BY <1>2, <2>1, AppendIsSeq DEF n
  <2>3. \A i \in 1..n : G[i].key # k
    BY <1>2, <1>5
  <2>4. new.key = k
    OBVIOUS
  <2>5. \A i \in 1..(n + 1) : i = n + 1 \/ i \in 1..n
    BY <1>2
  <2>6. n + 1 \in 1..(n + 1) /\ \A i \in 1..n : i \in 1..(n + 1)
    BY <1>2
  <2>7. GroupOf(q, known, T, new)
    <3>1. class(S, k) = {}
      BY <1>2, <2>3
    <3>2. class(T, k) = {r}
      BY <1>3, <3>1
    <3>3. Lists(<<r>>, {r}) /\ Len(<<r>>) = 1
      <4>1. <<r>> \in Seq({r}) /\ Len(<<r>>) = 1 /\ <<r>>[1] = r /\ DOMAIN <<r>> = 1..1
        OBVIOUS
      <4>2. \A i \in 1..1 : i = 1
        OBVIOUS
      <4>3. Range(<<r>>) = {r}
        BY <4>1, <4>2 DEF Range
      <4>4. \A i, j \in 1..Len(<<r>>) : i = j
        BY <4>1, <4>2
      <4> QED BY <4>1, <4>3, <4>4, AnySeq DEF Lists
    <3>4. <<row>> = [x \in DOMAIN <<r>> |-> baseSources(q, <<r>>[x].data)]
      BY DEF row
    <3>5. new = [key |-> new.key, rows |-> new.rows, out |-> NoData] /\ new.rows = <<row>>
      OBVIOUS
    <3>6. Lists(<<r>>, class(T, new.key)) /\ Len(<<r>>) >= 1
      BY <3>2, <3>3, <2>4
    <3> HIDE DEF new, T
    <3> QED BY <3>4, <3>5, <3>6 DEF GroupOf
  <2> HIDE DEF new, same
  <2>8. \A i \in 1..(n + 1) : GroupOf(q, known, T, P[i])
    BY <1>2, <1>4, <2>2, <2>3, <2>5, <2>7
  <2>9. \A i, j \in 1..(n + 1) : P[i].key = P[j].key => i = j
    BY <1>2, <2>2, <2>3, <2>4, <2>5
  <2>10. \A s \in T : \E i \in 1..(n + 1) : P[i].key = KeyIn(q, known, s)
    BY <1>2, <2>2, <2>4, <2>6
  <2> HIDE DEF T, k
  <2> QED BY <2>2, <2>8, <2>9, <2>10 DEF Groups, P, T, k, row
<1>6. CASE same # {}
  <2>1. P = [i \in DOMAIN G |-> IF i \in same THEN grown(i) ELSE G[i]]
    BY <1>1, <1>6
  <2>2. isSeq(P) /\ Len(P) = n
    <3>1. P = [i \in DOMAIN G |-> P[i]]
      BY <2>1
    <3> QED BY <1>2, <3>1, SameLength DEF n
  <2>3. ASSUME NEW i \in 1..n, i \in same PROVE P[i].key = k /\ GroupOf(q, known, T, P[i])
    <3> DEFINE g == G[i]
    <3>1. g.key = k /\ GroupOf(q, known, S, g)
      BY <1>2, <2>3
    <3>2. P[i] = grown(i)
      BY <1>2, <2>1, <2>3
    <3>3. g = [key |-> g.key, rows |-> g.rows, out |-> NoData]
      BY <3>1 DEF GroupOf
    <3>4. PICK u : /\ Lists(u, class(S, g.key)) /\ Len(u) >= 1
                   /\ g.rows = [x \in DOMAIN u |-> baseSources(q, u[x].data)]
      BY <3>1 DEF GroupOf
    <3>5. r \notin class(S, g.key)
      OBVIOUS
    <3>6. Lists(Append(u, r), class(T, k)) /\ Len(Append(u, r)) >= 1
      <4>1. class(T, k) = class(S, g.key) \cup {r}
        BY <1>3, <3>1
      <4>2. Lists(Append(u, r), class(S, g.key) \cup {r}) /\ Len(Append(u, r)) = Len(u) + 1
        <5> HIDE DEF class
        <5> QED BY <3>4, <3>5, ListGrows
      <4>3. Len(u) \in Nat
        BY <3>4, SeqIsFcn DEF Lists
      <4> DEFINE A == class(T, k)
      <4>4. Lists(Append(u, r), A)
        <5>1. A = class(S, g.key) \cup {r}
          BY <4>1
        <5> HIDE DEF A, class
        <5> QED BY <4>2, <5>1
      <4>5. Len(Append(u, r)) >= 1
        <5> HIDE DEF A, class
        <5> QED BY <3>4, <4>2, <4>3
      <4> QED BY <4>4, <4>5
    <3>7. Append(g.rows, row) = [x \in DOMAIN Append(u, r) |-> baseSources(q, Append(u, r)[x].data)]
      <4>1. isSeq(u)
        BY <3>4 DEF Lists
      <4> QED BY <3>4, <4>1, SourcesGrow DEF row
    <3>8. grown(i) = [key |-> g.key, rows |-> Append(g.rows, row), out |-> NoData]
      BY <3>3
    <3> HIDE DEF g, grown
    <3>9. /\ P[i].key = k /\ P[i].rows = Append(g.rows, row)
          /\ P[i] = [key |-> P[i].key, rows |-> P[i].rows, out |-> NoData]
      BY <3>1, <3>2, <3>8
    <3>10. Lists(Append(u, r), class(T, P[i].key))
      BY <3>6, <3>9
    <3> HIDE DEF T
    <3>11. GroupOf(q, known, T, P[i])
      BY <3>6, <3>7, <3>9, <3>10 DEF GroupOf
    <3> QED BY <3>9, <3>11
  <2>4. ASSUME NEW i \in 1..n, i \notin same PROVE P[i] = G[i] /\ G[i].key # k /\ GroupOf(q, known, T, P[i])
    <3>1. P[i] = G[i] /\ G[i].key # k
      BY <1>2, <2>1, <2>4
    <3> QED BY <3>1, <1>2, <1>4
  <2>5. \A i \in 1..n : P[i].key = G[i].key /\ GroupOf(q, known, T, P[i])
    <3>1. \A i \in 1..n : i \in same => G[i].key = k
      OBVIOUS
    <3> HIDE DEF same
    <3> QED BY <2>3, <2>4, <3>1
  <2>6. \E i \in 1..n : G[i].key = k
    BY <1>2, <1>6
  <2> HIDE DEF same
  <2>7. \A s \in T : \E i \in 1..n : P[i].key = KeyIn(q, known, s)
    BY <1>2, <2>5, <2>6
  <2>8. \A i, j \in 1..n : P[i].key = P[j].key => i = j
    BY <1>2, <2>5
  <2> HIDE DEF T, k
  <2> QED BY <2>2, <2>5, <2>7, <2>8 DEF Groups, P, T, k, row
<1> QED BY <1>5, <1>6

\* So the groups of all rows are the classes.
LEMMA PartitionGroups ==
  ASSUME NEW q, NEW known, NEW S, NEW h, Lists(h, S)
  PROVE  Groups(q, known, S, partition(q.groupBy, [j \in DOMAIN h |-> baseSources(q, h[j].data)], known))
<1> DEFINE n == Len(h)
           rows == [j \in DOMAIN h |-> baseSources(q, h[j].data)]
           A(m) == {h[j] : j \in 1..m}
<1>1. isSeq(h) /\ n \in Nat /\ DOMAIN h = 1..n /\ Range(h) = S /\ \A i, j \in 1..n : h[i] = h[j] => i = j
  BY SeqIsFcn DEF Lists
<1>2. isSeq(rows) /\ Len(rows) = n /\ \A j \in 1..n : rows[j] = baseSources(q, h[j].data)
  <2>1. rows = [j \in DOMAIN h |-> rows[j]]
    OBVIOUS
  <2>2. \A j \in 1..n : rows[j] = baseSources(q, h[j].data)
    BY <1>1
  <2> HIDE DEF rows
  <2> QED BY <1>1, <2>1, <2>2, SameLength
<1> HIDE DEF rows
<1>3. PICK g : Partitions(q.groupBy, rows, known, g)
  BY <1>2, PartitionSteps, Zenon
<1>4. /\ partition(q.groupBy, rows, known) = g[n] /\ g[0] = <<>>
      /\ \A j \in 1..n : g[j] = placed(g[j - 1], groupKey(q.groupBy, rows[j], known), rows[j])
  BY <1>2, <1>3 DEF Partitions
<1> HIDE DEF n
<1>5. \A j \in 1..n : g[j] = placed(g[j - 1], KeyIn(q, known, h[j]), baseSources(q, h[j].data))
  BY <1>2, <1>4 DEF KeyIn
<1> DEFINE Good(m) == Groups(q, known, A(m), g[m])
           Bad == {m \in 0..n : ~Good(m)}
<1>6. Good(0)
  <2>1. A(0) = {} /\ \A i : i \notin 1..0
    OBVIOUS
  <2> HIDE DEF A
  <2> QED BY <1>4, <2>1, EmptyIsSeq DEF Groups
<1>7. ASSUME NEW m \in 1..n, Good(m - 1) PROVE Good(m)
  <2>1. m - 1 \in 0..n /\ \A j \in 1..(m - 1) : j \in 1..n /\ j # m
    BY <1>1
  <2>2. h[m] \notin A(m - 1)
    BY <1>1, <2>1
  <2>3. A(m) = A(m - 1) \cup {h[m]}
    <3>1. \A j : j \in 1..m <=> j \in 1..(m - 1) \/ j = m
      BY <1>1
    <3> QED BY <3>1
  <2> HIDE DEF A
  <2> QED BY <1>5, <1>7, <2>2, <2>3, PlacedGroups
<1> HIDE DEF Good
<1>8. Bad = {}
  <2>1. SUFFICES ASSUME Bad # {} PROVE FALSE
    OBVIOUS
  <2>2. PICK m \in Bad : \A k \in Bad : m <= k
    <3>1. Bad \in SUBSET Nat
      BY <1>1
    <3> HIDE DEF Bad
    <3> QED BY <2>1, <3>1, LeastElement
  <2>3. m \in 1..n /\ m - 1 \in 0..n /\ ~(m <= m - 1)
    BY <1>1, <1>6, <2>2
  <2>4. Good(m - 1)
    BY <2>2, <2>3
  <2> QED BY <1>7, <2>2, <2>3, <2>4
<1>9. Good(n)
  BY <1>1, <1>8
<1>10. A(n) = S
  BY <1>1 DEF Range
<1> HIDE DEF A
<1> QED BY <1>4, <1>9, <1>10 DEF Good, rows


\* The images of a sequence with one more element.
LEMMA ImageGrows ==
  ASSUME NEW F, NEW u, isSeq(u), NEW x
  PROVE  [i \in DOMAIN Append(u, x) |-> F[Append(u, x)[i]]] = Append([i \in DOMAIN u |-> F[u[i]]], F[x])
<1> DEFINE k == Len(u)
           v == Append(u, x)
           a == [i \in DOMAIN v |-> F[v[i]]]
           w == [i \in DOMAIN u |-> F[u[i]]]
           b == Append(w, F[x])
<1>1. k \in Nat /\ DOMAIN u = 1..k
  BY SeqIsFcn
<1>2. isSeq(v) /\ Len(v) = k + 1 /\ v[k + 1] = x /\ \A i \in 1..k : v[i] = u[i]
  BY AppendIsSeq
<1>3. DOMAIN v = 1..(k + 1)
  BY <1>2, SeqIsFcn
<1> HIDE DEF v, k
<1>4. isSeq(a) /\ Len(a) = k + 1
  <2>1. a = [i \in DOMAIN v |-> a[i]]
    OBVIOUS
  <2> HIDE DEF a
  <2> QED BY <1>2, <2>1, SameLength
<1>5. isSeq(w) /\ Len(w) = k
  <2>1. w = [i \in DOMAIN u |-> w[i]]
    OBVIOUS
  <2> HIDE DEF w
  <2> QED BY <2>1, SameLength DEF k
<1>6. (\A i \in 1..(k + 1) : a[i] = F[v[i]]) /\ \A i \in 1..k : w[i] = F[u[i]]
  BY <1>1, <1>3
<1> HIDE DEF a, w
<1>7. isSeq(b) /\ Len(b) = k + 1 /\ b[k + 1] = F[x] /\ \A i \in 1..k : b[i] = w[i]
  BY <1>5, AppendIsSeq
<1> HIDE DEF b
<1>8. \A i \in 1..(k + 1) : i = k + 1 \/ i \in 1..k
  BY <1>1
<1>9. \A i \in 1..(k + 1) : a[i] = b[i]
  BY <1>2, <1>6, <1>7, <1>8
<1>10. a = b
  BY <1>4, <1>7, <1>9, SameSeq
<1> QED BY <1>10 DEF a, b, v, w

\* Filtering the images of a sequence is filtering the sequence.
LEMMA OnlyMapped ==
  ASSUME NEW s, isSeq(s), NEW F, NEW keep, NEW K, \A x \in Range(s) : x \in K <=> F[x] \in keep
  PROVE  only([i \in DOMAIN s |-> F[s[i]]], keep) = [i \in DOMAIN only(s, K) |-> F[only(s, K)[i]]]
<1> DEFINE n == Len(s)
           t == [i \in DOMAIN s |-> F[s[i]]]
           S == Range(s)
           T == Range(t)
           image(u) == [i \in DOMAIN u |-> F[u[i]]]
<1>1. n \in Nat /\ DOMAIN s = 1..n /\ s \in Seq(S) /\ \A j \in 1..n : s[j] \in S
  BY SeqIsFcn DEF isSeq, Range
<1>2. isSeq(t) /\ Len(t) = n /\ \A j \in 1..n : t[j] = F[s[j]]
  <2>1. t = [i \in DOMAIN s |-> t[i]]
    OBVIOUS
  <2>2. \A j \in 1..n : t[j] = F[s[j]]
    BY <1>1
  <2> HIDE DEF t
  <2> QED BY <2>1, <2>2, SameLength
<1> HIDE DEF t
<1>3. t \in Seq(T)
  BY <1>2 DEF isSeq
<1> HIDE DEF S, T
<1>4. PICK g : Keepings(S, s, K, g)
  BY <1>1, OnlySteps, Zenon
<1>5. PICK h : Keepings(T, t, keep, h)
  BY <1>3, OnlySteps, Zenon
<1>6. /\ g \in [0..n -> Seq(S)] /\ only(s, K) = g[n] /\ g[0] = <<>>
      /\ \A j \in 1..n : g[j] = Kept(s, K, g[j - 1], s[j])
  BY <1>4 DEF Keepings
<1>7. /\ h \in [0..n -> Seq(T)] /\ only(t, keep) = h[n] /\ h[0] = <<>>
      /\ \A j \in 1..n : h[j] = Kept(t, keep, h[j - 1], t[j])
  BY <1>2, <1>5 DEF Keepings
<1> HIDE DEF n
<1> DEFINE Good(m) == h[m] = image(g[m])
           Bad == {m \in 0..n : ~Good(m)}
<1>8. Good(0)
  <2>1. DOMAIN <<>> = {}
    BY EmptySeq
  <2>2. image(<<>>) = <<>>
    OBVIOUS
  <2> HIDE DEF image
  <2> QED BY <1>6, <1>7, <2>2
<1>9. ASSUME NEW u, isSeq(u), NEW x PROVE image(Append(u, x)) = Append(image(u), F[x])
  BY <1>9, ImageGrows
<1>10. ASSUME NEW m \in 1..n, Good(m - 1) PROVE Good(m)
  <2>1. m - 1 \in 0..n
    BY <1>1
  <2>2. isSeq(g[m - 1])
    <3>1. g[m - 1] \in Seq(S)
      BY <1>6, <2>1
    <3> QED BY <3>1, AnySeq
  <2>3. s[m] \in K <=> t[m] \in keep
    BY <1>1, <1>2 DEF S
  <2>4. image(Append(g[m - 1], s[m])) = Append(image(g[m - 1]), F[s[m]])
    BY <1>9, <2>2
  <2> HIDE DEF image
  <2>5. h[m - 1] = image(g[m - 1])
    BY <1>10
  <2>6. /\ g[m] = IF s[m] \in K THEN Append(g[m - 1], s[m]) ELSE g[m - 1]
        /\ h[m] = IF t[m] \in keep THEN Append(h[m - 1], t[m]) ELSE h[m - 1]
    BY <1>6, <1>7 DEF Kept
  <2> QED BY <1>2, <2>3, <2>4, <2>5, <2>6
<1> HIDE DEF Good
<1>11. Bad = {}
  <2>1. SUFFICES ASSUME Bad # {} PROVE FALSE
    OBVIOUS
  <2>2. PICK m \in Bad : \A k \in Bad : m <= k
    <3>1. Bad \in SUBSET Nat
      BY <1>1
    <3> HIDE DEF Bad
    <3> QED BY <2>1, <3>1, LeastElement
  <2>3. m \in 1..n /\ m - 1 \in 0..n /\ ~(m <= m - 1)
    BY <1>1, <1>8, <2>2
  <2>4. Good(m - 1)
    BY <2>2, <2>3
  <2> QED BY <1>10, <2>2, <2>3, <2>4
<1>12. h[n] = image(g[n])
  BY <1>1, <1>11 DEF Good
<1>13. only(t, keep) = image(only(s, K))
  BY <1>6, <1>7, <1>12
<1> QED BY <1>13 DEF t

-----------------------------------------------------------------------------
(***************************************************************************)
(* Sums: adding the numbers of a list of rows gives the sum over their     *)
(* set, whatever the order of the list.                                    *)
(***************************************************************************)
Numbers(s) == isSeq(s) /\ \A j \in 1..Len(s) : s[j].n \in Int
Sums(s, g) ==
    /\ g \in [0..Len(s) -> Int] /\ total(s) = g[Len(s)] /\ g[0] = 0
    /\ \A j \in 1..Len(s) : g[j] = g[j - 1] + s[j].n

\* The recursion of total, as the sum of each beginning.
LEMMA TotalSteps ==
  ASSUME NEW s, Numbers(s)
  PROVE  \E g : Sums(s, g)
<1> DEFINE n == Len(s)
           F == [z \in Int \X (1..n) |-> z[1] + s[z[2]].n]
           Eq(h) == h = [j \in 0..n |-> IF j = 0 THEN 0 ELSE h[j - 1] + s[j].n]
<1>1. n \in Nat /\ \A j \in 1..n : s[j].n \in Int
  BY SeqIsFcn DEF Numbers
<1> HIDE DEF n
<1>2. F \in [Int \X (1..n) -> Int]
  <2>1. ASSUME NEW t \in Int, NEW j \in 1..n PROVE t + s[j].n \in Int
    BY <1>1
  <2> QED BY <2>1
<1>3. PICK g \in [0..n -> Int] : g[0] = 0 /\ \A j \in 1..n : g[j] = F[<<g[j - 1], j>>]
  <2> HIDE DEF F
  <2>1. 0 \in Int
    OBVIOUS
  <2>2. \E g : Recurs(Int, 0, n, F, g)
    BY <1>1, <1>2, <2>1, Recursion, Zenon
  <2> QED BY <2>2 DEF Recurs
<1>4. \A j \in 1..n : j - 1 \in 0..n /\ j \in 0..n /\ j # 0
  BY <1>1
<1>5. \A j \in 1..n : g[j] = g[j - 1] + s[j].n
  BY <1>3, <1>4
<1>6. Eq(g)
  <2>1. \A j \in 0..n : g[j] = IF j = 0 THEN 0 ELSE g[j - 1] + s[j].n
    <3>1. \A j \in 0..n : j # 0 => j \in 1..n
      BY <1>1
    <3> QED BY <3>1, <1>3, <1>5
  <2>2. g = [j \in 0..n |-> g[j]]
    BY <1>3
  <2> QED BY <2>1, <2>2
<1> DEFINE H == CHOOSE h : Eq(h)
<1>7. Eq(H)
  <2> HIDE DEF Eq
  <2> QED BY <1>6
<1>8. total(s) = H[n]
  BY Zenon DEF total, n
<1> HIDE DEF H
<1>9. H[0] = 0 /\ \A j \in 1..n : H[j] = H[j - 1] + s[j].n
  <2>1. \A j \in 0..n : H[j] = IF j = 0 THEN 0 ELSE H[j - 1] + s[j].n
    BY <1>7
  <2>2. 0 \in 0..n
    BY <1>1
  <2> QED BY <2>1, <2>2, <1>4
<1>10. ASSUME NEW j \in 0..n, H[j] # g[j] PROVE FALSE
  <2> DEFINE Bad == {i \in 0..n : H[i] # g[i]}
  <2>1. Bad \in SUBSET Nat /\ Bad # {}
    BY <1>10
  <2>2. PICK i \in Bad : \A m \in Bad : i <= m
    <3> HIDE DEF Bad
    <3> QED BY <2>1, LeastElement
  <2>3. i \in 1..n /\ i - 1 \in 0..n /\ ~(i <= i - 1)
    BY <2>2, <1>1, <1>3, <1>9
  <2>4. H[i - 1] = g[i - 1]
    BY <2>2, <2>3
  <2>5. H[i] = g[i]
    BY <2>3, <2>4, <1>5, <1>9
  <2> QED BY <2>2, <2>5
<1>11. H[n] = g[n]
  BY <1>1, <1>10
<1> QED BY <1>3, <1>5, <1>8, <1>11 DEF n, Sums

\* The total of nothing, and with one more number.
LEMMA TotalGrows ==
  /\ total(<<>>) = 0
  /\ \A s, x : Numbers(s) /\ x.n \in Int => total(Append(s, x)) = total(s) + x.n /\ total(s) \in Int
<1>1. total(<<>>) = 0
  <2>1. Numbers(<<>>)
    BY EmptyIsSeq DEF Numbers
  <2>2. PICK g : Sums(<<>>, g)
    BY <2>1, TotalSteps
  <2> QED BY <2>2, EmptyIsSeq DEF Sums
<1>2. ASSUME NEW s, NEW x, Numbers(s), x.n \in Int PROVE total(Append(s, x)) = total(s) + x.n /\ total(s) \in Int
  <2> DEFINE n == Len(s)
             t == Append(s, x)
  <2>1. n \in Nat /\ isSeq(s) /\ \A j \in 1..n : s[j].n \in Int
    BY <1>2, SeqIsFcn DEF Numbers
  <2>2. isSeq(t) /\ Len(t) = n + 1 /\ t[n + 1] = x /\ \A j \in 1..n : t[j] = s[j]
    BY <2>1, AppendIsSeq
  <2> HIDE DEF n, t
  <2>3. \A j \in 1..(n + 1) : j = n + 1 \/ j \in 1..n
    BY <2>1
  <2>4. Numbers(t)
    <3>1. \A j \in 1..(n + 1) : t[j].n \in Int
      BY <1>2, <2>1, <2>2, <2>3
    <3> QED BY <2>2, <3>1 DEF Numbers
  <2>5. PICK g : Sums(s, g)
    BY <1>2, TotalSteps
  <2>6. PICK h : Sums(t, h)
    BY <2>4, TotalSteps
  <2>7. g \in [0..n -> Int] /\ total(s) = g[n] /\ g[0] = 0 /\ \A j \in 1..n : g[j] = g[j - 1] + s[j].n
    BY <2>5 DEF Sums, n
  <2>8. /\ h \in [0..(n + 1) -> Int] /\ total(t) = h[n + 1] /\ h[0] = 0
        /\ \A j \in 1..(n + 1) : h[j] = h[j - 1] + t[j].n
    BY <2>2, <2>6 DEF Sums
  <2>9. \A j \in 1..n : j \in 1..(n + 1)
    BY <2>1
  <2>10. \A j \in 1..n : h[j] = h[j - 1] + s[j].n
    BY <2>2, <2>8, <2>9
  <2>11. ASSUME NEW j \in 0..n, h[j] # g[j] PROVE FALSE
    <3> DEFINE Bad == {i \in 0..n : h[i] # g[i]}
    <3>1. Bad \in SUBSET Nat /\ Bad # {}
      BY <2>11
    <3>2. PICK i \in Bad : \A m \in Bad : i <= m
      <4> HIDE DEF Bad
      <4> QED BY <3>1, LeastElement
    <3>3. i \in 1..n /\ i - 1 \in 0..n /\ ~(i <= i - 1)
      BY <3>2, <2>1, <2>7, <2>8
    <3>4. h[i - 1] = g[i - 1]
      BY <3>2, <3>3
    <3> QED BY <3>2, <3>3, <3>4, <2>7, <2>10
  <2>12. h[n] = g[n] /\ g[n] \in Int
    BY <2>1, <2>7, <2>11
  <2>13. n + 1 \in 1..(n + 1) /\ (n + 1) - 1 = n
    BY <2>1
  <2>14. h[n + 1] = h[n] + x.n
    BY <2>2, <2>8, <2>13
  <2>15. total(t) = total(s) + x.n /\ total(s) \in Int
    BY <2>7, <2>8, <2>12, <2>14
  <2> QED BY <2>15 DEF t
<1> QED BY <1>1, <1>2

\* What a list weighs when each of its elements has a number.
Weight(F, u) == total([i \in DOMAIN u |-> F[u[i]]])

\* One more element adds its number.
LEMMA WeightGrows ==
  ASSUME NEW F, NEW S, \A x \in S : F[x].n \in Int, NEW u, isSeq(u), Range(u) \subseteq S, NEW x \in S
  PROVE  Weight(F, Append(u, x)) = Weight(F, u) + F[x].n /\ Weight(F, u) \in Int
<1> DEFINE v == [i \in DOMAIN u |-> F[u[i]]]
<1>1. DOMAIN u = 1..Len(u)
  BY SeqIsFcn
<1>2. \A i \in 1..Len(u) : v[i].n \in Int
  BY <1>1 DEF Range
<1>3. isSeq(v) /\ Len(v) = Len(u)
  <2>1. v = [i \in DOMAIN u |-> v[i]]
    OBVIOUS
  <2> HIDE DEF v
  <2> QED BY <2>1, SameLength
<1>4. Weight(F, Append(u, x)) = total(Append(v, F[x])) /\ Weight(F, u) = total(v)
  <2>1. [i \in DOMAIN Append(u, x) |-> F[Append(u, x)[i]]] = Append(v, F[x])
    BY ImageGrows
  <2> QED BY <2>1, Zenon DEF Weight
<1> HIDE DEF v
<1>5. Numbers(v)
  BY <1>2, <1>3 DEF Numbers
<1>6. F[x].n \in Int
  OBVIOUS
<1>7. total(Append(v, F[x])) = total(v) + F[x].n /\ total(v) \in Int
  BY <1>5, <1>6, TotalGrows
<1> QED BY <1>4, <1>7

\* A list that is not empty without its last element.
LEMMA ListShrinks ==
  ASSUME NEW u, NEW A, Lists(u, A), Len(u) # 0
  PROVE  \E w : /\ u = Append(w, u[Len(u)]) /\ u[Len(u)] \in A
                /\ Lists(w, A \ {u[Len(u)]}) /\ Len(w) = Len(u) - 1
<1> DEFINE n == Len(u)
           w == [i \in 1..(n - 1) |-> u[i]]
           y == u[n]
<1>1. isSeq(u) /\ n \in Nat /\ n >= 1 /\ DOMAIN u = 1..n /\ Range(u) = A /\ \A i, j \in 1..n : u[i] = u[j] => i = j
  <2>1. isSeq(u) /\ n \in Nat /\ DOMAIN u = 1..n /\ Range(u) = A /\ \A i, j \in 1..n : u[i] = u[j] => i = j
    BY SeqIsFcn DEF Lists
  <2>2. n >= 1
    BY <2>1
  <2> QED BY <2>1, <2>2
<1> HIDE DEF n
<1>2. isSeq(w) /\ Len(w) = n - 1 /\ DOMAIN w = 1..(n - 1)
  <2>1. n - 1 \in Nat /\ w = [i \in 1..(n - 1) |-> w[i]]
    BY <1>1
  <2> HIDE DEF w
  <2> DEFINE m == n - 1
  <2>2. m \in Nat /\ w = [i \in 1..m |-> w[i]]
    BY <2>1
  <2> HIDE DEF m
  <2>3. isSeq(w) /\ Len(w) = m /\ DOMAIN w = 1..m
    BY <2>2, FcnIsSeq
  <2> QED BY <2>3 DEF m
<1>3. \A i \in 1..(n - 1) : w[i] = u[i] /\ i \in 1..n /\ i # n
  BY <1>1
<1>4. \A i \in 1..n : i = n \/ i \in 1..(n - 1)
  BY <1>1
<1>5. n \in 1..n /\ (n - 1) + 1 = n
  BY <1>1
<1> HIDE DEF w
<1>6. u = Append(w, y)
  <2> HIDE DEF y
  <2>1. /\ isSeq(Append(w, y)) /\ Len(Append(w, y)) = (n - 1) + 1
        /\ Append(w, y)[(n - 1) + 1] = y /\ \A i \in 1..(n - 1) : Append(w, y)[i] = w[i]
    BY <1>2, AppendIsSeq
  <2>2. \A i \in 1..n : u[i] = Append(w, y)[i]
    BY <1>3, <1>4, <1>5, <2>1 DEF y
  <2> QED BY <1>1, <1>5, <2>1, <2>2, SameSeq DEF n
<1>7. y \in A
  BY <1>1, <1>5 DEF Range
<1>8. Range(w) = A \ {y}
  <2>1. \A i \in 1..(n - 1) : w[i] \in A /\ w[i] # y
    BY <1>1, <1>3, <1>5 DEF Range
  <2>2. \A x \in A : x # y => \E i \in 1..(n - 1) : w[i] = x
    BY <1>1, <1>3, <1>4 DEF Range
  <2> QED BY <1>2, <2>1, <2>2 DEF Range
<1>9. \A i, j \in 1..(n - 1) : w[i] = w[j] => i = j
  BY <1>1, <1>3
<1>10. Lists(w, A \ {y})
  <2> HIDE DEF y
  <2> QED BY <1>2, <1>8, <1>9 DEF Lists
<1> QED BY <1>2, <1>6, <1>7, <1>10 DEF n


\* Part of a listed set is listed, with one element less when one is left out.
LEMMA PartLists ==
  ASSUME NEW u, NEW A, Lists(u, A), NEW B, B \subseteq A
  PROVE  \E v : Lists(v, B)
<1>1. Lists(only(u, B), {x \in A : x \in B})
  BY KeptLists
<1>2. {x \in A : x \in B} = B
  OBVIOUS
<1> QED BY <1>1, <1>2

\* The list of a set without one of its elements is shorter by one.
LEMMA LessByOne ==
  ASSUME NEW u, NEW A, Lists(u, A), NEW x \in A, NEW v, Lists(v, A \ {x})
  PROVE  Len(v) = Len(u) - 1
<1>1. IsFiniteSet(A) /\ Cardinality(A) = Len(u) /\ Cardinality(A \ {x}) = Len(v)
  BY ListLength
<1>2. Cardinality(A \ {x}) = Cardinality(A) - 1
  BY <1>1, FS_RemoveElement
<1> QED BY <1>1, <1>2

\* Only the empty list lists nothing.
LEMMA NothingListed ==
  ASSUME NEW u
  PROVE  /\ Lists(u, {}) => u = <<>>
         /\ Len(u) = 0 /\ isSeq(u) => u = <<>> /\ Range(u) = {}
<1>1. ASSUME Len(u) = 0, isSeq(u) PROVE u = <<>> /\ Range(u) = {}
  <2>1. u \in Seq(Range(u))
    BY <1>1 DEF isSeq
  <2>2. u = <<>>
    BY <1>1, <2>1, EmptySeq
  <2>3. DOMAIN u = {}
    BY <2>2, EmptySeq
  <2> QED BY <2>2, <2>3 DEF Range
<1>2. ASSUME Lists(u, {}) PROVE u = <<>>
  <2>1. isSeq(u) /\ Len(u) = 0
    BY <1>2, ListLength, FS_EmptySet DEF Lists
  <2> QED BY <1>1, <2>1
<1> QED BY <1>1, <1>2

\* Leaving out an element takes its number off, wherever it stands in the list.
LEMMA WeightRemoves ==
  ASSUME NEW F, NEW S, \A x \in S : F[x].n \in Int,
         NEW A \in SUBSET S, NEW x \in A, NEW u, Lists(u, A), NEW v, Lists(v, A \ {x})
  PROVE  Weight(F, u) = F[x].n + Weight(F, v) /\ Weight(F, v) \in Int
<1> DEFINE Takes(n) == \A B \in SUBSET S : \A y \in B : \A s, t :
                          Lists(s, B) /\ Len(s) = n /\ Lists(t, B \ {y}) => Weight(F, s) = F[y].n + Weight(F, t)
           N == Len(u)
           Bad == {n \in 0..N : ~Takes(n)}
<1>1. N \in Nat
  BY SeqIsFcn DEF Lists
<1> HIDE DEF N
<1>2. \A B \in SUBSET S : \A s : Lists(s, B) => isSeq(s) /\ Range(s) \subseteq S /\ Len(s) \in Nat
  BY SeqIsFcn DEF Lists
<1>3. ASSUME NEW B \in SUBSET S, NEW s, Lists(s, B), Len(s) # 0
      PROVE  \E w : /\ s[Len(s)] \in B /\ Lists(w, B \ {s[Len(s)]}) /\ Len(w) = Len(s) - 1
                    /\ Weight(F, s) = Weight(F, w) + F[s[Len(s)]].n /\ Weight(F, w) \in Int
  <2> DEFINE z == s[Len(s)]
  <2>1. PICK w : s = Append(w, z) /\ z \in B /\ Lists(w, B \ {z}) /\ Len(w) = Len(s) - 1
    BY <1>3, ListShrinks, Zenon
  <2> HIDE DEF z
  <2>2. B \ {z} \in SUBSET S /\ z \in S
    BY <2>1
  <2>3. isSeq(w) /\ Range(w) \subseteq S
    BY <1>2, <2>1, <2>2
  <2>4. Weight(F, Append(w, z)) = Weight(F, w) + F[z].n /\ Weight(F, w) \in Int
    BY <2>2, <2>3, WeightGrows
  <2> QED BY <2>1, <2>4 DEF z
<1>4. ASSUME NEW B \in SUBSET S, NEW s, Lists(s, B) PROVE Weight(F, s) \in Int
  <2>1. CASE Len(s) = 0
    <3>1. s = <<>>
      BY <1>2, <1>4, <2>1, NothingListed
    <3>2. DOMAIN <<>> = {}
      BY EmptySeq
    <3>3. [i \in DOMAIN <<>> |-> F[<<>>[i]]] = <<>>
      BY <3>2
    <3>4. Weight(F, <<>>) = 0
      BY <3>3, TotalGrows DEF Weight
    <3> QED BY <3>1, <3>4
  <2>2. CASE Len(s) # 0
    <3> DEFINE z == s[Len(s)]
    <3>1. PICK w : /\ z \in B /\ Lists(w, B \ {z}) /\ Len(w) = Len(s) - 1
                   /\ Weight(F, s) = Weight(F, w) + F[z].n /\ Weight(F, w) \in Int
      BY <1>3, <1>4, <2>2
    <3> HIDE DEF z
    <3>2. F[z].n \in Int
      BY <3>1
    <3> QED BY <3>1, <3>2
  <2> QED BY <2>1, <2>2
<1>5. ASSUME NEW n \in 0..N, \A m \in 0..N : m < n => Takes(m) PROVE Takes(n)
  <2> SUFFICES ASSUME NEW B \in SUBSET S, NEW y \in B, NEW s, NEW t, Lists(s, B), Len(s) = n, Lists(t, B \ {y})
               PROVE  Weight(F, s) = F[y].n + Weight(F, t)
    OBVIOUS
  <2> DEFINE z == s[Len(s)]
             C == B \ {y}
             D == B \ {z}
             E == C \ {z}
  <2>1. Len(s) # 0
    <3>1. SUFFICES ASSUME Len(s) = 0 PROVE FALSE
      OBVIOUS
    <3>2. Range(s) = {} /\ Range(s) = B
      BY <3>1, NothingListed DEF Lists
    <3> QED BY <3>2
  <2>2. PICK w : /\ z \in B /\ Lists(w, D) /\ Len(w) = Len(s) - 1
                 /\ Weight(F, s) = Weight(F, w) + F[z].n /\ Weight(F, w) \in Int
    BY <1>3, <2>1
  <2>3. Len(t) = Len(s) - 1
    BY LessByOne
  <2> HIDE DEF z
  <2>4. n - 1 \in 0..N /\ Takes(n - 1) /\ n # 0 /\ n \in Nat
    <3>1. n - 1 \in 0..N /\ n - 1 < n /\ n # 0 /\ n \in Nat
      BY <1>1, <2>1
    <3> HIDE DEF Takes
    <3> QED BY <1>5, <3>1
  <2>5. C \in SUBSET S /\ D \in SUBSET S /\ E \in SUBSET S /\ F[z].n \in Int /\ F[y].n \in Int
    BY <2>2
  <2>6. Weight(F, t) \in Int
    BY <1>4, <2>5
  <2>7. CASE y = z
    <3>1. Lists(t, D) /\ Lists(w, D)
      BY <2>2, <2>7
    <3>2. Weight(F, t) = Weight(F, w)
      <4>1. CASE Len(t) = 0
        <5>1. t = <<>> /\ w = <<>>
          BY <2>2, <2>3, <3>1, <4>1, NothingListed DEF Lists
        <5> QED BY <5>1
      <4>2. CASE Len(t) # 0
        <5> DEFINE a == t[Len(t)]
        <5>1. PICK b : /\ a \in D /\ Lists(b, D \ {a})
                       /\ Weight(F, t) = Weight(F, b) + F[a].n /\ Weight(F, b) \in Int
          BY <1>3, <2>5, <3>1, <4>2
        <5> HIDE DEF a, D
        <5>2. Weight(F, w) = F[a].n + Weight(F, b)
          BY <2>2, <2>4, <2>5, <3>1, <5>1
        <5>3. F[a].n \in Int
          BY <2>5, <5>1
        <5> QED BY <5>1, <5>2, <5>3
      <4> QED BY <4>1, <4>2
    <3> QED BY <2>2, <2>5, <2>6, <2>7, <3>2
  <2>8. CASE y # z
    <3>1. PICK e : Lists(e, E)
      <4>1. E \subseteq C
        OBVIOUS
      <4> HIDE DEF E, C
      <4>2. Lists(t, C)
        BY DEF C
      <4> QED BY <4>1, <4>2, PartLists, Zenon
    <3>2. z \in C /\ y \in D /\ D \ {y} = E
      BY <2>2, <2>8
    <3>3. Weight(F, w) = F[y].n + Weight(F, e)
      <4>1. Lists(e, D \ {y})
        BY <3>1, <3>2
      <4> HIDE DEF D, E, C
      <4> QED BY <2>2, <2>4, <2>5, <3>2, <4>1
    <3>4. Weight(F, t) = F[z].n + Weight(F, e)
      <4>1. Lists(t, C) /\ Lists(e, C \ {z}) /\ Len(t) = n - 1
        BY <3>1, <2>3
      <4> HIDE DEF D, E, C
      <4> QED BY <2>4, <2>5, <3>2, <4>1
    <3>5. Weight(F, e) \in Int
      <4> HIDE DEF E
      <4> QED BY <1>4, <2>5, <3>1
    <3> QED BY <2>2, <2>5, <3>3, <3>4, <3>5
  <2> QED BY <2>7, <2>8
<1> HIDE DEF Takes
<1>6. Bad = {}
  <2>1. SUFFICES ASSUME Bad # {} PROVE FALSE
    OBVIOUS
  <2>2. PICK m \in Bad : \A k \in Bad : m <= k
    <3>1. Bad \in SUBSET Nat
      BY <1>1
    <3> HIDE DEF Bad
    <3> QED BY <2>1, <3>1, LeastElement
  <2>3. m \in 0..N /\ \A k \in 0..N : k < m => Takes(k)
    BY <1>1, <2>2
  <2> QED BY <1>5, <2>2, <2>3
<1>7. Takes(N)
  BY <1>1, <1>6
<1>8. Weight(F, u) = F[x].n + Weight(F, v)
  BY <1>7 DEF Takes, N
<1>9. A \ {x} \in SUBSET S
  OBVIOUS
<1> QED BY <1>4, <1>8, <1>9

SumOver(S, name) == MapThenSumSet(LAMBDA r : r.data[name].n, S)

\* The sum over a set, as the community modules define it, is the sum of any list
\* of that set.
LEMMA SumIsWeight ==
  ASSUME NEW name, NEW S, NEW F, \A r \in S : F[r] = r.data[name], \A r \in S : F[r].n \in Int, NEW u, Lists(u, S)
  PROVE  SumOver(S, name) = Weight(F, u)
<1> DEFINE first(A) == CHOOSE x \in A : TRUE
           Eq(it) == it = [s \in SUBSET S |-> IF s = {} THEN 0 ELSE first(s).data[name].n + it[s \ {first(s)}]]
           H == CHOOSE it : Eq(it)
           list(A) == CHOOSE v : Lists(v, A)
           W == [A \in SUBSET S |-> Weight(F, list(A))]
<1>1. SumOver(S, name) = H[S]
  BY Zenon DEF SumOver, MapThenSumSet, MapThenFoldSet
<1>2. ASSUME NEW A \in SUBSET S PROVE Lists(list(A), A)
  BY PartLists
<1>3. ASSUME NEW A \in SUBSET S, A # {} PROVE first(A) \in A /\ A \ {first(A)} \in SUBSET S
  BY <1>3
<1>4. ASSUME NEW v, Lists(v, {}) PROVE Weight(F, v) = 0
  <2>1. v = <<>>
    BY <1>4, NothingListed
  <2>2. DOMAIN <<>> = {}
    BY EmptySeq
  <2>3. [i \in DOMAIN v |-> F[v[i]]] = <<>>
    BY <2>1, <2>2
  <2> QED BY <2>3, TotalGrows DEF Weight
<1>5. ASSUME NEW A \in SUBSET S, NEW x \in A, NEW v, Lists(v, A), NEW w, Lists(w, A \ {x})
      PROVE  Weight(F, v) = x.data[name].n + Weight(F, w)
  <2>1. F[x] = x.data[name]
    OBVIOUS
  <2>2. \A y \in S : F[y].n \in Int
    OBVIOUS
  <2> HIDE DEF Eq, H, W, first, list
  <2>3. Weight(F, v) = F[x].n + Weight(F, w) /\ Weight(F, w) \in Int
    BY <1>5, <2>2, WeightRemoves
  <2> QED BY <2>1, <2>3
<1> HIDE DEF first, list
<1>6. Eq(W)
  <2>1. ASSUME NEW A \in SUBSET S
        PROVE  W[A] = IF A = {} THEN 0 ELSE first(A).data[name].n + W[A \ {first(A)}]
    <3>1. CASE A = {}
      BY <3>1, <1>2, <1>4
    <3>2. CASE A # {}
      <4>1. W[A] = Weight(F, list(A)) /\ W[A \ {first(A)}] = Weight(F, list(A \ {first(A)}))
        BY <1>3, <3>2
      <4>2. Lists(list(A), A) /\ Lists(list(A \ {first(A)}), A \ {first(A)})
        BY <1>2, <1>3, <3>2
      <4> DEFINE x == first(A)
                 v == list(A)
                 w == list(A \ {x})
      <4>3. x \in A /\ Lists(v, A) /\ Lists(w, A \ {x})
        BY <1>3, <3>2, <4>2
      <4> HIDE DEF x, v, w
      <4>4. Weight(F, v) = x.data[name].n + Weight(F, w)
        BY <1>5, <4>3
      <4> QED BY <3>2, <4>1, <4>4 DEF x, v, w
    <3> QED BY <3>1, <3>2
  <2>2. W = [A \in SUBSET S |-> W[A]]
    OBVIOUS
  <2> HIDE DEF W
  <2> QED BY <2>1, <2>2
<1>7. Eq(H)
  <2> HIDE DEF Eq
  <2> QED BY <1>6
<1> HIDE DEF H
<1>8. \A A \in SUBSET S : H[A] = IF A = {} THEN 0 ELSE first(A).data[name].n + H[A \ {first(A)}]
  BY <1>7
<1> HIDE DEF Eq, W
<1> DEFINE Same(n) == \A A \in SUBSET S : \A v : Lists(v, A) /\ Len(v) = n => H[A] = Weight(F, v)
           N == Len(u)
           Bad == {n \in 0..N : ~Same(n)}
<1>9. N \in Nat
  BY SeqIsFcn DEF Lists
<1>10. ASSUME NEW n \in 0..N, n # 0 => Same(n - 1) PROVE Same(n)
  <2> SUFFICES ASSUME NEW A \in SUBSET S, NEW v, Lists(v, A), Len(v) = n PROVE H[A] = Weight(F, v)
    OBVIOUS
  <2>1. CASE A = {}
    BY <1>4, <1>8, <2>1
  <2>2. CASE A # {}
    <3> DEFINE x == first(A)
               B == A \ {x}
               w == list(B)
    <3>1. x \in A /\ B \in SUBSET S
      BY <1>3, <2>2
    <3>2. Lists(w, B)
      BY <1>2, <3>1
    <3> HIDE DEF x, w
    <3>3. Len(w) = n - 1
      BY <3>1, <3>2, LessByOne DEF B
    <3>4. n # 0
      <4>1. Len(w) \in Nat
        BY <3>2, SeqIsFcn DEF Lists
      <4> QED BY <3>3, <4>1, <1>9
    <3>5. H[B] = Weight(F, w)
      BY <1>10, <3>1, <3>2, <3>3, <3>4
    <3>6. Weight(F, v) = x.data[name].n + Weight(F, w)
      <4>1. Lists(w, A \ {x})
        BY <3>2 DEF B
      <4> HIDE DEF B
      <4> QED BY <1>5, <3>1, <4>1
    <3>7. H[A] = x.data[name].n + H[B]
      BY <1>8, <2>2 DEF B, x
    <3> QED BY <3>5, <3>6, <3>7
  <2> QED BY <2>1, <2>2
<1>11. Same(N)
  <2> SUFFICES ASSUME Bad # {} PROVE FALSE
    <3>1. N \in 0..N
      BY <1>9
    <3> HIDE DEF Same, N
    <3> QED BY <3>1
  <2>1. Bad \in SUBSET Nat
    BY <1>9
  <2>2. PICK n \in Bad : \A m \in Bad : n <= m
    <3> HIDE DEF Bad
    <3> QED BY <2>1, LeastElement
  <2> HIDE DEF Same
  <2>3. n \in 0..N /\ ~Same(n)
    BY <2>2
  <2>4. n # 0 => Same(n - 1)
    <3> SUFFICES ASSUME n # 0, ~Same(n - 1) PROVE FALSE
      OBVIOUS
    <3>1. n - 1 \in 0..N /\ ~(n <= n - 1)
      BY <2>3, <1>9
    <3> QED BY <2>2, <3>1
  <2> QED BY <1>10, <2>3, <2>4
<1> QED BY <1>1, <1>11

-----------------------------------------------------------------------------
(***************************************************************************)
(* MIN and MAX: the value that is kept is a least or a greatest one.       *)
(***************************************************************************)
\* The values of V are ordered by the numbers N.
Ranked(V, N) ==
    /\ \A v \in V : N[v] \in Int
    /\ \A v, w \in V : compare(v, w) = sign(N[v], N[w])
Better(better, vals, b, n) == IF compare(vals[n], b) = better THEN vals[n] ELSE b

Keeps(better, vals, g) ==
    /\ g \in [1..Len(vals) -> Range(vals)] /\ g[1] = vals[1] /\ extreme(better, vals) = g[Len(vals)]
    /\ \A n \in 2..Len(vals) : g[n] = Better(better, vals, g[n - 1], n)

\* The recursion of extreme, as the value kept so far.
LEMMA ExtremeSteps ==
  ASSUME NEW vals, isSeq(vals), Len(vals) >= 1, NEW better
  PROVE  \E g : Keeps(better, vals, g)
<1> DEFINE l == Len(vals)
           V == Range(vals)
           k == l - 1
           F == [z \in V \X (1..k) |-> Better(better, vals, z[1], z[2] + 1)]
           Eq(h) == h = [n \in 1..l |-> IF n = 1 THEN vals[1]
                                        ELSE LET b == h[n - 1]
                                             IN  IF compare(vals[n], b) = better THEN vals[n] ELSE b]
<1>1. l \in Nat /\ l >= 1 /\ DOMAIN vals = 1..l /\ \A n \in 1..l : vals[n] \in V
  BY SeqIsFcn DEF Range
<1> HIDE DEF l, V
<1>2. k \in Nat /\ \A j \in 1..k : j + 1 \in 1..l
  BY <1>1
<1>3. F \in [V \X (1..k) -> V]
  <2>1. ASSUME NEW b \in V, NEW j \in 1..k PROVE Better(better, vals, b, j + 1) \in V
    BY <1>1, <1>2 DEF Better
  <2> QED BY <2>1
<1>4. vals[1] \in V
  BY <1>1
<1>5. PICK f \in [0..k -> V] : f[0] = vals[1] /\ \A j \in 1..k : f[j] = F[<<f[j - 1], j>>]
  <2> HIDE DEF F, k
  <2>1. \E f : Recurs(V, vals[1], k, F, f)
    BY <1>2, <1>3, <1>4, Recursion, Zenon
  <2> QED BY <2>1 DEF Recurs
<1>6. \A j \in 1..k : f[j] = Better(better, vals, f[j - 1], j + 1)
  <2>1. \A j \in 1..k : j - 1 \in 0..k
    BY <1>2
  <2>2. \A j \in 1..k : f[j - 1] \in V
    BY <2>1
  <2> QED BY <1>5, <2>2
<1> DEFINE g == [n \in 1..l |-> f[n - 1]]
<1>7. g \in [1..l -> V] /\ g[1] = vals[1] /\ \A n \in 2..l : g[n] = Better(better, vals, g[n - 1], n)
  <2>1. \A n \in 1..l : n - 1 \in 0..k
    BY <1>1
  <2>2. g \in [1..l -> V]
    BY <2>1
  <2>3. g[1] = vals[1]
    BY <1>1, <1>5
  <2>4. ASSUME NEW n \in 2..l PROVE g[n] = Better(better, vals, g[n - 1], n)
    <3> DEFINE j == n - 1
    <3>1. j \in 1..k /\ n = j + 1 /\ j \in 1..l /\ n \in 1..l
      BY <1>1
    <3>2. g[n] = f[j] /\ g[j] = f[j - 1]
      BY <3>1
    <3> HIDE DEF g, j
    <3>3. f[j] = Better(better, vals, f[j - 1], j + 1)
      BY <1>6, <3>1
    <3> QED BY <3>1, <3>2, <3>3 DEF j
  <2> QED BY <2>2, <2>3, <2>4
<1> HIDE DEF g, k
<1>8. Eq(g)
  <2>1. \A n \in 1..l : g[n] = IF n = 1 THEN vals[1]
                               ELSE LET b == g[n - 1] IN IF compare(vals[n], b) = better THEN vals[n] ELSE b
    <3>1. \A n \in 1..l : n # 1 => n \in 2..l
      BY <1>1
    <3> QED BY <3>1, <1>7 DEF Better
  <2>2. g = [n \in 1..l |-> g[n]]
    BY <1>7
  <2> QED BY <2>1, <2>2
<1> DEFINE H == CHOOSE h : Eq(h)
<1>9. Eq(H)
  <2> HIDE DEF Eq
  <2> QED BY <1>8
<1>10. extreme(better, vals) = H[l]
  BY Zenon DEF extreme, l
<1> HIDE DEF H
<1>11. \A n \in 1..l : H[n] = IF n = 1 THEN vals[1] ELSE Better(better, vals, H[n - 1], n)
  BY <1>9 DEF Better
<1>12. ASSUME NEW n \in 1..l, H[n] # g[n] PROVE FALSE
  <2> DEFINE Bad == {i \in 1..l : H[i] # g[i]}
  <2>1. Bad \in SUBSET Nat /\ Bad # {}
    BY <1>12, <1>1
  <2>2. PICK i \in Bad : \A m \in Bad : i <= m
    <3> HIDE DEF Bad
    <3> QED BY <2>1, LeastElement
  <2>3. i \in 1..l /\ i # 1 /\ i \in 2..l /\ i - 1 \in 1..l /\ ~(i <= i - 1)
    BY <2>2, <1>1, <1>7, <1>11
  <2>4. H[i - 1] = g[i - 1]
    BY <2>2, <2>3
  <2>5. H[i] = g[i]
    BY <2>3, <2>4, <1>7, <1>11
  <2> QED BY <2>2, <2>5
<1>13. extreme(better, vals) = g[l]
  BY <1>1, <1>10, <1>12
<1>14. /\ g \in [1..l -> V] /\ g[1] = vals[1] /\ extreme(better, vals) = g[l]
       /\ \A n \in 2..l : g[n] = Better(better, vals, g[n - 1], n)
  BY <1>7, <1>13
<1> QED BY <1>14 DEF l, V, Keeps

\* What is kept is one of the values, and none is better.
LEMMA ExtremeFacts ==
  ASSUME NEW vals, isSeq(vals), Len(vals) >= 1, NEW N, Ranked(Range(vals), N), NEW better \in {-1, 1}
  PROVE  /\ extreme(better, vals) \in Range(vals)
         /\ \A w \in Range(vals) : sign(N[w], N[extreme(better, vals)]) # better
<1> DEFINE l == Len(vals)
           V == Range(vals)
<1>1. l \in Nat /\ l >= 1 /\ DOMAIN vals = 1..l /\ \A n \in 1..l : vals[n] \in V
  BY SeqIsFcn DEF Range
<1>2. \A w \in V : \E n \in 1..l : vals[n] = w
  BY <1>1 DEF Range
<1>3. PICK g : /\ g \in [1..l -> V] /\ g[1] = vals[1] /\ extreme(better, vals) = g[l]
               /\ \A n \in 2..l : g[n] = Better(better, vals, g[n - 1], n)
  <2>1. \E g : Keeps(better, vals, g)
    BY ExtremeSteps
  <2> QED BY <2>1 DEF Keeps
<1>4. (\A v \in V : N[v] \in Int) /\ \A v, w \in V : compare(v, w) = sign(N[v], N[w])
  BY DEF Ranked
<1> HIDE DEF l, V
<1> DEFINE Good(n) == \A m \in 1..n : sign(N[vals[m]], N[g[n]]) # better
           Bad == {n \in 1..l : ~Good(n)}
<1>5. Good(1)
  <2>1. \A m \in 1..1 : m = 1
    OBVIOUS
  <2>2. N[vals[1]] \in Int
    BY <1>1, <1>4
  <2> QED BY <1>3, <2>1, <2>2 DEF sign
<1>6. ASSUME NEW n \in 2..l, Good(n - 1) PROVE Good(n)
  <2>1. n \in 1..l /\ n - 1 \in 1..l /\ \A m \in 1..n : m \in 1..l /\ (m = n \/ m \in 1..(n - 1))
    BY <1>1
  <2>2. g[n - 1] \in V /\ vals[n] \in V /\ g[n] = Better(better, vals, g[n - 1], n)
    BY <1>1, <1>3, <2>1
  <2> DEFINE a == N[g[n - 1]]
             b == N[vals[n]]
             c == N[g[n]]
  <2>3. a \in Int /\ b \in Int /\ compare(vals[n], g[n - 1]) = sign(b, a)
    BY <1>4, <2>2
  <2>4. c = IF sign(b, a) = better THEN b ELSE a
    BY <2>2, <2>3 DEF Better
  <2>5. ASSUME NEW m \in 1..n PROVE sign(N[vals[m]], c) # better
    <3> DEFINE d == N[vals[m]]
    <3>1. d \in Int
      BY <1>1, <1>4, <2>1
    <3>2. m = n => d = b
      OBVIOUS
    <3>3. m # n => sign(d, a) # better
      BY <1>6, <2>1
    <3> HIDE DEF a, b, c, d
    <3>4. sign(d, c) # better
      BY <2>3, <2>4, <3>1, <3>2, <3>3 DEF sign
    <3> QED BY <3>4 DEF d
  <2> QED BY <2>5
<1>7. Good(l)
  <2> SUFFICES ASSUME Bad # {} PROVE FALSE
    <3>1. l \in 1..l
      BY <1>1
    <3> HIDE DEF Good
    <3> QED BY <3>1
  <2>1. Bad \in SUBSET Nat
    BY <1>1
  <2>2. PICK n \in Bad : \A m \in Bad : n <= m
    <3> HIDE DEF Bad
    <3> QED BY <2>1, LeastElement
  <2> HIDE DEF Good
  <2>3. n \in 1..l /\ ~Good(n) /\ n # 1
    BY <2>2, <1>5
  <2>4. n \in 2..l /\ n - 1 \in 1..l /\ ~(n <= n - 1)
    BY <2>3, <1>1
  <2>5. Good(n - 1)
    BY <2>2, <2>4
  <2> QED BY <1>6, <2>3, <2>4, <2>5
<1>8. extreme(better, vals) \in V
  BY <1>1, <1>3
<1>9. \A w \in V : sign(N[w], N[extreme(better, vals)]) # better
  BY <1>2, <1>3, <1>7
<1> QED BY <1>8, <1>9 DEF V

\* Values that are all numbers, or all something else.
SameKind(V) == (\A v \in V : isNumber(v)) \/ \A v \in V : ~isNumber(v)
\* The order tells them apart.
Separated(V) == \A v, w \in V : ~smaller(v, w) /\ ~smaller(w, v) => v = w
Least(V) == CHOOSE v \in V : \A w \in V : ~smaller(w, v)
Greatest(V) == CHOOSE v \in V : \A w \in V : ~smaller(v, w)

\* MIN and MAX keep the least and the greatest value, wherever it stands.
LEMMA ExtremesOfSet ==
  ASSUME NEW vals, isSeq(vals), Len(vals) >= 1, NEW V, Range(vals) = V,
         \A v \in V : isValue(v), SameKind(V), Separated(V)
  PROVE  extreme(-1, vals) = Least(V) /\ extreme(1, vals) = Greatest(V)
<1> DEFINE allNumbers == \A v \in V : isNumber(v)
           N == [v \in V |-> IF allNumbers THEN v.n ELSE Text(v)]
<1>1. ASSUME NEW v \in V, NEW w \in V
      PROVE  /\ N[v] \in Int /\ compare(v, w) = sign(N[v], N[w])
             /\ smaller(v, w) <=> N[v] < N[w]
  <2>1. v.n \in Int /\ Text(v) \in Int
    BY DEF isValue
  <2>2. CASE allNumbers
    <3>1. isNumber(v) /\ isNumber(w) /\ N[v] = v.n /\ N[w] = w.n
      BY <2>2
    <3> HIDE DEF N
    <3> QED BY <2>1, <3>1 DEF compare, smaller
  <2>3. CASE ~allNumbers
    <3>1. ~isNumber(v) /\ ~isNumber(w) /\ N[v] = Text(v) /\ N[w] = Text(w)
      BY <2>3 DEF SameKind
    <3> HIDE DEF N
    <3> QED BY <2>1, <3>1 DEF compare, smaller
  <2> QED BY <2>2, <2>3
<1> HIDE DEF N
<1>2. Ranked(Range(vals), N)
  BY <1>1 DEF Ranked
<1>3. ASSUME NEW better \in {-1, 1}
      PROVE  /\ extreme(better, vals) \in V
             /\ \A w \in V : sign(N[w], N[extreme(better, vals)]) # better
  BY <1>2, ExtremeFacts
<1>4. extreme(-1, vals) = Least(V)
  <2> DEFINE x == extreme(-1, vals)
             m == Least(V)
  <2>1. x \in V /\ \A w \in V : sign(N[w], N[x]) # -1
    BY <1>3
  <2> HIDE DEF x
  <2>2. \A w \in V : ~smaller(w, x)
    <3>1. ASSUME NEW w \in V PROVE ~(N[w] < N[x])
      BY <1>1, <2>1 DEF sign
    <3> QED BY <1>1, <2>1, <3>1
  <2>3. m \in V /\ \A w \in V : ~smaller(w, m)
    BY <2>1, <2>2 DEF Least
  <2> HIDE DEF m
  <2>4. x = m
    BY <2>1, <2>2, <2>3 DEF Separated
  <2> QED BY <2>4 DEF x, m
<1>5. extreme(1, vals) = Greatest(V)
  <2> DEFINE x == extreme(1, vals)
             m == Greatest(V)
  <2>1. x \in V /\ \A w \in V : sign(N[w], N[x]) # 1
    BY <1>3
  <2> HIDE DEF x
  <2>2. \A w \in V : ~smaller(x, w)
    <3>1. ASSUME NEW w \in V PROVE ~(N[x] < N[w])
      BY <1>1, <2>1 DEF sign
    <3> QED BY <1>1, <2>1, <3>1
  <2>3. m \in V /\ \A w \in V : ~smaller(m, w)
    BY <2>1, <2>2 DEF Greatest
  <2> HIDE DEF m
  <2>4. x = m
    BY <2>1, <2>2, <2>3 DEF Separated
  <2> QED BY <2>4 DEF x, m
<1> QED BY <1>4, <1>5

-----------------------------------------------------------------------------
(***************************************************************************)
(* The aggregates of a group are those of its class.                       *)
(***************************************************************************)
RowsOfList(q, u) == [x \in DOMAIN u |-> baseSources(q, u[x].data)]
ArgumentsOf(q, e, u) == [x \in DOMAIN u |-> resolveJoinExpr(argument(e), baseSources(q, u[x].data), Known(q))]
NonNil(S, name) == {r \in S : at(r.data, name) # Nil}
NumberRows(S, name) == {r \in NonNil(S, name) : isNumber(r.data[name])}
Column(u, name) == [i \in DOMAIN u |-> u[i].data[name]]

\* An argument of an aggregate is the field of the row, and is nil where there is
\* none.
LEMMA ArgumentIsField ==
  ASSUME NEW q, NEW e, e.name # "*", NEW r
  PROVE  resolveJoinExpr(argument(e), baseSources(q, r.data), Known(q))
         = [ok |-> e.src \in Known(q), present |-> e.src \in Known(q) /\ e.name \in DOMAIN r.data,
            v |-> IF e.src \in Known(q) THEN at(r.data, e.name) ELSE Nil]
<1> DEFINE f == Field(e.src, e.name, "")
           b == baseSources(q, r.data)
<1>1. argument(e) = f
  BY DEF argument
<1>2. f.k = "field" /\ f.src = e.src /\ f.name = e.name
  BY DEF Field, Expr
<1>3. b = [s \in Known(q) |-> r.data]
  BY DEF baseSources, Known
<1> HIDE DEF f, b
<1>4. DOMAIN b = Known(q) /\ \A s \in Known(q) : b[s] = r.data
  BY <1>3
<1>5. resolveJoinExpr(f, b, Known(q))
      = [ok |-> f.src \in Known(q), present |-> f.src \in DOMAIN b /\ f.name \in DOMAIN b[f.src], v |-> lookup(b, f)]
  BY <1>2 DEF resolveJoinExpr
<1>6. lookup(b, f) = IF e.src \in Known(q) THEN at(r.data, e.name) ELSE Nil
  BY <1>2, <1>4 DEF lookup
<1>7. (f.src \in DOMAIN b /\ f.name \in DOMAIN b[f.src]) <=> (e.src \in Known(q) /\ e.name \in DOMAIN r.data)
  BY <1>2, <1>4
<1> QED BY <1>1, <1>2, <1>5, <1>6, <1>7 DEF b

\* The values an aggregate looks at are the fields of the rows that have one.
LEMMA ValuesOfClass ==
  ASSUME NEW q, NEW e, e.name # "*", e.src \in Known(q), NEW u, NEW S, Lists(u, S)
  PROVE  \E v : Lists(v, NonNil(S, e.name)) /\ presentValues(ArgumentsOf(q, e, u)) = Column(v, e.name)
<1> DEFINE name == e.name
           args == ArgumentsOf(q, e, u)
           A == [r \in S |-> resolveJoinExpr(argument(e), baseSources(q, r.data), Known(q))]
           keep == {a \in Range(args) : a.present /\ a.v # Nil}
           K == NonNil(S, name)
           v == only(u, K)
           o == only(args, keep)
<1>1. isSeq(u) /\ DOMAIN u = 1..Len(u) /\ Range(u) = S /\ \A i \in DOMAIN u : u[i] \in S
  BY SeqIsFcn DEF Lists, Range
<1>2. args = [i \in DOMAIN u |-> A[u[i]]]
  BY <1>1 DEF ArgumentsOf
<1>3. ASSUME NEW r \in S
      PROVE  A[r] \in Range(args) /\ (A[r].present <=> name \in DOMAIN r.data) /\ A[r].v = at(r.data, name)
  <2>1. PICK i \in DOMAIN u : u[i] = r
    BY <1>1 DEF Range
  <2>2. i \in DOMAIN args /\ args[i] = A[r]
    BY <1>2, <2>1
  <2>3. A[r] \in Range(args)
    BY <2>2 DEF Range
  <2>4. A[r] = [ok |-> e.src \in Known(q), present |-> e.src \in Known(q) /\ e.name \in DOMAIN r.data,
                v |-> IF e.src \in Known(q) THEN at(r.data, e.name) ELSE Nil]
    BY ArgumentIsField
  <2> HIDE DEF A, args
  <2>5. A[r].present = (e.src \in Known(q) /\ e.name \in DOMAIN r.data)
    BY <2>4
  <2>6. A[r].v = at(r.data, name)
    BY <2>4
  <2>7. A[r].present <=> name \in DOMAIN r.data
    BY <2>5, Zenon
  <2> QED BY <2>3, <2>6, <2>7
<1> HIDE DEF A, args
<1>4. \A r \in S : (name \notin DOMAIN r.data => at(r.data, name) = Nil)
                   /\ (name \in DOMAIN r.data => at(r.data, name) = r.data[name])
  BY DEF at
<1>5. \A r \in Range(u) : r \in K <=> A[r] \in keep
  BY <1>1, <1>3, <1>4 DEF NonNil
<1>6. Lists(v, K)
  <2>1. Lists(v, {r \in S : r \in K})
    BY KeptLists
  <2>2. {r \in S : r \in K} = K
    BY DEF NonNil
  <2> QED BY <2>1, <2>2
<1>7. o = [i \in DOMAIN v |-> A[v[i]]]
  <2> HIDE DEF keep, K
  <2>1. only([i \in DOMAIN u |-> A[u[i]]], keep) = [i \in DOMAIN v |-> A[v[i]]]
    BY <1>1, <1>5, OnlyMapped
  <2> QED BY <1>2, <2>1
<1>8. presentValues(args) = [i \in DOMAIN o |-> o[i].v]
  BY Zenon DEF presentValues, mapped
<1>9. \A i \in DOMAIN v : v[i] \in K
  BY <1>6, SeqIsFcn DEF Lists, Range
<1>10. \A r \in K : A[r].v = r.data[name]
  BY <1>3, <1>4 DEF NonNil
<1> HIDE DEF o, v, K
<1>11. presentValues(args) = [i \in DOMAIN v |-> v[i].data[name]]
  BY <1>7, <1>8, <1>9, <1>10
<1> QED BY <1>6, <1>11 DEF K, args, Column

\* SUM and AVG look at those that are numbers.
LEMMA NumbersOfClass ==
  ASSUME NEW name, NEW S, NEW v, Lists(v, NonNil(S, name)), NEW c, c = Column(v, name)
  PROVE  \E w : Lists(w, NumberRows(S, name)) /\ only(c, {x \in Range(c) : isNumber(x)}) = Column(w, name)
<1> DEFINE G == NonNil(S, name)
           A == [r \in G |-> r.data[name]]
           keep == {x \in Range(c) : isNumber(x)}
           K == NumberRows(S, name)
           w == only(v, K)
<1>1. isSeq(v) /\ DOMAIN v = 1..Len(v) /\ Range(v) = G /\ \A i \in DOMAIN v : v[i] \in G
  BY SeqIsFcn DEF Lists, Range
<1>2. c = [i \in DOMAIN v |-> A[v[i]]]
  BY <1>1 DEF Column
<1>3. ASSUME NEW r \in G PROVE A[r] \in Range(c) /\ A[r] = r.data[name]
  <2>1. PICK i \in DOMAIN v : v[i] = r
    BY <1>1 DEF Range
  <2>2. i \in DOMAIN c /\ c[i] = A[r]
    BY <1>2, <2>1
  <2> QED BY <2>2 DEF Range
<1> HIDE DEF A
<1>4. \A r \in Range(v) : r \in K <=> A[r] \in keep
  BY <1>1, <1>3 DEF NumberRows
<1>5. Lists(w, K)
  <2>1. Lists(w, {r \in G : r \in K})
    BY KeptLists
  <2>2. {r \in G : r \in K} = K
    BY DEF NumberRows
  <2> QED BY <2>1, <2>2
<1>6. only(c, keep) = [i \in DOMAIN w |-> A[w[i]]]
  <2> HIDE DEF keep, K, G
  <2>1. only([i \in DOMAIN v |-> A[v[i]]], keep) = [i \in DOMAIN w |-> A[w[i]]]
    BY <1>1, <1>4, OnlyMapped
  <2> QED BY <1>2, <2>1
<1>7. \A i \in DOMAIN w : w[i] \in K
  BY <1>5, SeqIsFcn DEF Lists, Range
<1>8. \A r \in K : A[r] = r.data[name]
  BY <1>3 DEF NumberRows
<1> HIDE DEF w, K
<1>9. only(c, keep) = [i \in DOMAIN w |-> w[i].data[name]]
  BY <1>6, <1>7, <1>8
<1> QED BY <1>5, <1>9 DEF K, Column

ClassValues(S, name) == {r.data[name] : r \in NonNil(S, name)}
ClassSum(S, name) == SumOver(NumberRows(S, name), name)
ClassAggregate(fn, S, name) ==
    CASE fn = "COUNT" -> Whole(Cardinality(NonNil(S, name)))
      [] fn \in {"SUM", "AVG"} /\ NumberRows(S, name) = {} -> Nil
      [] fn = "SUM" /\ NumberRows(S, name) # {} -> Value("float", ClassSum(S, name), <<>>)
      [] fn = "AVG" /\ NumberRows(S, name) # {} ->
            Value("float", ClassSum(S, name) \div Cardinality(NumberRows(S, name)), <<>>)
      [] fn \in {"MIN", "MAX"} /\ ClassValues(S, name) = {} -> Nil
      [] fn = "MIN" /\ ClassValues(S, name) # {} -> Least(ClassValues(S, name))
      [] fn = "MAX" /\ ClassValues(S, name) # {} -> Greatest(ClassValues(S, name))

\* The reference, in these terms.
LEMMA ReferenceUnfolds ==
  ASSUME NEW e, NEW S
  PROVE  ofClass(e, S) = IF e.k # "aggregate" THEN valueOf(e, CHOOSE r \in S : TRUE)
                         ELSE IF e.name = "*" THEN Whole(Cardinality(S)) ELSE ClassAggregate(e.fn, S, e.name)
BY Zenon DEF ofClass, ClassAggregate, ClassSum, SumOver, ClassValues, Least, Greatest, NonNil, NumberRows

\* The code's evaluation, in the same terms.
LEMMA AggregateUnfolds ==
  ASSUME NEW q, NEW e, NEW u
  PROVE  evalAggregate(e, RowsOfList(q, u), Known(q))
         = IF e.fn = "COUNT" /\ e.name = "*"
           THEN [ok |-> TRUE, v |-> Value("int", Scale * Len(RowsOfList(q, u)), <<>>)]
           ELSE aggregateOf(e, ArgumentsOf(q, e, u), presentValues(ArgumentsOf(q, e, u)))
<1> DEFINE rows == RowsOfList(q, u)
           args == [i \in DOMAIN rows |-> resolveJoinExpr(argument(e), rows[i], Known(q))]
<1>1. evalAggregate(e, rows, Known(q))
      = IF e.fn = "COUNT" /\ e.name = "*" THEN [ok |-> TRUE, v |-> Value("int", Scale * Len(rows), <<>>)]
        ELSE aggregateOf(e, args, presentValues(args))
  BY Zenon DEF evalAggregate, mapped
<1>2. args = ArgumentsOf(q, e, u)
  BY DEF ArgumentsOf, RowsOfList
<1> HIDE DEF args
<1> QED BY <1>1, <1>2

\* A column read off a list of rows.
LEMMA ColumnFacts ==
  ASSUME NEW name, NEW G, NEW v, Lists(v, G)
  PROVE  /\ isSeq(Column(v, name)) /\ Len(Column(v, name)) = Len(v)
         /\ Range(Column(v, name)) = {r.data[name] : r \in G}
         /\ Column(v, name) = <<>> <=> G = {}
<1> DEFINE c == Column(v, name)
<1>1. isSeq(v) /\ Range(v) = G /\ Len(v) \in Nat /\ DOMAIN v = 1..Len(v)
  BY SeqIsFcn DEF Lists
<1>2. isSeq(c) /\ Len(c) = Len(v) /\ DOMAIN c = DOMAIN v
  <2>1. c = [i \in DOMAIN v |-> c[i]]
    BY DEF Column
  <2> HIDE DEF c
  <2> QED BY <1>1, <2>1, SameLength
<1>3. \A i \in DOMAIN v : c[i] = v[i].data[name]
  BY DEF Column
<1> HIDE DEF c
<1>4. Range(c) = {r.data[name] : r \in G}
  <2>1. Range(c) = {c[i] : i \in DOMAIN v} /\ G = {v[i] : i \in DOMAIN v}
    BY <1>1, <1>2 DEF Range
  <2> QED BY <1>3, <2>1
<1>5. c = <<>> <=> G = {}
  <2>1. ASSUME c = <<>> PROVE G = {}
    <3>1. Len(v) = 0
      BY <1>2, <2>1, EmptyIsSeq
    <3> QED BY <1>1, <3>1, NothingListed
  <2>2. ASSUME G = {} PROVE c = <<>>
    <3>1. v = <<>>
      BY <2>2, NothingListed
    <3>2. Len(c) = 0
      BY <1>2, <3>1, EmptyIsSeq
    <3> QED BY <1>2, <3>2, NothingListed
  <2> QED BY <2>1, <2>2
<1> QED BY <1>2, <1>4, <1>5 DEF c

\* What the code makes of the values of a class is the aggregate of the class.
LEMMA AggregateOfValues ==
  ASSUME NEW S, Valued(S), NEW name, NEW fn \in {"COUNT", "SUM", "AVG", "MIN", "MAX"},
         NEW v, Lists(v, NonNil(S, name)), NEW w, Lists(w, NumberRows(S, name)), NEW rows,
         fn \in {"MIN", "MAX"} => SameKind(ClassValues(S, name)) /\ Separated(ClassValues(S, name))
  PROVE  aggregate(fn, Column(v, name), Column(w, name), rows) = ClassAggregate(fn, S, name)
<1> DEFINE c == Column(v, name)
           d == Column(w, name)
           G == NonNil(S, name)
           M == NumberRows(S, name)
           V == ClassValues(S, name)
<1>1. Len(c) = Cardinality(G) /\ isSeq(c) /\ Range(c) = V /\ (c = <<>> <=> G = {})
  BY ColumnFacts, ListLength DEF ClassValues
<1>2. Len(d) = Cardinality(M) /\ isSeq(d) /\ (d = <<>> <=> M = {})
  BY ColumnFacts, ListLength
<1>3. V = {} <=> G = {}
  BY DEF ClassValues
<1>4. ASSUME NEW r \in G PROVE isValue(r.data[name])
  BY DEF NonNil, Valued, at
<1>5. total(d) = ClassSum(S, name)
  <2> DEFINE F == [r \in M |-> r.data[name]]
  <2>1. \A r \in M : F[r] = r.data[name] /\ F[r].n \in Int
    BY <1>4 DEF NumberRows, isValue
  <2>2. (\A r \in M : F[r] = r.data[name]) /\ \A r \in M : F[r].n \in Int
    BY <2>1
  <2>3. \A i \in DOMAIN w : w[i] \in M
    BY SeqIsFcn DEF Lists, Range
  <2>4. d = [i \in DOMAIN w |-> F[w[i]]]
    BY <2>1, <2>3 DEF Column
  <2> HIDE DEF F, M
  <2>5. Lists(w, M)
    BY DEF M
  <2>6. SumOver(M, name) = Weight(F, w)
    BY <2>2, <2>5, SumIsWeight
  <2>7. Weight(F, w) = total(d)
    BY <2>4 DEF Weight
  <2> QED BY <2>6, <2>7, Zenon DEF M, ClassSum
<1>6. average(d, rows) = ClassSum(S, name) \div Cardinality(M)
  BY <1>2, <1>5, Zenon DEF average
<1> HIDE DEF c, d, G, M, V
<1>7. CASE fn = "COUNT"
  <2>1. aggregate(fn, c, d, rows) = Value("int", Scale * Len(c), <<>>)
    BY <1>7 DEF aggregate
  <2>2. ClassAggregate(fn, S, name) = Value("int", Scale * Cardinality(G), <<>>)
    BY <1>7 DEF ClassAggregate, Whole, G
  <2> QED BY <1>1, <2>1, <2>2 DEF c, d
<1>8. CASE fn \in {"SUM", "AVG"} /\ d = <<>>
  <2>1. aggregate(fn, c, d, rows) = Nil
    BY <1>8 DEF aggregate
  <2>2. ClassAggregate(fn, S, name) = Nil
    BY <1>2, <1>8 DEF ClassAggregate, M
  <2> QED BY <2>1, <2>2 DEF c, d
<1>9. CASE fn = "SUM" /\ d # <<>>
  <2>1. aggregate(fn, c, d, rows) = Value("float", total(d), <<>>)
    BY <1>9 DEF aggregate
  <2>2. ClassAggregate(fn, S, name) = Value("float", ClassSum(S, name), <<>>)
    BY <1>2, <1>9 DEF ClassAggregate, M
  <2> QED BY <1>5, <2>1, <2>2 DEF c, d
<1>10. CASE fn = "AVG" /\ d # <<>>
  <2>1. aggregate(fn, c, d, rows) = Value("float", average(d, rows), <<>>)
    BY <1>10 DEF aggregate
  <2>2. ClassAggregate(fn, S, name) = Value("float", ClassSum(S, name) \div Cardinality(M), <<>>)
    BY <1>2, <1>10 DEF ClassAggregate, M
  <2> QED BY <1>6, <2>1, <2>2 DEF c, d
<1>11. CASE fn \in {"MIN", "MAX"} /\ c = <<>>
  <2>1. aggregate(fn, c, d, rows) = Nil
    BY <1>11 DEF aggregate
  <2>2. ClassAggregate(fn, S, name) = Nil
    BY <1>1, <1>3, <1>11 DEF ClassAggregate, V
  <2> QED BY <2>1, <2>2 DEF c, d
<1>12. CASE fn \in {"MIN", "MAX"} /\ c # <<>>
  <2>1. extreme(-1, c) = Least(V) /\ extreme(1, c) = Greatest(V)
    <3>1. \A x \in V : isValue(x)
      BY <1>4 DEF ClassValues, V, G
    <3>2. SameKind(V) /\ Separated(V)
      BY <1>12 DEF V
    <3>3. Len(c) >= 1
      <4>1. Len(c) # 0
        BY <1>1, <1>12, NothingListed
      <4>2. Len(c) \in Nat
        BY <1>1, SeqIsFcn
      <4> QED BY <4>1, <4>2
    <3> QED BY <1>1, <3>1, <3>2, <3>3, ExtremesOfSet
  <2>2. aggregate(fn, c, d, rows) = IF fn = "MIN" THEN extreme(-1, c) ELSE extreme(1, c)
    BY <1>12 DEF aggregate
  <2>3. ClassAggregate(fn, S, name) = IF fn = "MIN" THEN Least(V) ELSE Greatest(V)
    BY <1>1, <1>3, <1>12 DEF ClassAggregate, V
  <2> QED BY <2>1, <2>2, <2>3 DEF c, d
<1> QED BY <1>7, <1>8, <1>9, <1>10, <1>11, <1>12

-----------------------------------------------------------------------------
(***************************************************************************)
(* A grouped query, from the rows that are selected to its records.        *)
(***************************************************************************)
\* The rows that are grouped list the records that are selected.
LEMMA SelectedListed ==
  ASSUME StoreInv, NEW q \in Queries, NEW indexed \in BOOLEAN, NEW rowsOf \in Inputs(q, indexed),
         NEW f, f = filterRows(q, rowsOf[q.name])
  PROVE  \E h : Lists(h, Selected(q)) /\ [i \in DOMAIN f |-> f[i].sources] = RowsOfList(q, h)
<1> DEFINE R == ChosenRows(q)
           W == {withSources(q, r) : r \in R}
           F == [x \in W |-> [key |-> x.key, data |-> x.data]]
           h == [i \in DOMAIN f |-> F[f[i]]]
           S == Selected(q)
<1>1. Lists(f, W)
  BY FilterKeeps
<1>2. S = {Bare(r) : r \in R} /\ \A r, s \in R : r.key = s.key => r = s
  BY ChosenFacts
<1> HIDE DEF R
<1>3. ASSUME NEW r \in R
      PROVE  /\ withSources(q, r) \in W /\ withSources(q, r).key = r.key /\ withSources(q, r).data = r.data
             /\ withSources(q, r).sources = baseSources(q, r.data)
             /\ F[withSources(q, r)] = Bare(r)
  <2>1. withSources(q, r) \in W
    OBVIOUS
  <2>2. /\ withSources(q, r).key = r.key /\ withSources(q, r).data = r.data
        /\ withSources(q, r).sources = baseSources(q, r.data)
    BY DEF withSources
  <2> HIDE DEF W
  <2> QED BY <2>1, <2>2 DEF Bare
<1>4. \A x, y \in W : F[x] = F[y] => x = y
  <2> SUFFICES ASSUME NEW x \in W, NEW y \in W, F[x] = F[y] PROVE x = y
    OBVIOUS
  <2>1. PICK r \in R : x = withSources(q, r)
    OBVIOUS
  <2>2. PICK s \in R : y = withSources(q, s)
    OBVIOUS
  <2> HIDE DEF F, W
  <2>3. Bare(r) = Bare(s)
    BY <1>3, <2>1, <2>2
  <2>4. r.key = s.key
    BY <2>3 DEF Bare
  <2> QED BY <1>2, <2>1, <2>2, <2>4
<1>5. {F[x] : x \in W} = S
  <2>1. ASSUME NEW x \in W PROVE F[x] \in S
    <3>1. PICK r \in R : x = withSources(q, r)
      OBVIOUS
    <3> HIDE DEF F, W
    <3>2. F[x] = Bare(r)
      BY <1>3, <3>1
    <3> QED BY <1>2, <3>2
  <2>2. \A y \in S : \E x \in W : F[x] = y
    <3> SUFFICES ASSUME NEW y \in S PROVE \E x \in W : F[x] = y
      OBVIOUS
    <3>1. PICK r \in R : y = Bare(r)
      BY <1>2
    <3> HIDE DEF F, W
    <3>2. withSources(q, r) \in W /\ F[withSources(q, r)] = y
      BY <1>3, <3>1
    <3> QED BY <3>2
  <2> HIDE DEF F, W, S
  <2> QED BY <2>1, <2>2
<1>6. \A x \in W : x.sources = baseSources(q, F[x].data)
  <2> SUFFICES ASSUME NEW x \in W PROVE x.sources = baseSources(q, F[x].data)
    OBVIOUS
  <2>1. PICK r \in R : x = withSources(q, r)
    OBVIOUS
  <2> HIDE DEF F, W
  <2>2. F[x] = Bare(r) /\ x.sources = baseSources(q, r.data)
    BY <1>3, <2>1
  <2>3. Bare(r).data = r.data
    BY DEF Bare
  <2> QED BY <2>2, <2>3
<1> HIDE DEF F, W, S
<1>7. Lists(h, S)
  <2>1. Lists(h, {F[x] : x \in W})
    BY <1>1, <1>4, MappedLists
  <2> QED BY <1>5, <2>1
<1>8. \A i \in DOMAIN f : f[i] \in W
  BY <1>1, SeqIsFcn DEF Lists, Range
<1>9. [i \in DOMAIN f |-> f[i].sources] = RowsOfList(q, h)
  BY <1>6, <1>8 DEF RowsOfList
<1> HIDE DEF h
<1> QED BY <1>7, <1>9 DEF S

GroupRecordsOf(q, groups) == [i \in DOMAIN groups |-> Rec(NewKeyWithID(q.name, <<i - 1>>), groups[i].out)]
Projected(q, groups, known) == [i \in DOMAIN groups |-> projectGroup(q, groups[i], known)]

\* What a grouped query that succeeds has found in order, and what it answers.
GroupedAnswer(q, rows, known, records) ==
    /\ \A n \in DOMAIN q.columns :
          q.columns[n].e.k # "aggregate" => \E m \in DOMAIN q.groupBy : q.groupBy[m].text = q.columns[n].e.text
    /\ \A i \in DOMAIN rows, n \in DOMAIN q.groupBy : resolveJoinExpr(q.groupBy[n], rows[i], known).ok
    /\ resolvable(q.columns, partition(q.groupBy, rows, known), known)
    /\ \E less : records = GroupRecordsOf(q, stableSort(Projected(q, partition(q.groupBy, rows, known), known), less))

\* The stages of a grouped query without HAVING, OFFSET and LIMIT.
LEMMA GroupedStages ==
  ASSUME NEW q, q.having = NoCond, q.offset \in Int, q.limit \in Int, q.offset <= 0, q.limit <= 0,
         NEW rows, NEW known, executeGroupedReader(q, rows, known).err = "none"
  PROVE  GroupedAnswer(q, rows, known, executeGroupedReader(q, rows, known).records)
<1> DEFINE names == {q.groupBy[i].text : i \in DOMAIN q.groupBy}
           wrong == \/ \E i \in DOMAIN q.groupBy : ~validSource(q.groupBy[i], known)
                    \/ \E i \in DOMAIN q.columns : q.columns[i].e.k # "aggregate" /\ q.columns[i].e.text \notin names
                    \/ \E i \in DOMAIN rows, n \in DOMAIN q.groupBy : ~resolveJoinExpr(q.groupBy[n], rows[i], known).ok
           G == partition(q.groupBy, rows, known)
           P == Projected(q, G, known)
           less == {p \in Pairs(P) : groupLess(q.orderBy, known, p[1], p[2])}
           T == stableSort(P, less)
           x == executeGroupedReader(q, rows, known)
<1>1. x = IF wrong THEN Failed("invalid") ELSE projectGroups(q, G, known)
  BY Zenon DEF executeGroupedReader
<1>2. Failed("invalid").err # "none"
  BY DEF Failed
<1>3. projectGroups(q, G, known) = IF ~resolvable(q.columns, G, known) THEN Failed("invalid")
                                   ELSE filterGroups(q, P, known)
  BY Zenon DEF projectGroups, mapped, Projected
<1>4. filterGroups(q, P, known) = orderGroups(q, P, known)
  BY DEF filterGroups
<1>5. orderGroups(q, P, known) = IF ~resolvable(q.orderBy, P, known) THEN Failed("invalid")
                                 ELSE groupRecords(q, page(T, q.offset, q.limit))
  BY Zenon DEF orderGroups
<1>6. page(T, q.offset, q.limit) = T
  <2>1. ~(q.offset > 0) /\ ~(q.limit > 0)
    OBVIOUS
  <2> HIDE DEF T
  <2> QED BY <2>1 DEF page, cut
<1>7. groupRecords(q, T).records = GroupRecordsOf(q, T)
  <2> HIDE DEF T
  <2> QED BY DEF groupRecords, Records, GroupRecordsOf
<1>8. ASSUME ~wrong
      PROVE  /\ \A n \in DOMAIN q.columns :
                  q.columns[n].e.k # "aggregate" => \E m \in DOMAIN q.groupBy : q.groupBy[m].text = q.columns[n].e.text
             /\ \A i \in DOMAIN rows, n \in DOMAIN q.groupBy : resolveJoinExpr(q.groupBy[n], rows[i], known).ok
  BY <1>8, Zenon
<1> HIDE DEF wrong, G, P, T, less
<1>9. ~wrong /\ x = projectGroups(q, G, known)
  BY <1>1, <1>2 DEF x
<1>10. resolvable(q.columns, G, known) /\ x = filterGroups(q, P, known)
  BY <1>2, <1>3, <1>9 DEF x
<1>11. x = groupRecords(q, T)
  BY <1>2, <1>4, <1>5, <1>6, <1>10 DEF x
<1>12. \E l : x.records = GroupRecordsOf(q, stableSort(P, l))
  BY <1>7, <1>11 DEF T
<1> QED BY <1>8, <1>9, <1>10, <1>12 DEF GroupedAnswer, G, P, x

\* A grouped query of one collection.
LEMMA GroupedCases ==
  ASSUME NEW q, NEW rowsOf, q.structured, q.joins = <<>>, q.groupBy # <<>>, ExecuteQuery(q, rowsOf).err = "none",
         q.having = NoCond, q.offset \in Int, q.limit \in Int, q.offset <= 0, q.limit <= 0,
         NEW f, f = filterRows(q, rowsOf[q.name]), NEW rows, rows = [i \in DOMAIN f |-> f[i].sources]
  PROVE  \/ rowsOf[q.name] = <<>> /\ ExecuteQuery(q, rowsOf).records = <<>>
         \/ GroupedAnswer(q, rows, Known(q), ExecuteQuery(q, rowsOf).records)
<1> DEFINE wrong == \/ ~validateOrderSources(q.orderBy, Known(q))
                    \/ q.groupBy = <<>> /\ ~validateColumns(q.columns, Known(q))
           a == executeGroupedReader(q, rows, Known(q))
<1>1. ExecuteQuery(q, rowsOf) = IF q.name \in Undefined THEN Failed("undefined")
                                ELSE IF rowsOf[q.name] = <<>> THEN Records(<<>>)
                                ELSE IF wrong THEN Failed("invalid") ELSE singleRecords(q, f, Known(q))
  BY Zenon DEF ExecuteQuery, executeSingle, Known
<1>2. singleRecords(q, f, Known(q)) = a
  BY Zenon DEF singleRecords, mapped
<1>3. Failed("undefined").err # "none" /\ Failed("invalid").err # "none" /\ Records(<<>>).records = <<>>
  BY DEF Failed, Records
<1> HIDE DEF a, wrong
<1>4. \/ rowsOf[q.name] = <<>> /\ ExecuteQuery(q, rowsOf).records = <<>>
      \/ ExecuteQuery(q, rowsOf) = a
  BY <1>1, <1>2, <1>3
<1>5. ASSUME ExecuteQuery(q, rowsOf) = a PROVE GroupedAnswer(q, rows, Known(q), a.records)
  <2>1. executeGroupedReader(q, rows, Known(q)).err = "none"
    BY <1>5 DEF a
  <2> QED BY <2>1, GroupedStages DEF a
<1> QED BY <1>4, <1>5

\* The value of an aggregate that can be evaluated is that of the class.
LEMMA AggregateOfClass ==
  ASSUME NEW q, NEW e, e.k = "aggregate", NEW S, Valued(S), NEW u, Lists(u, S), Len(u) >= 1,
         evalAggregate(e, RowsOfList(q, u), Known(q)).ok,
         e.fn \in {"MIN", "MAX"} => SameKind(ClassValues(S, e.name)) /\ Separated(ClassValues(S, e.name))
  PROVE  evalAggregate(e, RowsOfList(q, u), Known(q)).v = ofClass(e, S)
<1> DEFINE rows == RowsOfList(q, u)
           args == ArgumentsOf(q, e, u)
           vals == presentValues(args)
           x == evalAggregate(e, rows, Known(q))
<1>1. x = IF e.fn = "COUNT" /\ e.name = "*" THEN [ok |-> TRUE, v |-> Value("int", Scale * Len(rows), <<>>)]
          ELSE aggregateOf(e, args, vals)
  BY AggregateUnfolds
<1>2. isSeq(u) /\ Len(u) \in Nat /\ DOMAIN u = 1..Len(u) /\ 1 \in DOMAIN u /\ Cardinality(S) = Len(u)
  BY ListLength, SeqIsFcn DEF Lists
<1>3. ofClass(e, S) = IF e.name = "*" THEN Whole(Cardinality(S)) ELSE ClassAggregate(e.fn, S, e.name)
  BY ReferenceUnfolds
<1>4. CASE e.fn = "COUNT" /\ e.name = "*"
  <2>1. Len(rows) = Len(u)
    <3>1. rows = [i \in DOMAIN u |-> rows[i]]
      BY DEF RowsOfList
    <3> HIDE DEF rows
    <3> QED BY <1>2, <3>1, SameLength
  <2>2. x.v = Value("int", Scale * Len(rows), <<>>)
    <3> HIDE DEF rows, args, vals
    <3> QED BY <1>1, <1>4
  <2> HIDE DEF x, rows
  <2>3. x.v = Whole(Cardinality(S))
    BY <1>2, <2>1, <2>2 DEF Whole
  <2> QED BY <1>3, <1>4, <2>3 DEF x, rows
<1>5. CASE ~(e.fn = "COUNT" /\ e.name = "*")
  <2>1. x = aggregateOf(e, args, vals)
    BY <1>1, <1>5
  <2> DEFINE okay == e.fn \in {"COUNT", "SUM", "AVG", "MIN", "MAX"} /\ \A i \in DOMAIN args : args[i].ok
             numbers == only(vals, {y \in Range(vals) : isNumber(y)})
  <2>2. x = [ok |-> okay, v |-> aggregate(e.fn, vals, numbers, args)]
    BY <2>1, Zenon DEF aggregateOf
  <2>3. x.v = aggregate(e.fn, vals, numbers, args)
    <3> HIDE DEF x, okay, numbers, vals, args
    <3> QED BY <2>2
  <2>4. x.ok = okay
    <3> HIDE DEF x, okay, numbers, vals, args
    <3> QED BY <2>2
  <2>5. okay
    BY <2>4, Zenon
  <2>6. args[1].ok /\ args[1] = resolveJoinExpr(argument(e), baseSources(q, u[1].data), Known(q))
    BY <1>2, <2>5 DEF ArgumentsOf
  <2>7. e.name # "*"
    <3> SUFFICES ASSUME e.name = "*" PROVE FALSE
      OBVIOUS
    <3>1. argument(e) = OtherExpr /\ OtherExpr.k = "other"
      BY DEF argument, OtherExpr, Expr
    <3>2. args[1] = [ok |-> FALSE, present |-> FALSE, v |-> Nil]
      BY <2>6, <3>1 DEF resolveJoinExpr
    <3> HIDE DEF args
    <3> QED BY <2>6, <3>2
  <2>8. e.src \in Known(q)
    <3> DEFINE here == e.src \in Known(q) /\ e.name \in DOMAIN u[1].data
               value == IF e.src \in Known(q) THEN at(u[1].data, e.name) ELSE Nil
    <3>1. args[1] = [ok |-> e.src \in Known(q), present |-> here, v |-> value]
      BY <2>6, <2>7, ArgumentIsField
    <3> HIDE DEF args, here, value
    <3>2. args[1].ok = (e.src \in Known(q))
      BY <3>1
    <3> QED BY <2>6, <3>2, Zenon
  <2>9. PICK v : Lists(v, NonNil(S, e.name)) /\ vals = Column(v, e.name)
    BY <2>7, <2>8, ValuesOfClass
  <2> HIDE DEF vals, args
  <2>10. PICK w : Lists(w, NumberRows(S, e.name)) /\ numbers = Column(w, e.name)
    <3>1. \E w : Lists(w, NumberRows(S, e.name)) /\ only(vals, {y \in Range(vals) : isNumber(y)}) = Column(w, e.name)
      BY <2>9, NumbersOfClass
    <3> QED BY <3>1
  <2> HIDE DEF numbers
  <2>11. aggregate(e.fn, Column(v, e.name), Column(w, e.name), args) = ClassAggregate(e.fn, S, e.name)
    BY <2>5, <2>9, <2>10, AggregateOfValues
  <2> HIDE DEF x
  <2> QED BY <1>3, <2>3, <2>7, <2>9, <2>10, <2>11 DEF x, rows
<1> QED BY <1>4, <1>5

\* An expression that resolves on a row of one collection has the value of the
\* reference.
LEMMA ExprValue ==
  ASSUME NEW q, NEW e, NEW r, resolveJoinExpr(e, baseSources(q, r.data), Known(q)).ok
  PROVE  /\ e.k = "field" \/ e.k = "const"
         /\ resolveJoinExpr(e, baseSources(q, r.data), Known(q)).v = valueOf(e, r)
<1> DEFINE b == baseSources(q, r.data)
           x == resolveJoinExpr(e, b, Known(q))
<1>1. b = [s \in Known(q) |-> r.data]
  BY DEF baseSources, Known
<1> HIDE DEF b
<1>2. DOMAIN b = Known(q) /\ \A s \in Known(q) : b[s] = r.data
  BY <1>1
<1>3. CASE e.k = "field"
  <2> DEFINE here == e.src \in DOMAIN b /\ e.name \in DOMAIN b[e.src]
  <2>1. x = [ok |-> e.src \in Known(q), present |-> here, v |-> lookup(b, e)]
    BY <1>3 DEF resolveJoinExpr
  <2> HIDE DEF x, here
  <2>2. x.ok = (e.src \in Known(q)) /\ x.v = lookup(b, e)
    BY <2>1
  <2>3. x.ok
    BY DEF x, b
  <2>4. e.src \in Known(q)
    BY <2>2, <2>3, Zenon
  <2>5. lookup(b, e) = at(r.data, e.name)
    BY <1>2, <2>4 DEF lookup
  <2>6. valueOf(e, r) = at(r.data, e.name)
    BY <1>3 DEF valueOf
  <2> QED BY <1>3, <2>2, <2>5, <2>6 DEF x, b
<1>4. CASE e.k = "const"
  <2>1. x = [ok |-> TRUE, present |-> TRUE, v |-> e.v]
    BY <1>4 DEF resolveJoinExpr
  <2> QED BY <1>4, <2>1 DEF valueOf, b
<1>5. CASE e.k # "field" /\ e.k # "const"
  <2>1. x = [ok |-> FALSE, present |-> FALSE, v |-> Nil]
    BY <1>5 DEF resolveJoinExpr
  <2> QED BY <2>1 DEF b
<1> QED BY <1>3, <1>4, <1>5

GroupTuple(q, r) == [n \in DOMAIN q.groupBy |-> valueOf(q.groupBy[n], r)]
ClassIn(q, S, key) == {r \in S : KeyIn(q, Known(q), r) = key}

\* The rows are records of the collection on which the grouping values resolve,
\* and these print apart.
Groupable(q, S) ==
    /\ S \subseteq Written(q.name) /\ Valued(S)
    /\ \A r \in S, n \in DOMAIN q.groupBy : resolveJoinExpr(q.groupBy[n], baseSources(q, r.data), Known(q)).ok
    /\ \A n \in DOMAIN q.groupBy : q.groupBy[n].k = "field" => PrintedApart(q.name, q.groupBy[n].name)

\* Rows have one key exactly when they have one tuple of grouping values.
LEMMA KeysAreTuples ==
  ASSUME NEW q, NEW S, Groupable(q, S), NEW r \in S, NEW s \in S
  PROVE  KeyIn(q, Known(q), r) = KeyIn(q, Known(q), s) <=> GroupTuple(q, r) = GroupTuple(q, s)
<1> DEFINE D == DOMAIN q.groupBy
           e(n) == q.groupBy[n]
           part(n, x) == <<valueOf(e(n), x).t, Text(valueOf(e(n), x))>>
           K(x) == KeyIn(q, Known(q), x)
<1>1. ASSUME NEW x \in S PROVE K(x) = [n \in D |-> part(n, x)]
  <2> DEFINE val(n) == resolveJoinExpr(q.groupBy[n], baseSources(q, x.data), Known(q)).v
  <2>1. K(x) = [n \in D |-> <<val(n).t, Text(val(n))>>]
    BY Zenon DEF KeyIn, groupKey
  <2>2. \A n \in D : val(n) = valueOf(q.groupBy[n], x)
    BY ExprValue DEF Groupable
  <2> HIDE DEF val, K
  <2> QED BY <2>1, <2>2
<1>2. ASSUME NEW n \in D, part(n, r) = part(n, s) PROVE valueOf(e(n), r) = valueOf(e(n), s)
  <2>1. e(n).k = "field" \/ e(n).k = "const"
    BY ExprValue DEF Groupable
  <2>2. CASE e(n).k = "const"
    BY <2>2 DEF valueOf
  <2>3. CASE e(n).k = "field"
    <3> DEFINE v == at(r.data, e(n).name)
               w == at(s.data, e(n).name)
    <3>1. valueOf(e(n), r) = v /\ valueOf(e(n), s) = w
      BY <2>3 DEF valueOf
    <3>2. PrintedApart(q.name, e(n).name) /\ r \in Written(q.name) /\ s \in Written(q.name)
      BY <2>3 DEF Groupable
    <3>3. v.t = w.t /\ Text(v) = Text(w) => v = w
      BY <3>2, Zenon DEF PrintedApart
    <3> HIDE DEF v, w
    <3>4. v.t = w.t /\ Text(v) = Text(w)
      BY <1>2, <3>1
    <3> QED BY <3>1, <3>3, <3>4
  <2> QED BY <2>1, <2>2, <2>3
<1>3. ASSUME K(r) = K(s) PROVE GroupTuple(q, r) = GroupTuple(q, s)
  <2>1. [n \in D |-> part(n, r)] = [n \in D |-> part(n, s)]
    BY <1>1, <1>3
  <2>2. ASSUME NEW n \in D PROVE part(n, r) = part(n, s)
    <3> HIDE DEF part
    <3>1. [m \in D |-> part(m, r)][n] = part(n, r) /\ [m \in D |-> part(m, s)][n] = part(n, s)
      OBVIOUS
    <3> QED BY <2>1, <3>1
  <2>3. \A n \in D : valueOf(q.groupBy[n], r) = valueOf(q.groupBy[n], s)
    BY <1>2, <2>2
  <2> QED BY <2>3 DEF GroupTuple
<1>4. ASSUME GroupTuple(q, r) = GroupTuple(q, s) PROVE K(r) = K(s)
  <2>1. ASSUME NEW n \in D PROVE valueOf(e(n), r) = valueOf(e(n), s)
    <3>1. GroupTuple(q, r)[n] = valueOf(e(n), r) /\ GroupTuple(q, s)[n] = valueOf(e(n), s)
      BY DEF GroupTuple
    <3> QED BY <1>4, <3>1
  <2>2. \A n \in D : part(n, r) = part(n, s)
    BY <2>1
  <2> HIDE DEF part, K
  <2> QED BY <1>1, <2>2
<1> QED BY <1>3, <1>4

\* The values of a field in some of the rows are of one kind and told apart when
\* those in all rows are.
LEMMA ClassOrdered ==
  ASSUME NEW coll, NEW S, S \subseteq Written(coll), NEW name, alike(name, NonNil(S, name)), OrderedApart(coll, name),
         NEW C, C \subseteq S
  PROVE  SameKind(ClassValues(C, name)) /\ Separated(ClassValues(C, name))
<1> DEFINE V == ClassValues(C, name)
<1>1. \A v \in V : \E r \in NonNil(S, name) : v = at(r.data, name) /\ r \in Written(coll)
  <2> SUFFICES ASSUME NEW v \in V PROVE \E r \in NonNil(S, name) : v = at(r.data, name) /\ r \in Written(coll)
    OBVIOUS
  <2>1. PICK r \in NonNil(C, name) : v = r.data[name]
    BY DEF ClassValues
  <2>2. r \in C /\ at(r.data, name) # Nil
    BY DEF NonNil
  <2>3. at(r.data, name) = r.data[name]
    BY <2>2 DEF at
  <2>4. r \in NonNil(S, name) /\ r \in Written(coll)
    BY <2>2 DEF NonNil
  <2> QED BY <2>1, <2>3, <2>4
<1> HIDE DEF V
<1>2. SameKind(V)
  <2>1. \/ \A r \in NonNil(S, name) : isNumber(at(r.data, name))
        \/ \A r \in NonNil(S, name) : ~isNumber(at(r.data, name))
    BY DEF alike
  <2> QED BY <1>1, <2>1 DEF SameKind
<1>3. Separated(V)
  <2> SUFFICES ASSUME NEW v \in V, NEW w \in V, ~smaller(v, w), ~smaller(w, v) PROVE v = w
    BY DEF Separated
  <2>1. PICK r \in Written(coll) : v = at(r.data, name)
    BY <1>1
  <2>2. PICK s \in Written(coll) : w = at(s.data, name)
    BY <1>1
  <2>3. isNumber(v) <=> isNumber(w)
    BY <1>2 DEF SameKind
  <2>4. (isNumber(v) <=> isNumber(w)) /\ ~smaller(v, w) /\ ~smaller(w, v) => v = w
    BY <2>1, <2>2, Zenon DEF OrderedApart
  <2> QED BY <2>3, <2>4
<1> QED BY <1>2, <1>3 DEF V

\* What a column of a grouped query needs: a grouping field, or values of which
\* the order finds one least and one greatest.
Readable(q, S, e) ==
    /\ e.k # "aggregate" => IsGrouping(q, e) /\ \E m \in DOMAIN q.groupBy : q.groupBy[m].text = e.text
    /\ alike(e.name, NonNil(S, e.name))
    /\ e.k = "aggregate" /\ e.fn \in {"MIN", "MAX"} => OrderedApart(q.name, e.name)

\* The value of a column for a group is its value for the class.
LEMMA GroupValue ==
  ASSUME NEW q, NEW S, Groupable(q, S), NEW g, GroupOf(q, Known(q), S, g), NEW e, Readable(q, S, e),
         resolveGroupValue(e, g, Known(q)).ok
  PROVE  resolveGroupValue(e, g, Known(q)).v = ofClass(e, ClassIn(q, S, g.key))
<1> DEFINE C == ClassIn(q, S, g.key)
           x == resolveGroupValue(e, g, Known(q))
<1>1. PICK u : /\ Lists(u, C) /\ Len(u) >= 1 /\ g.rows = RowsOfList(q, u)
  BY DEF GroupOf, ClassIn, RowsOfList
<1>2. g.out = NoData
  BY DEF GroupOf
<1>3. C \subseteq S /\ \A r \in C : KeyIn(q, Known(q), r) = g.key
  BY DEF ClassIn
<1>4. isSeq(u) /\ 1 \in DOMAIN u /\ u[1] \in C
  BY <1>1, SeqIsFcn DEF Lists, Range
<1> HIDE DEF C
<1>5. CASE e.k = "aggregate"
  <2>1. x = evalAggregate(e, g.rows, Known(q))
    BY <1>5 DEF resolveGroupValue
  <2>2. Valued(C)
    BY <1>3 DEF Groupable, Valued
  <2>3. e.fn \in {"MIN", "MAX"} => SameKind(ClassValues(C, e.name)) /\ Separated(ClassValues(C, e.name))
    <3>1. S \subseteq Written(q.name) /\ alike(e.name, NonNil(S, e.name))
      BY DEF Groupable, Readable
    <3>2. e.fn \in {"MIN", "MAX"} => OrderedApart(q.name, e.name)
      BY <1>5 DEF Readable
    <3> QED BY <1>3, <3>1, <3>2, ClassOrdered
  <2>4. evalAggregate(e, RowsOfList(q, u), Known(q)).ok
    BY <1>1, <2>1
  <2>5. evalAggregate(e, RowsOfList(q, u), Known(q)).v = ofClass(e, C)
    BY <1>1, <1>5, <2>2, <2>3, <2>4, AggregateOfClass
  <2> QED BY <1>1, <2>1, <2>5 DEF C
<1>6. CASE e.k # "aggregate"
  <2>1. IsGrouping(q, e) /\ e.k = "field"
    BY <1>6 DEF Readable, IsGrouping
  <2>2. PICK m \in DOMAIN q.groupBy : q.groupBy[m].text = e.text
    BY <1>6 DEF Readable
  <2>3. q.groupBy[m].k = "field" /\ q.groupBy[m].name = e.name
    BY <2>1, <2>2 DEF IsGrouping
  <2> DEFINE y == resolveJoinExpr(e, g.rows[1], Known(q))
  <2>4. DOMAIN g.out = {}
    BY <1>2 DEF NoData
  <2>5. x = [ok |-> y.ok, v |-> y.v]
    <3>1. x = IF e.src = "" /\ e.name \in DOMAIN g.out THEN [ok |-> TRUE, v |-> g.out[e.name]]
              ELSE [ok |-> y.ok, v |-> y.v]
      <4>1. e.k # "aggregate" /\ e.k # "const" /\ e.k = "field"
        BY <2>1
      <4> QED BY <4>1 DEF resolveGroupValue
    <3> HIDE DEF y, x
    <3> QED BY <2>4, <3>1
  <2>6. x.v = y.v /\ x.ok = y.ok
    <3> HIDE DEF y, x
    <3> QED BY <2>5
  <2>7. y.ok
    BY <2>6
  <2>8. g.rows[1] = baseSources(q, u[1].data)
    BY <1>1, <1>4 DEF RowsOfList
  <2>9. y.v = valueOf(e, u[1])
    BY <2>7, <2>8, ExprValue
  <2> DEFINE c == CHOOSE r \in C : TRUE
  <2>10. c \in C
    BY <1>4
  <2> HIDE DEF c
  <2>11. GroupTuple(q, c) = GroupTuple(q, u[1])
    BY <1>3, <1>4, <2>10, KeysAreTuples
  <2>12. valueOf(q.groupBy[m], c) = valueOf(q.groupBy[m], u[1])
    <3>1. \A r : GroupTuple(q, r)[m] = valueOf(q.groupBy[m], r)
      BY DEF GroupTuple
    <3> QED BY <2>11, <3>1
  <2>13. \A r : valueOf(q.groupBy[m], r) = valueOf(e, r)
    BY <2>1, <2>3 DEF valueOf
  <2>14. ofClass(e, C) = valueOf(e, c)
    BY <1>6, ReferenceUnfolds DEF c
  <2> HIDE DEF x, y
  <2>15. x.v = ofClass(e, C)
    BY <2>6, <2>9, <2>12, <2>13, <2>14
  <2> QED BY <2>15 DEF x, C
<1> QED BY <1>5, <1>6

LastNamed(columns, name) ==
    CHOOSE i \in {j \in DOMAIN columns : columnOutKey(columns[j]) = name} :
        \A k \in {j \in DOMAIN columns : columnOutKey(columns[j]) = name} : k <= i
OutNames(columns) == {columnOutKey(columns[i]) : i \in DOMAIN columns}

\* A name of the output has a last column.
LEMMA LastColumn ==
  ASSUME NEW columns, isSeq(columns), NEW name \in OutNames(columns)
  PROVE  LastNamed(columns, name) \in DOMAIN columns
<1> DEFINE A == {j \in DOMAIN columns : columnOutKey(columns[j]) = name}
           n == Len(columns)
<1>1. n \in Nat /\ DOMAIN columns = 1..n
  BY SeqIsFcn
<1>2. A # {}
  BY DEF OutNames
<1>3. A \subseteq 1..n
  BY <1>1
<1> HIDE DEF A, n
<1>4. A \in SUBSET (0..n)
  BY <1>1, <1>3
<1>5. Max(A) \in A /\ \A k \in A : k <= Max(A)
  BY <1>1, <1>2, <1>4, GreatestElement
<1>6. \E i \in A : \A k \in A : k <= i
  BY <1>5
<1>7. LastNamed(columns, name) = CHOOSE i \in A : \A k \in A : k <= i
  BY DEF LastNamed, A
<1>8. LastNamed(columns, name) \in A
  BY <1>6, <1>7
<1> QED BY <1>8 DEF A

NamedClass(q, C) == named(q.columns, LAMBDA e : ofClass(e, C))
NamedGroup(q, g) == named(q.columns, LAMBDA e : resolveGroupValue(e, g, Known(q)).v)

\* The output of a group is that of its class.
LEMMA GroupOutput ==
  ASSUME NEW q, isSeq(q.columns), NEW S, Groupable(q, S), NEW g, GroupOf(q, Known(q), S, g),
         \A n \in DOMAIN q.columns : Readable(q, S, q.columns[n].e),
         \A n \in DOMAIN q.columns : resolveGroupValue(q.columns[n].e, g, Known(q)).ok
  PROVE  NamedGroup(q, g) = NamedClass(q, ClassIn(q, S, g.key))
<1> DEFINE cols == q.columns
           C == ClassIn(q, S, g.key)
<1>1. NamedGroup(q, g)
      = [name \in OutNames(cols) |-> resolveGroupValue(cols[LastNamed(cols, name)].e, g, Known(q)).v]
  BY Zenon DEF NamedGroup, named, OutNames, LastNamed
<1>2. NamedClass(q, C) = [name \in OutNames(cols) |-> ofClass(cols[LastNamed(cols, name)].e, C)]
  BY Zenon DEF NamedClass, named, OutNames, LastNamed
<1>3. ASSUME NEW name \in OutNames(cols)
      PROVE  resolveGroupValue(cols[LastNamed(cols, name)].e, g, Known(q)).v = ofClass(cols[LastNamed(cols, name)].e, C)
  <2>1. LastNamed(cols, name) \in DOMAIN cols
    BY LastColumn
  <2> QED BY <2>1, GroupValue
<1> HIDE DEF C, cols
<1>4. NamedGroup(q, g) = NamedClass(q, C)
  BY <1>1, <1>2, <1>3
<1> QED BY <1>4 DEF C

\* The group with its output has that output.
LEMMA ProjectedOut ==
  ASSUME NEW q, NEW S, NEW g, GroupOf(q, Known(q), S, g)
  PROVE  projectGroup(q, g, Known(q)).out = NamedGroup(q, g)
<1> DEFINE o == NamedGroup(q, g)
<1>1. projectGroup(q, g, Known(q)) = [g EXCEPT !.out = o]
  BY Zenon DEF projectGroup, NamedGroup
<1>2. g = [key |-> g.key, rows |-> g.rows, out |-> NoData]
  BY DEF GroupOf
<1> HIDE DEF o
<1>3. [g EXCEPT !.out = o].out = o
  BY <1>2
<1> QED BY <1>1, <1>3 DEF o


TupleClasses(q, S) == {{r \in S : GroupTuple(q, r) = GroupTuple(q, s)} : s \in S}

\* The classes of the reference are those of the groups, each of one group.
LEMMA ClassesOfGroups ==
  ASSUME NEW q, NEW S, Groupable(q, S), NEW G, Groups(q, Known(q), S, G)
  PROVE  Lists([i \in DOMAIN G |-> ClassIn(q, S, G[i].key)], TupleClasses(q, S))
<1> DEFINE n == Len(G)
           K(r) == KeyIn(q, Known(q), r)
           c == [i \in DOMAIN G |-> ClassIn(q, S, G[i].key)]
           same(s) == {r \in S : GroupTuple(q, r) = GroupTuple(q, s)}
<1>1. /\ isSeq(G) /\ n \in Nat /\ DOMAIN G = 1..n /\ (\A i, j \in 1..n : G[i].key = G[j].key => i = j)
      /\ (\A s \in S : \E i \in 1..n : G[i].key = K(s))
      /\ \A i \in 1..n : GroupOf(q, Known(q), S, G[i])
  BY SeqIsFcn DEF Groups
<1>2. isSeq(c) /\ Len(c) = n
  <2>1. c = [i \in DOMAIN G |-> c[i]]
    OBVIOUS
  <2> HIDE DEF c
  <2> QED BY <1>1, <2>1, SameLength
<1>3. \A i \in 1..n : c[i] = ClassIn(q, S, G[i].key)
  BY <1>1
<1>4. DOMAIN c = 1..n
  BY <1>1
<1> HIDE DEF c, n
<1>5. ASSUME NEW s \in S PROVE same(s) = ClassIn(q, S, K(s))
  <2>1. \A r \in S : GroupTuple(q, r) = GroupTuple(q, s) <=> K(r) = K(s)
    BY KeysAreTuples
  <2> QED BY <2>1 DEF ClassIn
<1>6. ASSUME NEW i \in 1..n PROVE \E s \in S : K(s) = G[i].key
  <2>1. PICK u : Lists(u, ClassIn(q, S, G[i].key)) /\ Len(u) >= 1
    BY <1>1 DEF GroupOf, ClassIn
  <2>2. u[1] \in ClassIn(q, S, G[i].key)
    BY <2>1, SeqIsFcn DEF Lists, Range
  <2> QED BY <2>2 DEF ClassIn
<1> HIDE DEF K, same
<1>7. \A i \in 1..n : c[i] \in {same(s) : s \in S}
  <2> SUFFICES ASSUME NEW i \in 1..n PROVE c[i] \in {same(s) : s \in S}
    OBVIOUS
  <2>1. PICK s \in S : K(s) = G[i].key
    BY <1>6
  <2>2. c[i] = same(s)
    BY <1>3, <1>5, <2>1
  <2> QED BY <2>2
<1>8. \A s \in S : \E i \in 1..n : c[i] = same(s)
  <2> SUFFICES ASSUME NEW s \in S PROVE \E i \in 1..n : c[i] = same(s)
    OBVIOUS
  <2>1. PICK i \in 1..n : G[i].key = K(s)
    BY <1>1
  <2> QED BY <1>3, <1>5, <2>1
<1>9. Range(c) = {same(s) : s \in S}
  BY <1>4, <1>7, <1>8 DEF Range
<1>10. \A i, j \in 1..n : c[i] = c[j] => i = j
  <2> SUFFICES ASSUME NEW i \in 1..n, NEW j \in 1..n, c[i] = c[j] PROVE i = j
    OBVIOUS
  <2>1. PICK s \in S : K(s) = G[i].key
    BY <1>6
  <2>2. s \in c[j]
    BY <1>3, <2>1 DEF ClassIn, K
  <2>3. K(s) = G[j].key
    BY <1>3, <2>2 DEF ClassIn, K
  <2> QED BY <1>1, <2>1, <2>3
<1>11. TupleClasses(q, S) = {same(s) : s \in S}
  BY DEF TupleClasses, same
<1>12. Lists(c, TupleClasses(q, S))
  <2> HIDE DEF TupleClasses
  <2> QED BY <1>2, <1>9, <1>10, <1>11 DEF Lists
<1> QED BY <1>12 DEF c

\* The records are those of the classes.
OfClasses(q, S, records) ==
    /\ Len(records) = Cardinality(TupleClasses(q, S))
    /\ {records[i].data : i \in DOMAIN records} = {NamedClass(q, C) : C \in TupleClasses(q, S)}

\* A grouped query answers one record for each class.
LEMMA RecordsOfClasses ==
  ASSUME NEW q, isSeq(q.columns), NEW S, Groupable(q, S), NEW h, Lists(h, S),
         \A n \in DOMAIN q.columns : Readable(q, S, q.columns[n].e),
         NEW records, GroupedAnswer(q, RowsOfList(q, h), Known(q), records)
  PROVE  OfClasses(q, S, records)
<1> DEFINE G == partition(q.groupBy, RowsOfList(q, h), Known(q))
           P == Projected(q, G, Known(q))
           n == Len(G)
           class(i) == ClassIn(q, S, G[i].key)
<1>1. Groups(q, Known(q), S, G)
  BY PartitionGroups DEF RowsOfList
<1>2. isSeq(G) /\ n \in Nat /\ DOMAIN G = 1..n /\ \A i \in 1..n : GroupOf(q, Known(q), S, G[i])
  BY <1>1, SeqIsFcn DEF Groups
<1>3. resolvable(q.columns, G, Known(q))
  BY DEF GroupedAnswer
<1>4. PICK less : records = GroupRecordsOf(q, stableSort(P, less))
  BY DEF GroupedAnswer
<1> HIDE DEF G
<1>5. isSeq(P) /\ Len(P) = n /\ \A i \in 1..n : P[i] = projectGroup(q, G[i], Known(q))
  <2>1. P = [i \in DOMAIN G |-> P[i]] /\ \A i \in 1..n : P[i] = projectGroup(q, G[i], Known(q))
    BY <1>2 DEF Projected
  <2> HIDE DEF P
  <2> QED BY <1>2, <2>1, SameLength
<1> HIDE DEF n, P
<1>6. ASSUME NEW i \in 1..n PROVE P[i].out = NamedClass(q, class(i))
  <2>1. \A m \in DOMAIN q.columns : resolveGroupValue(q.columns[m].e, G[i], Known(q)).ok
    BY <1>2, <1>3 DEF resolvable
  <2>2. NamedGroup(q, G[i]) = NamedClass(q, class(i))
    BY <1>2, <2>1, GroupOutput
  <2>3. projectGroup(q, G[i], Known(q)).out = NamedGroup(q, G[i])
    BY <1>2, ProjectedOut
  <2> QED BY <1>5, <2>2, <2>3
<1> DEFINE T == stableSort(P, less)
<1>7. PICK p : Permutes(p, n) /\ \A i \in 1..n : T[i] = P[p[i]]
  <2>1. P \in Seq(Range(P))
    BY <1>5 DEF isSeq
  <2> QED BY <1>5, <2>1, SortPermutes
<1>8. isSeq(T) /\ Len(T) = n /\ DOMAIN T = 1..n
  BY <1>5, SortedIsSeq, SeqIsFcn
<1> HIDE DEF T
<1>9. isSeq(records) /\ Len(records) = n /\ DOMAIN records = 1..n /\ \A i \in 1..n : records[i].data = T[i].out
  <2>1. records = [i \in DOMAIN T |-> Rec(NewKeyWithID(q.name, <<i - 1>>), T[i].out)]
    BY <1>4 DEF GroupRecordsOf, T
  <2>2. records = [i \in DOMAIN T |-> records[i]]
    BY <2>1
  <2>3. \A i \in 1..n : records[i].data = T[i].out
    BY <1>8, <2>1 DEF Rec
  <2>4. isSeq(records) /\ Len(records) = Len(T) /\ DOMAIN records = DOMAIN T
    BY <1>8, <2>2, SameLength
  <2> QED BY <1>8, <2>3, <2>4
<1>10. p \in [1..n -> 1..n] /\ \A k \in 1..n : \E i \in 1..n : p[i] = k
  BY <1>7 DEF Permutes
<1>11. \A i \in 1..n : p[i] \in 1..n /\ records[i].data = NamedClass(q, class(p[i]))
  <2> SUFFICES ASSUME NEW i \in 1..n PROVE p[i] \in 1..n /\ records[i].data = NamedClass(q, class(p[i]))
    OBVIOUS
  <2>1. p[i] \in 1..n
    BY <1>10
  <2>2. records[i].data = P[p[i]].out
    BY <1>7, <1>9
  <2> QED BY <1>6, <2>1, <2>2
<1> DEFINE c == [i \in DOMAIN G |-> ClassIn(q, S, G[i].key)]
<1>12. Lists(c, TupleClasses(q, S))
  BY <1>1, ClassesOfGroups
<1>13. DOMAIN c = 1..n /\ \A i \in 1..n : c[i] = class(i)
  BY <1>2
<1>14. Len(c) = n
  <2>1. c = [i \in DOMAIN G |-> c[i]]
    OBVIOUS
  <2> HIDE DEF c
  <2> QED BY <1>2, <2>1, SameLength DEF n
<1> HIDE DEF c
<1>15. TupleClasses(q, S) = {c[i] : i \in 1..n} /\ Cardinality(TupleClasses(q, S)) = n
  BY <1>12, <1>13, <1>14, ListLength DEF Lists, Range
<1> HIDE DEF class
<1>16. \A i \in 1..n : records[i].data \in {NamedClass(q, C) : C \in TupleClasses(q, S)}
  BY <1>11, <1>13, <1>15
<1>17. \A C \in TupleClasses(q, S) : \E i \in 1..n : records[i].data = NamedClass(q, C)
  <2> SUFFICES ASSUME NEW C \in TupleClasses(q, S) PROVE \E i \in 1..n : records[i].data = NamedClass(q, C)
    OBVIOUS
  <2>1. PICK k \in 1..n : C = c[k]
    BY <1>15
  <2>2. PICK i \in 1..n : p[i] = k
    BY <1>10
  <2> QED BY <1>11, <1>13, <2>1, <2>2
<1>18. {records[i].data : i \in DOMAIN records} = {NamedClass(q, C) : C \in TupleClasses(q, S)}
  BY <1>9, <1>16, <1>17
<1> QED BY <1>9, <1>15, <1>18 DEF OfClasses

-----------------------------------------------------------------------------
(***************************************************************************)
(* The theorems.                                                           *)
(***************************************************************************)
SessionInv == StoreInv /\ AnswerInv /\ ReaderInv /\ AllRead

\* The inductive invariant of a session: the store holds records under the ids of
\* their keys, the answer is that of its query on what is stored, the reader holds
\* the answer until it is closed, and what was read of it is a part of it.
THEOREM SessionInvariant == Spec => []SessionInv
<1>1. Init => SessionInv
  BY StoreInvInit, AnswerInvInit, ReaderInvInit DEF SessionInv
<1>2. SessionInv /\ [Next]_vars => SessionInv'
  BY StoreInvStep, AnswerInvStep, ReaderInvStep DEF SessionInv
<1> QED BY <1>1, <1>2, PTL DEF Spec

\* For ids that print as one segment of a path, no write or deletion under one key
\* touches what a key that prints otherwise holds, and what is stored is what was
\* written last, path by path (Set, Delete and keyID).
THEOREM KeysStaySeparate == Spec => [](OneSegmentIDs => KeysSeparate)
<1>1. Init => (OneSegmentIDs => KeysSeparate)
  <2>1. Init => DOMAIN written = {} /\ \A c \in Collections : DOMAIN stored[c] = {}
    BY DEF Init
  <2> QED BY <2>1 DEF KeysSeparate
<1>2. SessionInv /\ (OneSegmentIDs => KeysSeparate) /\ [Next]_vars => (OneSegmentIDs => KeysSeparate)'
  BY KeysSeparateStep DEF SessionInv, OneSegmentIDs
<1> QED BY <1>1, <1>2, SessionInvariant, PTL DEF Spec

\* In every state, the answer to a grouped query is the page its LIMIT and OFFSET
\* ask for of its answer without them, and the answer to a query that does not
\* group is the page of its LIMIT from the first row on, whatever its OFFSET (page,
\* cut, executeGroupedReader and both executors).
THEOREM AnswersArePages == Spec => []PagesAreSlices
<1>1. SessionInv => PagesAreSlices
  <2> SUFFICES ASSUME SessionInv, asked PROVE PagesAreSlices
    BY DEF PagesAreSlices
  <2> DEFINE s == answer.records
             u == answer.unpaged
             all == dataOf(u)
             from == IF q_.groupBy # <<>> /\ q_.offset > 0 THEN q_.offset ELSE 0
             to == IF q_.limit > 0 THEN from + q_.limit ELSE Len(all)
             inPage == {i \in DOMAIN all : from < i /\ i <= to}
             l == last_(u, Skipped(q_), q_.limit)
  <2>1. answer # NoAnswer /\ answer.err = "none"
    BY DEF asked, NoAnswer, q_
  <2>2. /\ isSeq(s) /\ isSeq(u)
        /\ Len(s) = IF from_(Skipped(q_)) < l THEN l - from_(Skipped(q_)) ELSE 0
        /\ \A i \in 1..Len(s) : s[i].data = u[from_(Skipped(q_)) + i].data
    <3>1. SliceOf(answer, [records |-> u], Skipped(q_), q_.limit)
      BY <2>1, AnswerFacts DEF SessionInv, q_
    <3> QED BY <2>1, <3>1 DEF SliceOf
  <2>3. q_.offset \in Int /\ q_.limit \in Int
    <3>1. \E q \in Queries : answer.q = q
      BY <2>1 DEF SessionInv, AnswerInv, AnswerOf
    <3> QED BY <3>1, QueryAssumption DEF q_
  <2>4. from_(Skipped(q_)) = from /\ from \in Nat
    BY <2>3 DEF from_, Skipped
  <2>5. isSeq(all) /\ Len(all) = Len(u) /\ DOMAIN all = 1..Len(u) /\ Len(u) \in Nat
        /\ \A i \in 1..Len(u) : all[i] = u[i].data
    <3>1. all = [i \in DOMAIN u |-> u[i].data]
      BY DEF dataOf
    <3>2. DOMAIN u = 1..Len(u) /\ Len(u) \in Nat
      BY <2>2, SeqIsFcn
    <3>3. all = [i \in DOMAIN u |-> all[i]]
      BY <3>1
    <3> HIDE DEF all
    <3> QED BY <2>2, <3>1, <3>2, <3>3, SameLength
  <2>6. l = IF to < Len(u) THEN to ELSE Len(u)
    BY <2>4, <2>5 DEF last_, to_
  <2> HIDE DEF from, all
  <2>7. to \in Int /\ l \in Int /\ l <= Len(u)
    BY <2>3, <2>4, <2>5, <2>6
  <2>8. inPage = (from + 1)..l
    BY <2>3, <2>4, <2>5, <2>6
  <2>9. Cardinality(inPage) = Len(s)
    <3>1. from + 1 \in Int /\ l \in Int
      BY <2>4, <2>7
    <3> HIDE DEF l, inPage, s
    <3>2. Cardinality((from + 1)..l) = IF from + 1 > l THEN 0 ELSE l - (from + 1) + 1
      BY <3>1, FS_Interval, Zenon
    <3>3. Len(s) = IF from + 1 > l THEN 0 ELSE l - (from + 1) + 1
      BY <2>2, <2>4, <2>7
    <3> QED BY <3>2, <3>3, <2>8
  <2>10. ASSUME NEW i \in DOMAIN s PROVE s[i].data = all[from + i]
    <3>1. i \in 1..Len(s) /\ Len(s) \in Nat
      BY <2>2, SeqIsFcn
    <3>2. s[i].data = u[from + i].data
      BY <3>1, <2>2, <2>4
    <3>3. from + i \in 1..Len(u)
      <4> HIDE DEF l, s, u
      <4> QED BY <3>1, <2>2, <2>4, <2>7
    <3> QED BY <3>2, <3>3, <2>5
  <2>11. Len(s) = Cardinality(inPage) /\ \A i \in DOMAIN s : s[i].data = all[from + i]
    BY <2>9, <2>10
  <2> QED BY <2>11 DEF PagesAreSlices, from, all
<1> QED BY <1>1, SessionInvariant, PTL

\* A cell of a pivoted answer is the value of its record, or nil: no absent value
\* is read as the zero of its column's type (inferColumn, buildRecordset).
THEOREM PivotsAgree == Spec => []PivotAgrees
<1>1. SessionInv => PivotAgrees
  <2> SUFFICES ASSUME SessionInv, NEW n \in DOMAIN answer.pivot,
                      \A m \in 1..(n - 1) : answer.pivot[m].name # answer.pivot[n].name,
                      NEW i \in DOMAIN answer.records
               PROVE  answer.pivot[n].cells[i] = at(recordToMap(answer.records[i]), answer.pivot[n].name)
    BY DEF PivotAgrees
  <2> DEFINE rows == [j \in DOMAIN answer.records |-> recordToMap(answer.records[j])]
             names == recordsetColumnNames(answer.q, rows)
  <2>1. answer.pivot # <<>> /\ answer # NoAnswer
    <3>1. DOMAIN <<>> = {}
      BY EmptySeq
    <3> QED BY <3>1 DEF NoAnswer
  <2>2. PICK q \in Queries, indexed \in BOOLEAN, how \in {"records", "recordset"} :
          \E rowsOf \in Inputs(q, indexed) : AnswerOf(q, how, rowsOf)
    BY <2>1 DEF SessionInv, AnswerInv
  <2>3. PICK rowsOf \in Inputs(q, indexed) : AnswerOf(q, how, rowsOf)
    BY <2>2
  <2>4. /\ answer.q = q /\ answer.records = ExecuteQuery(q, rowsOf).records
        /\ answer.pivot = buildRecordset(answer.q, answer.records)
    BY <2>1, <2>3 DEF AnswerOf
  <2>5. answer.pivot = pivot(names, rows)
    BY <2>4, Zenon DEF buildRecordset, mapped
  <2>6. isSeq(answer.records) /\ DOMAIN answer.records = 1..Len(answer.records)
    BY AnswerFacts, SeqIsFcn DEF SessionInv
  <2>7. isSeq(rows) /\ Len(rows) = Len(answer.records)
    <3>1. rows = [j \in DOMAIN answer.records |-> rows[j]]
      OBVIOUS
    <3> HIDE DEF rows
    <3> QED BY <2>6, <3>1, SameLength
  <2>8. q.columns = <<>> => \A j \in 1..Len(rows) : IsFiniteSet(DOMAIN rows[j])
    <3>1. SUFFICES ASSUME q.columns = <<>>, NEW j \in 1..Len(rows) PROVE IsFiniteSet(DOMAIN rows[j])
      OBVIOUS
    <3>2. FewFields(answer.records)
      BY <2>4, <3>1, QueryFewFields DEF SessionInv
    <3>3. j \in DOMAIN answer.records /\ j \in 1..Len(answer.records)
      BY <2>6, <2>7, <3>1
    <3> QED BY <3>2, <3>3 DEF FewFields
  <2>9. isSeq(names)
    <3>1. isSeq(q.columns)
      BY QueryAssumption
    <3> HIDE DEF rows
    <3> QED BY <2>4, <2>7, <2>8, <3>1, ColumnNamesAreList
  <2> HIDE DEF names
  <2>10. n \in DOMAIN names /\ DOMAIN names = 1..Len(names) /\ Len(names) \in Nat
    BY <2>5, <2>9, SeqIsFcn DEF pivot
  <2>11. \A m \in DOMAIN names : answer.pivot[m].name = names[m]
    BY <2>5 DEF pivot, pivotColumn
  <2>12. \A m \in 1..(n - 1) : m \in DOMAIN names
    BY <2>10
  <2>13. \A m \in 1..(n - 1) : names[m] # names[n]
    BY <2>10, <2>11, <2>12
  <2>14. i \in DOMAIN rows
    OBVIOUS
  <2>15. pivot(names, rows)[n].name = names[n] /\ pivot(names, rows)[n].cells[i] = at(rows[i], names[n])
    <3> HIDE DEF rows
    <3> QED BY <2>9, <2>10, <2>13, <2>14, CellsAgree
  <2> QED BY <2>5, <2>15
<1> QED BY <1>1, SessionInvariant, PTL

\* What a reading returns is the page of the answer that it asks for (SelectAll,
\* recordsReader).
THEOREM ReadingsArePages == Spec => []ReadingIsPage
<1>1. SessionInv => ReadingIsPage
  <2> SUFFICES ASSUME SessionInv PROVE ReadingIsPage
    OBVIOUS
  <2> DEFINE o == got.options
             wanted == answer.records
             from == IF o.offset > 0 THEN o.offset ELSE 0
             to == IF o.limit > 0 THEN from + o.limit ELSE Len(wanted)
             inPage == SubSeq(wanted, from + 1, IF to < Len(wanted) THEN to ELSE Len(wanted))
  <2>1. isSeq(wanted)
    BY AnswerFacts DEF SessionInv
  <2>2. ASSUME got.how = "all"
        PROVE  IF got.err \in {"none", "closeFailed"} THEN got.records = inPage ELSE IsPrefix(got.records, inPage)
    <3>1. /\ o.offset \in Int /\ o.limit \in Int
          /\ IF got.err \in {"none", "closeFailed"} THEN got.records = Wanted ELSE IsPrefix(got.records, Wanted)
      BY <2>2 DEF SessionInv, AllRead
    <3>2. Wanted = inPage
      BY <2>1, <3>1, PageIsPart DEF Wanted, from_, to_, last_
    <3> QED BY <3>1, <3>2
  <2>3. ASSUME got.how = "next"
        PROVE  /\ IsPrefix(got.records, wanted)
               /\ got.cursor = "position" => Len(got.records) = reader.current + 1
    <3>1. /\ isSeq(got.records)
          /\ Len(got.records) = (IF reader.current + 1 <= Len(wanted) THEN reader.current + 1 ELSE Len(wanted))
          /\ \A i \in 1..Len(got.records) : got.records[i] = wanted[i]
          /\ reader.current \in Int
      BY <2>3 DEF SessionInv, ReaderInv, ReadSoFar
    <3>2. Len(wanted) \in Nat
      BY <2>1, SeqIsFcn
    <3>3. Len(got.records) <= Len(wanted)
      BY <3>1, <3>2
    <3>4. got.cursor = "position" => reader.current + 1 <= Len(wanted)
      BY <2>3 DEF SessionInv, ReaderInv
    <3>5. IsPrefix(got.records, wanted)
      BY <2>1, <3>1, <3>3, PrefixIntro
    <3> QED BY <3>1, <3>4, <3>5
  <2> QED BY <2>2, <2>3 DEF ReadingIsPage
<1> QED BY <1>1, SessionInvariant, PTL

\* A query of one collection answers the first LIMIT rows of the order it asks
\* for, ties in the order of the ids, whatever order the engine returned the rows
\* in and whether or not an index selected them, when each sort key holds values
\* that compare alike (orderBySources, ExecuteQueryToRecordsReader).
THEOREM AnswersAreOrdered == Spec => []AnswerIsOrderedTop
<1>1. SessionInv => AnswerIsOrderedTop
  <2> DEFINE rowAt(i) == CHOOSE r \in selected : r.key = answer.records[i].key
             shown == {answer.records[i].key : i \in DOMAIN answer.records}
  <2> SUFFICES ASSUME SessionInv, asked /\ plain /\ q_.groupBy = <<>>,
                      \A n \in DOMAIN q_.orderBy : q_.orderBy[n].e.k = "field" => alike(q_.orderBy[n].e.name, selected)
               PROVE  /\ Len(answer.records) = IF q_.limit > 0 /\ q_.limit < Cardinality(selected)
                                               THEN q_.limit ELSE Cardinality(selected)
                      /\ shown \subseteq {r.key : r \in selected}
                      /\ \A i, j \in DOMAIN answer.records : i < j => precedes(rowAt(i), rowAt(j))
                      /\ \A i \in DOMAIN answer.records : \A s \in selected :
                            s.key \notin shown => precedes(rowAt(i), s)
    BY Zenon DEF AnswerIsOrderedTop
  <2>1. answer # NoAnswer
    BY DEF asked, NoAnswer
  <2>2. PICK q \in Queries, indexed \in BOOLEAN, how \in {"records", "recordset"} :
          \E rowsOf \in Inputs(q, indexed) : AnswerOf(q, how, rowsOf)
    BY <2>1 DEF SessionInv, AnswerInv
  <2>3. PICK rowsOf \in Inputs(q, indexed) : AnswerOf(q, how, rowsOf)
    BY <2>2
  <2>4. answer.q = q /\ answer.err = ExecuteQuery(q, rowsOf).err /\ answer.records = ExecuteQuery(q, rowsOf).records
    BY <2>3 DEF AnswerOf
  <2>5. selected = Selected(q)
    BY <2>4 DEF selected, Selected, Chosen, q_
  <2>6. \A r, s : precedes(r, s) <=> Precedes(q, r, s)
    BY <2>4, Zenon DEF precedes, Precedes, q_
  <2>7. q.structured /\ q.joins = <<>> /\ q.groupBy = <<>> /\ ExecuteQuery(q, rowsOf).err = "none"
    BY <2>4 DEF plain, asked, q_
  <2>8. PICK t : OrderedTop(q, t, answer.records)
    <3>1. \A n \in DOMAIN q.orderBy : q.orderBy[n].e.k = "field" => alike(q.orderBy[n].e.name, Selected(q))
      BY <2>4, <2>5 DEF q_
    <3>2. StoreInv
      BY DEF SessionInv
    <3> QED BY <2>4, <2>7, <3>1, <3>2, SingleOrdered
  <2> DEFINE a == answer.records
             n == Len(t)
             S == Selected(q)
  <2>9. /\ Lists(t, S) /\ isSeq(a) /\ (\A i, j \in 1..n : i < j => Precedes(q, t[i], t[j]))
        /\ Len(a) = (IF q.limit > 0 /\ q.limit < n THEN q.limit ELSE n)
        /\ \A i \in 1..Len(a) : a[i].key = t[i].key
    BY <2>8 DEF OrderedTop
  <2>10. n \in Nat /\ DOMAIN t = 1..n /\ (\A i \in 1..n : t[i] \in S) /\ Cardinality(S) = n
         /\ Len(a) \in Nat /\ DOMAIN a = 1..Len(a)
    BY <2>9, ListLength, SeqIsFcn DEF Lists, Range
  <2>11. Len(a) <= n
    <3> DEFINE l == q.limit
               k == Len(a)
    <3>1. l \in Int /\ n \in Nat /\ k = (IF l > 0 /\ l < n THEN l ELSE n)
      BY <2>9, <2>10, QueryAssumption
    <3> HIDE DEF l, k, n
    <3>2. k <= n
      BY <3>1
    <3> QED BY <3>2 DEF k
  <2>12. \A r, s \in S : r.key = s.key => r = s
    <3>1. /\ S = {Bare(r) : r \in ChosenRows(q)} /\ \A r, s \in ChosenRows(q) : r.key = s.key => r = s
      BY ChosenFacts DEF SessionInv
    <3>2. \A r : Bare(r).key = r.key
      BY DEF Bare
    <3> QED BY <3>1, <3>2
  <2> HIDE DEF n, S, a
  <2>13. \A i \in 1..Len(a) : i \in 1..n
    BY <2>10, <2>11
  <2>14. ASSUME NEW i \in 1..Len(a) PROVE rowAt(i) = t[i]
    <3>1. t[i] \in selected /\ t[i].key = answer.records[i].key
      BY <2>5, <2>9, <2>10, <2>13 DEF S, a
    <3>2. \A r \in selected : r.key = answer.records[i].key => r = t[i]
      BY <2>5, <2>12, <3>1 DEF S
    <3> QED BY <3>1, <3>2
  <2> HIDE DEF rowAt
  <2>15. shown = {a[i].key : i \in 1..Len(a)}
    BY <2>10 DEF a
  <2>16. shown \subseteq {r.key : r \in selected}
    BY <2>5, <2>9, <2>10, <2>13, <2>15 DEF S
  <2>17. \A i, j \in DOMAIN answer.records : i < j => precedes(rowAt(i), rowAt(j))
    BY <2>6, <2>9, <2>10, <2>13, <2>14 DEF a
  <2>18. ASSUME NEW i \in DOMAIN answer.records, NEW s \in selected, s.key \notin shown
         PROVE  precedes(rowAt(i), s)
    <3>1. PICK j \in 1..n : t[j] = s
      BY <2>5, <2>9, <2>10 DEF Lists, Range, S
    <3>2. i \in 1..Len(a) /\ i \in 1..n
      BY <2>10, <2>13 DEF a
    <3>3. j \notin 1..Len(a)
      BY <2>9, <2>15, <2>18, <3>1
    <3>4. i < j
      BY <2>10, <3>1, <3>2, <3>3
    <3> QED BY <2>6, <2>9, <2>14, <3>1, <3>2, <3>4
  <2>19. Len(answer.records) = IF q_.limit > 0 /\ q_.limit < Cardinality(selected)
                               THEN q_.limit ELSE Cardinality(selected)
    BY <2>4, <2>5, <2>9, <2>10 DEF a, S, q_
  <2> QED BY <2>16, <2>17, <2>18, <2>19
<1> QED BY <1>1, SessionInvariant, PTL


\* A join without a filter answers every base row as often as it has matches, and
\* once without one when the join is a LEFT join, base rows in the order of their
\* ids, for every record that can be stored, every query and every order in which
\* the engine returns its rows (executeJoinQuery).
THEOREM JoinsAreExact == Spec => []JoinRowsExact
<1>1. SessionInv => JoinRowsExact
  <2> DEFINE join == q_.joins[1]
             side(e, b, j) == IF e.src = sourceKey(join) THEN j.data ELSE b.data
             given(e, b, j) == CASE e.k = "const" -> {e.v}
                                 [] e.k = "field" -> {side(e, b, j)[f] : f \in {e.name} \cap DOMAIN side(e, b, j)}
                                 [] OTHER -> {}
             meets(c, b, j) ==
                \/ c.k = "none"
                \/ /\ c.k = "comparison" /\ c.op = "=="
                   /\ \E v \in given(c.l, b, j), w \in given(c.r, b, j) : valuesEqual(v, w)
             matches(b) == Cardinality({j \in Range(stored[join.name]) :
                                          \A n \in DOMAIN join.on : meets(join.on[n], b, j)})
             times(b) == Cardinality({i \in DOMAIN answer.records : Sprint(answer.records[i].key.id) = keyID(b.key)})
  <2> SUFFICES ASSUME SessionInv,
                      asked /\ q_.structured /\ q_.joins # <<>> /\ q_.groupBy = <<>> /\ q_.where = NoCond /\ q_.limit <= 0
               PROVE  /\ \A b \in Range(stored[q_.name]) :
                            times(b) = IF matches(b) = 0 /\ join.type = "LEFT" THEN 1 ELSE matches(b)
                      /\ q_.orderBy = <<>> => \A i, n \in DOMAIN answer.records :
                            i < n => ~textLess(Sprint(answer.records[n].key.id), Sprint(answer.records[i].key.id))
    BY Zenon DEF JoinRowsExact
  <2>1. answer # NoAnswer
    BY DEF asked, NoAnswer
  <2>2. PICK q \in Queries, indexed \in BOOLEAN, how \in {"records", "recordset"} :
          \E rowsOf \in Inputs(q, indexed) : (indexed => q.joins = <<>>) /\ AnswerOf(q, how, rowsOf)
    BY <2>1 DEF SessionInv, AnswerInv
  <2>3. PICK rowsOf \in Inputs(q, indexed) : (indexed => q.joins = <<>>) /\ AnswerOf(q, how, rowsOf)
    BY <2>2
  <2>4. answer.q = q /\ answer.err = ExecuteQuery(q, rowsOf).err /\ answer.records = ExecuteQuery(q, rowsOf).records
    BY <2>3 DEF AnswerOf
  <2>5. /\ q.structured /\ q.joins # <<>> /\ q.groupBy = <<>> /\ q.where = NoCond /\ q.limit <= 0
        /\ ExecuteQuery(q, rowsOf).err = "none" /\ q_ = q
    BY <2>4 DEF asked, q_
  <2>6. rowsOf \in Inputs(q, FALSE) /\ StoreInv /\ q.name \in Collections /\ q.limit \in Int
    BY <2>3, <2>5, QueryAssumption DEF SessionInv
  <2> DEFINE B == sortByID(rowsOf[q.name])
             J == sortByID(rowsOf[q.joins[1].name])
             joined == joinedRows(q, q.joins[1], B, J, KnownIn(q, q.joins[1]))
  <2>7. join.name \in Collections /\ isSeq(join.on) /\ Lists(B, RowsIn(q.name)) /\ Lists(J, RowsIn(join.name))
    <3>1. /\ Lists(rowsOf[q.name], RowsIn(q.name)) /\ Lists(rowsOf[q.joins[1].name], RowsIn(q.joins[1].name))
          /\ q.joins[1].name \in Collections /\ isSeq(q.joins[1].on)
      BY <2>5, <2>6, JoinInputs
    <3>2. \A s, S : Lists(s, S) => Lists(sortByID(s), S)
      BY SortLists, Zenon DEF sortByID
    <3> QED BY <2>5, <3>1, <3>2
  <2>8. join = q.joins[1]
    BY <2>5
  <2>9. /\ ~joined.failed
        /\ isSeq(joined.rows) => answer.records = [i \in DOMAIN orderBySources(joined.rows, q.orderBy) |->
                                                     joinRecord(q, orderBySources(joined.rows, q.orderBy)[i])]
    <3>1. /\ q.structured /\ q.joins # <<>> /\ q.groupBy = <<>> /\ q.where = NoCond /\ q.limit <= 0 /\ q.limit \in Int
          /\ ExecuteQuery(q, rowsOf).err = "none"
      BY <2>5, <2>6
    <3>2. joined = joinedRows(q, q.joins[1], sortByID(rowsOf[q.name]),
                              sortByID(rowsOf[q.joins[1].name]), KnownIn(q, q.joins[1]))
      OBVIOUS
    <3> HIDE DEF joined
    <3>3. /\ ~joined.failed
          /\ isSeq(joined.rows)
             => ExecuteQuery(q, rowsOf).records = JoinAnswer(q, joined)
      BY <3>1, <3>2, JoinCases
    <3> QED BY <2>4, <3>3 DEF JoinAnswer
  <2>10. joined = joinedRows(q, join, B, J, KnownIn(q, join))
    BY <2>8
  <2>11. \A b : matches(b) = Cardinality(Matching(join, b))
    <3>1. \A e, b, j : given(e, b, j) = Given(join, e, b, j)
      BY Zenon DEF Given, Side
    <3> HIDE DEF given, join
    <3>2. \A c, b, j : meets(c, b, j) <=> Meets(join, c, b, j)
      BY <3>1 DEF Meets
    <3> HIDE DEF meets
    <3>3. \A b : {j \in Range(stored[join.name]) : \A n \in DOMAIN join.on : meets(join.on[n], b, j)} = Matching(join, b)
      BY <3>2 DEF Matching
    <3> QED BY <3>3
  <2> HIDE DEF join, B, J, matches, joined
  <2>12. /\ isSeq(joined.rows) /\ (\A k \in 1..Len(joined.rows) : joined.rows[k].id \in Texts)
         /\ \A b \in Range(stored[q.name]) : CountOf(joined.rows, keyID(b.key)) = Times(join, b)
    <3> DEFINE g == joinedRows(q, join, B, J, KnownIn(q, join))
    <3>1. ~joinedRows(q, join, B, J, KnownIn(q, join)).failed
      BY <2>9, <2>10
    <3>2. /\ isSeq(g.rows) /\ (\A k \in 1..Len(g.rows) : g.rows[k].id \in Texts)
          /\ \A b \in Range(stored[q.name]) : CountOf(g.rows, keyID(b.key)) = Times(join, b)
      BY <2>6, <2>7, <3>1, JoinedCount
    <3> HIDE DEF g
    <3>3. joined = g
      BY <2>10 DEF g
    <3> QED BY <3>2, <3>3
  <2> DEFINE rows == joined.rows
             records == answer.records
  <2>13. /\ isSeq(rows) /\ (\A k \in 1..Len(rows) : rows[k].id \in Texts)
         /\ records = [i \in DOMAIN orderBySources(rows, q.orderBy) |->
                         joinRecord(q, orderBySources(rows, q.orderBy)[i])]
    BY <2>9, <2>12
  <2> HIDE DEF rows, records
  <2>14. /\ \A id : Shown(records, id) = CountOf(rows, id)
         /\ q.orderBy = <<>> => InIDOrder(records)
    BY <2>13, RecordsOfRows
  <2>15. ASSUME NEW b \in Range(stored[q_.name])
         PROVE  times(b) = IF matches(b) = 0 /\ join.type = "LEFT" THEN 1 ELSE matches(b)
    <3>1. times(b) = CountOf(rows, keyID(b.key))
      BY <2>14 DEF records, Shown
    <3>2. CountOf(rows, keyID(b.key)) = Times(join, b)
      BY <2>5, <2>12 DEF rows
    <3> HIDE DEF times
    <3> QED BY <2>11, <3>1, <3>2 DEF Times
  <2>16. q_.orderBy = <<>> => \A i, n \in DOMAIN answer.records :
            i < n => ~textLess(Sprint(answer.records[n].key.id), Sprint(answer.records[i].key.id))
    BY <2>5, <2>14 DEF records, InIDOrder
  <2> HIDE DEF times
  <2> QED BY <2>15, <2>16
<1> QED BY <1>1, SessionInvariant, PTL

\* A grouped query answers one record for each distinct tuple of grouping values,
\* with the aggregates of the rows that have it, whatever order the engine returned
\* the rows in, when grouping values print apart, MIN and MAX have values that the
\* order tells apart and every other column is a grouping field (partition,
\* evalAggregate and executeGroupedReader of group.go).
THEOREM GroupsAreClasses == Spec => [](GroupsDistinct => GroupsMatchReference)
<1>1. SessionInv => (GroupsDistinct => GroupsMatchReference)
  <2> DEFINE tuple(r) == [n \in DOMAIN q_.groupBy |-> valueOf(q_.groupBy[n], r)]
             classes == {{r \in selected : tuple(r) = tuple(s)} : s \in selected}
             output(class) == named(q_.columns, LAMBDA e : ofClass(e, class))
  <2> SUFFICES ASSUME SessionInv, GroupsDistinct, asked /\ plain,
                      q_.groupBy # <<>> /\ q_.having = NoCond /\ q_.limit <= 0 /\ q_.offset <= 0,
                      \A n \in DOMAIN q_.columns :
                         alike(q_.columns[n].e.name, {r \in selected : at(r.data, q_.columns[n].e.name) # Nil})
               PROVE  /\ Len(answer.records) = Cardinality(classes)
                      /\ {answer.records[i].data : i \in DOMAIN answer.records}
                         = {output(class) : class \in classes}
    BY Zenon DEF GroupsMatchReference
  <2>1. answer # NoAnswer
    BY DEF asked, NoAnswer
  <2>2. PICK q \in Queries, indexed \in BOOLEAN, how \in {"records", "recordset"} :
          \E rowsOf \in Inputs(q, indexed) : AnswerOf(q, how, rowsOf)
    BY <2>1 DEF SessionInv, AnswerInv
  <2>3. PICK rowsOf \in Inputs(q, indexed) : AnswerOf(q, how, rowsOf)
    BY <2>2
  <2>4. answer.q = q /\ answer.err = ExecuteQuery(q, rowsOf).err /\ answer.records = ExecuteQuery(q, rowsOf).records
    BY <2>3 DEF AnswerOf
  <2> DEFINE S == Selected(q)
             f == filterRows(q, rowsOf[q.name])
             rows == [i \in DOMAIN f |-> f[i].sources]
             records == ExecuteQuery(q, rowsOf).records
  <2>5. selected = S
    BY <2>4 DEF selected, Selected, Chosen, q_
  <2>6. classes = TupleClasses(q, S)
    <3>1. \A r : tuple(r) = GroupTuple(q, r)
      BY <2>4 DEF GroupTuple, q_
    <3> HIDE DEF tuple, S
    <3> QED BY <2>5, <3>1 DEF TupleClasses
  <2>7. {output(class) : class \in classes} = {NamedClass(q, C) : C \in TupleClasses(q, S)}
    <3>1. q_ = q
      BY <2>4 DEF q_
    <3>2. \A C : output(C) = NamedClass(q, C)
      BY <3>1, Zenon DEF NamedClass
    <3> HIDE DEF output, classes, S
    <3> QED BY <2>6, <3>2
  <2>8. /\ q.structured /\ q.joins = <<>> /\ q.groupBy # <<>> /\ ExecuteQuery(q, rowsOf).err = "none"
        /\ q.having = NoCond /\ q.limit <= 0 /\ q.offset <= 0
    BY <2>4 DEF plain, asked, q_
  <2>9. q.limit \in Int /\ q.offset \in Int /\ isSeq(q.columns) /\ q.name \in Collections /\ StoreInv
    BY QueryAssumption DEF SessionInv
  <2>10. SUFFICES OfClasses(q, S, records)
    <3> HIDE DEF classes, S, output
    <3> QED BY <2>4, <2>6, <2>7, <2>10 DEF OfClasses
  <2>11. \/ rowsOf[q.name] = <<>> /\ records = <<>>
         \/ GroupedAnswer(q, rows, Known(q), records)
    BY <2>8, <2>9, GroupedCases
  <2>12. CASE rowsOf[q.name] = <<>> /\ records = <<>>
    <3>1. S = {}
      BY <2>9, <2>12, NoRowsSelected
    <3>2. TupleClasses(q, S) = {}
      BY <3>1 DEF TupleClasses
    <3>3. Cardinality(TupleClasses(q, S)) = 0
      BY <3>2, FS_EmptySet
    <3>4. {NamedClass(q, C) : C \in TupleClasses(q, S)} = {}
      BY <3>2
    <3>5. Len(records) = 0 /\ DOMAIN records = {}
      BY <2>12
    <3>6. {records[i].data : i \in DOMAIN records} = {}
      BY <3>5
    <3> HIDE DEF S, records
    <3> QED BY <3>3, <3>4, <3>5, <3>6 DEF OfClasses
  <2>13. CASE GroupedAnswer(q, rows, Known(q), records)
    <3>1. PICK h : Lists(h, S) /\ rows = RowsOfList(q, h)
      <4>1. f = filterRows(q, rowsOf[q.name])
        OBVIOUS
      <4> HIDE DEF f
      <4>2. \E h : Lists(h, Selected(q)) /\ [i \in DOMAIN f |-> f[i].sources] = RowsOfList(q, h)
        BY <2>9, <4>1, SelectedListed
      <4> QED BY <4>2
    <3>2. GroupedAnswer(q, RowsOfList(q, h), Known(q), records)
      BY <2>13, <3>1
    <3>3. isSeq(h) /\ DOMAIN h = 1..Len(h) /\ \A r \in S : \E j \in DOMAIN h : h[j] = r
      BY <3>1, SeqIsFcn DEF Lists, Range
    <3>4. S \subseteq Written(q.name)
      <4>1. ASSUME NEW r \in S PROVE r \in Universe /\ r.key.coll = q.name
        <5>1. PICK id \in DOMAIN stored[q.name] : r = stored[q.name][id]
          BY DEF Selected, Range
        <5> QED BY <2>9, <5>1 DEF StoreInv, Holds
      <4> QED BY <4>1 DEF Written
    <3> HIDE DEF S, records, rows, f, classes
    <3>5. Valued(S)
      BY <3>4, QueryAssumption DEF Valued, Written
    <3>6. ASSUME NEW r \in S, NEW n \in DOMAIN q.groupBy
          PROVE  resolveJoinExpr(q.groupBy[n], baseSources(q, r.data), Known(q)).ok
      <4>1. PICK j \in DOMAIN h : h[j] = r
        BY <3>3
      <4>2. j \in DOMAIN RowsOfList(q, h) /\ RowsOfList(q, h)[j] = baseSources(q, r.data)
        BY <4>1 DEF RowsOfList
      <4> QED BY <3>2, <4>2 DEF GroupedAnswer
    <3>7. \A n \in DOMAIN q.groupBy : q.groupBy[n].k = "field" => PrintedApart(q.name, q.groupBy[n].name)
      BY <2>8 DEF GroupsDistinct
    <3>8. Groupable(q, S)
      BY <3>4, <3>5, <3>6, <3>7 DEF Groupable
    <3>9. ASSUME NEW n \in DOMAIN q.columns PROVE Readable(q, S, q.columns[n].e)
      <4> DEFINE e == q.columns[n].e
      <4>1. e.k # "aggregate" => IsGrouping(q, e) /\ \E m \in DOMAIN q.groupBy : q.groupBy[m].text = e.text
        BY <2>8, <3>2 DEF GroupedAnswer, GroupsDistinct
      <4>2. alike(e.name, NonNil(S, e.name))
        BY <2>4, <2>5 DEF NonNil, q_
      <4>3. e.k = "aggregate" /\ e.fn \in {"MIN", "MAX"} => OrderedApart(q.name, e.name)
        BY <2>8 DEF GroupsDistinct
      <4> HIDE DEF e
      <4>4. Readable(q, S, e)
        BY <4>1, <4>2, <4>3 DEF Readable
      <4> QED BY <4>4 DEF e
    <3> QED BY <2>9, <3>1, <3>2, <3>8, <3>9, RecordsOfClasses
  <2> QED BY <2>11, <2>12, <2>13
<1> QED BY <1>1, SessionInvariant, PTL
=============================================================================
