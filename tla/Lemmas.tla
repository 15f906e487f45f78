------------------------------- MODULE Lemmas -------------------------------
(***************************************************************************)
(* Facts about numbers and sequences that the proofs of several components *)
(* rest on and the library does not state, or states with an operator for  *)
(* a parameter: a set of naturals has a least element, which is induction  *)
(* for one set at a time; recursive functions, the sums and the joined     *)
(* sequences they make, FlattenSeq among them; how many elements of one    *)
(* kind are in a queue; induction over a sequence, and recursion over it.  *)
(***************************************************************************)
EXTENDS Integers, Sequences, SequencesExt, FiniteSetTheorems, SequenceTheorems, TLAPS

-----------------------------------------------------------------------------
(* The least element *)

UpTo(S, x) == {y \in S : y <= x}

\* A non-empty set of naturals has a least element: strict inclusion of the
\* finite sets UpTo(S, x) is well founded.
LEMMA LeastElement ==
    ASSUME NEW S \in SUBSET Nat, S # {}
    PROVE  \E x \in S : \A y \in S : x <= y
<1>1. PICK n : n \in S
  OBVIOUS
<1> DEFINE T == {UpTo(S, x) : x \in S}
<1>2. \A x, y \in S : y < x => /\ UpTo(S, y) \subseteq UpTo(S, x)
                               /\ UpTo(S, x) # UpTo(S, y)
  <2> SUFFICES ASSUME NEW x \in S, NEW y \in S, y < x
               PROVE  /\ UpTo(S, y) \subseteq UpTo(S, x)
                      /\ UpTo(S, x) # UpTo(S, y)
    OBVIOUS
  <2>1. x \in UpTo(S, x) /\ x \notin UpTo(S, y)
    BY DEF UpTo
  <2>2. ASSUME NEW z \in UpTo(S, y) PROVE z \in UpTo(S, x)
    <3>1. z \in S /\ z <= y /\ z \in Nat /\ y \in Nat /\ x \in Nat
      BY DEF UpTo
    <3> QED BY <3>1 DEF UpTo
  <2> QED BY <2>1, <2>2
<1>3. T \subseteq FiniteSubsetsOf(S)
  <2> SUFFICES ASSUME NEW x \in S
               PROVE  UpTo(S, x) \in SUBSET S /\ IsFiniteSet(UpTo(S, x))
    BY DEF FiniteSubsetsOf
  <2>1. UpTo(S, x) \in SUBSET S /\ \A y \in UpTo(S, x) : y <= x
    BY DEF UpTo
  <2> QED BY <2>1, FS_BoundedSetOfNaturals
<1>4. \E X \in T : \A Y \in T : <<Y, X>> \notin StrictSubsetOrdering(S)
  <2>1. T # {}
    BY <1>1
  <2> HIDE DEF T
  <2> QED BY <1>3, <2>1, WFMin, FS_StrictSubsetOrderingWellFounded
<1>5. PICK x \in S : \A y \in S :
          <<UpTo(S, y), UpTo(S, x)>> \notin StrictSubsetOrdering(S)
  BY <1>4
<1>6. \A y \in S : ~ (y < x)
  <2> SUFFICES ASSUME NEW y \in S, y < x PROVE FALSE
    OBVIOUS
  <2>1. UpTo(S, y) \in SUBSET S /\ UpTo(S, x) \in SUBSET S
    BY DEF UpTo
  <2>2. <<UpTo(S, y), UpTo(S, x)>> \in StrictSubsetOrdering(S)
    BY <1>2, <2>1 DEF StrictSubsetOrdering
  <2> QED BY <1>5, <2>2
<1> QED BY <1>6

\* Induction over the numbers up to N, for a set in the place of a predicate
LEMMA Induction ==
    ASSUME NEW G, NEW N \in Nat, 0 \in G, \A k \in 1 .. N : k - 1 \in G => k \in G
    PROVE  \A k \in 0 .. N : k \in G
<1> DEFINE S == {k \in 0 .. N : k \notin G}
<1> SUFFICES ASSUME S # {} PROVE FALSE
  OBVIOUS
<1>1. S \subseteq Nat
  OBVIOUS
<1>2. PICK n \in S : \A k \in S : n <= k
  <2> HIDE DEF S
  <2> QED BY <1>1, LeastElement
<1>3. n \in 1 .. N /\ n \notin G
  OBVIOUS
<1>4. n - 1 \in 0 .. N /\ n - 1 \notin S
  BY <1>2, <1>3
<1> QED BY <1>3, <1>4

-----------------------------------------------------------------------------
(* Recursive functions on the first numbers *)

\* The sums of the first elements of c are a function
LEMMA SumExists ==
    ASSUME NEW N \in Nat, NEW c \in [1 .. N -> Nat]
    PROVE  \E h \in [0 .. N -> Nat] :
              h[0] = 0 /\ \A i \in 1 .. N : h[i] = h[i - 1] + c[i]
<1> DEFINE Sums(k, h) == h[0] = 0 /\ \A i \in 1 .. k : h[i] = h[i - 1] + c[i]
           G == {k \in 0 .. N : \E h \in [0 .. k -> Nat] : Sums(k, h)}
<1>1. 0 \in G
  <2> DEFINE z == [i \in 0 .. 0 |-> 0]
  <2>1. z \in [0 .. 0 -> Nat] /\ Sums(0, z)
    OBVIOUS
  <2> HIDE DEF z, Sums
  <2> QED BY <2>1
<1>2. ASSUME NEW k \in 1 .. N, k - 1 \in G PROVE k \in G
  <2>1. PICK h \in [0 .. k - 1 -> Nat] : Sums(k - 1, h)
    BY <1>2
  <2> DEFINE g == [i \in 0 .. k |-> IF i = k THEN h[k - 1] + c[k] ELSE h[i]]
  <2>2. g \in [0 .. k -> Nat] /\ \A i \in 0 .. k - 1 : g[i] = h[i]
    OBVIOUS
  <2>3. g[k] = g[k - 1] + c[k]
    BY <2>2
  <2>4. Sums(k, g)
    <3> HIDE DEF g
    <3>1. ASSUME NEW i \in 1 .. k - 1 PROVE g[i] = g[i - 1] + c[i]
      BY <2>1, <2>2
    <3>2. g[0] = 0
      BY <2>1, <2>2
    <3>3. ASSUME NEW i \in 1 .. k PROVE g[i] = g[i - 1] + c[i]
      <4>1. CASE i = k
        BY <2>3, <4>1
      <4>2. CASE i # k
        <5>1. i \in 1 .. k - 1
          BY <4>2
        <5> QED BY <3>1, <5>1
      <4> QED BY <4>1, <4>2
    <3> QED BY <3>2, <3>3
  <2> HIDE DEF g, Sums
  <2> QED BY <2>2, <2>4
<1>3. N \in G
  <2> HIDE DEF G
  <2>1. \A k \in 1 .. N : k - 1 \in G => k \in G
    BY <1>2
  <2>2. \A k \in 0 .. N : k \in G
    BY <1>1, <2>1, Induction
  <2> QED BY <2>2
<1> QED BY <1>3

\* So are the concatenations of the first elements of s
LEMMA ConcatExists ==
    ASSUME NEW T, NEW s \in Seq(Seq(T))
    PROVE  \E h \in [0 .. Len(s) -> Seq(T)] :
              h[0] = <<>> /\ \A i \in 1 .. Len(s) : h[i] = h[i - 1] \o s[i]
<1> DEFINE N == Len(s)
           Joins(k, h) == h[0] = <<>> /\ \A i \in 1 .. k : h[i] = h[i - 1] \o s[i]
           G == {k \in 0 .. N : \E h \in [0 .. k -> Seq(T)] : Joins(k, h)}
<1>0. N \in Nat /\ \A i \in 1 .. N : s[i] \in Seq(T)
  OBVIOUS
<1> HIDE DEF N
<1>1. 0 \in G
  <2>1. <<>> \in Seq(T)
    OBVIOUS
  <2> DEFINE z == [i \in 0 .. 0 |-> <<>>]
  <2>2. z \in [0 .. 0 -> Seq(T)] /\ Joins(0, z)
    BY <2>1
  <2> HIDE DEF z, Joins
  <2> QED BY <1>0, <2>2
<1>2. ASSUME NEW k \in 1 .. N, k - 1 \in G PROVE k \in G
  <2>1. PICK h \in [0 .. k - 1 -> Seq(T)] : Joins(k - 1, h)
    BY <1>2
  <2>2. h[k - 1] \o s[k] \in Seq(T)
    <3>1. h[k - 1] \in Seq(T) /\ s[k] \in Seq(T)
      BY <1>0
    <3> QED BY <3>1, ConcatProperties
  <2> DEFINE g == [i \in 0 .. k |-> IF i = k THEN h[k - 1] \o s[k] ELSE h[i]]
  <2>3. ASSUME NEW i \in 0 .. k PROVE g[i] \in Seq(T) /\ (i # k => g[i] = h[i])
    <3>1. CASE i = k
      BY <2>2, <3>1
    <3>2. CASE i # k
      <4>1. i \in 0 .. k - 1
        BY <3>2
      <4> QED BY <3>2, <4>1
    <3> QED BY <3>1, <3>2
  <2>4. g[k] = h[k - 1] \o s[k]
    <3>1. k \in 0 .. k
      BY <1>0
    <3> DEFINE new == h[k - 1] \o s[k]
    <3> HIDE DEF new
    <3>2. g[k] = IF k = k THEN new ELSE h[k]
      BY <3>1 DEF new
    <3> QED BY <3>2 DEF new
  <2>6. g \in [0 .. k -> Seq(T)]
    <3>1. g = [i \in 0 .. k |-> g[i]]
      OBVIOUS
    <3> HIDE DEF g
    <3> QED BY <2>3, <3>1
  <2>5. Joins(k, g)
    <3> HIDE DEF g
    <3>1. ASSUME NEW i \in 1 .. k PROVE g[i] = g[i - 1] \o s[i]
      <4>1. i - 1 \in 0 .. k /\ i - 1 # k /\ i \in 0 .. k
        OBVIOUS
      <4>2. g[i - 1] = h[i - 1]
        BY <2>3, <4>1
      <4>3. CASE i = k
        BY <2>4, <4>2, <4>3
      <4>4. CASE i # k
        <5>1. i \in 1 .. k - 1
          BY <4>4
        <5>2. h[i] = h[i - 1] \o s[i] /\ g[i] = h[i]
          BY <2>1, <2>3, <4>1, <4>4, <5>1
        <5> QED BY <4>2, <5>2
      <4> QED BY <4>3, <4>4
    <3>2. 0 \in 0 .. k /\ 0 # k
      OBVIOUS
    <3>3. g[0] = <<>>
      BY <2>1, <2>3, <3>2
    <3> QED BY <3>1, <3>3
  <2> HIDE DEF g, Joins
  <2> QED BY <2>5, <2>6
<1>3. N \in G
  <2> HIDE DEF G
  <2>1. \A k \in 1 .. N : k - 1 \in G => k \in G
    BY <1>2
  <2>2. \A k \in 0 .. N : k \in G
    BY <1>0, <1>1, <2>1, Induction
  <2> QED BY <1>0, <2>2
<1> QED BY <1>3 DEF N

\* FlattenSeq joins one sequence after the other
LEMMA FlattenJoins ==
    ASSUME NEW T, NEW s \in Seq(Seq(T))
    PROVE  \E h \in [0 .. Len(s) -> Seq(T)] :
              /\ h[0] = <<>> /\ \A i \in 1 .. Len(s) : h[i] = h[i - 1] \o s[i]
              /\ FlattenSeq(s) = h[Len(s)]
<1>1. PICK h \in [0 .. Len(s) -> Seq(T)] :
          h[0] = <<>> /\ \A i \in 1 .. Len(s) : h[i] = h[i - 1] \o s[i]
  BY ConcatExists
<1>2. CASE Len(s) = 0
  <2>1. s = <<>> /\ FlattenSeq(s) = s
    BY <1>2 DEF FlattenSeq
  <2> QED BY <1>1, <1>2, <2>1
<1>3. CASE Len(s) # 0
  <2> DEFINE N == Len(s)
             Body(g) == [i \in 1 .. N |-> IF i = 1 THEN s[i] ELSE g[i - 1] \o s[i]]
             k == [i \in 1 .. N |-> h[i]]
  <2>1. N \in Nat \ {0} /\ \A i \in 1 .. N : s[i] \in Seq(T)
    BY <1>3
  <2>2. ASSUME NEW i \in 1 .. N PROVE k[i] = Body(k)[i]
    <3>1. k[i] = h[i - 1] \o s[i]
      BY <1>1
    <3>2. CASE i = 1
      <4>1. h[i - 1] = <<>> /\ s[i] \in Seq(T)
        BY <1>1, <2>1, <3>2
      <4>2. <<>> \o s[i] = s[i]
        BY <4>1, ConcatEmptySeq
      <4> QED BY <3>1, <3>2, <4>1, <4>2
    <3>3. CASE i # 1
      <4>1. i - 1 \in 1 .. N
        BY <3>3
      <4> QED BY <3>1, <3>3, <4>1
    <3> QED BY <3>2, <3>3
  <2>3. k = Body(k)
    <3>1. k = [i \in 1 .. N |-> k[i]] /\ Body(k) = [i \in 1 .. N |-> Body(k)[i]]
      OBVIOUS
    <3> HIDE DEF k, Body
    <3> QED BY <2>2, <3>1
  <2> DEFINE f == CHOOSE g : g = Body(g)
  <2>4. FlattenSeq(s) = f[N]
    BY <1>3 DEF FlattenSeq
  <2>5. f = Body(f)
    <3> HIDE DEF k, Body
    <3> QED BY <2>3
  <2> HIDE DEF f
  <2>6. ASSUME NEW i \in 1 .. N
        PROVE  f[i] = IF i = 1 THEN s[i] ELSE f[i - 1] \o s[i]
    BY <2>5
  <2>7. \A i \in 0 .. N : i \in {j \in 0 .. N : j = 0 \/ f[j] = h[j]}
    <3> DEFINE G == {j \in 0 .. N : j = 0 \/ f[j] = h[j]}
    <3>1. 0 \in G
      BY <2>1
    <3>2. ASSUME NEW j \in 1 .. N, j - 1 \in G PROVE j \in G
      <4>1. h[j] = h[j - 1] \o s[j]
        BY <1>1
      <4>4. j \in 0 .. N
        OBVIOUS
      <4>2. CASE j = 1
        <5>1. h[j - 1] = <<>> /\ s[j] \in Seq(T) /\ f[j] = s[j]
          BY <1>1, <2>1, <2>6, <4>2
        <5>2. <<>> \o s[j] = s[j]
          BY <5>1, ConcatEmptySeq
        <5> QED BY <4>1, <4>4, <5>1, <5>2
      <4>3. CASE j # 1
        <5>1. f[j] = f[j - 1] \o s[j]
          BY <2>6, <4>3
        <5>2. f[j - 1] = h[j - 1]
          BY <3>2, <4>3
        <5> QED BY <4>1, <4>4, <5>1, <5>2
      <4> QED BY <4>2, <4>3
    <3> HIDE DEF G
    <3>3. \A j \in 1 .. N : j - 1 \in G => j \in G
      BY <3>2
    <3>4. \A j \in 0 .. N : j \in G
      BY <2>1, <3>1, <3>3, Induction
    <3> QED BY <3>4 DEF G
  <2>8. f[N] = h[N]
    BY <2>1, <2>7
  <2> QED BY <1>1, <2>4, <2>8
<1> QED BY <1>2, <1>3

-----------------------------------------------------------------------------
(* Counting *)

\* How many of the first n elements of q are in S
Num(q, S, n) == Cardinality({i \in 1 .. n : q[i] \in S})

\* The positions that are counted are finite in number
LEMMA NumIsFinite ==
    ASSUME NEW q, NEW S, NEW n \in Nat
    PROVE  IsFiniteSet({i \in 1 .. n : q[i] \in S}) /\ Num(q, S, n) \in Nat
<1>1. IsFiniteSet(1 .. n)
  BY FS_Interval
<1>2. IsFiniteSet({i \in 1 .. n : q[i] \in S})
  BY <1>1, FS_Subset
<1> QED BY <1>2, FS_CardinalityType DEF Num

\* The last of the counted elements
LEMMA NumStep ==
    ASSUME NEW q, NEW S, NEW n \in Nat
    PROVE  /\ Num(q, S, 0) = 0
           /\ Num(q, S, n + 1) = Num(q, S, n) + IF q[n + 1] \in S THEN 1 ELSE 0
<1> DEFINE C == {i \in 1 .. n : q[i] \in S}
           D == {i \in 1 .. n + 1 : q[i] \in S}
<1>1. Num(q, S, 0) = 0
  BY FS_EmptySet DEF Num
<1>2. CASE q[n + 1] \in S
  <2>1. D = C \cup {n + 1} /\ n + 1 \notin C
    BY <1>2
  <2>2. IsFiniteSet(C)
    BY NumIsFinite
  <2> HIDE DEF C, D
  <2>3. Cardinality(D) = Cardinality(C) + 1
    BY <2>1, <2>2, FS_AddElement
  <2> QED BY <1>1, <1>2, <2>3 DEF Num, C, D
<1>3. CASE q[n + 1] \notin S
  <2>1. D = C
    BY <1>3
  <2>2. Num(q, S, n + 1) = Num(q, S, n)
    BY <2>1 DEF Num
  <2>3. Num(q, S, n) \in Nat
    BY NumIsFinite
  <2> QED BY <1>1, <1>3, <2>2, <2>3
<1> QED BY <1>2, <1>3

\* Only what is counted matters
LEMMA NumSame ==
    ASSUME NEW q, NEW r, NEW S, NEW n \in Nat,
           \A i \in 1 .. n : q[i] \in S <=> r[i] \in S
    PROVE  Num(q, S, n) = Num(r, S, n)
<1>1. {i \in 1 .. n : q[i] \in S} = {i \in 1 .. n : r[i] \in S}
  OBVIOUS
<1> QED BY <1>1 DEF Num

\* More elements, no lower number
LEMMA NumMonotonic ==
    ASSUME NEW q, NEW S, NEW m \in Nat, NEW n \in Nat, m <= n
    PROVE  Num(q, S, m) <= Num(q, S, n)
<1>1. {i \in 1 .. m : q[i] \in S} \subseteq {i \in 1 .. n : q[i] \in S}
  OBVIOUS
<1> QED BY <1>1, NumIsFinite, FS_Subset DEF Num

\* The element at i has been counted behind i and not before
LEMMA NumAt ==
    ASSUME NEW q, NEW S, NEW n \in Nat, NEW i \in 1 .. n, q[i] \in S
    PROVE  /\ Num(q, S, i - 1) + 1 = Num(q, S, i)
           /\ Num(q, S, i) <= Num(q, S, n)
<1>1. i - 1 \in Nat /\ (i - 1) + 1 = i /\ i \in Nat
  OBVIOUS
<1>2. Num(q, S, (i - 1) + 1) = Num(q, S, i - 1) + 1
  BY <1>1, NumStep
<1> QED BY <1>1, <1>2, NumMonotonic

\* The first of the counted elements
LEMMA NumShift ==
    ASSUME NEW q, NEW r, NEW S, NEW n \in Nat,
           \A i \in 1 .. n : r[i] = q[i + 1]
    PROVE  Num(q, S, n + 1) = Num(r, S, n) + IF q[1] \in S THEN 1 ELSE 0
<1> DEFINE C == {i \in 1 .. n : r[i] \in S}
           D == {i \in 2 .. n + 1 : q[i] \in S}
           E == {i \in 1 .. n + 1 : q[i] \in S}
           f == [i \in C |-> i + 1]
<1>1. IsFiniteSet(C) /\ Cardinality(C) \in Nat
  BY NumIsFinite DEF Num
<1>2. f \in Bijection(C, D)
  <2>1. f \in [C -> D]
    OBVIOUS
  <2>2. \A x, y \in C : f[x] = f[y] => x = y
    OBVIOUS
  <2>3. ASSUME NEW y \in D PROVE \E x \in C : f[x] = y
    <3>1. y - 1 \in C
      OBVIOUS
    <3> QED BY <3>1
  <2> QED BY <2>1, <2>2, <2>3 DEF Bijection, Injection, Surjection, IsInjective
<1>3. IsFiniteSet(D) /\ Cardinality(D) = Cardinality(C)
  <2> HIDE DEF C, D, f
  <2>1. ExistsBijection(C, D)
    BY <1>2 DEF ExistsBijection
  <2> QED BY <1>1, <2>1, FS_Bijection
<1>4. CASE q[1] \in S
  <2>1. E = D \cup {1} /\ 1 \notin D
    BY <1>4
  <2> HIDE DEF C, D, E
  <2>2. Cardinality(E) = Cardinality(D) + 1
    BY <1>3, <2>1, FS_AddElement
  <2> QED BY <1>3, <1>4, <2>2 DEF Num, C, E
<1>5. CASE q[1] \notin S
  <2>1. E = D
    <3>1. ASSUME NEW i \in E PROVE i \in D
      BY <1>5
    <3> QED BY <3>1
  <2> QED BY <1>1, <1>3, <1>5, <2>1 DEF Num
<1> QED BY <1>4, <1>5

\* A queue grows at its end
LEMMA NumAppend ==
    ASSUME NEW T, NEW q \in Seq(T), NEW m \in T, NEW S
    PROVE  /\ \A i \in 0 .. Len(q) : Num(Append(q, m), S, i) = Num(q, S, i)
           /\ Num(Append(q, m), S, Len(Append(q, m)))
                 = Num(q, S, Len(q)) + IF m \in S THEN 1 ELSE 0
<1> DEFINE r == Append(q, m)
<1>1. /\ Len(q) \in Nat /\ Len(r) = Len(q) + 1
      /\ \A i \in 1 .. Len(q) : r[i] = q[i]
      /\ r[Len(q) + 1] = m
  BY AppendProperties
<1> HIDE DEF r
<1>2. ASSUME NEW i \in 0 .. Len(q) PROVE Num(r, S, i) = Num(q, S, i)
  <2>1. i \in Nat /\ \A j \in 1 .. i : r[j] \in S <=> q[j] \in S
    BY <1>1
  <2> QED BY <2>1, NumSame
<1>3. Num(r, S, Len(q) + 1) = Num(r, S, Len(q)) + IF m \in S THEN 1 ELSE 0
  <2>1. Num(r, S, Len(q) + 1) = Num(r, S, Len(q)) + IF r[Len(q) + 1] \in S THEN 1 ELSE 0
    <3>1. \A k \in Nat : Num(r, S, k + 1) = Num(r, S, k) + IF r[k + 1] \in S THEN 1 ELSE 0
      BY NumStep
    <3> QED BY <1>1, <3>1
  <2> QED BY <1>1, <2>1
<1>4. Num(r, S, Len(q)) = Num(q, S, Len(q))
  BY <1>1, <1>2
<1> QED BY <1>1, <1>2, <1>3, <1>4 DEF r

\* and shrinks at its head
LEMMA NumTail ==
    ASSUME NEW T, NEW q \in Seq(T), q # <<>>, NEW S
    PROVE  \A i \in 0 .. Len(q) - 1 :
              Num(q, S, i + 1) = Num(Tail(q), S, i) + IF Head(q) \in S THEN 1 ELSE 0
<1> SUFFICES ASSUME NEW i \in 0 .. Len(q) - 1
             PROVE  Num(q, S, i + 1) = Num(Tail(q), S, i) + IF Head(q) \in S THEN 1 ELSE 0
  OBVIOUS
<1>1. /\ Len(q) \in Nat /\ i \in Nat /\ Head(q) = q[1]
      /\ \A j \in 1 .. Len(q) - 1 : Tail(q)[j] = q[j + 1]
  BY HeadTailProperties
<1>2. \A j \in 1 .. i : Tail(q)[j] = q[j + 1]
  BY <1>1
<1>3. Num(q, S, i + 1) = Num(Tail(q), S, i) + IF q[1] \in S THEN 1 ELSE 0
  <2> DEFINE r == Tail(q)
  <2>1. \A j \in 1 .. i : r[j] = q[j + 1]
    BY <1>2
  <2> HIDE DEF r
  <2>2. Num(q, S, i + 1) = Num(r, S, i) + IF q[1] \in S THEN 1 ELSE 0
    BY <1>1, <2>1, NumShift
  <2> QED BY <2>2 DEF r
<1> QED BY <1>1, <1>3

\* A counted element makes the difference
LEMMA NumStrict ==
    ASSUME NEW q, NEW S, NEW i \in Nat, NEW j \in Nat, i < j, q[j] \in S
    PROVE  Num(q, S, i) < Num(q, S, j)
<1>1. j \in 1 .. j /\ j - 1 \in Nat /\ i <= j - 1
  OBVIOUS
<1>2. Num(q, S, j - 1) + 1 = Num(q, S, j)
  BY <1>1, NumAt
<1>3. Num(q, S, i) <= Num(q, S, j - 1)
  BY <1>1, NumMonotonic
<1>4. Num(q, S, i) \in Nat /\ Num(q, S, j - 1) \in Nat /\ Num(q, S, j) \in Nat
  BY <1>1, NumIsFinite
<1> QED BY <1>2, <1>3, <1>4

\* Each number up to the last one is that of a counted element
LEMMA NumReaches ==
    ASSUME NEW q, NEW S, NEW n \in Nat
    PROVE  \A k \in 1 .. Num(q, S, n) : \E i \in 1 .. n : q[i] \in S /\ Num(q, S, i) = k
<1> DEFINE P(m) == \A k \in 1 .. Num(q, S, m) :
                      \E i \in 1 .. m : q[i] \in S /\ Num(q, S, i) = k
           G == {m \in 0 .. n : P(m)}
<1>1. 0 \in G
  BY NumStep
<1>2. ASSUME NEW m \in 1 .. n, m - 1 \in G PROVE m \in G
  <2>1. m - 1 \in Nat /\ (m - 1) + 1 = m /\ m \in 1 .. m /\ m \in 0 .. n
    OBVIOUS
  <2>2. Num(q, S, m) = Num(q, S, m - 1) + IF q[m] \in S THEN 1 ELSE 0
    BY <2>1, NumStep
  <2>3. Num(q, S, m) \in Nat /\ Num(q, S, m - 1) \in Nat
    <3>1. \A j \in Nat : Num(q, S, j) \in Nat
      BY NumIsFinite
    <3> QED BY <2>1, <3>1
  <2>4. ASSUME NEW k \in 1 .. Num(q, S, m)
        PROVE  \E i \in 1 .. m : q[i] \in S /\ Num(q, S, i) = k
    <3>1. CASE k \in 1 .. Num(q, S, m - 1)
      <4>1. PICK i \in 1 .. m - 1 : q[i] \in S /\ Num(q, S, i) = k
        BY <1>2, <3>1
      <4>2. i \in 1 .. m
        BY <2>1
      <4> QED BY <4>1, <4>2
    <3>2. CASE k \notin 1 .. Num(q, S, m - 1)
      <4>1. q[m] \in S /\ Num(q, S, m) = k
        BY <2>2, <2>3, <3>2
      <4> QED BY <2>1, <4>1
    <3> QED BY <3>1, <3>2
  <2> QED BY <2>1, <2>4
<1> HIDE DEF G
<1>3. \A m \in 1 .. n : m - 1 \in G => m \in G
  BY <1>2
<1>4. n \in 0 .. n
  OBVIOUS
<1>5. n \in G
  BY <1>1, <1>3, <1>4, Induction
<1> QED BY <1>5 DEF G

\* One sequence behind another
LEMMA NumConcat ==
    ASSUME NEW T, NEW q \in Seq(T), NEW r \in Seq(T), NEW S
    PROVE  \A k \in 0 .. Len(r) :
              Num(q \o r, S, Len(q) + k) = Num(q, S, Len(q)) + Num(r, S, k)
<1> DEFINE N == Len(q)
           M == Len(r)
           s == q \o r
           G == {k \in 0 .. M : Num(s, S, N + k) = Num(q, S, N) + Num(r, S, k)}
<1>1. /\ N \in Nat /\ M \in Nat /\ Len(s) = N + M
      /\ \A i \in 1 .. N + M : s[i] = IF i <= N THEN q[i] ELSE r[i - N]
  BY ConcatProperties, LenProperties
<1> HIDE DEF N, M, s
<1>2. 0 \in G
  <2>1. Num(s, S, N) = Num(q, S, N)
    BY <1>1, NumSame
  <2>2. Num(r, S, 0) = 0
    BY <1>1, NumStep
  <2>3. Num(q, S, N) \in Nat
    BY <1>1, NumIsFinite
  <2>4. N + 0 = N /\ 0 \in 0 .. M
    BY <1>1
  <2> QED BY <2>1, <2>2, <2>3, <2>4
<1>3. ASSUME NEW k \in 1 .. M, k - 1 \in G PROVE k \in G
  <2> DEFINE a == N + (k - 1)
             x == IF r[k] \in S THEN 1 ELSE 0
  <2>1. a \in Nat /\ a + 1 = N + k /\ k - 1 \in Nat /\ (k - 1) + 1 = k
        /\ N + k \in 1 .. N + M /\ ~ (N + k <= N) /\ (N + k) - N = k /\ k \in 0 .. M
    BY <1>1
  <2>2. s[N + k] = r[k]
    BY <1>1, <2>1
  <2> HIDE DEF a
  <2>3. Num(s, S, N + k) = Num(s, S, a) + x
    <3>1. \A i \in Nat : Num(s, S, i + 1) = Num(s, S, i) + IF s[i + 1] \in S THEN 1 ELSE 0
      BY NumStep
    <3>2. Num(s, S, a + 1) = Num(s, S, a) + IF s[a + 1] \in S THEN 1 ELSE 0
      BY <2>1, <3>1
    <3>3. Num(s, S, N + k) = Num(s, S, a) + IF s[N + k] \in S THEN 1 ELSE 0
      BY <2>1, <3>2
    <3> QED BY <2>2, <3>3
  <2>4. Num(r, S, k) = Num(r, S, k - 1) + x
    <3>1. \A i \in Nat : Num(r, S, i + 1) = Num(r, S, i) + IF r[i + 1] \in S THEN 1 ELSE 0
      BY NumStep
    <3> QED BY <2>1, <3>1
  <2>5. Num(s, S, a) = Num(q, S, N) + Num(r, S, k - 1)
    BY <1>3 DEF a
  <2>6. Num(q, S, N) \in Nat /\ Num(r, S, k - 1) \in Nat /\ x \in Nat
    BY <1>1, <2>1, NumIsFinite
  <2> HIDE DEF x
  <2>7. Num(s, S, N + k) = Num(q, S, N) + Num(r, S, k)
    BY <2>3, <2>4, <2>5, <2>6
  <2> QED BY <2>1, <2>7
<1>4. \A k \in 0 .. M : k \in G
  <2> HIDE DEF G
  <2>1. \A k \in 1 .. M : k - 1 \in G => k \in G
    BY <1>3
  <2> QED BY <1>1, <1>2, <2>1, Induction
<1> QED BY <1>4 DEF N, M, s

-----------------------------------------------------------------------------
(* Sequences, one element after the other *)

\* A sequence with one more element
LEMMA AppendOne ==
    ASSUME NEW S, NEW t \in Seq(S), NEW d \in S
    PROVE  /\ Append(t, d) \in Seq(S) /\ Append(t, d) # <<>>
           /\ Len(Append(t, d)) = Len(t) + 1 /\ Append(t, d)[Len(t) + 1] = d
           /\ \A i \in 1 .. Len(t) : Append(t, d)[i] = t[i]
<1>1. Append(t, d) \in Seq(S) /\ Len(Append(t, d)) = Len(t) + 1
      /\ Append(t, d)[Len(t) + 1] = d
      /\ \A i \in 1 .. Len(t) : Append(t, d)[i] = t[i]
  OBVIOUS
<1>2. Len(t) + 1 # 0
  OBVIOUS
<1>3. Append(t, d) # <<>>
  BY <1>1, <1>2, EmptySeq
<1> QED BY <1>1, <1>3

\* A sequence begins with an element, or with the sequence of it
LEMMA BeginsWith ==
    ASSUME NEW S, NEW s \in Seq(S), NEW e \in S
    PROVE  IsPrefix(<<e>>, s) <=> s # <<>> /\ s[1] = e
<1>1. <<e>> \in Seq(S) /\ Len(<<e>>) = 1 /\ <<e>>[1] = e
  OBVIOUS
<1>2. SubSeq(<<e>>, 1, 1) = <<e>>
  BY <1>1, SubSeqFull
<1>3. Len(s) \in Nat /\ (s # <<>> <=> 1 <= Len(s))
  BY EmptySeq
<1>4. ASSUME 1 <= Len(s) PROVE SubSeq(s, 1, 1) = <<e>> <=> s[1] = e
  <2>1. SubSeq(s, 1, 1) = <<s[1]>>
    <3>1. PICK x : x = <<s[1]>>
      OBVIOUS
    <3>2. s[1] \in S
      BY <1>3, <1>4
    <3>3. x \in Seq(S) /\ Len(x) = 1 /\ x[1] = s[1]
      BY <3>1, <3>2
    <3>4. PICK q : q = SubSeq(s, 1, 1)
      OBVIOUS
    <3>5. q \in Seq(S) /\ Len(q) = 1
      BY <1>3, <1>4, <3>4
    <3>6. q[1] = s[1]
      BY <1>3, <1>4, <3>4
    <3>7. \A i \in 1 .. Len(x) : x[i] = q[i]
      BY <3>3, <3>5, <3>6
    <3>8. x = q
      BY <3>3, <3>5, <3>7, SeqEqual
    <3> QED BY <3>1, <3>4, <3>8
  <2>2. <<s[1]>> = <<e>> <=> s[1] = e
    OBVIOUS
  <2> QED BY <2>1, <2>2
<1> QED BY <1>1, <1>2, <1>3, <1>4 DEF IsPrefix

\* Induction over sequences, for a set in the place of a predicate
LEMMA SeqInduction ==
    ASSUME NEW S, NEW G, <<>> \in G,
           \A p \in Seq(S) : \A e \in S : p \in G => Append(p, e) \in G
    PROVE  \A s \in Seq(S) : s \in G
<1> SUFFICES ASSUME NEW s \in Seq(S) PROVE s \in G
  OBVIOUS
<1> DEFINE N == Len(s)
           p == [k \in 0 .. N |-> SubSeq(s, 1, k)]
           K == {k \in 0 .. N : p[k] \in G}
<1>0. N \in Nat
  OBVIOUS
<1>1. 0 \in K
  <2>1. SubSeq(s, 1, 0) = <<>> /\ 0 \in 0 .. N
    OBVIOUS
  <2> QED BY <2>1
<1>2. ASSUME NEW k \in 1 .. N, k - 1 \in K PROVE k \in K
  <2>1. k - 1 \in 0 .. N /\ k \in 0 .. N
    OBVIOUS
  <2>2. p[k - 1] = SubSeq(s, 1, k - 1) /\ p[k] = SubSeq(s, 1, k)
    BY <2>1
  <2>3. SubSeq(s, 1, k - 1) \in Seq(S) /\ s[k] \in S
    OBVIOUS
  <2>4. SubSeq(s, 1, k) = Append(SubSeq(s, 1, k - 1), s[k])
    OBVIOUS
  <2>5. SubSeq(s, 1, k - 1) \in G
    BY <1>2, <2>2
  <2>6. Append(SubSeq(s, 1, k - 1), s[k]) \in G
    BY <2>3, <2>5
  <2> QED BY <2>1, <2>2, <2>4, <2>6
<1>3. N \in K
  <2> HIDE DEF K, N
  <2>1. \A k \in 1 .. N : k - 1 \in K => k \in K
    BY <1>2
  <2>2. \A k \in 0 .. N : k \in K
    BY <1>0, <1>1, <2>1, Induction
  <2> QED BY <1>0, <2>2
<1>4. SubSeq(s, 1, N) \in G
  BY <1>0, <1>3
<1>5. SubSeq(s, 1, N) = s
  BY SubSeqFull
<1> QED BY <1>4, <1>5

\* A sequence with an element has a last one
LEMMA LastElement ==
    ASSUME NEW S
    PROVE  \A s \in Seq(S) : s # <<>> => \E q \in Seq(S), e \in S : s = Append(q, e)
<1> DEFINE G == {s \in Seq(S) : s # <<>> => \E q \in Seq(S), e \in S : s = Append(q, e)}
<1>1. <<>> \in G
  OBVIOUS
<1>2. ASSUME NEW p \in Seq(S), NEW e \in S PROVE Append(p, e) \in G
  <2>1. Append(p, e) \in Seq(S)
    BY AppendOne
  <2>2. \E q \in Seq(S), d \in S : Append(p, e) = Append(q, d)
    BY Zenon
  <2> QED BY <2>1, <2>2
<1>3. \A s \in Seq(S) : s \in G
  <2> HIDE DEF G
  <2> QED BY <1>1, <1>2, SeqInduction
<1> QED BY <1>3

\* A list with an element is its head and its tail
LEMMA HeadAndTail ==
    ASSUME NEW S, NEW s \in Seq(S), s # <<>>
    PROVE  /\ Head(s) \in S /\ Tail(s) \in Seq(S) /\ s = <<Head(s)>> \o Tail(s)
           /\ Head(s) = s[1] /\ 1 \in 1 .. Len(s) /\ Len(Tail(s)) = Len(s) - 1
           /\ \A i \in 1 .. Len(s) - 1 : Tail(s)[i] = s[i + 1]
<1>1. Len(s) >= 1
  BY EmptySeq
<1> QED BY <1>1

-----------------------------------------------------------------------------
(* Recursion over a sequence *)

\* h begins with first and goes on with a step that may depend on the place
Iterates(h, T, N, first, step) ==
    /\ h \in [0 .. N -> T]
    /\ h[0] = first
    /\ \A i \in 1 .. N : h[i] = step[i][h[i - 1]]

\* There is such a function
LEMMA IterateExists ==
    ASSUME NEW T, NEW N \in Nat, NEW first \in T, NEW step \in [1 .. N -> [T -> T]]
    PROVE  \E h : Iterates(h, T, N, first, step)
<1> DEFINE Goes(k, h) == h[0] = first /\ \A i \in 1 .. k : h[i] = step[i][h[i - 1]]
           G == {k \in 0 .. N : \E h \in [0 .. k -> T] : Goes(k, h)}
<1>1. 0 \in G
  <2> DEFINE z == [i \in 0 .. 0 |-> first]
  <2>1. z \in [0 .. 0 -> T] /\ Goes(0, z)
    OBVIOUS
  <2> HIDE DEF z, Goes
  <2> QED BY <2>1
<1>2. ASSUME NEW k \in 1 .. N, k - 1 \in G PROVE k \in G
  <2>1. PICK h \in [0 .. k - 1 -> T] : Goes(k - 1, h)
    BY <1>2
  <2>2. PICK new \in T : new = step[k][h[k - 1]]
    OBVIOUS
  <2> DEFINE g == [i \in 0 .. k |-> IF i = k THEN new ELSE h[i]]
  <2>3. ASSUME NEW i \in 0 .. k PROVE g[i] \in T /\ (i # k => g[i] = h[i])
    <3>1. CASE i = k
      BY <3>1
    <3>2. CASE i # k
      <4>1. i \in 0 .. k - 1
        BY <3>2
      <4> QED BY <3>2, <4>1
    <3> QED BY <3>1, <3>2
  <2>4. g[k] = new
    OBVIOUS
  <2>5. g \in [0 .. k -> T]
    <3>1. g = [i \in 0 .. k |-> g[i]]
      OBVIOUS
    <3> HIDE DEF g
    <3> QED BY <2>3, <3>1
  <2>6. Goes(k, g)
    <3> HIDE DEF g
    <3>1. ASSUME NEW i \in 1 .. k PROVE g[i] = step[i][g[i - 1]]
      <4>1. i - 1 \in 0 .. k /\ i - 1 # k /\ i \in 0 .. k
        OBVIOUS
      <4>2. g[i - 1] = h[i - 1]
        BY <2>3, <4>1
      <4>3. CASE i = k
        BY <2>2, <2>4, <4>2, <4>3
      <4>4. CASE i # k
        <5>1. i \in 1 .. k - 1
          BY <4>4
        <5>2. h[i] = step[i][h[i - 1]] /\ g[i] = h[i]
          BY <2>1, <2>3, <4>1, <4>4, <5>1
        <5> QED BY <4>2, <5>2
      <4> QED BY <4>3, <4>4
    <3>2. 0 \in 0 .. k /\ 0 # k
      OBVIOUS
    <3>3. g[0] = first
      BY <2>1, <2>3, <3>2
    <3> QED BY <3>1, <3>3
  <2> HIDE DEF g, Goes
  <2> QED BY <2>5, <2>6
<1>3. N \in G
  <2> HIDE DEF G
  <2>1. \A k \in 1 .. N : k - 1 \in G => k \in G
    BY <1>2
  <2>2. \A k \in 0 .. N : k \in G
    BY <1>1, <2>1, Induction
  <2> QED BY <2>2
<1> QED BY <1>3 DEF Iterates

\* Joining one sequence more
LEMMA FlattenAppend ==
    ASSUME NEW T, NEW m \in Seq(Seq(T)), NEW e \in Seq(T)
    PROVE  FlattenSeq(m) \in Seq(T) /\ FlattenSeq(Append(m, e)) = FlattenSeq(m) \o e
<1> DEFINE N == Len(m)
<1>1. PICK all : all = Append(m, e)
  OBVIOUS
<1>2. all \in Seq(Seq(T)) /\ Len(all) = N + 1 /\ all[N + 1] = e /\ N \in Nat
      /\ \A i \in 1 .. N : all[i] = m[i]
  BY <1>1, AppendOne
<1>3. PICK h \in [0 .. N -> Seq(T)] :
          /\ h[0] = <<>> /\ \A i \in 1 .. N : h[i] = h[i - 1] \o m[i]
          /\ FlattenSeq(m) = h[N]
  BY FlattenJoins
<1>4. PICK g \in [0 .. Len(all) -> Seq(T)] :
          /\ g[0] = <<>> /\ \A i \in 1 .. Len(all) : g[i] = g[i - 1] \o all[i]
          /\ FlattenSeq(all) = g[Len(all)]
  BY <1>2, FlattenJoins
<1> DEFINE K == {k \in 0 .. N : g[k] = h[k]}
<1>5. 0 \in K
  BY <1>2, <1>3, <1>4
<1>6. ASSUME NEW k \in 1 .. N, k - 1 \in K PROVE k \in K
  <2>1. k \in 1 .. Len(all) /\ k \in 0 .. N
    BY <1>2
  <2>2. g[k] = g[k - 1] \o all[k] /\ h[k] = h[k - 1] \o m[k] /\ all[k] = m[k]
    BY <1>2, <1>3, <1>4, <2>1
  <2>3. g[k - 1] = h[k - 1]
    BY <1>6
  <2> QED BY <2>1, <2>2, <2>3
<1>7. N \in K
  <2> HIDE DEF K, N
  <2>1. \A k \in 1 .. N : k - 1 \in K => k \in K
    BY <1>6
  <2>2. \A k \in 0 .. N : k \in K
    BY <1>2, <1>5, <2>1, Induction
  <2> QED BY <1>2, <2>2
<1>8. g[N] = h[N] /\ h[N] \in Seq(T)
  BY <1>2, <1>3, <1>7
<1>9. N + 1 \in 1 .. Len(all) /\ (N + 1) - 1 = N
  BY <1>2
<1>10. g[N + 1] = g[N] \o e
  BY <1>2, <1>4, <1>9
<1> QED BY <1>1, <1>2, <1>3, <1>4, <1>8, <1>10

\* Nothing joined is nothing
LEMMA FlattenEmpty == FlattenSeq(<<>>) = <<>>
BY DEF FlattenSeq
=============================================================================
