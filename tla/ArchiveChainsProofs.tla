-------------------------- MODULE ArchiveChainsProofs --------------------------
(***************************************************************************)
(* Theorems about ArchiveChains, for any number of archives and callers,   *)
(* any retention counts and a directory of any length.                     *)
(***************************************************************************)
EXTENDS ArchiveChains, SequenceLemmas

Ascending(q) == \A i, k \in DOMAIN q : i < k => q[i] < q[k]

-------------------------------------------------------------------------------
(* Sequences of numbers without duplicates, as listings and work lists are. *)

LEMMA SeqFacts ==
    ASSUME NEW S, NEW q \in Seq(S)
    PROVE  /\ Len(q) \in Nat /\ DOMAIN q = 1 .. Len(q)
           /\ \A i \in 1 .. Len(q) : q[i] \in S
           /\ Range(q) = {q[i] : i \in 1 .. Len(q)}
           /\ Range(q) \subseteq S
           /\ q = <<>> <=> Len(q) = 0
           /\ q = <<>> <=> Range(q) = {}
<1>1. /\ Len(q) \in Nat /\ DOMAIN q = 1 .. Len(q)
      /\ Range(q) = {q[i] : i \in 1 .. Len(q)}
      /\ \A i \in 1 .. Len(q) : q[i] \in S
  BY LenProperties, RangeEquality, ElementOfSeq
<1>2. q = <<>> <=> Len(q) = 0
  BY EmptySeq, LenProperties
<1>3. Len(q) = 0 <=> {q[i] : i \in 1 .. Len(q)} = {}
  <2>1. Len(q) = 0 => 1 .. Len(q) = {}
    BY <1>1
  <2>2. Len(q) # 0 => 1 \in 1 .. Len(q)
    BY <1>1
  <2>3. QED
    BY <2>1, <2>2
<1>4. Range(q) \subseteq S
  BY <1>1
<1>5. QED
  BY <1>1, <1>2, <1>3, <1>4

LEMMA AscendingIsInjective ==
    ASSUME NEW S, S \subseteq Int, NEW q \in Seq(S), Ascending(q)
    PROVE  IsInjective(q)
<1>1. Len(q) \in Nat /\ DOMAIN q = 1 .. Len(q) /\ \A i \in 1 .. Len(q) : q[i] \in Int
  BY SeqFacts
<1>2. SUFFICES ASSUME NEW i \in 1 .. Len(q), NEW k \in 1 .. Len(q), q[i] = q[k]
               PROVE  i = k
  BY <1>1 DEF IsInjective
<1>3. ~(i < k) /\ ~(k < i)
  BY <1>1, <1>2 DEF Ascending
<1>4. QED
  BY <1>3

\* A part of a listing keeps its order.
LEMMA PartProperties ==
    ASSUME NEW S, NEW q \in Seq(S), NEW m \in Int, NEW n \in Int, 1 <= m, n <= Len(q)
    PROVE  /\ SubSeq(q, m, n) \in Seq(S)
           /\ Len(SubSeq(q, m, n)) = IF m <= n THEN n - m + 1 ELSE 0
           /\ \A i \in 1 .. n - m + 1 : SubSeq(q, m, n)[i] = q[m + i - 1]
           /\ Range(SubSeq(q, m, n)) = {q[i] : i \in m .. n}
           /\ IsInjective(q) => IsInjective(SubSeq(q, m, n))
           /\ Ascending(q) => Ascending(SubSeq(q, m, n))
<1>1. /\ Len(q) \in Nat /\ DOMAIN q = 1 .. Len(q)
      /\ \A i \in 1 .. Len(q) : q[i] \in S
  BY SeqFacts
<1>2. \A i \in m .. n : q[i] \in S
  BY <1>1
<1> DEFINE p == SubSeq(q, m, n)
<1>3. /\ p \in Seq(S)
      /\ Len(p) = IF m <= n THEN n - m + 1 ELSE 0
      /\ \A i \in 1 .. n - m + 1 : p[i] = q[m + i - 1]
  BY <1>2, SubSeqProperties
<1> HIDE DEF p
<1>4. DOMAIN p = 1 .. n - m + 1 /\ Range(p) = {p[i] : i \in 1 .. n - m + 1}
  <2>1. DOMAIN p = 1 .. Len(p) /\ Range(p) = {p[i] : i \in 1 .. Len(p)}
    BY <1>3, SeqFacts
  <2>2. 1 .. Len(p) = 1 .. n - m + 1
    BY <1>3
  <2>3. QED
    BY <2>1, <2>2
<1>5. Range(p) = {q[i] : i \in m .. n}
  <2>1. Range(p) \subseteq {q[i] : i \in m .. n}
    <3>1. SUFFICES ASSUME NEW i \in 1 .. n - m + 1 PROVE p[i] \in {q[k] : k \in m .. n}
      BY <1>4
    <3>2. p[i] = q[m + i - 1] /\ m + i - 1 \in m .. n
      BY <1>3
    <3>3. QED
      BY <3>2
  <2>2. {q[i] : i \in m .. n} \subseteq Range(p)
    <3>1. SUFFICES ASSUME NEW i \in m .. n PROVE q[i] \in {p[k] : k \in 1 .. n - m + 1}
      BY <1>4
    <3>2. i - m + 1 \in 1 .. n - m + 1 /\ m + (i - m + 1) - 1 = i
      OBVIOUS
    <3>3. p[i - m + 1] = q[i]
      BY <1>3, <3>2
    <3>4. QED
      BY <3>2, <3>3
  <2>3. QED
    BY <2>1, <2>2
<1>6. \A i \in 1 .. n - m + 1 : m + i - 1 \in 1 .. Len(q)
  BY <1>1
<1>7. IsInjective(q) => IsInjective(p)
  <2>1. SUFFICES ASSUME IsInjective(q), NEW i \in 1 .. n - m + 1, NEW k \in 1 .. n - m + 1,
                        p[i] = p[k]
                 PROVE  i = k
    BY <1>4 DEF IsInjective
  <2>2. q[m + i - 1] = q[m + k - 1]
    BY <1>3, <2>1
  <2>3. m + i - 1 = m + k - 1
    BY <1>1, <1>6, <2>1, <2>2 DEF IsInjective
  <2>4. QED
    BY <2>3
<1>8. Ascending(q) => Ascending(p)
  <2>1. SUFFICES ASSUME Ascending(q), NEW i \in 1 .. n - m + 1, NEW k \in 1 .. n - m + 1, i < k
                 PROVE  p[i] < p[k]
    BY <1>4 DEF Ascending
  <2>2. m + i - 1 < m + k - 1
    BY <2>1
  <2>3. q[m + i - 1] < q[m + k - 1]
    BY <1>1, <1>6, <2>1, <2>2 DEF Ascending
  <2>4. QED
    BY <1>3, <2>3
<1>9. QED
  BY <1>3, <1>5, <1>7, <1>8 DEF p

\* Taking the first of a work list.
LEMMA TailProperties ==
    ASSUME NEW S, NEW q \in Seq(S), q # <<>>, IsInjective(q)
    PROVE  /\ Head(q) \in S /\ Head(q) \in Range(q)
           /\ Tail(q) \in Seq(S) /\ IsInjective(Tail(q))
           /\ Range(Tail(q)) = Range(q) \ {Head(q)}
           /\ Ascending(q) => Ascending(Tail(q))
           /\ Ascending(q) => \A x \in Range(q) : Head(q) = x \/ Head(q) < x
<1>1. /\ Len(q) \in Nat /\ DOMAIN q = 1 .. Len(q)
      /\ \A i \in 1 .. Len(q) : q[i] \in S
      /\ Range(q) = {q[i] : i \in 1 .. Len(q)} /\ Len(q) # 0
  BY SeqFacts
<1>2. Head(q) = q[1] /\ 1 \in 1 .. Len(q)
  BY <1>1
<1>3. Tail(q) = SubSeq(q, 2, Len(q))
  BY TailIsSubSeq
<1>4. /\ Tail(q) \in Seq(S) /\ IsInjective(Tail(q))
      /\ Range(Tail(q)) = {q[i] : i \in 2 .. Len(q)}
      /\ Ascending(q) => Ascending(Tail(q))
  <2>0. 2 \in Int /\ Len(q) \in Int
    BY <1>1
  <2>1. PICK m \in Int, n \in Int : m = 2 /\ n = Len(q)
    BY <2>0
  <2> DEFINE p == SubSeq(q, m, n)
  <2>2. /\ p \in Seq(S) /\ (IsInjective(q) => IsInjective(p))
        /\ Range(p) = {q[i] : i \in m .. n}
        /\ Ascending(q) => Ascending(p)
    <3>1. 1 <= m /\ n <= Len(q)
      BY <1>1, <2>1
    <3>2. QED
      BY <3>1, PartProperties
  <2> HIDE DEF p
  <2>3. Tail(q) = p
    BY <1>3, <2>1 DEF p
  <2>4. QED
    BY <2>1, <2>2, <2>3
<1>5. Range(Tail(q)) = Range(q) \ {Head(q)}
  <2>1. \A i \in 2 .. Len(q) : i \in 1 .. Len(q) /\ q[i] # q[1]
    <3>1. SUFFICES ASSUME NEW i \in 2 .. Len(q) PROVE i \in 1 .. Len(q) /\ q[i] # q[1]
      OBVIOUS
    <3>2. i \in 1 .. Len(q) /\ i # 1
      BY <1>1
    <3>3. QED
      BY <1>1, <1>2, <3>2 DEF IsInjective
  <2>2. \A i \in 1 .. Len(q) : q[i] # q[1] => i \in 2 .. Len(q)
    BY <1>1
  <2> HIDE DEF Range
  <2>3. QED
    BY <1>1, <1>2, <1>4, <2>1, <2>2
<1>6. Ascending(q) => \A x \in Range(q) : Head(q) = x \/ Head(q) < x
  <2>1. SUFFICES ASSUME Ascending(q), NEW i \in 1 .. Len(q) PROVE q[1] = q[i] \/ q[1] < q[i]
    BY <1>1, <1>2
  <2>2. i = 1 \/ 1 < i
    BY <1>1
  <2>3. QED
    BY <1>1, <1>2, <2>1, <2>2 DEF Ascending
<1>7. Head(q) \in S /\ Head(q) \in Range(q)
  BY <1>1, <1>2
<1>8. QED
  BY <1>4, <1>5, <1>6, <1>7

\* A file that is created or copied stands last.
LEMMA AscendingAppend ==
    ASSUME NEW S, NEW q \in Seq(S), NEW e \in S, Ascending(q),
           \A x \in Range(q) : x < e
    PROVE  Ascending(Append(q, e))
<1>1. /\ Append(q, e) \in Seq(S)
      /\ Len(Append(q, e)) = Len(q) + 1
      /\ \A i \in 1 .. Len(q) : Append(q, e)[i] = q[i]
      /\ Append(q, e)[Len(q) + 1] = e
  BY AppendProperties
<1>2. /\ Len(q) \in Nat /\ DOMAIN q = 1 .. Len(q)
      /\ \A i \in 1 .. Len(q) : q[i] \in Range(q)
  BY SeqFacts
<1>3. DOMAIN Append(q, e) = 1 .. Len(q) + 1
  BY <1>1, SeqFacts
<1>4. SUFFICES ASSUME NEW i \in 1 .. Len(q) + 1, NEW k \in 1 .. Len(q) + 1, i < k
               PROVE  Append(q, e)[i] < Append(q, e)[k]
  BY <1>3 DEF Ascending
<1>5. i \in 1 .. Len(q) /\ (k \in 1 .. Len(q) \/ k = Len(q) + 1)
  BY <1>2, <1>4
<1>6. QED
  BY <1>1, <1>2, <1>4, <1>5 DEF Ascending

\* Removing a file keeps the order of the others.
LEMMA WithoutProperties ==
    ASSUME NEW S, NEW q \in Seq(S), NEW e, IsInjective(q)
    PROVE  /\ Without(q, e) \in Seq(S)
           /\ IsInjective(Without(q, e))
           /\ Range(Without(q, e)) = Range(q) \ {e}
           /\ Ascending(q) => Ascending(Without(q, e))
<1>1. /\ RemoveFirst(q, e) \in Seq(S)
      /\ IsInjective(RemoveFirst(q, e))
      /\ Range(RemoveFirst(q, e)) = Range(q) \ {e}
  BY RemoveFirstProperties
<1>2. Ascending(q) => Ascending(RemoveFirst(q, e))
  <2>1. /\ Len(q) \in Nat /\ DOMAIN q = 1 .. Len(q)
        /\ \A i \in 1 .. Len(q) : q[i] \in S
    BY SeqFacts
  <2>2. CASE ~ \E i \in 1 .. Len(q) : q[i] = e
    BY <2>2 DEF RemoveFirst
  <2>3. CASE \E i \in 1 .. Len(q) : q[i] = e
    <3>1. PICK k \in 1 .. Len(q) : q[k] = e
      BY <2>3
    <3>2. \A i \in 1 .. Len(q) : q[i] = e => i = k
      BY <2>1, <3>1 DEF IsInjective
    <3>3. SelectInSeq(q, LAMBDA v : v = e) = k
      <4> DEFINE I == {i \in 1 .. Len(q) : q[i] = e}
      <4>1. I \in SUBSET Int /\ k \in I /\ \A i \in I : i = k
        BY <2>1, <3>1, <3>2
      <4>2. Min(I) = k
        BY <4>1, MinIsLeast
      <4>3. QED
        BY <4>1, <4>2 DEF SelectInSeq
    <3> DEFINE t == RemoveAt(q, k)
    <3>4. RemoveFirst(q, e) = t
      BY <2>3, <3>3 DEF RemoveFirst
    <3>5. /\ t \in Seq(S) /\ Len(t) = Len(q) - 1
          /\ \A i \in 1 .. Len(q) - 1 : t[i] = IF i < k THEN q[i] ELSE q[i + 1]
      BY <2>1, <3>1, RemoveAtProperties
    <3> HIDE DEF t
    <3>6. DOMAIN t = 1 .. Len(q) - 1
      BY <3>5, SeqFacts
    <3>7. SUFFICES ASSUME Ascending(q), NEW i \in 1 .. Len(q) - 1, NEW j \in 1 .. Len(q) - 1, i < j
                   PROVE  t[i] < t[j]
      BY <3>4, <3>6 DEF Ascending
    <3> DEFINE up(x) == IF x < k THEN x ELSE x + 1
    <3>8. /\ up(i) \in 1 .. Len(q) /\ up(j) \in 1 .. Len(q) /\ up(i) < up(j)
          /\ t[i] = q[up(i)] /\ t[j] = q[up(j)]
      BY <2>1, <3>1, <3>5, <3>7
    <3> HIDE DEF up
    <3>9. QED
      BY <2>1, <3>7, <3>8 DEF Ascending
  <2>4. QED
    BY <2>2, <2>3
<1>3. QED
  BY <1>1, <1>2 DEF Without

LEMMA MaxProperties ==
    ASSUME NEW n \in Nat, NEW T, T \subseteq 0 .. n, T # {}
    PROVE  Max(T) \in T /\ \A x \in T : x <= Max(T)
<1> DEFINE D == {n - x : x \in T}
<1>1. D \subseteq Nat /\ D # {}
  OBVIOUS
<1>2. PICK d \in D : \A y \in D : d <= y
  BY <1>1, LeastExists
<1>3. PICK m \in T : d = n - m
  BY <1>2
<1>4. \A x \in T : x <= m
  <2>1. SUFFICES ASSUME NEW x \in T PROVE x <= m
    OBVIOUS
  <2>2. n - m <= n - x
    BY <1>2, <1>3
  <2>3. m \in Int /\ x \in Int
    OBVIOUS
  <2>4. QED
    BY <2>2, <2>3
<1>5. \E m_1 \in T : \A x \in T : m_1 >= x
  <2>1. \A x \in T : m >= x
    BY <1>4
  <2>2. QED
    BY <2>1
<1>6. QED
  BY <1>5 DEF Max

-------------------------------------------------------------------------------
(* Chains.  A directory that is listed in the order of its archives has as  *)
(* many chains as its set of archives has heads: the FULL archives, and the *)
(* oldest whatever it is.                                                   *)

Heads(A) == {a \in A : kind[a] = "FULL" \/ \A b \in A : a <= b}

Younger(A, a) == {h \in Heads(A) : h > a}

LEMMA IdsAreNumbers == MaxArchives \in Nat /\ \A a \in Ids : a \in Nat
BY ChainsAssumption DEF Ids

LEMMA FiniteIds ==
    ASSUME NEW A \in SUBSET Ids
    PROVE  IsFiniteSet(A) /\ Cardinality(A) \in Nat
<1>1. MaxArchives \in Int /\ 1 \in Int
  BY IdsAreNumbers
<1>2. IsFiniteSet(1 .. MaxArchives)
  BY <1>1, FS_Interval
<1>3. IsFiniteSet(A)
  BY <1>2, FS_Subset DEF Ids
<1>4. QED
  BY <1>3, FS_CardinalityType

LEMMA CardinalityGrows ==
    ASSUME NEW B \in SUBSET Ids, NEW A \in SUBSET B
    PROVE  Cardinality(A) <= Cardinality(B)
BY FiniteIds, FS_Subset

LEMMA OneMore ==
    ASSUME NEW A \in SUBSET Ids, NEW B \in SUBSET Ids, NEW x \in Ids, A \subseteq B \cup {x}
    PROVE  Cardinality(A) <= Cardinality(B) + 1
<1>1. B \cup {x} \in SUBSET Ids /\ IsFiniteSet(B) /\ Cardinality(B) \in Nat
  BY FiniteIds
<1>2. Cardinality(A) <= Cardinality(B \cup {x})
  BY <1>1, CardinalityGrows
<1>3. Cardinality(B \cup {x}) = IF x \in B THEN Cardinality(B) ELSE Cardinality(B) + 1
  BY <1>1, FS_AddElement
<1>4. Cardinality(A) \in Nat
  BY FiniteIds
<1>5. QED
  BY <1>1, <1>2, <1>3, <1>4

\* A listing holds as many files at some positions as there are positions.
LEMMA ImageCardinality ==
    ASSUME NEW S, NEW q \in Seq(S), IsInjective(q), NEW A \in SUBSET (1 .. Len(q))
    PROVE  Cardinality({q[i] : i \in A}) = Cardinality(A)
<1>1. Len(q) \in Nat /\ DOMAIN q = 1 .. Len(q)
  BY SeqFacts
<1>2. IsFiniteSet(A)
  <2>1. IsFiniteSet(1 .. Len(q))
    BY <1>1, FS_Interval
  <2>2. QED
    BY <2>1, FS_Subset
<1> DEFINE I == {q[i] : i \in A}
           f == [i \in A |-> q[i]]
<1>3. f \in Bijection(A, I)
  <2>1. f \in [A -> I] /\ \A i \in A : f[i] = q[i]
    OBVIOUS
  <2>2. \A i, k \in A : q[i] = q[k] => i = k
    BY <1>1 DEF IsInjective
  <2>3. f \in Injection(A, I)
    BY <2>1, <2>2 DEF Injection, IsInjective
  <2>4. \A x \in I : \E i \in A : f[i] = x
    BY <2>1
  <2> HIDE DEF f, I
  <2>5. QED
    BY <2>1, <2>3, <2>4 DEF Bijection, Surjection
<1> HIDE DEF f, I
<1>4. ExistsBijection(A, I)
  BY <1>3 DEF ExistsBijection
<1>5. QED
  BY <1>2, <1>4, FS_Bijection DEF I

\* In a listing that is in order, position and age agree.
LEMMA ByAge ==
    ASSUME NEW q \in Seq(Ids), Ascending(q), NEW i \in 1 .. Len(q), NEW k \in 1 .. Len(q)
    PROVE  /\ i < k <=> q[i] < q[k]
           /\ i <= k <=> q[i] <= q[k]
           /\ i = k <=> q[i] = q[k]
<1>1. Len(q) \in Nat /\ DOMAIN q = 1 .. Len(q) /\ q[i] \in Nat /\ q[k] \in Nat
  BY SeqFacts, IdsAreNumbers
<1>2. (i < k => q[i] < q[k]) /\ (k < i => q[k] < q[i])
  BY <1>1 DEF Ascending
<1>3. QED
  BY <1>1, <1>2

LEMMA StartsAreHeads ==
    ASSUME NEW q \in Seq(Ids), Ascending(q)
    PROVE  /\ \A k \in 1 .. Len(q) : k \in Starts(q) <=> q[k] \in Heads(Range(q))
           /\ Starts(q) \subseteq 1 .. Len(q)
           /\ {q[k] : k \in Starts(q)} = Heads(Range(q))
           /\ Cardinality(Starts(q)) = Cardinality(Heads(Range(q)))
<1>1. /\ Len(q) \in Nat /\ DOMAIN q = 1 .. Len(q)
      /\ Range(q) = {q[i] : i \in 1 .. Len(q)}
  BY SeqFacts
<1>2. Starts(q) = {i \in 1 .. Len(q) : i = 1 \/ kind[q[i]] = "FULL"}
  BY <1>1 DEF Starts
<1>3. \A k \in 1 .. Len(q) : k \in Starts(q) <=> q[k] \in Heads(Range(q))
  <2>1. SUFFICES ASSUME NEW k \in 1 .. Len(q)
                 PROVE  k = 1 <=> \A b \in Range(q) : q[k] <= b
    BY <1>1, <1>2 DEF Heads
  <2>2. (\A b \in Range(q) : q[k] <= b) <=> \A i \in 1 .. Len(q) : q[k] <= q[i]
    BY <1>1
  <2>3. (\A i \in 1 .. Len(q) : q[k] <= q[i]) <=> \A i \in 1 .. Len(q) : k <= i
    BY ByAge
  <2>4. (\A i \in 1 .. Len(q) : k <= i) <=> k = 1
    BY <1>1
  <2>5. QED
    BY <2>2, <2>3, <2>4
<1>4. {q[k] : k \in Starts(q)} = Heads(Range(q))
  BY <1>1, <1>2, <1>3 DEF Heads
<1>5. Starts(q) \in SUBSET (1 .. Len(q)) /\ IsInjective(q)
  <2>1. Ids \subseteq Int
    BY IdsAreNumbers
  <2>2. QED
    BY <1>2, <2>1, AscendingIsInjective
<1>6. Cardinality({q[k] : k \in Starts(q)}) = Cardinality(Starts(q))
  BY <1>5, ImageCardinality
<1>7. QED
  BY <1>3, <1>4, <1>5, <1>6

\* What is expired: the files that n chains or more are younger than.
LEMMA ExpiredProperties ==
    ASSUME NEW q \in Seq(Ids), NEW n \in Nat
    PROVE  /\ Expired(q, n) \in Seq(Ids)
           /\ IsInjective(q) => IsInjective(Expired(q, n))
           /\ Range(Expired(q, n)) \subseteq Range(q)
           /\ Ascending(q) =>
                /\ Ascending(Expired(q, n))
                /\ Range(Expired(q, n)) =
                     {a \in Range(q) : Cardinality(Younger(Range(q), a)) >= n}
<1>1. /\ Len(q) \in Nat /\ DOMAIN q = 1 .. Len(q)
      /\ Range(q) = {q[i] : i \in 1 .. Len(q)}
  BY SeqFacts
<1> DEFINE After(i) == {k \in Starts(q) : k > i}
           old == {i \in 1 .. Len(q) : Cardinality(After(i)) >= n}
           m == Max(old \cup {0})
<1>2. Expired(q, n) = SubSeq(q, 1, m)
  BY <1>1 DEF Expired
<1>3. m \in old \cup {0} /\ \A i \in old \cup {0} : i <= m
  <2> DEFINE T == old \cup {0}
  <2>1. T \subseteq 0 .. Len(q) /\ T # {}
    BY <1>1
  <2> HIDE DEF T
  <2>2. Max(T) \in T /\ \A i \in T : i <= Max(T)
    BY <1>1, <2>1, MaxProperties
  <2>3. QED
    BY <2>2 DEF T
<1> HIDE DEF m
<1>4. m \in Int /\ m <= Len(q)
  BY <1>1, <1>3
<1>5. /\ SubSeq(q, 1, m) \in Seq(Ids)
      /\ Range(SubSeq(q, 1, m)) = {q[i] : i \in 1 .. m}
      /\ IsInjective(q) => IsInjective(SubSeq(q, 1, m))
      /\ Ascending(q) => Ascending(SubSeq(q, 1, m))
  <2>1. PICK l \in Int : l = 1
    OBVIOUS
  <2>2. /\ SubSeq(q, l, m) \in Seq(Ids)
        /\ Range(SubSeq(q, l, m)) = {q[i] : i \in l .. m}
        /\ IsInjective(q) => IsInjective(SubSeq(q, l, m))
        /\ Ascending(q) => Ascending(SubSeq(q, l, m))
    <3>1. 1 <= l /\ m <= Len(q)
      BY <1>4, <2>1
    <3>2. QED
      BY <1>4, <3>1, PartProperties
  <2>3. QED
    BY <2>1, <2>2
<1>6. {q[i] : i \in 1 .. m} \subseteq Range(q)
  BY <1>1, <1>4
<1>7. ASSUME Ascending(q)
      PROVE  {q[i] : i \in 1 .. m} = {a \in Range(q) : Cardinality(Younger(Range(q), a)) >= n}
  <2>1. IsInjective(q)
    <3>1. Ids \subseteq Int
      BY IdsAreNumbers
    <3>2. QED
      BY <1>7, <3>1, AscendingIsInjective
  <2>2. /\ Starts(q) \subseteq 1 .. Len(q)
        /\ \A k \in 1 .. Len(q) : k \in Starts(q) <=> q[k] \in Heads(Range(q))
        /\ {q[k] : k \in Starts(q)} = Heads(Range(q))
    BY <1>7, StartsAreHeads
  <2>3. ASSUME NEW i \in 1 .. Len(q)
        PROVE  Cardinality(Younger(Range(q), q[i])) = Cardinality(After(i))
    <3>1. Younger(Range(q), q[i]) = {q[k] : k \in After(i)}
      <4>1. \A k \in 1 .. Len(q) : k > i <=> q[k] > q[i]
        <5>1. \A k \in 1 .. Len(q) : i < k <=> q[i] < q[k]
          BY <1>7, ByAge
        <5>2. QED
          BY <5>1
      <4>2. \A h : h \in Heads(Range(q)) <=> \E k \in Starts(q) : h = q[k]
        BY <2>2
      <4>3. Younger(Range(q), q[i]) \subseteq {q[k] : k \in After(i)}
        BY <2>2, <4>1, <4>2 DEF Younger
      <4>4. {q[k] : k \in After(i)} \subseteq Younger(Range(q), q[i])
        BY <2>2, <4>1, <4>2 DEF Younger
      <4>5. QED
        BY <4>3, <4>4
    <3>2. After(i) \in SUBSET (1 .. Len(q))
      BY <2>2
    <3> HIDE DEF After
    <3>3. Cardinality({q[k] : k \in After(i)}) = Cardinality(After(i))
      BY <2>1, <3>2, ImageCardinality
    <3>4. QED
      BY <3>1, <3>3
  <2>4. ASSUME NEW i \in 1 .. Len(q)
        PROVE  i \in old <=> i \in 1 .. m
    <3>1. i \in old => i <= m
      BY <1>3
    <3>2. ASSUME i <= m
          PROVE  i \in old
      <4>1. m \in old
        BY <1>3, <3>2
      <4>2. After(m) \in SUBSET After(i)
        BY <1>4, <2>2, <3>2
      <4>3. IsFiniteSet(After(i))
        <5>1. IsFiniteSet(1 .. Len(q))
          BY <1>1, FS_Interval
        <5>2. After(i) \in SUBSET (1 .. Len(q))
          BY <2>2
        <5>3. QED
          BY <5>1, <5>2, FS_Subset
      <4> HIDE DEF After
      <4>4. /\ Cardinality(After(m)) <= Cardinality(After(i))
            /\ Cardinality(After(i)) \in Nat /\ Cardinality(After(m)) \in Nat
        BY <4>2, <4>3, FS_Subset, FS_CardinalityType
      <4>5. QED
        BY <4>1, <4>4
    <3>3. QED
      BY <1>1, <1>4, <3>1, <3>2
  <2>5. \A i \in 1 .. m : i \in 1 .. Len(q)
    BY <1>1, <1>4
  <2>6. \A i \in 1 .. Len(q) :
          i \in 1 .. m <=> Cardinality(Younger(Range(q), q[i])) >= n
    BY <2>3, <2>4
  <2> HIDE DEF old, After
  <2>7. QED
    BY <1>1, <2>5, <2>6
<1>8. QED
  BY <1>2, <1>5, <1>6, <1>7

\* A set of archives that is not empty has an oldest one.
LEMMA Oldest ==
    ASSUME NEW A \in SUBSET Ids, A # {}
    PROVE  \E m \in A : \A x \in A : m <= x
<1>1. A \subseteq Nat
  BY IdsAreNumbers
<1>2. QED
  BY <1>1, LeastExists

\* Losing an archive never adds a chain: its first increment becomes the head.
LEMMA HeadsShrink ==
    ASSUME NEW A \in SUBSET Ids, NEW a
    PROVE  Cardinality(Heads(A \ {a})) <= Cardinality(Heads(A))
<1> DEFINE B == A \ {a}
<1>1. Heads(A) \in SUBSET Ids /\ Heads(B) \in SUBSET Ids /\ \A x \in Ids : x \in Nat
  BY IdsAreNumbers DEF Heads
<1>2. CASE a \notin Heads(A)
  <2>1. Heads(B) \subseteq Heads(A)
    <3>1. SUFFICES ASSUME NEW x \in B, \A b \in B : x <= b
                   PROVE  \A b \in A : x <= b
      BY DEF Heads
    <3>2. CASE a \in A
      <4>1. PICK b \in A : ~(a <= b)
        BY <1>2, <3>2 DEF Heads
      <4>2. b \in B /\ x <= b /\ b < a
        BY <1>1, <3>1, <3>2, <4>1
      <4>3. x <= a
        BY <1>1, <3>2, <4>2
      <4>4. QED
        BY <3>1, <4>3
    <3>3. CASE a \notin A
      BY <3>1, <3>3
    <3>4. QED
      BY <3>2, <3>3
  <2> HIDE DEF B
  <2>2. QED
    BY <1>1, <2>1, CardinalityGrows DEF B
<1>3. CASE a \in Heads(A)
  <2>1. CASE B = {}
    <3>1. Heads(B) \subseteq Heads(A)
      BY <2>1 DEF Heads
    <3> HIDE DEF B
    <3>2. QED
      BY <1>1, <3>1, CardinalityGrows DEF B
  <2>2. CASE B # {}
    <3>1. PICK m \in B : \A x \in B : m <= x
      BY <2>2, Oldest
    <3>2. Heads(B) \subseteq (Heads(A) \ {a}) \cup {m}
      <4>1. SUFFICES ASSUME NEW x \in B, kind[x] # "FULL", \A b \in B : x <= b
                     PROVE  x = m
        BY DEF Heads
      <4>2. x <= m /\ m <= x
        BY <3>1, <4>1
      <4>3. QED
        BY <1>1, <4>2
    <3>3. Heads(A) \ {a} \in SUBSET Ids /\ m \in Ids /\ IsFiniteSet(Heads(A))
      BY <1>1, FiniteIds
    <3> HIDE DEF B
    <3>4. Cardinality(Heads(B)) <= Cardinality(Heads(A) \ {a}) + 1
      BY <1>1, <3>2, <3>3, OneMore
    <3>5. Cardinality(Heads(A) \ {a}) = Cardinality(Heads(A)) - 1
      BY <1>3, <3>3, FS_RemoveElement
    <3>6. Cardinality(Heads(A)) \in Nat
      BY <1>1, FiniteIds
    <3>7. QED
      BY <3>4, <3>5, <3>6 DEF B
  <2>3. QED
    BY <2>1, <2>2
<1>4. QED
  BY <1>2, <1>3

\* What is not expired makes at most n chains.
LEMMA KeptChains ==
    ASSUME NEW A \in SUBSET Ids, NEW n \in Nat, n > 0
    PROVE  Cardinality(Heads(A \ {a \in A : Cardinality(Younger(A, a)) >= n})) <= n
<1> DEFINE K == A \ {a \in A : Cardinality(Younger(A, a)) >= n}
<1>1. /\ K \in SUBSET Ids /\ Heads(K) \in SUBSET Ids
      /\ \A a \in A : Younger(A, a) \in SUBSET Ids
      /\ \A x \in Ids : x \in Nat
  BY IdsAreNumbers DEF Heads, Younger
<1>2. CASE K = {}
  <2>1. Heads(K) = {}
    BY <1>2 DEF Heads
  <2>2. Cardinality(Heads(K)) = 0
    BY <2>1, FS_EmptySet
  <2>3. QED
    BY <2>2
<1>3. CASE K # {}
  <2>1. PICK m \in K : \A x \in K : m <= x
    BY <1>1, <1>3, Oldest
  <2>2. Heads(K) \subseteq Younger(A, m) \cup {m}
    <3>1. SUFFICES ASSUME NEW x \in Heads(K), x # m PROVE x \in Younger(A, m)
      OBVIOUS
    <3>2. m <= x /\ x \in K /\ m \in Ids /\ x \in Ids
      BY <1>1, <2>1 DEF Heads
    <3>3. m < x
      BY <1>1, <3>1, <3>2
    <3>4. kind[x] = "FULL"
      <4>1. ~(x <= m)
        BY <1>1, <3>2, <3>3
      <4>2. QED
        BY <4>1 DEF Heads
    <3>5. QED
      BY <3>2, <3>3, <3>4 DEF Younger, Heads
  <2>3. Cardinality(Younger(A, m)) \in Nat /\ Cardinality(Heads(K)) \in Nat
    BY <1>1, FiniteIds
  <2>4. m \in A /\ ~(Cardinality(Younger(A, m)) >= n) /\ m \in Ids
    OBVIOUS
  <2> HIDE DEF K
  <2>5. Cardinality(Heads(K)) <= Cardinality(Younger(A, m)) + 1
    BY <1>1, <2>2, <2>4, OneMore
  <2>6. QED
    BY <2>3, <2>4, <2>5 DEF K
<1>4. QED
  BY <1>2, <1>3

Fulls(A) == {a \in A : kind[a] = "FULL"}

\* Above every expired archive there are n FULL archives, and none of them is expired
\* with it.
LEMMA FullsAbove ==
    ASSUME NEW A \in SUBSET Ids, NEW n \in Nat, NEW B \in SUBSET A, NEW m \in A,
           Cardinality(Younger(A, m)) >= n, \A x \in B : x <= m
    PROVE  Cardinality(Fulls(A \ B)) >= n
<1>1. Younger(A, m) \in SUBSET Fulls(A \ B) /\ Fulls(A \ B) \in SUBSET Ids
  <2>1. SUFFICES ASSUME NEW x \in Younger(A, m) PROVE x \in A \ B /\ kind[x] = "FULL"
    BY DEF Fulls
  <2>2. x \in A /\ x > m /\ x \in Nat /\ m \in Nat
    BY IdsAreNumbers DEF Younger, Heads
  <2>3. ~(x <= m)
    BY <2>2
  <2>4. QED
    BY <2>2, <2>3 DEF Younger, Heads
<1>2. Cardinality(Younger(A, m)) <= Cardinality(Fulls(A \ B))
  BY <1>1, CardinalityGrows
<1>3. Cardinality(Younger(A, m)) \in Nat /\ Cardinality(Fulls(A \ B)) \in Nat
  BY <1>1, FiniteIds
<1>4. QED
  BY <1>2, <1>3

\* Where a file stands in a listing.
LEMMA PlaceOf ==
    ASSUME NEW q \in Seq(Ids), IsInjective(q), NEW a \in Range(q)
    PROVE  LET i == CHOOSE k \in DOMAIN q : q[k] = a
           IN  i \in 1 .. Len(q) /\ q[i] = a
<1>1. DOMAIN q = 1 .. Len(q) /\ \E k \in DOMAIN q : q[k] = a
  BY SeqFacts
<1>2. QED
  BY <1>1

\* What RemoveBackup deletes: a FULL archive and those up to the next one.
LEMMA ChainOfProperties ==
    ASSUME NEW q \in Seq(Ids), IsInjective(q), NEW a \in Range(q)
    PROVE  /\ ChainOf(q, a) \in Seq(Ids) /\ IsInjective(ChainOf(q, a))
           /\ Range(ChainOf(q, a)) \subseteq Range(q)
           /\ Ascending(q) =>
                /\ Ascending(ChainOf(q, a))
                /\ Range(ChainOf(q, a)) =
                     {x \in Range(q) : a <= x /\ \A b \in Range(q) :
                                          a < b /\ b <= x => kind[b] # "FULL"}
<1>1. /\ Len(q) \in Nat /\ DOMAIN q = 1 .. Len(q)
      /\ Range(q) = {q[k] : k \in 1 .. Len(q)}
  BY SeqFacts
<1> DEFINE i == CHOOSE k \in DOMAIN q : q[k] = a
           ends == {k \in DOMAIN q : k > i /\ kind[q[k]] = "FULL"} \cup {Len(q) + 1}
           n == Min(ends) - 1
<1>2. i \in 1 .. Len(q) /\ q[i] = a
  BY PlaceOf
<1> HIDE DEF i
<1>3. Min(ends) \in ends /\ \A k \in ends : Min(ends) <= k
  <2>1. ends \subseteq Nat /\ ends # {}
    BY <1>1
  <2> HIDE DEF ends
  <2>2. QED
    BY <2>1, MinProperties
<1>4. n \in Int /\ i <= n /\ n <= Len(q) /\ Min(ends) \in Int /\ Min(ends) = n + 1
  BY <1>1, <1>2, <1>3
<1>5. ChainOf(q, a) = SubSeq(q, i, n)
  BY DEF ChainOf, i
<1>6. \A k \in 1 .. Len(q) : k \in i .. n <=>
        i <= k /\ \A j \in 1 .. Len(q) : i < j /\ j <= k => kind[q[j]] # "FULL"
  <2>1. SUFFICES ASSUME NEW k \in 1 .. Len(q), i <= k
                 PROVE  k <= n <=> \A j \in 1 .. Len(q) : i < j /\ j <= k => kind[q[j]] # "FULL"
    BY <1>2, <1>4
  <2>2. ASSUME k <= n, NEW j \in 1 .. Len(q), i < j, j <= k
        PROVE  kind[q[j]] # "FULL"
    <3> HIDE DEF n, ends
    <3>1. ~(Min(ends) <= j)
      BY <1>4, <2>2
    <3>2. j \notin ends
      BY <1>3, <3>1
    <3>3. QED
      BY <1>1, <1>2, <2>2, <3>2 DEF ends
  <2>3. ASSUME ~(k <= n)
        PROVE  \E j \in 1 .. Len(q) : i < j /\ j <= k /\ kind[q[j]] = "FULL"
    <3>1. Min(ends) <= k /\ Min(ends) # Len(q) + 1
      BY <1>1, <1>3, <1>4, <2>3
    <3>2. /\ Min(ends) \in 1 .. Len(q) /\ Min(ends) > i /\ kind[q[Min(ends)]] = "FULL"
      BY <1>1, <1>3, <3>1
    <3>3. i < Min(ends)
      BY <1>2, <3>2
    <3>4. QED
      BY <3>1, <3>2, <3>3
  <2>4. QED
    BY <2>2, <2>3
<1> HIDE DEF ends, n
<1>7. /\ SubSeq(q, i, n) \in Seq(Ids)
      /\ Range(SubSeq(q, i, n)) = {q[k] : k \in i .. n}
      /\ IsInjective(SubSeq(q, i, n))
      /\ Ascending(q) => Ascending(SubSeq(q, i, n))
  <2>1. i \in Int /\ n \in Int /\ 1 <= i /\ n <= Len(q)
    BY <1>2, <1>4
  <2>2. QED
    BY <2>1, PartProperties
<1>8. \A k \in i .. n : k \in 1 .. Len(q)
  BY <1>1, <1>2, <1>4
<1>9. {q[k] : k \in i .. n} \subseteq Range(q)
  BY <1>1, <1>8
<1>10. ASSUME Ascending(q)
       PROVE  {q[k] : k \in i .. n} =
                {x \in Range(q) : a <= x /\ \A b \in Range(q) :
                                     a < b /\ b <= x => kind[b] # "FULL"}
  <2>1. ASSUME NEW k \in 1 .. Len(q)
        PROVE  k \in i .. n <=>
                 a <= q[k] /\ \A b \in Range(q) : a < b /\ b <= q[k] => kind[b] # "FULL"
    <3>1. i <= k <=> a <= q[k]
      BY <1>2, <1>10, ByAge
    <3>2. \A j \in 1 .. Len(q) : (i < j <=> a < q[j]) /\ (j <= k <=> q[j] <= q[k])
      BY <1>2, <1>10, ByAge
    <3>3. (\A j \in 1 .. Len(q) : i < j /\ j <= k => kind[q[j]] # "FULL") <=>
            \A b \in Range(q) : a < b /\ b <= q[k] => kind[b] # "FULL"
      BY <1>1, <3>2
    <3>4. QED
      BY <1>6, <3>1, <3>3
  <2>2. QED
    BY <1>1, <1>8, <2>1
<1>11. QED
  BY <1>5, <1>7, <1>9, <1>10

\* What RestoreBackup extracts: from the last FULL archive, or the oldest file, up to
\* the one that was asked for.
LEMMA PlanOfProperties ==
    ASSUME NEW q \in Seq(Ids), NEW a \in Range(q)
    PROVE  /\ PlanOf(q, a) \in Seq(Ids)
           /\ Ascending(q) =>
                /\ PlanOf(q, a) # <<>>
                /\ Range(PlanOf(q, a)) \subseteq Range(q)
                /\ \A m \in 2 .. Len(PlanOf(q, a)) :
                     /\ kind[PlanOf(q, a)[m]] # "FULL"
                     /\ \E b \in Range(q) : b < PlanOf(q, a)[m]
                     /\ PlanOf(q, a)[m] - 1 \in Range(q) =>
                          PlanOf(q, a)[m - 1] = PlanOf(q, a)[m] - 1
                /\ kind[PlanOf(q, a)[1]] # "FULL" =>
                     \A b \in Range(q) : PlanOf(q, a)[1] <= b
<1>1. /\ Len(q) \in Nat /\ DOMAIN q = 1 .. Len(q)
      /\ Range(q) = {q[k] : k \in 1 .. Len(q)}
      /\ \A k \in 1 .. Len(q) : q[k] \in Ids /\ q[k] \in Nat
  BY SeqFacts, IdsAreNumbers
<1> DEFINE i == CHOOSE k \in DOMAIN q : q[k] = a
           fulls == {k \in DOMAIN q : k <= i /\ kind[q[k]] = "FULL"} \cup {1}
           l == Max(fulls)
           p == SubSeq(q, l, i)
<1>2. i \in 1 .. Len(q) /\ q[i] = a
  <2>1. \E k \in DOMAIN q : q[k] = a
    BY <1>1
  <2>2. QED
    BY <1>1, <2>1
<1> HIDE DEF i
<1>3. l \in fulls /\ \A k \in fulls : k <= l
  <2>1. fulls \subseteq 0 .. Len(q) /\ fulls # {}
    BY <1>1, <1>2
  <2> HIDE DEF fulls
  <2>2. QED
    BY <1>1, <2>1, MaxProperties
<1> HIDE DEF l
<1>4. l \in 1 .. i /\ l \in Int /\ i \in Int /\ i <= Len(q)
  BY <1>1, <1>2, <1>3
<1>5. PlanOf(q, a) = p
  BY DEF PlanOf, i, l
<1>6. /\ p \in Seq(Ids) /\ Len(p) = i - l + 1
      /\ \A k \in 1 .. i - l + 1 : p[k] = q[l + k - 1]
      /\ Range(p) = {q[k] : k \in l .. i}
  <2>1. 1 <= l /\ l <= i
    BY <1>4
  <2>2. Len(p) = IF l <= i THEN i - l + 1 ELSE 0
    BY <1>4, <2>1, PartProperties
  <2>3. QED
    BY <1>4, <2>1, <2>2, PartProperties
<1> HIDE DEF p
<1>7. ASSUME NEW m \in 2 .. Len(p)
      PROVE  /\ p[m] = q[l + m - 1] /\ p[m - 1] = q[l + m - 2]
             /\ l + m - 1 \in 1 .. Len(q) /\ l + m - 2 \in 1 .. Len(q)
             /\ kind[p[m]] # "FULL"
  <2>1. m \in 1 .. i - l + 1 /\ m - 1 \in 1 .. i - l + 1 /\ l + (m - 1) - 1 = l + m - 2
    BY <1>4, <1>6
  <2>2. p[m] = q[l + m - 1] /\ p[m - 1] = q[l + m - 2]
    BY <1>6, <2>1
  <2>3. l + m - 1 \in 1 .. Len(q) /\ l + m - 2 \in 1 .. Len(q)
    BY <1>1, <1>4, <2>1
  <2>4. l + m - 1 \notin fulls
    <3>1. ~(l + m - 1 <= l)
      BY <1>4
    <3>2. QED
      BY <1>3, <3>1
  <2>5. l + m - 1 <= i
    BY <1>4, <2>1
  <2>6. kind[q[l + m - 1]] # "FULL"
    BY <1>1, <2>3, <2>4, <2>5
  <2>7. QED
    BY <2>2, <2>3, <2>6
<1>8. p # <<>> /\ p[1] = q[l] /\ l \in 1 .. Len(q)
  <2>1. Len(p) # 0 /\ 1 \in 1 .. i - l + 1 /\ l + 1 - 1 = l /\ l \in 1 .. Len(q)
    BY <1>4, <1>6
  <2>2. p[1] = q[l]
    BY <1>6, <2>1
  <2>3. p # <<>>
    BY <1>6, <2>1, SeqFacts
  <2>4. QED
    BY <2>1, <2>2, <2>3
<1>9. ASSUME Ascending(q), NEW m \in 2 .. Len(p)
      PROVE  \E b \in Range(q) : b < p[m]
  <2>1. l + m - 2 < l + m - 1
    BY <1>4
  <2>2. p[m - 1] < p[m]
    BY <1>1, <1>7, <1>9, <2>1 DEF Ascending
  <2>3. p[m - 1] \in Range(q)
    BY <1>1, <1>7
  <2>4. QED
    BY <2>2, <2>3
<1>10. ASSUME Ascending(q), NEW m \in 2 .. Len(p), p[m] - 1 \in Range(q)
       PROVE  p[m - 1] = p[m] - 1
  <2>1. PICK j \in 1 .. Len(q) : q[j] = p[m] - 1
    BY <1>1, <1>10
  <2>2. q[j] < q[l + m - 1] /\ p[m] \in Nat
    <3>1. p[m] = q[l + m - 1] /\ l + m - 1 \in 1 .. Len(q)
      BY <1>7
    <3>2. p[m] \in Nat
      BY <1>1, <3>1
    <3>3. p[m] - 1 < p[m]
      BY <3>2
    <3>4. QED
      BY <2>1, <3>1, <3>2, <3>3
  <2>3. j < l + m - 1
    BY <1>7, <1>10, <2>2, ByAge
  <2>4. j <= l + m - 2
    BY <1>4, <2>3
  <2>5. q[j] <= q[l + m - 2]
    BY <1>7, <1>10, <2>4, ByAge
  <2>6. q[l + m - 2] < q[l + m - 1]
    <3>1. l + m - 2 < l + m - 1
      BY <1>4
    <3>2. QED
      BY <1>1, <1>7, <1>10, <3>1 DEF Ascending
  <2>7. q[l + m - 2] \in Nat
    BY <1>1, <1>7
  <2>8. p[m] = q[l + m - 1] /\ p[m - 1] = q[l + m - 2]
    BY <1>7, <1>10
  <2>9. p[m] \in Nat /\ p[m - 1] \in Nat
    BY <1>1, <2>2, <2>7, <2>8
  <2>10. p[m] - 1 <= p[m - 1] /\ p[m - 1] < p[m]
    BY <2>1, <2>5, <2>6, <2>8
  <2>11. QED
    BY <2>9, <2>10
<1>11. ASSUME Ascending(q), kind[p[1]] # "FULL", NEW b \in Range(q)
       PROVE  p[1] <= b
  <2>1. l = 1
    BY <1>3, <1>8, <1>11
  <2>2. PICK k \in 1 .. Len(q) : q[k] = b
    BY <1>1
  <2>3. 1 <= k /\ 1 \in 1 .. Len(q)
    BY <1>8, <2>1
  <2>4. q[1] <= q[k]
    BY <1>11, <2>3, ByAge
  <2>5. QED
    BY <1>8, <2>1, <2>2, <2>4
<1>12. Range(p) \subseteq Range(q)
  <2>1. \A k \in l .. i : k \in 1 .. Len(q)
    BY <1>1, <1>4
  <2>2. QED
    BY <1>1, <1>6, <2>1
<1>13. QED
  BY <1>5, <1>6, <1>7, <1>8, <1>9, <1>10, <1>11, <1>12

-------------------------------------------------------------------------------
(* Types, for any faults.                                                   *)

Hot  == Range(files["HOT"])
Cold == Range(files["COLD"])

Todo(w)   == Range(todo[w])
Held      == {"opened", "copying", "moved"}
Moving(w) == worker[w] = "hot" \/ worker[w] \in Held

\* Only archives that were made are in a tier, and only a file can be complete.
FilesMade ==
    \A t \in Tiers : Range(files[t]) \subseteq 1 .. made /\ whole[t] \subseteq Range(files[t])

Phases ==
    /\ pc = "decided" => made < MaxArchives
    /\ pc = "writing" => made >= 1
    /\ pc # "pruning" => worker["run"] = "idle"
    /\ worker["run"] \notin {"removing", "purging"}

InHand ==
    \A w \in Workers : /\ IsInjective(todo[w])
                       /\ worker[w] \in Held => todo[w] # <<>>
                       /\ worker[w] = "idle" => todo[w] = <<>>

Jobs == {"idle", "hot", "opened", "copying", "moved", "cold", "removing", "purging"}

\* The variables of the run.
RunTyped ==
    /\ faults \in FaultModels
    /\ pc \in {"idle", "decided", "writing", "pruning"}
    /\ kind \in [Ids -> {"FULL", "INC"}]
    /\ made \in 0 .. MaxArchives
    /\ base \in [Ids -> 0 .. MaxArchives]
    /\ cold \in ColdRetentions
    /\ snapshot \in 0 .. MaxArchives /\ recent \in 0 .. MaxArchives

FilesTyped ==
    /\ files \in [Tiers -> Seq(Ids)]
    /\ \A t \in Tiers : IsInjective(files[t])
    /\ whole \in [Tiers -> SUBSET Ids]
    /\ FilesMade

HandsTyped ==
    /\ worker \in [Workers -> Jobs]
    /\ todo \in [Workers -> Seq(Ids)]
    /\ InHand

\* A copy that writes to a file of cold storage is of the archive in hand.
CopiesTyped ==
    /\ copy \in [Workers -> {"none", "part", "whole"}]
    /\ \A w \in Workers : worker[w] \in Held => UsesCold /\ Head(todo[w]) \in 1 .. made
    /\ \A w \in Workers : worker[w] = "copying" /\ copy[w] # "none" => Head(todo[w]) \in Cold

RestoreTyped ==
    restore \in [pc : {"idle", "extract", "DONE", "ERROR"}, tier : Tiers,
                 plan : Seq(Ids), applied : Seq(Ids)]

TInv == RunTyped /\ FilesTyped /\ HandsTyped /\ CopiesTyped /\ RestoreTyped /\ Phases

\* A listing as TInv has it.
LEMMA Listings ==
    ASSUME TInv, NEW t \in Tiers
    PROVE  /\ files[t] \in Seq(Ids) /\ IsInjective(files[t])
           /\ Range(files[t]) \in SUBSET Ids
           /\ Range(files[t]) \subseteq 1 .. made
           /\ whole[t] \subseteq Range(files[t])
<1>1. files[t] \in Seq(Ids) /\ IsInjective(files[t])
  BY DEF TInv, FilesTyped
<1>2. Range(files[t]) \subseteq 1 .. made /\ whole[t] \subseteq Range(files[t])
  BY DEF TInv, FilesTyped, FilesMade
<1>3. QED
  BY <1>1, <1>2, SeqFacts

LEMMA HandFacts ==
    ASSUME TInv, NEW w \in Workers
    PROVE  /\ todo[w] \in Seq(Ids) /\ IsInjective(todo[w])
           /\ Todo(w) \in SUBSET Ids
           /\ todo[w] = <<>> <=> Todo(w) = {}
           /\ worker[w] \in Held => todo[w] # <<>>
           /\ worker[w] = "idle" => todo[w] = <<>>
           /\ todo[w] # <<>> =>
                /\ Head(todo[w]) \in Ids /\ Head(todo[w]) \in Todo(w)
                /\ Tail(todo[w]) \in Seq(Ids) /\ IsInjective(Tail(todo[w]))
                /\ Range(Tail(todo[w])) = Todo(w) \ {Head(todo[w])}
                /\ Ascending(todo[w]) => Ascending(Tail(todo[w]))
                /\ Ascending(todo[w]) => \A x \in Todo(w) : Head(todo[w]) <= x
<1>1. /\ todo[w] \in Seq(Ids) /\ IsInjective(todo[w])
      /\ worker[w] \in Held => todo[w] # <<>>
      /\ worker[w] = "idle" => todo[w] = <<>>
  BY DEF TInv, HandsTyped, InHand
<1>2. Todo(w) \in SUBSET Ids /\ (todo[w] = <<>> <=> Todo(w) = {})
  BY <1>1, SeqFacts DEF Todo
<1>3. ASSUME todo[w] # <<>>
      PROVE  /\ Head(todo[w]) \in Ids /\ Head(todo[w]) \in Todo(w)
             /\ Tail(todo[w]) \in Seq(Ids) /\ IsInjective(Tail(todo[w]))
             /\ Range(Tail(todo[w])) = Todo(w) \ {Head(todo[w])}
             /\ Ascending(todo[w]) => Ascending(Tail(todo[w]))
             /\ Ascending(todo[w]) =>
                  \A x \in Todo(w) : Head(todo[w]) = x \/ Head(todo[w]) < x
  BY <1>1, <1>3, TailProperties DEF Todo
<1>4. ASSUME todo[w] # <<>>, Ascending(todo[w]), NEW x \in Todo(w)
      PROVE  Head(todo[w]) <= x
  <2>1. Head(todo[w]) \in Nat /\ x \in Nat
    BY <1>2, <1>3, <1>4, IdsAreNumbers
  <2>2. QED
    BY <1>3, <1>4, <2>1
<1>5. QED
  BY <1>1, <1>2, <1>3, <1>4

\* os.Remove takes one file from one tier, unless it fails.
LEMMA RemovedFrom ==
    ASSUME TInv, NEW t \in Tiers, NEW a \in Ids, Removed(t, a)
    PROVE  /\ files' \in [Tiers -> Seq(Ids)] /\ \A s \in Tiers : IsInjective(files'[s])
           /\ whole' \in [Tiers -> SUBSET Ids]
           /\ \/ /\ Range(files'[t]) = Range(files[t]) \ {a}
                 /\ whole'[t] = whole[t] \ {a}
              \/ "remove" \in faults /\ UNCHANGED <<files, whole, copy>>
           /\ Range(files'[t]) \subseteq Range(files[t])
           /\ \A s \in Tiers \ {t} : files'[s] = files[s] /\ whole'[s] = whole[s]
           /\ \A s \in Tiers : Ascending(files[s]) => Ascending(files'[s])
           /\ made' = made => FilesTyped'
<1>1. /\ files[t] \in Seq(Ids) /\ IsInjective(files[t]) /\ FilesMade
      /\ files \in [Tiers -> Seq(Ids)] /\ whole \in [Tiers -> SUBSET Ids]
      /\ \A s \in Tiers : IsInjective(files[s])
  BY DEF TInv, FilesTyped
<1>2. CASE "remove" \in faults /\ UNCHANGED <<files, whole, copy>>
  <2>1. made' = made => FilesTyped'
    BY <1>1, <1>2 DEF FilesTyped, FilesMade
  <2>2. QED
    BY <1>1, <1>2, <2>1
<1>3. CASE /\ files' = [files EXCEPT ![t] = Without(@, a)]
           /\ whole' = [whole EXCEPT ![t] = @ \ {a}]
  <2>1. /\ Without(files[t], a) \in Seq(Ids)
        /\ IsInjective(Without(files[t], a))
        /\ Range(Without(files[t], a)) = Range(files[t]) \ {a}
        /\ Ascending(files[t]) => Ascending(Without(files[t], a))
    BY <1>1, WithoutProperties
  <2>2. /\ files'[t] = Without(files[t], a) /\ whole'[t] = whole[t] \ {a}
        /\ \A s \in Tiers \ {t} : files'[s] = files[s] /\ whole'[s] = whole[s]
        /\ files' \in [Tiers -> Seq(Ids)] /\ whole' \in [Tiers -> SUBSET Ids]
    BY <1>1, <1>3, <2>1
  <2>3. Range(files'[t]) = Range(files[t]) \ {a}
    BY <2>1, <2>2
  <2>4. ASSUME NEW s \in Tiers
        PROVE  IsInjective(files'[s]) /\ (Ascending(files[s]) => Ascending(files'[s]))
    <3>1. CASE s = t
      BY <2>1, <2>2, <3>1
    <3>2. CASE s # t
      BY <1>1, <2>2, <3>2
    <3>3. QED
      BY <3>1, <3>2
  <2>5. ASSUME made' = made
        PROVE  FilesMade'
    <3>1. ASSUME NEW s \in Tiers
          PROVE  Range(files'[s]) \subseteq 1 .. made' /\ whole'[s] \subseteq Range(files'[s])
      <4>1. Range(files[s]) \subseteq 1 .. made /\ whole[s] \subseteq Range(files[s])
        BY <1>1 DEF FilesMade
      <4>2. CASE s = t
        BY <2>2, <2>3, <2>5, <4>1, <4>2
      <4>3. CASE s # t
        BY <2>2, <2>5, <4>1, <4>3
      <4>4. QED
        BY <4>2, <4>3
    <3>2. QED
      BY <3>1 DEF FilesMade
  <2>6. made' = made => FilesTyped'
    BY <2>2, <2>4, <2>5 DEF FilesTyped
  <2>7. QED
    BY <2>2, <2>3, <2>4, <2>6
<1>4. QED
  BY <1>2, <1>3 DEF Removed

\* A copy that is written stands last in cold storage and replaces what another has left.
LEMMA CopiedTo ==
    ASSUME TInv, NEW a \in Ids, a \in 1 .. made, NEW W \in SUBSET {a},
           files' = [files EXCEPT !["COLD"] = WithCopy(@, a)],
           whole' = [whole EXCEPT !["COLD"] = @ \ W], made' = made
    PROVE  /\ FilesTyped'
           /\ files'["HOT"] = files["HOT"] /\ Hot' = Hot /\ Cold' = Cold \cup {a}
           /\ whole'["HOT"] = whole["HOT"] /\ whole'["COLD"] = whole["COLD"] \ W
           /\ Ascending(files["COLD"]) /\ (\A x \in Cold : x <= a) => Ascending(files'["COLD"])
<1> DEFINE q == files["COLD"]
           r == Without(q, a)
<1>1. /\ files \in [Tiers -> Seq(Ids)] /\ whole \in [Tiers -> SUBSET Ids]
      /\ \A t \in Tiers : IsInjective(files[t])
      /\ q \in Seq(Ids) /\ IsInjective(q)
      /\ "COLD" \in Tiers /\ "HOT" \in Tiers
  BY DEF TInv, FilesTyped, Tiers
<1>2. a \in Ids /\ Cold \in SUBSET Ids
  BY <1>1, SeqFacts DEF Cold
<1>3. /\ r \in Seq(Ids) /\ IsInjective(r) /\ Range(r) = Cold \ {a}
      /\ Ascending(q) => Ascending(r)
  BY <1>1, WithoutProperties DEF Cold
<1> HIDE DEF r
<1>4. /\ Append(r, a) \in Seq(Ids) /\ IsInjective(Append(r, a))
      /\ Range(Append(r, a)) = Cold \cup {a}
  <2>1. /\ Append(r, a) \in Seq(Ids)
        /\ Range(Append(r, a)) = Range(r) \cup {a}
    BY <1>2, <1>3, RangeAppend
  <2>2. a \notin Range(r)
    BY <1>3
  <2>3. IsInjective(Append(r, a))
    BY <1>2, <1>3, <2>2, InjectiveAppend
  <2>4. QED
    BY <1>3, <2>1, <2>3
<1>5. Ascending(q) /\ (\A x \in Cold : x <= a) => Ascending(Append(r, a))
  <2>1. SUFFICES ASSUME Ascending(q), \A x \in Cold : x <= a PROVE Ascending(Append(r, a))
    OBVIOUS
  <2>2. \A x \in Range(r) : x < a
    <3>1. SUFFICES ASSUME NEW x \in Cold, x # a PROVE x < a
      BY <1>3
    <3>2. x \in Nat /\ a \in Nat /\ x <= a
      BY <1>2, <2>1, IdsAreNumbers
    <3>3. QED
      BY <3>1, <3>2
  <2>3. QED
    BY <1>2, <1>3, <2>1, <2>2, AscendingAppend
<1>6. files' = [files EXCEPT !["COLD"] = Append(r, a)]
  BY DEF WithCopy, r
<1>7. /\ files'["COLD"] = Append(r, a) /\ files'["HOT"] = files["HOT"]
      /\ files' \in [Tiers -> Seq(Ids)]
      /\ \A t \in Tiers : t = "HOT" \/ t = "COLD"
  BY <1>1, <1>4, <1>6 DEF Tiers
<1>8. /\ whole' \in [Tiers -> SUBSET Ids]
      /\ whole'["HOT"] = whole["HOT"]
      /\ whole'["COLD"] = whole["COLD"] \ W
  <2>1. whole["COLD"] \ W \in SUBSET Ids
    BY <1>1
  <2>2. QED
    BY <1>1, <2>1
<1>9. Hot' = Hot /\ Cold' = Cold \cup {a}
  BY <1>4, <1>7 DEF Hot, Cold
<1>10. FilesMade'
  <2>1. /\ Hot \subseteq 1 .. made /\ Cold \subseteq 1 .. made
        /\ whole["HOT"] \subseteq Hot /\ whole["COLD"] \subseteq Cold
    BY <1>1, Listings DEF Hot, Cold
  <2>2. Range(files'["HOT"]) \subseteq 1 .. made' /\ whole'["HOT"] \subseteq Range(files'["HOT"])
    BY <1>7, <1>8, <2>1 DEF Hot
  <2>3. Cold' = Range(files'["COLD"])
    BY DEF Cold
  <2>4. Range(files'["COLD"]) \subseteq 1 .. made' /\ whole'["COLD"] \subseteq Range(files'["COLD"])
    BY <1>8, <1>9, <2>1, <2>3
  <2>5. QED
    BY <1>7, <2>2, <2>4 DEF FilesMade
<1>11. \A t \in Tiers : IsInjective(files'[t])
  BY <1>1, <1>4, <1>7
<1>12. QED
  BY <1>5, <1>7, <1>8, <1>9, <1>10, <1>11 DEF FilesTyped

\* A handler goes on to l with the work list q.
LEMMA HandMoves ==
    ASSUME TInv, NEW w \in Workers, NEW l \in Jobs, NEW q \in Seq(Ids), IsInjective(q),
           worker' = [worker EXCEPT ![w] = l], todo' = [todo EXCEPT ![w] = q],
           l \in Held => q # <<>>, l = "idle" => q = <<>>
    PROVE  /\ HandsTyped'
           /\ worker'[w] = l /\ todo'[w] = q
           /\ \A v \in Workers \ {w} : worker'[v] = worker[v] /\ todo'[v] = todo[v]
<1>1. worker \in [Workers -> Jobs] /\ todo \in [Workers -> Seq(Ids)] /\ InHand
  BY DEF TInv, HandsTyped
<1>2. /\ worker' \in [Workers -> Jobs] /\ todo' \in [Workers -> Seq(Ids)]
      /\ worker'[w] = l /\ todo'[w] = q
      /\ \A v \in Workers \ {w} : worker'[v] = worker[v] /\ todo'[v] = todo[v]
  BY <1>1
<1>3. ASSUME NEW v \in Workers
      PROVE  /\ IsInjective(todo'[v])
             /\ worker'[v] \in Held => todo'[v] # <<>>
             /\ worker'[v] = "idle" => todo'[v] = <<>>
  <2>1. CASE v = w
    BY <1>2, <2>1
  <2>2. CASE v # w
    BY <1>1, <1>2, <2>2 DEF InHand
  <2>3. QED
    BY <2>1, <2>2
<1>4. InHand'
  BY <1>3 DEF InHand
<1>5. QED
  BY <1>2, <1>4 DEF HandsTyped

LEMMA HandsStay ==
    ASSUME TInv, UNCHANGED <<worker, todo>>
    PROVE  HandsTyped'
BY DEF TInv, HandsTyped, InHand

\* Steps that begin no copy.
LEMMA CopiesKept ==
    ASSUME TInv, cold' = cold, made' \in Nat, made <= made',
           copy' \in [Workers -> {"none", "part", "whole"}],
           \A v \in Workers : worker'[v] \in Held =>
             /\ worker[v] \in Held /\ todo'[v] = todo[v]
             /\ worker'[v] = "copying" /\ copy'[v] # "none" =>
                  worker[v] = "copying" /\ copy[v] # "none" /\ (Head(todo[v]) \in Cold => Head(todo[v]) \in Cold')
    PROVE  CopiesTyped'
<1>1. CopiesTyped /\ made \in Nat
  BY DEF TInv, RunTyped
<1>2. ASSUME NEW v \in Workers, worker'[v] \in Held
      PROVE  /\ UsesCold' /\ Head(todo'[v]) \in 1 .. made'
             /\ worker'[v] = "copying" /\ copy'[v] # "none" => Head(todo'[v]) \in Cold'
  <2>1. UsesCold /\ Head(todo[v]) \in 1 .. made /\ todo'[v] = todo[v]
    BY <1>1, <1>2 DEF CopiesTyped
  <2>2. 1 .. made \subseteq 1 .. made'
    BY <1>1
  <2>3. worker[v] = "copying" /\ copy[v] # "none" => Head(todo[v]) \in Cold
    BY <1>1 DEF CopiesTyped
  <2>4. UsesCold' = UsesCold
    BY DEF UsesCold
  <2>5. QED
    BY <1>2, <2>1, <2>2, <2>3, <2>4
<1>3. \A v \in Workers : worker'[v] = "copying" => worker'[v] \in Held
  BY DEF Held
<1>4. QED
  BY <1>2, <1>3 DEF CopiesTyped

LEMMA CopiesStay ==
    ASSUME TInv, UNCHANGED <<cold, workerVars>>, made' \in Nat, made <= made', Cold \subseteq Cold'
    PROVE  CopiesTyped'
<1>1. /\ copy' \in [Workers -> {"none", "part", "whole"}]
      /\ UNCHANGED <<worker, todo, copy>>
  BY DEF TInv, CopiesTyped, workerVars
<1>2. QED
  BY <1>1, CopiesKept

LEMMA TInvParts ==
    /\ TInv => RunTyped /\ FilesTyped /\ HandsTyped /\ CopiesTyped /\ RestoreTyped /\ Phases
    /\ (RunTyped /\ FilesTyped /\ HandsTyped /\ CopiesTyped /\ RestoreTyped /\ Phases)' => TInv'
BY DEF TInv

LEMMA TiersStay ==
    ASSUME UNCHANGED files
    PROVE  Hot' = Hot /\ Cold' = Cold
BY DEF Hot, Cold

LEMMA RunStays ==
    ASSUME TInv, UNCHANGED runVars
    PROVE  RunTyped' /\ made \in Nat /\ made' = made /\ made <= made' /\ cold' = cold
BY TInvParts DEF RunTyped, runVars

LEMMA FilesStay ==
    ASSUME TInv, UNCHANGED <<files, whole, made>>
    PROVE  FilesTyped' /\ Cold' = Cold
BY TInvParts, TiersStay DEF FilesTyped, FilesMade

LEMMA RestoreStays ==
    ASSUME TInv, UNCHANGED restore
    PROVE  RestoreTyped'
BY TInvParts DEF RestoreTyped

LEMMA InitTyped == Init => TInv
<1> SUFFICES ASSUME Init PROVE TInv
  OBVIOUS
<1>1. <<>> \in Seq(Ids) /\ IsInjective(<<>>) /\ Range(<<>>) = {} /\ MaxArchives \in Nat
  BY EmptySeq, RangeOfEmpty, IdsAreNumbers
<1>2. /\ faults \in FaultModels /\ pc = "idle" /\ made = 0 /\ cold \in ColdRetentions
      /\ kind \in [Ids -> {"FULL", "INC"}] /\ base \in [Ids -> 0 .. MaxArchives]
      /\ snapshot \in 0 .. MaxArchives /\ recent \in 0 .. MaxArchives
      /\ made \in 0 .. MaxArchives
  BY <1>1 DEF Init
<1>3. /\ files \in [Tiers -> Seq(Ids)] /\ \A t \in Tiers : files[t] = <<>>
      /\ whole \in [Tiers -> SUBSET Ids] /\ \A t \in Tiers : whole[t] = {}
  BY <1>1 DEF Init
<1>4. /\ worker \in [Workers -> Jobs] /\ \A w \in Workers : worker[w] = "idle"
      /\ todo \in [Workers -> Seq(Ids)] /\ \A w \in Workers : todo[w] = <<>>
      /\ copy \in [Workers -> {"none", "part", "whole"}]
  BY <1>1 DEF Init, Jobs
<1>5. RestoreTyped
  <2>1. restore = NoRestore /\ "HOT" \in Tiers
    BY DEF Init, Tiers
  <2>2. QED
    BY <1>1, <2>1 DEF NoRestore, RestoreTyped
<1>6. FilesMade
  BY <1>1, <1>3 DEF FilesMade
<1>7. InHand /\ CopiesTyped
  BY <1>1, <1>4 DEF InHand, CopiesTyped, Held
<1>8. Phases
  BY <1>2, <1>4 DEF Phases, Workers
<1>9. QED
  BY <1>1, <1>2, <1>3, <1>4, <1>5, <1>6, <1>7, <1>8
     DEF TInv, RunTyped, FilesTyped, HandsTyped

LEMMA RunStepTyped ==
    ASSUME TInv, RunStep
    PROVE  TInv'
<1>1. RunTyped /\ FilesTyped /\ HandsTyped /\ RestoreTyped /\ Phases /\ MaxArchives \in Nat
  BY TInvParts, IdsAreNumbers
<1>2. "HOT" \in Tiers /\ "run" \in Workers
  BY DEF Tiers, Workers
<1>3. CASE Decide
  <2>1. made + 1 \in Ids
    BY <1>1, <1>3 DEF Decide, RunTyped, Ids
  <2>2. RunTyped'
    <3>1. \E k \in {"FULL", "INC"} : kind' = [kind EXCEPT ![made + 1] = k]
      BY <1>3 DEF Decide
    <3>2. kind' \in [Ids -> {"FULL", "INC"}]
      BY <1>1, <3>1 DEF RunTyped
    <3>3. QED
      BY <1>1, <1>3, <3>2 DEF Decide, RunTyped
  <2>3. FilesTyped' /\ HandsTyped' /\ RestoreTyped' /\ CopiesTyped'
    <3>1. made' = made /\ made \in Nat /\ UNCHANGED <<files, whole, cold, workerVars, restore>>
      BY <1>1, <1>3 DEF Decide, RunTyped
    <3>2. QED
      BY <3>1, FilesStay, HandsStay, CopiesStay, RestoreStays DEF workerVars
  <2>4. Phases'
    BY <1>1, <1>3 DEF Decide, Phases, workerVars
  <2>5. QED
    BY <2>2, <2>3, <2>4, TInvParts
<1>4. CASE CreateArchive
  <2>1. HandsTyped' /\ RestoreTyped' /\ UNCHANGED workerVars
    BY <1>4, HandsStay, RestoreStays DEF CreateArchive, workerVars
  <2>2. snapshot' \in 0 .. MaxArchives
    BY <1>1, <1>4 DEF CreateArchive, ResetSnapshot, RunTyped
  <2>3. /\ pc = "decided" /\ made < MaxArchives /\ worker["run"] = "idle"
        /\ faults' = faults /\ cold' = cold /\ kind' = kind
        /\ worker' = worker /\ whole' = whole
    BY <1>1, <1>4 DEF CreateArchive, Phases, workerVars
  <2>4. made + 1 \in Ids /\ made \in Nat
    BY <1>1, <2>3 DEF RunTyped, Ids
  <2>5. CASE /\ pc' = "writing"
             /\ made' = made + 1
             /\ base' = [base EXCEPT ![made + 1] = IF Incremental THEN snapshot' ELSE 0]
             /\ recent' = IF kind[made + 1] = "FULL" THEN made + 1 ELSE recent
             /\ files' = [files EXCEPT !["HOT"] = Append(@, made + 1)]
    <3>1. RunTyped'
      <4>1. made' \in 0 .. MaxArchives /\ recent' \in 0 .. MaxArchives
        BY <1>1, <2>3, <2>5 DEF RunTyped
      <4>2. base' \in [Ids -> 0 .. MaxArchives]
        <5> DEFINE d == IF Incremental THEN snapshot' ELSE 0
        <5>1. d \in 0 .. MaxArchives /\ base' = [base EXCEPT ![made + 1] = d]
          BY <1>1, <2>2, <2>5
        <5> HIDE DEF d
        <5>2. QED
          BY <1>1, <5>1 DEF RunTyped
      <4>3. QED
        BY <1>1, <2>2, <2>3, <2>5, <4>1, <4>2 DEF RunTyped
    <3>2. FilesTyped'
      <4> DEFINE q == files["HOT"]
      <4>1. /\ q \in Seq(Ids) /\ IsInjective(q) /\ Range(q) \subseteq 1 .. made
            /\ files \in [Tiers -> Seq(Ids)]
        BY <1>1, <1>2, Listings DEF FilesTyped
      <4>2. made + 1 \notin Range(q)
        BY <2>4, <4>1
      <4> HIDE DEF q
      <4>3. /\ Append(q, made + 1) \in Seq(Ids) /\ IsInjective(Append(q, made + 1))
            /\ Range(Append(q, made + 1)) = Range(q) \cup {made + 1}
        BY <2>4, <4>1, <4>2, RangeAppend, InjectiveAppend
      <4>4. files' = [files EXCEPT !["HOT"] = Append(q, made + 1)]
        BY <2>5 DEF q
      <4>5. /\ files' \in [Tiers -> Seq(Ids)] /\ files'["HOT"] = Append(q, made + 1)
            /\ \A t \in Tiers : t # "HOT" => files'[t] = files[t]
        BY <1>2, <4>1, <4>3, <4>4
      <4>6. ASSUME NEW t \in Tiers
            PROVE  /\ IsInjective(files'[t])
                   /\ Range(files'[t]) \subseteq 1 .. made' /\ whole'[t] \subseteq Range(files'[t])
        <5>1. /\ IsInjective(files[t]) /\ Range(files[t]) \subseteq 1 .. made
              /\ whole[t] \subseteq Range(files[t])
          BY Listings
        <5>2. 1 .. made \subseteq 1 .. made' /\ made + 1 \in 1 .. made'
          BY <2>4, <2>5
        <5>3. CASE t = "HOT"
          <6>1. files'[t] = Append(q, made + 1) /\ Range(q) = Range(files[t])
            BY <4>5, <5>3 DEF q
          <6>2. Range(files'[t]) = Range(files[t]) \cup {made + 1} /\ IsInjective(files'[t])
            BY <4>3, <6>1
          <6>3. QED
            BY <2>3, <5>1, <5>2, <6>2
        <5>4. CASE t # "HOT"
          BY <2>3, <4>5, <5>1, <5>2, <5>4
        <5>5. QED
          BY <5>3, <5>4
      <4>7. QED
        BY <1>1, <2>3, <4>5, <4>6 DEF FilesTyped, FilesMade
    <3>3. Phases'
      BY <2>3, <2>4, <2>5 DEF Phases
    <3>4. CopiesTyped'
      <4>1. Cold' = Cold
        BY <1>1, <2>5 DEF Cold, FilesTyped, Tiers
      <4>2. made <= made' /\ made' \in Nat
        BY <2>4, <2>5
      <4>3. QED
        BY <2>1, <2>3, <4>1, <4>2, CopiesStay
    <3>5. QED
      BY <2>1, <3>1, <3>2, <3>3, <3>4, TInvParts
  <2>6. CASE pc' = "pruning" /\ UNCHANGED <<made, base, recent, files>>
    <3>1. RunTyped'
      BY <1>1, <2>2, <2>3, <2>6 DEF RunTyped
    <3>2. FilesTyped' /\ CopiesTyped'
      <4>1. made <= made' /\ made' \in Nat
        BY <2>4, <2>6
      <4>2. QED
        BY <2>1, <2>3, <2>6, <4>1, FilesStay, CopiesStay
    <3>3. Phases'
      BY <2>3, <2>6 DEF Phases
    <3>4. QED
      BY <2>1, <3>1, <3>2, <3>3, TInvParts
  <2>7. QED
    BY <1>4, <2>5, <2>6 DEF CreateArchive
<1>5. CASE Complete
  <2>1. HandsTyped' /\ RestoreTyped' /\ CopiesTyped'
    <3>1. made' = made /\ made \in Nat /\ UNCHANGED <<files, cold, workerVars, restore>>
      BY <1>1, <1>5 DEF Complete, RunTyped
    <3>2. QED
      BY <3>1, TiersStay, HandsStay, CopiesStay, RestoreStays DEF workerVars
  <2>2. RunTyped'
    BY <1>1, <1>5 DEF Complete, RunTyped
  <2>3. FilesTyped'
    <3>1. files' = files /\ made' = made
          /\ whole' = [whole EXCEPT !["HOT"] = whole["HOT"] \cup ({made} \cap Range(files["HOT"]))]
      BY <1>5 DEF Complete
    <3>2. Range(files["HOT"]) \in SUBSET Ids /\ whole["HOT"] \subseteq Range(files["HOT"])
      BY <1>2, Listings
    <3>3. whole' \in [Tiers -> SUBSET Ids] /\ \A t \in Tiers : whole'[t] \subseteq Range(files'[t])
      BY <1>1, <1>2, <3>1, <3>2 DEF FilesTyped, FilesMade
    <3>4. QED
      BY <1>1, <3>1, <3>3 DEF FilesTyped, FilesMade
  <2>4. Phases'
    BY <1>1, <1>5 DEF Complete, Phases, workerVars
  <2>5. QED
    BY <2>1, <2>2, <2>3, <2>4, TInvParts
<1>6. CASE Fail
  <2>1. UNCHANGED <<cold, worker, todo, restore>> /\ made' = made /\ Removed("HOT", made)
    BY <1>6 DEF Fail
  <2>2. RunTyped' /\ HandsTyped' /\ RestoreTyped'
    BY <1>1, <1>6, <2>1, HandsStay, RestoreStays DEF Fail, RunTyped
  <2>3. FilesTyped' /\ CopiesTyped'
    <3>1. made \in Ids
      BY <1>1, <1>6 DEF Fail, Phases, RunTyped, Ids
    <3>2. Cold' = Cold
      BY <1>2, <2>1, <3>1, RemovedFrom DEF Cold, Tiers
    <3>3. copy' \in [Workers -> {"none", "part", "whole"}] /\ \A v \in Workers : copy'[v] = copy[v]
      <4>1. \A v \in Workers : copy'[v] = copy[v]
        BY <2>1 DEF Removed
      <4>2. copy \in [Workers -> {"none", "part", "whole"}] /\ (copy' = copy \/ DOMAIN copy' = Workers)
        BY <2>1, TInvParts DEF Removed, CopiesTyped
      <4>3. copy' \in [Workers -> {"none", "part", "whole"}]
        BY <2>1, <4>1, <4>2 DEF Removed
      <4>4. QED
        BY <4>1, <4>3
    <3>4. made \in Nat /\ made <= made'
      BY <1>1, <2>1 DEF RunTyped
    <3>5. QED
      BY <1>2, <2>1, <3>1, <3>2, <3>3, <3>4, RemovedFrom, CopiesKept
  <2>4. Phases'
    BY <1>1, <1>6 DEF Fail, Phases
  <2>5. QED
    BY <2>1, <2>2, <2>3, <2>4, TInvParts
<1>7. QED
  BY <1>3, <1>4, <1>5, <1>6 DEF RunStep

\* What a handler is given to do is a part of a listing.
LEMMA ListedWork ==
    ASSUME TInv, NEW t \in Tiers, NEW n \in Nat
    PROVE  Expired(files[t], n) \in Seq(Ids) /\ IsInjective(Expired(files[t], n))
<1>1. files[t] \in Seq(Ids) /\ IsInjective(files[t])
  BY Listings
<1>2. QED
  BY <1>1, ExpiredProperties

LEMMA RetentionsAreNat ==
    ASSUME TInv
    PROVE  RetentionCount \in Nat /\ cold \in Nat
BY ChainsAssumption DEF TInv, RunTyped

LEMMA FinishedTyped ==
    ASSUME TInv, NEW w \in Workers, Finished(w), UNCHANGED todo, todo[w] = <<>>,
           w = "run" => pc = "pruning"
    PROVE  RunTyped' /\ HandsTyped' /\ Phases'
<1>1. RunTyped /\ Phases /\ todo[w] \in Seq(Ids) /\ IsInjective(todo[w])
  BY TInvParts, HandFacts
<1>2. HandsTyped' /\ worker'[w] = "idle" /\ \A v \in Workers \ {w} : worker'[v] = worker[v]
  <2>1. /\ worker' = [worker EXCEPT ![w] = "idle"]
        /\ todo' = [todo EXCEPT ![w] = todo[w]]
        /\ "idle" \in Jobs /\ "idle" \notin Held
    BY DEF Finished, TInv, HandsTyped, Jobs, Held
  <2>2. QED
    BY <1>1, <2>1, HandMoves
<1>3. RunTyped'
  BY <1>1 DEF Finished, RunTyped
<1>4. Phases'
  <2>1. "run" \in Workers
    BY DEF Workers
  <2>2. CASE w = "run"
    BY <1>1, <1>2, <2>2 DEF Finished, Phases
  <2>3. CASE w # "run"
    BY <1>1, <1>2, <2>1, <2>3 DEF Finished, Phases
  <2>4. QED
    BY <2>2, <2>3
<1>5. QED
  BY <1>2, <1>3, <1>4

\* A handler that is not idle goes on to another prune step.
LEMMA WorkTyped ==
    ASSUME TInv, NEW w \in Workers, UNCHANGED runVars, w = "run" => pc = "pruning",
           NEW l \in Jobs \ {"idle", "removing", "purging"}, NEW q \in Seq(Ids),
           IsInjective(q), l \in Held => q # <<>>,
           worker' = [worker EXCEPT ![w] = l], todo' = [todo EXCEPT ![w] = q]
    PROVE  RunTyped' /\ HandsTyped' /\ Phases'
<1>1. Phases /\ RunTyped'
  BY TInvParts, RunStays
<1>2. l \in Jobs /\ l # "idle"
  OBVIOUS
<1>3. HandsTyped' /\ worker'[w] = l /\ \A v \in Workers \ {w} : worker'[v] = worker[v]
  BY <1>2, HandMoves
<1>4. Phases'
  <2>1. "run" \in Workers /\ pc' = pc /\ made' = made
    BY DEF Workers, runVars
  <2>2. CASE w = "run"
    BY <1>1, <1>3, <2>1, <2>2 DEF Phases
  <2>3. CASE w # "run"
    BY <1>1, <1>3, <2>1, <2>3 DEF Phases
  <2>4. QED
    BY <2>2, <2>3
<1>5. QED
  BY <1>1, <1>3, <1>4

\* The run prunes in its last phase only.
LEMMA RunWorks ==
    ASSUME TInv, worker["run"] # "idle"
    PROVE  pc = "pruning" /\ worker["run"] \in {"hot", "opened", "copying", "moved", "cold"}
<1>1. Phases /\ RunTyped /\ HandsTyped /\ "run" \in Workers
  BY TInvParts DEF Workers
<1>2. QED
  BY <1>1 DEF Phases, HandsTyped, Jobs

\* A handler that deletes a file of a list and takes the next one.
LEMMA TakesNext ==
    ASSUME TInv, NEW w \in Workers, UNCHANGED runVars, todo[w] # <<>>, worker[w] # "idle",
           NEW l \in Jobs, worker' = [worker EXCEPT ![w] = l],
           l = worker[w] \/ (worker[w] \in Held /\ l = "hot"), l \notin Held,
           todo' = [todo EXCEPT ![w] = Tail(@)]
    PROVE  /\ RunTyped' /\ HandsTyped' /\ Phases'
           /\ worker'[w] = l /\ Todo(w)' = Todo(w) \ {Head(todo[w])}
           /\ \A v \in Workers \ {w} : worker'[v] = worker[v] /\ todo'[v] = todo[v]
           /\ \A v \in Workers \ {w} : Todo(v)' = Todo(v)
<1>1. /\ Tail(todo[w]) \in Seq(Ids) /\ IsInjective(Tail(todo[w]))
      /\ Range(Tail(todo[w])) = Todo(w) \ {Head(todo[w])}
  BY HandFacts
<1>2. todo' = [todo EXCEPT ![w] = Tail(todo[w])]
  OBVIOUS
<1>3. l # "idle"
  OBVIOUS
<1>4. /\ HandsTyped' /\ worker'[w] = l /\ todo'[w] = Tail(todo[w])
      /\ \A v \in Workers \ {w} : worker'[v] = worker[v] /\ todo'[v] = todo[v]
  <2>1. PICK q \in Seq(Ids) : q = Tail(todo[w])
    BY <1>1
  <2>2. IsInjective(q) /\ todo' = [todo EXCEPT ![w] = q]
    BY <1>1, <1>2, <2>1
  <2>3. (l \in Held => q # <<>>) /\ (l = "idle" => q = <<>>)
    BY <1>3
  <2>4. /\ HandsTyped' /\ worker'[w] = l /\ todo'[w] = q
        /\ \A v \in Workers \ {w} : worker'[v] = worker[v] /\ todo'[v] = todo[v]
    BY <2>2, <2>3, HandMoves, ZenonT(30)
  <2>5. QED
    BY <2>1, <2>4
<1>5. RunTyped' /\ Phases
  BY RunStays, TInvParts
<1>6. Phases'
  <2>1. "run" \in Workers /\ pc' = pc /\ made' = made
    BY DEF Workers, runVars
  <2>2. CASE w = "run"
    <3>1. pc = "pruning" /\ worker["run"] \in {"hot", "opened", "copying", "moved", "cold"}
      BY <2>2, RunWorks
    <3>2. QED
      BY <1>4, <1>5, <2>1, <2>2, <3>1 DEF Phases
  <2>3. CASE w # "run"
    BY <1>4, <1>5, <2>1, <2>3 DEF Phases
  <2>4. QED
    BY <2>2, <2>3
<1>7. Todo(w)' = Todo(w) \ {Head(todo[w])} /\ \A v \in Workers \ {w} : Todo(v)' = Todo(v)
  BY <1>1, <1>4 DEF Todo
<1>8. QED
  BY <1>4, <1>5, <1>6, <1>7

\* What a deletion of a pruning or removing handler does: DeleteExpired, RemoveCopied and
\* DeleteListed.
LEMMA DeletionTyped ==
    ASSUME TInv, NEW w \in Workers, NEW t \in Tiers, UNCHANGED <<runVars, restore>>,
           todo[w] # <<>>, worker[w] # "idle", Removed(t, Head(todo[w])),
           NEW l \in Jobs, worker' = [worker EXCEPT ![w] = l],
           l = worker[w] \/ (worker[w] \in Held /\ l = "hot"), l \notin Held,
           todo' = [todo EXCEPT ![w] = Tail(@)]
    PROVE  TInv'
<1> DEFINE a == Head(todo[w])
<1>1. /\ RunTyped' /\ HandsTyped' /\ Phases' /\ worker'[w] = l
      /\ \A v \in Workers \ {w} : worker'[v] = worker[v] /\ todo'[v] = todo[v]
  BY TakesNext
<1>2. /\ a \in Ids /\ CopiesTyped /\ FilesTyped
      /\ made \in Nat /\ made' = made /\ made <= made' /\ cold' = cold
  BY HandFacts, TInvParts, RunStays
<1> HIDE DEF a
<1>3. Removed(t, a)
  BY DEF a
<1>4. FilesTyped'
  BY <1>2, <1>3, RemovedFrom
<1>5. CopiesTyped'
  <2>1. CASE UNCHANGED <<files, copy>>
    <3>1. Cold' = Cold /\ copy' = copy /\ copy \in [Workers -> {"none", "part", "whole"}]
      BY <1>2, <2>1 DEF Cold, CopiesTyped
    <3>2. QED
      BY <1>1, <1>2, <3>1, CopiesKept
  <2>2. CASE /\ files' = [files EXCEPT ![t] = Without(@, a)]
             /\ whole' = [whole EXCEPT ![t] = @ \ {a}]
             /\ copy' = [v \in Workers |-> IF t = "COLD" /\ Copying(v, a) THEN "none" ELSE copy[v]]
    <3>1. Cold' = IF t = "COLD" THEN Cold \ {a} ELSE Cold
      <4>1. t = "HOT" \/ t = "COLD"
        BY DEF Tiers
      <4>2. Without(files[t], a) \in Seq(Ids) /\ Range(Without(files[t], a)) = Range(files[t]) \ {a}
        BY <1>2, WithoutProperties DEF FilesTyped
      <4>3. files' = [files EXCEPT ![t] = Without(files[t], a)] /\ "COLD" \in Tiers
        BY <2>2 DEF Tiers
      <4>4. files'["COLD"] = IF t = "COLD" THEN Without(files[t], a) ELSE files["COLD"]
        BY <1>2, <4>1, <4>3 DEF FilesTyped
      <4>5. QED
        BY <4>1, <4>2, <4>4 DEF Cold
    <3>2. copy' \in [Workers -> {"none", "part", "whole"}]
      BY <1>2, <2>2 DEF CopiesTyped
    <3>3. ASSUME NEW v \in Workers, worker'[v] \in Held
          PROVE  /\ worker[v] \in Held /\ todo'[v] = todo[v]
                 /\ worker'[v] = "copying" /\ copy'[v] # "none" =>
                      worker[v] = "copying" /\ copy[v] # "none" /\ (Head(todo[v]) \in Cold => Head(todo[v]) \in Cold')
      <4>1. v # w /\ worker'[v] = worker[v] /\ todo'[v] = todo[v]
        BY <1>1, <3>3
      <4>2. worker'[v] = "copying" /\ copy'[v] # "none" =>
              worker[v] = "copying" /\ copy[v] # "none" /\ ~(t = "COLD" /\ Head(todo[v]) = a)
        BY <2>2, <4>1 DEF Copying
      <4>3. QED
        BY <3>1, <3>3, <4>1, <4>2
    <3>4. QED
      BY <1>2, <3>2, <3>3, CopiesKept
  <2>3. QED
    BY <1>3, <2>1, <2>2 DEF Removed
<1>6. RestoreTyped'
  BY RestoreStays
<1>7. QED
  BY <1>1, <1>4, <1>5, <1>6, TInvParts

LEMMA WorkerIsTyped ==
    ASSUME TInv, NEW w \in Workers
    PROVE  worker = [worker EXCEPT ![w] = worker[w]] /\ todo = [todo EXCEPT ![w] = todo[w]]
BY DEF TInv, HandsTyped

\* A handler that opens, writes or ends a copy goes on with its list.
LEMMA CopierTyped ==
    ASSUME TInv, NEW w \in Workers, UNCHANGED <<runVars, todo>>, worker[w] # "idle",
           worker[w] \in Held \/ todo[w] # <<>>, NEW l \in Held,
           worker' = [worker EXCEPT ![w] = l]
    PROVE  /\ RunTyped' /\ HandsTyped' /\ Phases' /\ worker'[w] = l
           /\ made \in Nat /\ made' = made /\ cold' = cold
           /\ \A v \in Workers \ {w} : worker'[v] = worker[v]
<1>1. /\ todo' = [todo EXCEPT ![w] = todo[w]] /\ todo[w] \in Seq(Ids)
      /\ IsInjective(todo[w]) /\ todo[w] # <<>>
  BY WorkerIsTyped, HandFacts
<1>2. l \in Jobs /\ l \in Jobs \ {"idle", "removing", "purging"} /\ l # "idle"
  BY DEF Jobs, Held
<1>3. w = "run" => pc = "pruning"
  BY RunWorks
<1>4. RunTyped' /\ HandsTyped' /\ Phases'
  BY <1>1, <1>2, <1>3, WorkTyped
<1>5. worker'[w] = l /\ \A v \in Workers \ {w} : worker'[v] = worker[v]
  BY <1>1, <1>2, HandMoves
<1>6. QED
  BY <1>4, <1>5, RunStays

\* A handler whose copy fails, or whose file is gone, goes on to the next file.
LEMMA PassTyped ==
    ASSUME TInv, NEW w \in Workers, UNCHANGED <<runVars, files, whole, restore>>, todo[w] # <<>>,
           worker[w] = "hot" \/ worker[w] \in Held, worker' = [worker EXCEPT ![w] = "hot"],
           todo' = [todo EXCEPT ![w] = Tail(@)],
           copy' = copy \/ copy' = [copy EXCEPT ![w] = "none"]
    PROVE  TInv'
<1>1. "hot" \in Jobs /\ "hot" \notin Held /\ worker[w] # "idle"
  BY DEF Jobs, Held
<1>2. /\ RunTyped' /\ HandsTyped' /\ Phases' /\ worker'[w] = "hot"
      /\ \A v \in Workers \ {w} : worker'[v] = worker[v] /\ todo'[v] = todo[v]
  BY <1>1, TakesNext
<1>3. made \in Nat /\ made' = made /\ made <= made' /\ cold' = cold
  BY RunStays
<1>4. FilesTyped' /\ Cold' = Cold /\ RestoreTyped'
  BY <1>3, FilesStay, RestoreStays
<1>5. copy' \in [Workers -> {"none", "part", "whole"}] /\ \A v \in Workers \ {w} : copy'[v] = copy[v]
  BY TInvParts DEF CopiesTyped
<1>6. CopiesTyped'
  BY <1>1, <1>2, <1>3, <1>4, <1>5, CopiesKept
<1>7. QED
  BY <1>2, <1>4, <1>6, TInvParts

\* A copy begins, or goes on, to write to its file in cold storage.
LEMMA FillTyped ==
    ASSUME TInv, NEW w \in Workers, UNCHANGED <<runVars, todo, restore>>,
           worker[w] \in {"opened", "copying"}, worker' = [worker EXCEPT ![w] = "copying"],
           files' = [files EXCEPT !["COLD"] = WithCopy(@, Head(todo[w]))],
           NEW W \in SUBSET {Head(todo[w])}, whole' = [whole EXCEPT !["COLD"] = @ \ W],
           copy' \in [Workers -> {"none", "part", "whole"}],
           \A v \in Workers : copy'[v] # "none" => copy[v] # "none"
    PROVE  TInv'
<1> DEFINE a == Head(todo[w])
<1>1. worker[w] \in Held /\ "copying" \in Held /\ worker[w] # "idle"
  BY DEF Held
<1>2. /\ RunTyped' /\ HandsTyped' /\ Phases' /\ worker'[w] = "copying"
      /\ made \in Nat /\ made' = made /\ cold' = cold
      /\ \A v \in Workers \ {w} : worker'[v] = worker[v]
  BY <1>1, CopierTyped
<1>3. a \in Ids /\ a \in 1 .. made /\ CopiesTyped
  BY <1>1, HandFacts, TInvParts DEF CopiesTyped
<1> HIDE DEF a
<1>4. W \in SUBSET {a} /\ files' = [files EXCEPT !["COLD"] = WithCopy(@, a)]
  BY DEF a
<1>5. FilesTyped' /\ Cold' = Cold \cup {a}
  BY <1>2, <1>3, <1>4, CopiedTo
<1>6. CopiesTyped'
  <2>1. ASSUME NEW v \in Workers, worker'[v] \in Held
        PROVE  /\ UsesCold' /\ Head(todo'[v]) \in 1 .. made'
               /\ worker'[v] = "copying" /\ copy'[v] # "none" => Head(todo'[v]) \in Cold'
    <3>1. UsesCold' = UsesCold /\ todo' = todo /\ made' = made
      BY <1>2 DEF UsesCold
    <3>2. CASE v = w
      <4>1. Head(todo'[v]) = a
        BY <3>1, <3>2 DEF a
      <4>2. UsesCold
        BY <1>1, <1>3 DEF CopiesTyped
      <4>3. QED
        BY <1>3, <1>5, <3>1, <4>1, <4>2
    <3>3. CASE v # w
      <4>1. /\ worker[v] \in Held /\ UsesCold /\ Head(todo[v]) \in 1 .. made
            /\ worker[v] = "copying" /\ copy[v] # "none" => Head(todo[v]) \in Cold
        BY <1>2, <1>3, <2>1, <3>3 DEF CopiesTyped
      <4>2. QED
        BY <1>2, <1>5, <3>1, <3>3, <4>1
    <3>4. QED
      BY <3>2, <3>3
  <2>2. QED
    BY <1>1, <2>1 DEF CopiesTyped
<1>7. QED
  BY <1>2, <1>5, <1>6, RestoreStays, TInvParts

LEMMA OpenTyped ==
    ASSUME TInv, NEW w \in Workers, OpenExpired(w)
    PROVE  TInv'
<1>1. /\ worker[w] = "hot" /\ todo[w] # <<>> /\ UsesCold
      /\ UNCHANGED <<runVars, files, whole, restore>>
  BY DEF OpenExpired
<1>2. CASE /\ Head(todo[w]) \in Hot
           /\ worker' = [worker EXCEPT ![w] = "opened"]
           /\ copy' = [copy EXCEPT ![w] = IF Head(todo[w]) \in whole["HOT"] THEN "whole" ELSE "part"]
           /\ UNCHANGED todo
  <2>1. "opened" \in Held
    BY DEF Held
  <2>2. /\ RunTyped' /\ HandsTyped' /\ Phases' /\ worker'[w] = "opened"
        /\ made \in Nat /\ made' = made /\ cold' = cold
        /\ \A v \in Workers \ {w} : worker'[v] = worker[v]
    BY <1>1, <1>2, <2>1, CopierTyped
  <2>3. FilesTyped' /\ Cold' = Cold /\ RestoreTyped'
    BY <1>1, <2>2, FilesStay, RestoreStays
  <2>4. CopiesTyped'
    <3>1. /\ copy' \in [Workers -> {"none", "part", "whole"}]
          /\ \A v \in Workers \ {w} : copy'[v] = copy[v]
      BY <1>2, TInvParts DEF CopiesTyped
    <3>2. Head(todo[w]) \in 1 .. made /\ UsesCold' = UsesCold
      BY <1>2, <2>2, Listings DEF Hot, Tiers, UsesCold
    <3>3. QED
      BY <1>1, <1>2, <2>2, <2>3, <3>1, <3>2, TInvParts DEF CopiesTyped
  <2>5. QED
    BY <2>2, <2>3, <2>4, TInvParts
<1>3. CASE todo' = [todo EXCEPT ![w] = Tail(@)] /\ UNCHANGED <<worker, copy>>
  <2>1. worker' = [worker EXCEPT ![w] = "hot"]
    BY <1>1, <1>3, WorkerIsTyped
  <2>2. QED
    BY <1>1, <1>3, <2>1, PassTyped
<1>4. QED
  BY <1>2, <1>3 DEF OpenExpired, Hot

LEMMA CreateTyped ==
    ASSUME TInv, NEW w \in Workers, CreateCopy(w)
    PROVE  TInv'
<1>1. /\ worker[w] = "opened" /\ worker[w] \in Held /\ todo[w] # <<>>
      /\ UNCHANGED <<runVars, restore>>
  BY HandFacts DEF CreateCopy, Held
<1>2. CASE /\ files' = [files EXCEPT !["COLD"] = WithCopy(@, Head(todo[w]))]
           /\ whole' = [whole EXCEPT !["COLD"] = @ \ {Head(todo[w])}]
           /\ worker' = [worker EXCEPT ![w] = "copying"]
           /\ copy' = [v \in Workers |->
                         IF Copying(v, Head(todo[w])) /\ copy[v] = "whole" THEN "part" ELSE copy[v]]
           /\ UNCHANGED todo
  <2>1. /\ copy' \in [Workers -> {"none", "part", "whole"}]
        /\ \A v \in Workers : copy'[v] # "none" => copy[v] # "none"
    BY <1>2, TInvParts DEF CopiesTyped
  <2>2. PICK W \in SUBSET {Head(todo[w])} : W = {Head(todo[w])}
    OBVIOUS
  <2>3. whole' = [whole EXCEPT !["COLD"] = @ \ W]
    BY <1>2, <2>2
  <2>4. QED
    BY <1>1, <1>2, <2>1, <2>3, FillTyped
<1>3. CASE /\ worker' = [worker EXCEPT ![w] = "hot"]
           /\ todo' = [todo EXCEPT ![w] = Tail(@)]
           /\ copy' = [copy EXCEPT ![w] = "none"]
           /\ UNCHANGED <<files, whole>>
  BY <1>1, <1>3, PassTyped
<1>4. QED
  BY <1>2, <1>3 DEF CreateCopy

LEMMA WriteTyped ==
    ASSUME TInv, NEW w \in Workers, WriteCopy(w)
    PROVE  TInv'
<1>1. /\ worker[w] = "copying" /\ UNCHANGED <<runVars, whole, worker, todo, copy, restore>>
      /\ files' = [files EXCEPT !["COLD"] = WithCopy(@, Head(todo[w]))]
  BY DEF WriteCopy, workerVars
<1>2. worker' = [worker EXCEPT ![w] = "copying"] /\ copy' \in [Workers -> {"none", "part", "whole"}]
  BY <1>1, WorkerIsTyped, TInvParts DEF CopiesTyped
<1>3. PICK W \in SUBSET {Head(todo[w])} : W = {}
  OBVIOUS
<1>4. whole' = [whole EXCEPT !["COLD"] = @ \ W]
  BY <1>1, <1>3, TInvParts DEF FilesTyped
<1>5. QED
  BY <1>1, <1>2, <1>4, FillTyped

LEMMA EndTyped ==
    ASSUME TInv, NEW w \in Workers, EndCopy(w)
    PROVE  TInv'
<1> DEFINE a == Head(todo[w])
<1>1. /\ worker[w] = "copying" /\ worker[w] \in Held /\ todo[w] # <<>>
      /\ UNCHANGED <<runVars, files, restore>> /\ copy' = [copy EXCEPT ![w] = "none"]
  BY HandFacts DEF EndCopy, Held
<1>2. CASE /\ worker' = [worker EXCEPT ![w] = "moved"] /\ UNCHANGED todo
           /\ \/ whole' = whole
              \/ copy[w] = "whole" /\ whole' = [whole EXCEPT !["COLD"] = @ \cup {a}]
  <2>1. "moved" \in Held /\ worker[w] # "idle"
    BY <1>1 DEF Held
  <2>2. /\ RunTyped' /\ HandsTyped' /\ Phases' /\ worker'[w] = "moved"
        /\ made \in Nat /\ made' = made /\ cold' = cold
        /\ \A v \in Workers \ {w} : worker'[v] = worker[v]
    BY <1>1, <1>2, <2>1, CopierTyped
  <2>3. Cold' = Cold /\ FilesTyped /\ CopiesTyped
    BY <1>1, TiersStay, TInvParts
  <2>4. CopiesTyped'
    <3>1. copy' \in [Workers -> {"none", "part", "whole"}] /\ \A v \in Workers \ {w} : copy'[v] = copy[v]
      BY <1>1, <2>3 DEF CopiesTyped
    <3>2. made <= made'
      BY <2>2
    <3>3. QED
      BY <1>1, <1>2, <2>2, <2>3, <3>1, <3>2, CopiesKept
  <2>5. FilesTyped'
    <3>1. CASE whole' = whole
      BY <1>1, <2>2, <3>1, FilesStay
    <3>2. CASE copy[w] = "whole" /\ whole' = [whole EXCEPT !["COLD"] = @ \cup {a}]
      <4>1. a \in Cold /\ a \in Ids
        BY <1>1, <2>3, <3>2, HandFacts DEF CopiesTyped
      <4> HIDE DEF a
      <4>2. whole' \in [Tiers -> SUBSET Ids]
        BY <2>3, <3>2, <4>1 DEF FilesTyped
      <4>3. \A t \in Tiers : whole'[t] \subseteq Range(files[t])
        BY <2>3, <3>2, <4>1 DEF FilesTyped, FilesMade, Cold, Tiers
      <4>4. QED
        BY <1>1, <2>2, <2>3, <4>2, <4>3 DEF FilesTyped, FilesMade
    <3>3. QED
      BY <1>2, <3>1, <3>2
  <2>6. QED
    BY <1>1, <2>2, <2>4, <2>5, RestoreStays, TInvParts
<1>3. CASE /\ worker' = [worker EXCEPT ![w] = "hot"]
           /\ todo' = [todo EXCEPT ![w] = Tail(@)] /\ UNCHANGED whole
  BY <1>1, <1>3, PassTyped
<1>4. QED
  BY <1>2, <1>3 DEF EndCopy

\* A handler that copies nothing leaves the copies of the others alone.
LEMMA OthersCopy ==
    ASSUME TInv, NEW w \in Workers, UNCHANGED <<files, cold, made, copy>>, worker'[w] \notin Held,
           \A v \in Workers \ {w} : worker'[v] = worker[v] /\ todo'[v] = todo[v]
    PROVE  CopiesTyped'
<1>1. copy \in [Workers -> {"none", "part", "whole"}] /\ made \in Nat
  BY TInvParts DEF CopiesTyped, RunTyped
<1>2. Cold' = Cold
  BY TiersStay
<1>3. QED
  BY <1>1, <1>2, CopiesKept

LEMMA LeaveTyped ==
    ASSUME TInv, NEW w \in Workers, Finished(w), UNCHANGED <<files, whole, todo, copy, restore>>,
           todo[w] = <<>>, w = "run" => pc = "pruning"
    PROVE  TInv'
<1>1. RunTyped' /\ HandsTyped' /\ Phases'
  BY FinishedTyped
<1>2. UNCHANGED <<cold, made>> /\ worker' = [worker EXCEPT ![w] = "idle"] /\ HandsTyped
  BY TInvParts DEF Finished
<1>3. worker'[w] \notin Held /\ \A v \in Workers \ {w} : worker'[v] = worker[v]
  BY <1>2 DEF HandsTyped, Held
<1>4. CopiesTyped' /\ FilesTyped' /\ RestoreTyped'
  BY <1>2, <1>3, OthersCopy, FilesStay, RestoreStays
<1>5. QED
  BY <1>1, <1>4, TInvParts

LEMMA ListTyped ==
    ASSUME TInv, NEW w \in Workers, UNCHANGED <<runVars, files, whole, copy, restore>>,
           w = "run" => pc = "pruning",
           NEW l \in Jobs \ ({"idle", "removing", "purging"} \cup Held), NEW q \in Seq(Ids),
           IsInjective(q), worker' = [worker EXCEPT ![w] = l], todo' = [todo EXCEPT ![w] = q]
    PROVE  TInv'
<1>1. l \in Jobs /\ l \in Jobs \ {"idle", "removing", "purging"} /\ l # "idle" /\ l \notin Held
  OBVIOUS
<1>2. RunTyped' /\ HandsTyped' /\ Phases'
  BY <1>1, WorkTyped
<1>3. worker'[w] = l /\ \A v \in Workers \ {w} : worker'[v] = worker[v] /\ todo'[v] = todo[v]
  BY <1>1, HandMoves
<1>4. UNCHANGED <<cold, made>>
  BY DEF runVars
<1>5. CopiesTyped' /\ FilesTyped' /\ RestoreTyped'
  BY <1>1, <1>3, <1>4, OthersCopy, FilesStay, RestoreStays
<1>6. QED
  BY <1>2, <1>5, TInvParts

LEMMA WorkerStepTyped ==
    ASSUME TInv, NEW w \in Workers, WorkerStep(w)
    PROVE  TInv'
<1>1. RetentionCount \in Nat /\ cold \in Nat /\ "HOT" \in Tiers /\ "COLD" \in Tiers
  BY RetentionsAreNat DEF Tiers
<1>2. <<>> \in Seq(Ids) /\ IsInjective(<<>>)
  BY EmptySeq, RangeOfEmpty
<1>3. CASE SkipPrune(w)
  <2>1. /\ worker[w] = "idle" /\ (w = "run" => pc = "pruning") /\ Finished(w)
        /\ UNCHANGED <<files, whole, todo, copy, restore>>
    BY <1>3 DEF SkipPrune, MayPrune
  <2>2. todo[w] = <<>>
    BY <2>1, HandFacts
  <2>3. QED
    BY <2>1, <2>2, LeaveTyped
<1>4. CASE ListHot(w)
  <2>1. PICK q \in Seq(Ids) : IsInjective(q) /\ todo' = [todo EXCEPT ![w] = q]
    BY <1>1, <1>2, <1>4, ListedWork DEF ListHot
  <2>2. /\ w = "run" => pc = "pruning"
        /\ worker' = [worker EXCEPT ![w] = "hot"]
        /\ "hot" \in Jobs \ ({"idle", "removing", "purging"} \cup Held)
        /\ UNCHANGED <<runVars, files, whole, copy, restore>>
    BY <1>4 DEF ListHot, MayPrune, Jobs, Held
  <2>3. QED
    BY <2>1, <2>2, ListTyped
<1>5. CASE DeleteExpired(w)
  <2>1. /\ worker' = [worker EXCEPT ![w] = worker[w]] /\ worker[w] = "hot"
        /\ "hot" \in Jobs /\ "hot" \notin Held
    BY <1>5, WorkerIsTyped DEF DeleteExpired, Jobs, Held
  <2>2. QED
    BY <1>1, <1>5, <2>1, DeletionTyped DEF DeleteExpired
<1>6. CASE OpenExpired(w) \/ CreateCopy(w) \/ WriteCopy(w) \/ EndCopy(w)
  BY <1>6, OpenTyped, CreateTyped, WriteTyped, EndTyped
<1>7. CASE RemoveCopied(w)
  <2>1. todo[w] # <<>> /\ worker[w] \in Held /\ worker[w] # "idle"
        /\ "hot" \in Jobs /\ "hot" \notin Held
    BY <1>7, HandFacts DEF RemoveCopied, Jobs, Held
  <2>2. QED
    BY <1>1, <1>7, <2>1, DeletionTyped DEF RemoveCopied
<1>8. CASE ListCold(w)
  <2>1. /\ worker[w] = "hot" /\ todo[w] = <<>> /\ UNCHANGED <<files, whole, copy, restore>>
        /\ w = "run" => pc = "pruning"
    BY <1>8, RunWorks DEF ListCold
  <2>2. CASE /\ worker' = [worker EXCEPT ![w] = "cold"]
             /\ todo' = [todo EXCEPT ![w] = Expired(files["COLD"], cold)]
             /\ UNCHANGED runVars
    <3>1. PICK q \in Seq(Ids) : IsInjective(q) /\ todo' = [todo EXCEPT ![w] = q]
      BY <1>1, <2>2, ListedWork
    <3>2. "cold" \in Jobs \ ({"idle", "removing", "purging"} \cup Held)
      BY DEF Jobs, Held
    <3>3. QED
      BY <2>1, <2>2, <3>1, <3>2, ListTyped
  <2>3. CASE Finished(w) /\ UNCHANGED todo
    BY <2>1, <2>3, LeaveTyped
  <2>4. QED
    BY <1>8, <2>2, <2>3 DEF ListCold
<1>9. CASE DeleteListed(w)
  <2>1. worker[w] \in {"cold", "removing", "purging"} /\ UNCHANGED restore
        /\ worker[w] \in Jobs /\ worker[w] \notin Held
    BY <1>9 DEF DeleteListed, Jobs, Held
  <2>2. CASE /\ todo[w] # <<>>
             /\ Removed(IF worker[w] = "removing" THEN "HOT" ELSE "COLD", Head(todo[w]))
             /\ todo' = [todo EXCEPT ![w] = Tail(@)]
             /\ UNCHANGED <<runVars, worker>>
    <3>1. PICK t \in Tiers : Removed(t, Head(todo[w]))
      BY <1>1, <2>2
    <3>2. worker' = [worker EXCEPT ![w] = worker[w]]
      BY <2>2, WorkerIsTyped
    <3>3. QED
      BY <2>1, <2>2, <3>1, <3>2, DeletionTyped
  <2>3. CASE todo[w] = <<>> /\ Finished(w) /\ UNCHANGED <<files, whole, todo, copy>>
    <3>1. w = "run" => pc = "pruning"
      BY <2>1, RunWorks
    <3>2. QED
      BY <2>1, <2>3, <3>1, LeaveTyped
  <2>4. QED
    BY <1>9, <2>2, <2>3 DEF DeleteListed
<1>10. QED
  BY <1>3, <1>4, <1>5, <1>6, <1>7, <1>8, <1>9 DEF WorkerStep

LEMMA RemoveTyped ==
    ASSUME TInv, NEW c \in Clients, NEW a \in Ids, RemoveBackup(c, a)
    PROVE  TInv'
<1>1. /\ c \in Workers /\ c # "run" /\ UNCHANGED <<runVars, files, whole, copy, restore>>
      /\ a \in Hot \cup Cold /\ made' = made /\ pc' = pc
  BY ChainsAssumption DEF RemoveBackup, Workers, Hot, Cold, runVars
<1>2. PICK q \in Seq(Ids) : IsInjective(q) /\ todo' = [todo EXCEPT ![c] = q]
  <2>1. TierOf(a) \in Tiers /\ a \in Range(files[TierOf(a)])
    BY <1>1 DEF TierOf, Tiers, Hot, Cold
  <2>2. files[TierOf(a)] \in Seq(Ids) /\ IsInjective(files[TierOf(a)])
    BY <2>1, Listings
  <2>3. ChainOf(files[TierOf(a)], a) \in Seq(Ids) /\ IsInjective(ChainOf(files[TierOf(a)], a))
    BY <2>1, <2>2, ChainOfProperties
  <2>4. <<a>> \in Seq(Ids) /\ IsInjective(<<a>>)
    BY DEF IsInjective
  <2>5. QED
    BY <2>3, <2>4 DEF RemoveBackup
<1>3. PICK l \in {"removing", "purging"} : worker' = [worker EXCEPT ![c] = l]
  BY DEF RemoveBackup
<1>4. /\ HandsTyped' /\ worker'[c] = l /\ l \notin Held
      /\ \A v \in Workers \ {c} : worker'[v] = worker[v] /\ todo'[v] = todo[v]
  <2>1. l \in Jobs /\ l \notin Held /\ l # "idle"
    BY DEF Jobs, Held
  <2>2. QED
    BY <1>1, <1>2, <1>3, <2>1, HandMoves
<1>5. Phases'
  <2>1. "run" \in Workers /\ Phases
    BY TInvParts DEF Workers
  <2>2. QED
    BY <1>1, <1>4, <2>1 DEF Phases
<1>6. CopiesTyped'
  <2>1. UNCHANGED <<files, cold, made, copy>> /\ worker'[c] \notin Held
    BY <1>1, <1>4 DEF runVars
  <2>2. QED
    BY <1>1, <1>4, <2>1, OthersCopy
<1>7. QED
  BY <1>1, <1>4, <1>5, <1>6, RunStays, FilesStay, RestoreStays, TInvParts

LEMMA RestoreTypedStep ==
    ASSUME TInv, (\E a \in Ids : RestoreBackup(a)) \/ Extract \/ RestoreEnds
    PROVE  TInv'
<1>1. UNCHANGED <<runVars, files, whole, workerVars>> /\ made' = made /\ pc' = pc
      /\ worker' = worker
  BY DEF RestoreBackup, Extract, RestoreEnds, runVars, workerVars
<1>2. RestoreTyped
  BY TInvParts
<1>3. RestoreTyped'
  <2>1. CASE \E a \in Ids : RestoreBackup(a)
    <3>1. PICK a \in Ids : RestoreBackup(a)
      BY <2>1
    <3>2. TierOf(a) \in Tiers /\ a \in Range(files[TierOf(a)])
      BY <3>1 DEF RestoreBackup, TierOf, Tiers
    <3>3. files[TierOf(a)] \in Seq(Ids)
      BY <3>2, Listings
    <3>4. PlanOf(files[TierOf(a)], a) \in Seq(Ids) /\ <<>> \in Seq(Ids)
      BY <3>2, <3>3, PlanOfProperties, EmptySeq
    <3>5. QED
      BY <3>1, <3>2, <3>4 DEF RestoreBackup, RestoreTyped
  <2>2. CASE Extract
    <3>1. /\ restore.plan \in Seq(Ids) /\ restore.plan # <<>> /\ restore.applied \in Seq(Ids)
      BY <1>2, <2>2 DEF Extract, RestoreTyped
    <3>2. Head(restore.plan) \in Ids /\ Tail(restore.plan) \in Seq(Ids)
      BY <3>1, HeadTailProperties
    <3>3. Append(restore.applied, Head(restore.plan)) \in Seq(Ids)
      BY <3>1, <3>2, AppendProperties
    <3>4. QED
      BY <1>2, <2>2, <3>2, <3>3 DEF Extract, RestoreTyped
  <2>3. CASE RestoreEnds
    BY <1>2, <2>3 DEF RestoreEnds, RestoreTyped
  <2>4. QED
    BY <2>1, <2>2, <2>3
<1>4. RunTyped' /\ FilesTyped' /\ HandsTyped' /\ CopiesTyped'
  <2>1. UNCHANGED <<worker, todo, cold>> /\ Cold \subseteq Cold'
    BY <1>1, TiersStay DEF workerVars, runVars
  <2>2. QED
    BY <1>1, <2>1, RunStays, FilesStay, HandsStay, CopiesStay
<1>5. Phases'
  BY <1>1, TInvParts DEF Phases
<1>6. QED
  BY <1>3, <1>4, <1>5, TInvParts

LEMMA CrashTyped ==
    ASSUME TInv, Crash
    PROVE  TInv'
<1>1. RunTyped /\ <<>> \in Seq(Ids) /\ IsInjective(<<>>) /\ "run" \in Workers
  BY TInvParts, EmptySeq, RangeOfEmpty DEF Workers
<1>2. RunTyped'
  BY <1>1 DEF Crash, RunTyped
<1>3. HandsTyped' /\ worker'["run"] = "idle"
  BY <1>1 DEF Crash, HandsTyped, InHand, Jobs, Held
<1>4. RestoreTyped'
  <2>1. restore' = NoRestore /\ "HOT" \in Tiers
    BY DEF Crash, Tiers
  <2>2. QED
    BY <1>1, <2>1 DEF NoRestore, RestoreTyped
<1>5. Phases'
  BY <1>3 DEF Crash, Phases
<1>6. FilesTyped'
  <2>1. UNCHANGED <<files, whole, made>>
    BY DEF Crash
  <2>2. QED
    BY <2>1, FilesStay
<1>7. CopiesTyped'
  <2>1. copy' \in [Workers -> {"none", "part", "whole"}] /\ \A w \in Workers : worker'[w] = "idle"
    BY DEF Crash
  <2>2. QED
    BY <2>1 DEF CopiesTyped, Held
<1>8. QED
  BY <1>2, <1>3, <1>4, <1>5, <1>6, <1>7, TInvParts

LEMMA TInvStep ==
    ASSUME TInv, [Next]_vars
    PROVE  TInv'
<1>1. CASE RunStep
  BY <1>1, RunStepTyped
<1>2. CASE Elapse
  <2>1. RunTyped /\ Phases /\ MaxArchives \in Nat
    BY TInvParts, IdsAreNumbers
  <2>2. RunTyped'
    BY <1>2, <2>1 DEF Elapse, RunTyped
  <2>3. /\ UNCHANGED <<files, whole, made, cold, pc, worker, todo, restore, workerVars>>
        /\ made \in Nat /\ made <= made'
    BY <1>2, <2>1 DEF Elapse, RunTyped, workerVars
  <2>4. FilesTyped' /\ HandsTyped' /\ RestoreTyped' /\ Phases'
    BY <2>1, <2>3, FilesStay, HandsStay, RestoreStays DEF Phases
  <2>5. CopiesTyped'
    BY <2>3, TiersStay, CopiesStay
  <2>6. QED
    BY <2>2, <2>4, <2>5, TInvParts
<1>3. CASE Crash
  BY <1>3, CrashTyped
<1>4. CASE \E w \in Workers : WorkerStep(w)
  BY <1>4, WorkerStepTyped
<1>5. CASE \E c \in Clients, a \in Ids : RemoveBackup(c, a)
  BY <1>5, RemoveTyped
<1>6. CASE (\E a \in Ids : RestoreBackup(a)) \/ Extract \/ RestoreEnds
  BY <1>6, RestoreTypedStep
<1>7. CASE UNCHANGED vars
  <2>1. UNCHANGED <<runVars, files, whole, made, cold, pc, worker, todo, restore, workerVars>>
    BY <1>7 DEF vars, runVars, workerVars
  <2>2. RunTyped' /\ FilesTyped' /\ HandsTyped' /\ RestoreTyped' /\ CopiesTyped'
    BY <2>1, RunStays, TiersStay, FilesStay, HandsStay, CopiesStay, RestoreStays
  <2>3. Phases'
    BY <2>1, TInvParts DEF Phases
  <2>4. QED
    BY <2>2, <2>3, TInvParts
<1>8. QED
  BY <1>1, <1>2, <1>3, <1>4, <1>5, <1>6, <1>7 DEF Next

\* No archive is listed twice in a tier, whatever runs, prunes, removals and restores do at
\* once and whatever fails or stops within them.
THEOREM TypeCorrect == Spec => []TypeOK
<1>1. Init => TInv
  BY InitTyped
<1>2. TInv /\ [Next]_vars => TInv'
  BY TInvStep
<1>3. TInv => TypeOK
  BY DEF TInv, TypeOK, RunTyped, FilesTyped, HandsTyped, Jobs, CopiesTyped, RestoreTyped
<1>4. QED
  BY <1>1, <1>2, <1>3, PTL DEF Spec

-------------------------------------------------------------------------------
(* What the steps of a handler do to the sets of archives in the tiers and  *)
(* in its hands.                                                            *)

Same == UNCHANGED <<faults, kind, made, base, snapshot, cold, recent, restore>>

Others(w) ==
    \A v \in Workers : v # w => /\ worker'[v] = worker[v] /\ todo'[v] = todo[v]
                                /\ Todo(v)' = Todo(v)

Stops(w) ==
    /\ Same /\ Others(w) /\ UNCHANGED <<files, whole>> /\ Hot' = Hot /\ Cold' = Cold
    /\ worker'[w] = "idle" /\ todo[w] = <<>> /\ todo'[w] = <<>> /\ Todo(w)' = {}
    /\ pc' = (IF w = "run" THEN "idle" ELSE pc)
    /\ w = "run" => pc = "pruning"
    /\ copy' = copy
    /\ \/ worker[w] = "idle" /\ "mount" \in faults
       \/ worker[w] = "hot" /\ (~UsesCold \/ "mount" \in faults)
       \/ worker[w] \in {"cold", "removing", "purging"}

ListsHot(w) ==
    /\ Same /\ Others(w) /\ UNCHANGED <<files, whole, pc>> /\ Hot' = Hot /\ Cold' = Cold
    /\ worker[w] = "idle" /\ worker'[w] = "hot" /\ (w = "run" => pc = "pruning")
    /\ copy' = copy /\ ("prunes" \notin faults => \A v \in Workers : ~Prunes(v))
    /\ Ascending(files["HOT"]) =>
         /\ Ascending(todo'[w])
         /\ Todo(w)' = IF RetentionCount = 0 THEN {}
                       ELSE {a \in Hot : Cardinality(Younger(Hot, a)) >= RetentionCount}

ListsCold(w) ==
    /\ Same /\ Others(w) /\ UNCHANGED <<files, whole, pc>> /\ Hot' = Hot /\ Cold' = Cold
    /\ worker[w] = "hot" /\ worker'[w] = "cold" /\ todo[w] = <<>> /\ UsesCold /\ copy' = copy
    /\ Ascending(files["COLD"]) =>
         /\ Ascending(todo'[w])
         /\ Todo(w)' = {a \in Cold : Cardinality(Younger(Cold, a)) >= cold}

TakesHead(w) ==
    /\ todo[w] # <<>>
    /\ Todo(w)' = Todo(w) \ {Head(todo[w])}
    /\ Ascending(todo[w]) => Ascending(todo'[w])

DeletesHot(w) ==
    /\ Same /\ Others(w) /\ TakesHead(w) /\ pc' = pc
    /\ Hot' = Hot \ {Head(todo[w])} /\ Cold' = Cold /\ files'["COLD"] = files["COLD"]
    /\ whole'["HOT"] = whole["HOT"] \ {Head(todo[w])} /\ whole'["COLD"] = whole["COLD"]
    /\ Ascending(files["HOT"]) => Ascending(files'["HOT"])
    /\ \A v \in Workers : copy'[v] = copy[v]
    /\ \/ worker[w] = "hot" /\ ~UsesCold /\ worker'[w] = "hot"
       \/ worker[w] = "moved" /\ worker'[w] = "hot"
       \/ worker[w] = "removing" /\ worker'[w] = "removing"

DeletesCold(w) ==
    /\ Same /\ Others(w) /\ TakesHead(w) /\ pc' = pc
    /\ Cold' = Cold \ {Head(todo[w])} /\ Hot' = Hot /\ files'["HOT"] = files["HOT"]
    /\ whole'["COLD"] = whole["COLD"] \ {Head(todo[w])} /\ whole'["HOT"] = whole["HOT"]
    /\ Ascending(files["COLD"]) => Ascending(files'["COLD"])
    /\ \A v \in Workers : copy'[v] = IF Copying(v, Head(todo[w])) THEN "none" ELSE copy[v]
    /\ worker[w] \in {"cold", "purging"} /\ worker'[w] = worker[w]

Opens(w) ==
    /\ Same /\ Others(w) /\ UNCHANGED <<files, whole, pc>> /\ Hot' = Hot /\ Cold' = Cold
    /\ UsesCold /\ worker[w] = "hot" /\ worker'[w] = "opened"
    /\ todo[w] # <<>> /\ todo'[w] = todo[w] /\ Todo(w)' = Todo(w)
    /\ Head(todo[w]) \in Hot
    /\ copy'[w] = IF Head(todo[w]) \in whole["HOT"] THEN "whole" ELSE "part"
    /\ \A v \in Workers : v # w => copy'[v] = copy[v]

\* A copy begins, or goes on, to write.
Fills(w) ==
    /\ Same /\ Others(w) /\ pc' = pc /\ UsesCold
    /\ worker[w] \in {"opened", "copying"} /\ worker'[w] = "copying"
    /\ todo[w] # <<>> /\ todo'[w] = todo[w] /\ Todo(w)' = Todo(w)
    /\ Hot' = Hot /\ files'["HOT"] = files["HOT"] /\ whole'["HOT"] = whole["HOT"]
    /\ Cold' = Cold \cup {Head(todo[w])}
    /\ whole'["COLD"] = IF worker[w] = "opened" THEN whole["COLD"] \ {Head(todo[w])}
                                                ELSE whole["COLD"]
    /\ Ascending(files["COLD"]) /\ (\A x \in Cold : x <= Head(todo[w])) =>
         Ascending(files'["COLD"])
    /\ worker[w] = "copying" => Head(todo[w]) \in Cold /\ copy' = copy
    /\ copy'[w] = copy[w]
    /\ \A v \in Workers : ~Copying(v, Head(todo[w])) => copy'[v] = copy[v]
    /\ \A v \in Workers : copy'[v] = "whole" =>
         copy[v] = "whole" /\ (worker[w] = "opened" => ~Copying(v, Head(todo[w])))

Ends(w) ==
    /\ Same /\ Others(w) /\ pc' = pc
    /\ worker[w] = "copying" /\ worker'[w] = "moved"
    /\ todo[w] # <<>> /\ todo'[w] = todo[w] /\ Todo(w)' = Todo(w)
    /\ files' = files /\ Hot' = Hot /\ Cold' = Cold /\ whole'["HOT"] = whole["HOT"]
    /\ \/ whole'["COLD"] = whole["COLD"] \cup (IF copy[w] = "whole" THEN {Head(todo[w])} ELSE {})
       \/ "copy" \in faults
    /\ whole["COLD"] \subseteq whole'["COLD"]
    /\ \A v \in Workers : v # w => copy'[v] = copy[v]

\* A file that is gone is passed over, and so is one that cannot be copied or removed.
Passes(w) ==
    /\ Same /\ Others(w) /\ TakesHead(w) /\ pc' = pc /\ worker[w] # "idle"
    /\ UNCHANGED <<files, whole>> /\ Hot' = Hot /\ Cold' = Cold
    /\ worker'[w] = IF Moving(w) THEN "hot" ELSE worker[w]
    /\ \/ "copy" \in faults \/ "remove" \in faults
       \/ worker[w] = "hot" /\ UsesCold /\ Head(todo[w]) \notin Hot /\ copy' = copy

LEMMA OthersStay ==
    ASSUME TInv, NEW w \in Workers, NEW l \in Jobs, NEW q \in Seq(Ids), IsInjective(q),
           worker' = [worker EXCEPT ![w] = l], todo' = [todo EXCEPT ![w] = q]
    PROVE  Others(w) /\ worker'[w] = l /\ todo'[w] = q /\ Todo(w)' = Range(q)
<1>1. worker \in [Workers -> Jobs] /\ todo \in [Workers -> Seq(Ids)]
  BY DEF TInv, HandsTyped
<1>2. /\ worker'[w] = l /\ todo'[w] = q
      /\ \A v \in Workers : v # w => worker'[v] = worker[v] /\ todo'[v] = todo[v]
  BY <1>1
<1>3. QED
  BY <1>2 DEF Others, Todo

LEMMA StopsEffect ==
    ASSUME TInv, NEW w \in Workers, Finished(w), UNCHANGED <<files, whole, todo, copy, restore>>,
           todo[w] = <<>>, w = "run" => pc = "pruning",
           \/ worker[w] = "idle" /\ "mount" \in faults
           \/ worker[w] = "hot" /\ (~UsesCold \/ "mount" \in faults)
           \/ worker[w] \in {"cold", "removing", "purging"}
    PROVE  Stops(w)
<1>1. /\ <<>> \in Seq(Ids) /\ IsInjective(<<>>) /\ Range(<<>>) = {} /\ "idle" \in Jobs
      /\ todo' = [todo EXCEPT ![w] = <<>>]
  BY EmptySeq, RangeOfEmpty, WorkerIsTyped DEF Jobs
<1>2. Others(w) /\ worker'[w] = "idle" /\ todo'[w] = <<>> /\ Todo(w)' = {}
  BY <1>1, OthersStay DEF Finished
<1>3. Same /\ Hot' = Hot /\ Cold' = Cold /\ pc' = (IF w = "run" THEN "idle" ELSE pc)
  BY DEF Finished, Same, Hot, Cold
<1>4. QED
  BY <1>2, <1>3 DEF Stops

LEMMA TakesHeadEffect ==
    ASSUME TInv, NEW w \in Workers, todo[w] # <<>>, NEW l \in Jobs,
           worker' = [worker EXCEPT ![w] = l], todo' = [todo EXCEPT ![w] = Tail(@)]
    PROVE  TakesHead(w) /\ Others(w) /\ worker'[w] = l
<1>1. /\ Tail(todo[w]) \in Seq(Ids) /\ IsInjective(Tail(todo[w]))
      /\ Range(Tail(todo[w])) = Todo(w) \ {Head(todo[w])}
      /\ Ascending(todo[w]) => Ascending(Tail(todo[w]))
  BY HandFacts
<1>2. PICK q \in Seq(Ids) : q = Tail(todo[w])
  BY <1>1
<1>3. IsInjective(q) /\ todo' = [todo EXCEPT ![w] = q]
  BY <1>1, <1>2
<1>4. Others(w) /\ worker'[w] = l /\ todo'[w] = q /\ Todo(w)' = Range(q)
  BY <1>3, OthersStay
<1>5. QED
  BY <1>1, <1>2, <1>4 DEF TakesHead

LEMMA DeletesHotEffect ==
    ASSUME TInv, NEW w \in Workers, todo[w] # <<>>, UNCHANGED <<runVars, restore>>, NEW l \in Jobs,
           Removed("HOT", Head(todo[w])),
           worker' = [worker EXCEPT ![w] = l], todo' = [todo EXCEPT ![w] = Tail(@)],
           \/ worker[w] = "hot" /\ ~UsesCold /\ l = "hot"
           \/ worker[w] = "moved" /\ l = "hot"
           \/ worker[w] = "removing" /\ l = "removing"
    PROVE  DeletesHot(w) \/ Passes(w)
<1>1. TakesHead(w) /\ Others(w) /\ worker'[w] = l
  BY TakesHeadEffect
<1>2. Head(todo[w]) \in Ids /\ "HOT" \in Tiers /\ "COLD" \in Tiers \ {"HOT"}
  BY HandFacts DEF Tiers
<1>3. Same /\ pc' = pc /\ worker[w] # "idle" /\ Cold' = Cold /\ files'["COLD"] = files["COLD"]
  BY <1>2, RemovedFrom DEF Same, runVars, Cold
<1>4. CASE "remove" \in faults /\ UNCHANGED <<files, whole, copy>>
  <2>1. Hot' = Hot
    BY <1>4 DEF Hot
  <2>2. worker'[w] = IF Moving(w) THEN "hot" ELSE worker[w]
    BY <1>1 DEF Moving, Held
  <2>3. Passes(w)
    BY <1>1, <1>3, <1>4, <2>1, <2>2 DEF Passes
  <2>4. QED
    BY <2>3
<1>5. CASE \A v \in Workers : copy'[v] = copy[v]
  <2>1. CASE Hot' = Hot \ {Head(todo[w])} /\ whole'["HOT"] = whole["HOT"] \ {Head(todo[w])}
    <3>1. /\ whole'["COLD"] = whole["COLD"]
          /\ Ascending(files["HOT"]) => Ascending(files'["HOT"])
      BY <1>2, RemovedFrom
    <3>2. DeletesHot(w)
      BY <1>1, <1>3, <1>5, <2>1, <3>1 DEF DeletesHot
    <3>3. QED
      BY <3>2
  <2>2. QED
    BY <1>2, <1>4, <2>1, RemovedFrom DEF Hot
<1>6. QED
  BY <1>2, <1>4, <1>5 DEF Removed

LEMMA DeletesColdEffect ==
    ASSUME TInv, NEW w \in Workers, todo[w] # <<>>, UNCHANGED <<runVars, worker, restore>>,
           Removed("COLD", Head(todo[w])), worker[w] \in {"cold", "purging"},
           todo' = [todo EXCEPT ![w] = Tail(@)]
    PROVE  DeletesCold(w) \/ Passes(w)
<1>1. TakesHead(w) /\ Others(w) /\ worker'[w] = worker[w]
  <2>1. worker[w] \in Jobs /\ worker' = [worker EXCEPT ![w] = worker[w]]
    BY WorkerIsTyped DEF Jobs
  <2>2. QED
    BY <2>1, TakesHeadEffect
<1>2. Head(todo[w]) \in Ids /\ "COLD" \in Tiers /\ "HOT" \in Tiers \ {"COLD"}
  BY HandFacts DEF Tiers
<1>3. Same /\ pc' = pc /\ worker[w] # "idle" /\ Hot' = Hot /\ files'["HOT"] = files["HOT"]
  BY <1>2, RemovedFrom DEF Same, runVars, Hot
<1>4. CASE "remove" \in faults /\ UNCHANGED <<files, whole, copy>>
  <2>1. Cold' = Cold
    BY <1>4 DEF Cold
  <2>2. worker'[w] = IF Moving(w) THEN "hot" ELSE worker[w]
    BY <1>1 DEF Moving, Held
  <2>3. Passes(w)
    BY <1>1, <1>3, <1>4, <2>1, <2>2 DEF Passes
  <2>4. QED
    BY <2>3
<1>5. CASE \A v \in Workers : copy'[v] = IF Copying(v, Head(todo[w])) THEN "none" ELSE copy[v]
  <2>1. CASE Cold' = Cold \ {Head(todo[w])} /\ whole'["COLD"] = whole["COLD"] \ {Head(todo[w])}
    <3>1. /\ whole'["HOT"] = whole["HOT"]
          /\ Ascending(files["COLD"]) => Ascending(files'["COLD"])
      BY <1>2, RemovedFrom
    <3>2. DeletesCold(w)
      BY <1>1, <1>3, <1>5, <2>1, <3>1 DEF DeletesCold
    <3>3. QED
      BY <3>2
  <2>2. QED
    BY <1>2, <1>4, <2>1, RemovedFrom DEF Cold
<1>6. QED
  BY <1>2, <1>4, <1>5 DEF Removed

\* A handler goes on with the file it has in hand.
LEMMA CopierEffect ==
    ASSUME TInv, NEW w \in Workers, UNCHANGED <<runVars, todo, restore>>,
           NEW l \in Jobs, worker' = [worker EXCEPT ![w] = l]
    PROVE  /\ Same /\ Others(w) /\ pc' = pc /\ made' = made
           /\ worker'[w] = l /\ todo'[w] = todo[w] /\ Todo(w)' = Todo(w)
<1>1. /\ todo' = [todo EXCEPT ![w] = todo[w]] /\ todo[w] \in Seq(Ids) /\ IsInjective(todo[w])
  BY WorkerIsTyped, HandFacts
<1>2. Others(w) /\ worker'[w] = l /\ todo'[w] = todo[w] /\ Todo(w)' = Range(todo[w])
  BY <1>1, OthersStay
<1>3. QED
  BY <1>2 DEF Same, runVars, Todo

LEMMA PassesEffect ==
    ASSUME TInv, NEW w \in Workers, UNCHANGED <<runVars, files, whole, restore>>,
           todo[w] # <<>>, Moving(w), worker' = [worker EXCEPT ![w] = "hot"],
           todo' = [todo EXCEPT ![w] = Tail(@)],
           \/ "copy" \in faults
           \/ worker[w] = "hot" /\ UsesCold /\ Head(todo[w]) \notin Hot /\ copy' = copy
    PROVE  Passes(w)
<1>1. "hot" \in Jobs /\ worker[w] # "idle"
  BY DEF Jobs, Moving, Held
<1>2. TakesHead(w) /\ Others(w) /\ worker'[w] = "hot"
  BY <1>1, TakesHeadEffect
<1>3. Same /\ pc' = pc /\ Hot' = Hot /\ Cold' = Cold
  BY TiersStay DEF Same, runVars
<1>4. QED
  BY <1>1, <1>2, <1>3 DEF Passes

LEMMA CopyEffect ==
    ASSUME TInv, NEW w \in Workers,
           OpenExpired(w) \/ CreateCopy(w) \/ WriteCopy(w) \/ EndCopy(w)
    PROVE  Opens(w) \/ Fills(w) \/ Ends(w) \/ Passes(w)
<1> DEFINE a == Head(todo[w])
<1>1. UNCHANGED <<runVars, restore>> /\ {"opened", "copying", "moved", "hot"} \subseteq Jobs
  BY DEF OpenExpired, CreateCopy, WriteCopy, EndCopy, Jobs
<1>2. /\ worker[w] \in Held => todo[w] # <<>> /\ UsesCold /\ a \in 1 .. made
      /\ copy \in [Workers -> {"none", "part", "whole"}] /\ whole \in [Tiers -> SUBSET Ids]
      /\ todo[w] # <<>> => a \in Ids
      /\ made' = made
  <2>1. CopiesTyped /\ FilesTyped
    BY TInvParts
  <2>2. QED
    BY <1>1, <2>1, HandFacts DEF CopiesTyped, FilesTyped, runVars
<1>3. /\ worker[w] \in {"opened", "copying", "moved"} => worker[w] \in Held
      /\ worker[w] = "hot" \/ worker[w] \in Held => Moving(w)
  BY DEF Held, Moving
<1>4. CASE OpenExpired(w)
  <2>1. /\ worker[w] = "hot" /\ todo[w] # <<>> /\ UsesCold /\ UNCHANGED <<files, whole>>
    BY <1>4 DEF OpenExpired
  <2>2. CASE /\ a \in Hot /\ worker' = [worker EXCEPT ![w] = "opened"] /\ UNCHANGED todo
             /\ copy' = [copy EXCEPT ![w] = IF a \in whole["HOT"] THEN "whole" ELSE "part"]
    <3>1. /\ Same /\ Others(w) /\ pc' = pc
          /\ worker'[w] = "opened" /\ todo'[w] = todo[w] /\ Todo(w)' = Todo(w)
      BY <1>1, <2>2, CopierEffect
    <3>2. Hot' = Hot /\ Cold' = Cold
      BY <2>1, TiersStay
    <3>3. /\ copy'[w] = IF a \in whole["HOT"] THEN "whole" ELSE "part"
          /\ \A v \in Workers : v # w => copy'[v] = copy[v]
      BY <1>2, <2>2
    <3>4. Opens(w)
      BY <2>1, <2>2, <3>1, <3>2, <3>3 DEF Opens
    <3>5. QED
      BY <3>4
  <2>3. CASE /\ a \notin Hot \/ "copy" \in faults
             /\ todo' = [todo EXCEPT ![w] = Tail(@)] /\ UNCHANGED <<worker, copy>>
    <3>1. worker' = [worker EXCEPT ![w] = "hot"]
      BY <2>1, <2>3, WorkerIsTyped
    <3>2. QED
      BY <1>1, <1>3, <2>1, <2>3, <3>1, PassesEffect
  <2>4. QED
    BY <1>4, <2>2, <2>3 DEF OpenExpired, Hot
<1>5. CASE CreateCopy(w)
  <2>1. worker[w] = "opened" /\ worker[w] \in Held
    BY <1>3, <1>5 DEF CreateCopy
  <2>2. CASE /\ files' = [files EXCEPT !["COLD"] = WithCopy(@, a)]
             /\ whole' = [whole EXCEPT !["COLD"] = @ \ {a}]
             /\ worker' = [worker EXCEPT ![w] = "copying"] /\ UNCHANGED todo
             /\ copy' = [v \in Workers |->
                           IF Copying(v, a) /\ copy[v] = "whole" THEN "part" ELSE copy[v]]
    <3>1. /\ Same /\ Others(w) /\ pc' = pc
          /\ worker'[w] = "copying" /\ todo'[w] = todo[w] /\ Todo(w)' = Todo(w)
      BY <1>1, <2>2, CopierEffect
    <3>2. ~Copying(w, a)
      BY <2>1 DEF Copying
    <3>3. /\ copy'[w] = copy[w] /\ \A v \in Workers : ~Copying(v, a) => copy'[v] = copy[v]
          /\ \A v \in Workers : copy'[v] = "whole" => copy[v] = "whole" /\ ~Copying(v, a)
      BY <2>2, <3>2
    <3>4. a \in 1 .. made /\ a \in Ids
      BY <1>2, <2>1
    <3> HIDE DEF a
    <3>5. PICK W \in SUBSET {a} : W = {a}
      OBVIOUS
    <3>6. whole' = [whole EXCEPT !["COLD"] = @ \ W]
      BY <2>2, <3>5
    <3>7. /\ files'["HOT"] = files["HOT"] /\ Hot' = Hot /\ Cold' = Cold \cup {a}
          /\ whole'["HOT"] = whole["HOT"] /\ whole'["COLD"] = whole["COLD"] \ W
          /\ Ascending(files["COLD"]) /\ (\A x \in Cold : x <= a) => Ascending(files'["COLD"])
      BY <1>2, <2>2, <3>4, <3>6, CopiedTo
    <3>8. Fills(w)
      BY <1>2, <2>1, <3>1, <3>3, <3>5, <3>7 DEF Fills, a
    <3>9. QED
      BY <3>8
  <2>3. CASE /\ "copy" \in faults /\ worker' = [worker EXCEPT ![w] = "hot"]
             /\ todo' = [todo EXCEPT ![w] = Tail(@)] /\ UNCHANGED <<files, whole>>
    BY <1>1, <1>2, <1>3, <2>1, <2>3, PassesEffect
  <2>4. QED
    BY <1>5, <2>2, <2>3 DEF CreateCopy
<1>6. CASE WriteCopy(w)
  <2>1. /\ worker[w] = "copying" /\ worker[w] \in Held /\ UNCHANGED <<whole, worker, todo, copy>>
        /\ files' = [files EXCEPT !["COLD"] = WithCopy(@, a)]
    BY <1>3, <1>6 DEF WriteCopy, workerVars
  <2>2. worker' = [worker EXCEPT ![w] = "copying"]
    BY <2>1, WorkerIsTyped
  <2>3. /\ Same /\ Others(w) /\ pc' = pc
        /\ worker'[w] = "copying" /\ todo'[w] = todo[w] /\ Todo(w)' = Todo(w)
    BY <1>1, <2>1, <2>2, CopierEffect
  <2>4. a \in 1 .. made /\ a \in Ids
    BY <1>2, <2>1
  <2> HIDE DEF a
  <2>5. PICK W \in SUBSET {a} : W = {}
    OBVIOUS
  <2>6. whole' = [whole EXCEPT !["COLD"] = @ \ W]
    BY <1>2, <2>1, <2>5
  <2>7. /\ files'["HOT"] = files["HOT"] /\ Hot' = Hot /\ Cold' = Cold \cup {a}
        /\ Ascending(files["COLD"]) /\ (\A x \in Cold : x <= a) => Ascending(files'["COLD"])
    BY <1>2, <2>1, <2>4, <2>6, CopiedTo
  <2>8. a \in Cold
    BY <1>6, <2>1, TInvParts DEF WriteCopy, CopiesTyped, a
  <2>9. Fills(w)
    BY <1>2, <2>1, <2>3, <2>7, <2>8 DEF Fills, a
  <2>10. QED
    BY <2>9
<1>7. CASE EndCopy(w)
  <2>1. /\ worker[w] = "copying" /\ worker[w] \in Held /\ files' = files
        /\ copy' = [copy EXCEPT ![w] = "none"]
    BY <1>3, <1>7 DEF EndCopy
  <2>2. CASE /\ worker' = [worker EXCEPT ![w] = "moved"] /\ UNCHANGED todo
             /\ \/ whole' = IF copy[w] = "whole"
                            THEN [whole EXCEPT !["COLD"] = @ \cup {a}] ELSE whole
                \/ "copy" \in faults /\ whole' = whole
    <3>1. /\ Same /\ Others(w) /\ pc' = pc
          /\ worker'[w] = "moved" /\ todo'[w] = todo[w] /\ Todo(w)' = Todo(w)
      BY <1>1, <2>2, CopierEffect
    <3>2. Hot' = Hot /\ Cold' = Cold /\ \A v \in Workers : v # w => copy'[v] = copy[v]
      BY <1>2, <2>1, TiersStay
    <3>3. /\ \/ whole'["COLD"] = whole["COLD"] \cup (IF copy[w] = "whole" THEN {a} ELSE {})
             \/ "copy" \in faults
          /\ whole["COLD"] \subseteq whole'["COLD"] /\ whole'["HOT"] = whole["HOT"]
      BY <1>2, <2>2 DEF Tiers
    <3>4. Ends(w)
      BY <1>2, <2>1, <3>1, <3>2, <3>3 DEF Ends
    <3>5. QED
      BY <3>4
  <2>3. CASE /\ "copy" \in faults /\ worker' = [worker EXCEPT ![w] = "hot"]
             /\ todo' = [todo EXCEPT ![w] = Tail(@)] /\ UNCHANGED whole
    BY <1>1, <1>2, <1>3, <2>1, <2>3, PassesEffect
  <2>4. QED
    BY <1>7, <2>2, <2>3 DEF EndCopy
<1>8. QED
  BY <1>4, <1>5, <1>6, <1>7

LEMMA WorkerEffects ==
    ASSUME TInv, NEW w \in Workers, WorkerStep(w)
    PROVE  \/ Stops(w) \/ ListsHot(w) \/ ListsCold(w)
           \/ DeletesHot(w) \/ DeletesCold(w)
           \/ Opens(w) \/ Fills(w) \/ Ends(w) \/ Passes(w)
<1>1. RetentionCount \in Nat /\ cold \in Nat /\ "HOT" \in Tiers /\ "COLD" \in Tiers
  BY RetentionsAreNat DEF Tiers
<1>2. /\ files["HOT"] \in Seq(Ids) /\ IsInjective(files["HOT"])
      /\ files["COLD"] \in Seq(Ids) /\ IsInjective(files["COLD"])
  BY <1>1, Listings
<1>3. CASE SkipPrune(w)
  <2>1. /\ worker[w] = "idle" /\ (w = "run" => pc = "pruning") /\ Finished(w)
        /\ UNCHANGED <<files, whole, todo, copy, restore>> /\ "mount" \in faults
    BY <1>3 DEF SkipPrune, MayPrune
  <2>2. todo[w] = <<>>
    BY <2>1, HandFacts
  <2>3. QED
    BY <2>1, <2>2, StopsEffect
<1>4. CASE ListHot(w)
  <2> DEFINE q == IF RetentionCount = 0 THEN <<>> ELSE Expired(files["HOT"], RetentionCount)
  <2>1. /\ q \in Seq(Ids) /\ IsInjective(q)
        /\ Ascending(files["HOT"]) =>
             /\ Ascending(q)
             /\ Range(q) = IF RetentionCount = 0 THEN {}
                           ELSE {a \in Hot : Cardinality(Younger(Hot, a)) >= RetentionCount}
    <3>1. CASE RetentionCount = 0
      BY <3>1, EmptySeq, RangeOfEmpty DEF Ascending
    <3>2. CASE RetentionCount # 0
      BY <1>1, <1>2, <3>2, ExpiredProperties DEF Hot
    <3>3. QED
      BY <3>1, <3>2
  <2>2. /\ todo' = [todo EXCEPT ![w] = q] /\ worker' = [worker EXCEPT ![w] = "hot"]
        /\ "hot" \in Jobs
    BY <1>4 DEF ListHot, Jobs
  <2> HIDE DEF q
  <2>3. Others(w) /\ worker'[w] = "hot" /\ todo'[w] = q /\ Todo(w)' = Range(q)
    BY <2>1, <2>2, OthersStay
  <2>4. /\ Same /\ UNCHANGED <<files, whole, pc>> /\ Hot' = Hot /\ Cold' = Cold
        /\ worker[w] = "idle" /\ (w = "run" => pc = "pruning")
        /\ copy' = copy /\ ("prunes" \notin faults => \A v \in Workers : ~Prunes(v))
    BY <1>4 DEF ListHot, MayPrune, Same, runVars, Hot, Cold
  <2>5. ListsHot(w)
    BY <2>1, <2>3, <2>4 DEF ListsHot
  <2>6. QED
    BY <2>5
<1>5. CASE DeleteExpired(w)
  <2>1. /\ worker' = [worker EXCEPT ![w] = worker[w]] /\ worker[w] = "hot" /\ "hot" \in Jobs
    BY <1>5, WorkerIsTyped DEF DeleteExpired, Jobs
  <2>2. DeletesHot(w) \/ Passes(w)
    BY <1>5, <2>1, DeletesHotEffect DEF DeleteExpired
  <2>3. QED
    BY <2>2
<1>6. CASE OpenExpired(w) \/ CreateCopy(w) \/ WriteCopy(w) \/ EndCopy(w)
  BY <1>6, CopyEffect
<1>7. CASE RemoveCopied(w)
  <2>1. todo[w] # <<>> /\ worker[w] = "moved" /\ "hot" \in Jobs
    BY <1>7, HandFacts DEF RemoveCopied, Jobs, Held
  <2>2. DeletesHot(w) \/ Passes(w)
    BY <1>7, <2>1, DeletesHotEffect DEF RemoveCopied
  <2>3. QED
    BY <2>2
<1>8. CASE ListCold(w)
  <2>1. /\ worker[w] = "hot" /\ todo[w] = <<>> /\ UNCHANGED <<files, whole, copy, restore>>
        /\ w = "run" => pc = "pruning"
    BY <1>8, RunWorks DEF ListCold
  <2>2. CASE /\ UsesCold
             /\ worker' = [worker EXCEPT ![w] = "cold"]
             /\ todo' = [todo EXCEPT ![w] = Expired(files["COLD"], cold)]
             /\ UNCHANGED runVars
    <3> DEFINE q == Expired(files["COLD"], cold)
    <3>1. /\ q \in Seq(Ids) /\ IsInjective(q)
          /\ Ascending(files["COLD"]) =>
               /\ Ascending(q)
               /\ Range(q) = {a \in Cold : Cardinality(Younger(Cold, a)) >= cold}
      BY <1>1, <1>2, ExpiredProperties DEF Cold
    <3>2. todo' = [todo EXCEPT ![w] = q] /\ "cold" \in Jobs
      BY <2>2 DEF Jobs
    <3> HIDE DEF q
    <3>3. Others(w) /\ worker'[w] = "cold" /\ todo'[w] = q /\ Todo(w)' = Range(q)
      BY <2>2, <3>1, <3>2, OthersStay
    <3>4. Same /\ pc' = pc /\ Hot' = Hot /\ Cold' = Cold
      BY <2>1, <2>2 DEF Same, runVars, Hot, Cold
    <3>5. ListsCold(w)
      BY <2>1, <2>2, <3>1, <3>3, <3>4 DEF ListsCold
    <3>6. QED
      BY <3>5
  <2>3. CASE (~UsesCold \/ "mount" \in faults) /\ Finished(w) /\ UNCHANGED todo
    BY <2>1, <2>3, StopsEffect
  <2>4. QED
    BY <1>8, <2>2, <2>3 DEF ListCold
<1>9. CASE DeleteListed(w)
  <2>1. worker[w] \in {"cold", "removing", "purging"} /\ UNCHANGED restore
        /\ worker[w] \in Jobs
    BY <1>9 DEF DeleteListed, Jobs
  <2>2. CASE /\ todo[w] # <<>>
             /\ Removed(IF worker[w] = "removing" THEN "HOT" ELSE "COLD", Head(todo[w]))
             /\ todo' = [todo EXCEPT ![w] = Tail(@)]
             /\ UNCHANGED <<runVars, worker>>
    <3>1. CASE worker[w] = "removing"
      <4>1. worker' = [worker EXCEPT ![w] = worker[w]]
        BY <2>2, WorkerIsTyped
      <4>2. DeletesHot(w) \/ Passes(w)
        BY <2>1, <2>2, <3>1, <4>1, DeletesHotEffect
      <4>3. QED
        BY <4>2
    <3>2. CASE worker[w] # "removing"
      <4>1. DeletesCold(w) \/ Passes(w)
        BY <2>1, <2>2, <3>2, DeletesColdEffect
      <4>2. QED
        BY <4>1
    <3>3. QED
      BY <3>1, <3>2
  <2>3. CASE todo[w] = <<>> /\ Finished(w) /\ UNCHANGED <<files, whole, todo, copy>>
    <3>1. w = "run" => pc = "pruning"
      BY <2>1, RunWorks
    <3>2. QED
      BY <2>1, <2>3, <3>1, StopsEffect
  <2>4. QED
    BY <1>9, <2>2, <2>3 DEF DeleteListed
<1>10. QED
  BY <1>3, <1>4, <1>5, <1>6, <1>7, <1>8, <1>9 DEF WorkerStep

LEMMA TodoStays ==
    ASSUME UNCHANGED <<worker, todo>>
    PROVE  \A v \in Workers : worker'[v] = worker[v] /\ todo'[v] = todo[v] /\ Todo(v)' = Todo(v)
BY DEF Todo

\* What a run that has created its file has done.
LEMMA CreateEffect ==
    ASSUME TInv, CreateArchive, pc' = "writing"
    PROVE  /\ made' = made + 1 /\ made \in Nat /\ made + 1 \in Ids /\ pc = "decided"
           /\ base' = [base EXCEPT ![made + 1] = IF Incremental THEN snapshot' ELSE 0]
           /\ recent' = (IF kind[made + 1] = "FULL" THEN made + 1 ELSE recent)
           /\ Hot' = Hot \cup {made + 1} /\ Cold' = Cold /\ files'["COLD"] = files["COLD"]
           /\ Ascending(files["HOT"]) => Ascending(files'["HOT"])
           /\ \A a \in Hot \cup Cold : a \in Nat /\ a <= made
<1>1. /\ pc = "decided" /\ made' = made + 1
      /\ base' = [base EXCEPT ![made + 1] = IF Incremental THEN snapshot' ELSE 0]
      /\ recent' = (IF kind[made + 1] = "FULL" THEN made + 1 ELSE recent)
      /\ files' = [files EXCEPT !["HOT"] = Append(@, made + 1)]
  BY DEF CreateArchive
<1>2. RunTyped /\ FilesTyped /\ Phases /\ "HOT" \in Tiers /\ "COLD" \in Tiers
  BY TInvParts DEF Tiers
<1>3. made \in Nat /\ made + 1 \in Ids
  <2>1. made < MaxArchives /\ made \in 0 .. MaxArchives /\ MaxArchives \in Nat
    BY <1>1, <1>2, IdsAreNumbers DEF RunTyped, Phases
  <2>2. QED
    BY <2>1 DEF Ids
<1> DEFINE q == files["HOT"]
<1>4. /\ q \in Seq(Ids) /\ Range(q) \subseteq 1 .. made /\ Range(files["COLD"]) \subseteq 1 .. made
      /\ files \in [Tiers -> Seq(Ids)]
  BY <1>2, Listings DEF FilesTyped
<1> HIDE DEF q
<1>5. Append(q, made + 1) \in Seq(Ids) /\ Range(Append(q, made + 1)) = Range(q) \cup {made + 1}
  BY <1>3, <1>4, RangeAppend
<1>6. Ascending(q) => Ascending(Append(q, made + 1))
  <2>1. \A x \in Range(q) : x < made + 1
    BY <1>3, <1>4
  <2>2. QED
    BY <1>3, <1>4, <2>1, AscendingAppend
<1>7. files'["HOT"] = Append(q, made + 1) /\ files'["COLD"] = files["COLD"]
  BY <1>1, <1>2, <1>4 DEF q
<1>8. Hot' = Hot \cup {made + 1} /\ Cold' = Cold
  BY <1>5, <1>7 DEF Hot, Cold, q
<1>9. \A a \in Hot \cup Cold : a \in Nat /\ a <= made
  BY <1>3, <1>4 DEF Hot, Cold, q
<1>10. QED
  BY <1>1, <1>3, <1>6, <1>7, <1>8, <1>9 DEF q

\* What RemoveBackup takes in hand.
LEMMA RemoveEffect ==
    ASSUME TInv, NEW c \in Clients, NEW a \in Ids, RemoveBackup(c, a)
    PROVE  /\ Same /\ Others(c) /\ UNCHANGED <<files, whole, pc>> /\ Hot' = Hot /\ Cold' = Cold
           /\ c \in Workers /\ c # "run" /\ worker[c] = "idle" /\ todo[c] = <<>>
           /\ worker'[c] = IF a \in Hot THEN "removing" ELSE "purging"
           /\ a \in Hot \cup Cold
           /\ LET t == IF a \in Hot THEN "HOT" ELSE "COLD"
                  A == IF a \in Hot THEN Hot ELSE Cold
              IN  Ascending(files[t]) /\ kind[a] = "FULL" =>
                    /\ Ascending(todo'[c])
                    /\ Todo(c)' = {x \in A : a <= x /\ \A b \in A :
                                                a < b /\ b <= x => kind[b] # "FULL"}
<1>1. /\ c \in Workers /\ c # "run" /\ UNCHANGED <<runVars, files, whole, restore>>
      /\ worker[c] = "idle" /\ a \in Hot \cup Cold /\ pc' = pc /\ Same
      /\ Hot' = Hot /\ Cold' = Cold
  BY ChainsAssumption DEF RemoveBackup, Workers, Hot, Cold, runVars, Same
<1> DEFINE t == IF a \in Hot THEN "HOT" ELSE "COLD"
           A == IF a \in Hot THEN Hot ELSE Cold
           l == IF a \in Hot THEN "removing" ELSE "purging"
           s == IF kind[a] = "FULL" THEN ChainOf(files[t], a) ELSE <<a>>
<1>2. /\ t \in Tiers /\ a \in Range(files[t]) /\ A = Range(files[t]) /\ TierOf(a) = t
      /\ l = IF t = "HOT" THEN "removing" ELSE "purging"
  BY <1>1 DEF TierOf, Tiers, Hot, Cold
<1>3. files[t] \in Seq(Ids) /\ IsInjective(files[t])
  BY <1>2, Listings
<1>4. /\ worker' = [worker EXCEPT ![c] = l] /\ l \in Jobs
      /\ todo' = [todo EXCEPT ![c] = s]
  BY <1>2 DEF RemoveBackup, Jobs
<1> HIDE DEF t, A, l
<1>5. /\ s \in Seq(Ids) /\ IsInjective(s)
      /\ Ascending(files[t]) /\ kind[a] = "FULL" =>
           /\ Ascending(s)
           /\ Range(s) = {x \in A : a <= x /\ \A b \in A : a < b /\ b <= x => kind[b] # "FULL"}
  <2>1. CASE kind[a] = "FULL"
    BY <1>2, <1>3, <2>1, ChainOfProperties
  <2>2. CASE kind[a] # "FULL"
    <3>1. <<a>> \in Seq(Ids) /\ IsInjective(<<a>>)
      BY DEF IsInjective
    <3>2. QED
      BY <2>2, <3>1
  <2>3. QED
    BY <2>1, <2>2
<1> HIDE DEF s
<1>6. Others(c) /\ worker'[c] = l /\ todo'[c] = s /\ Todo(c)' = Range(s)
  BY <1>1, <1>4, <1>5, OthersStay
<1>7. todo[c] = <<>>
  BY <1>1, HandFacts
<1>8. QED
  BY <1>1, <1>5, <1>6, <1>7 DEF t, A, l

-------------------------------------------------------------------------------
(* The order of the archives.  A handler that moves or deletes hot files    *)
(* has the lowest ones in hand, so the next file that is copied is older    *)
(* than every other one that stays, and younger than those copied before    *)
(* unless another handler copies as well.                                   *)

ListsOrdered ==
    /\ Ascending(files["HOT"])
    /\ \A w \in Workers : Moving(w) => Ascending(todo[w]) /\ Todo(w) \subseteq 1 .. made

Lowest ==
    \A w \in Workers : Moving(w) => \A x \in Todo(w), b \in Hot : b <= x => b \in Todo(w)

OnePrunes == \A v, w \in Workers : Prunes(v) /\ Prunes(w) => v = w

Copiers == {"opened", "copying"}

CopyLast == \A w \in Workers : worker[w] \in Copiers => \A x \in Cold : x <= Head(todo[w])

ColdOrdered == Ascending(files["COLD"]) /\ \A a \in Cold, b \in Hot : a <= b

MovesAll == "copy" \notin faults /\ "remove" \notin faults

OrderInv ==
    /\ TInv /\ ListsOrdered
    /\ MovesAll => Lowest
    /\ MovesAll /\ "prunes" \notin faults => OnePrunes /\ CopyLast /\ ColdOrdered

\* Steps that only take files away, from the tiers and from the work lists.
LEMMA OrderKept ==
    ASSUME OrderInv, TInv', faults' = faults, made' = made, Hot' \subseteq Hot, Cold' \subseteq Cold,
           \A t \in Tiers : Ascending(files[t]) => Ascending(files'[t]),
           \A w \in Workers : Moving(w)' =>
             /\ Moving(w) /\ (Ascending(todo[w]) => Ascending(todo'[w]))
             /\ Todo(w)' \subseteq Todo(w) /\ Todo(w) \cap Hot' \subseteq Todo(w)',
           \A w \in Workers : Prunes(w)' => Prunes(w),
           \A w \in Workers : worker'[w] \in Copiers => worker[w] \in Copiers /\ todo'[w] = todo[w]
    PROVE  OrderInv'
<1>1. "HOT" \in Tiers /\ "COLD" \in Tiers
  BY DEF Tiers
<1>2. ListsOrdered'
  BY <1>1 DEF OrderInv, ListsOrdered
<1>3. ASSUME MovesAll
      PROVE  Lowest'
  <2>1. Lowest
    BY <1>3 DEF OrderInv
  <2>2. ASSUME NEW w \in Workers, Moving(w)', NEW x \in Todo(w)', NEW b \in Hot', b <= x
        PROVE  b \in Todo(w)'
    <3>1. Moving(w) /\ x \in Todo(w) /\ b \in Hot
      BY <2>2
    <3>2. b \in Todo(w)
      BY <2>1, <2>2, <3>1 DEF Lowest
    <3>3. QED
      BY <2>2, <3>2
  <2>3. QED
    BY <2>2 DEF Lowest
<1>4. ASSUME MovesAll, "prunes" \notin faults
      PROVE  OnePrunes' /\ CopyLast' /\ ColdOrdered'
  <2>1. OnePrunes /\ CopyLast /\ ColdOrdered
    BY <1>4 DEF OrderInv
  <2>2. OnePrunes'
    BY <2>1 DEF OnePrunes
  <2>3. CopyLast'
    BY <2>1 DEF CopyLast
  <2>4. ColdOrdered'
    BY <1>1, <2>1 DEF ColdOrdered
  <2>5. QED
    BY <2>2, <2>3, <2>4
<1>5. MovesAll' <=> MovesAll
  BY DEF MovesAll
<1>6. QED
  BY <1>2, <1>3, <1>4, <1>5 DEF OrderInv

\* The file that a handler moves next is older than every hot one that stays.
LEMMA HeadIsLowest ==
    ASSUME TInv, ListsOrdered, Lowest, NEW w \in Workers, Moving(w), todo[w] # <<>>, NEW b \in Hot
    PROVE  Head(todo[w]) <= b
<1>1. /\ Head(todo[w]) \in Todo(w) /\ Head(todo[w]) \in Ids
      /\ \A x \in Todo(w) : Head(todo[w]) <= x
  BY HandFacts DEF ListsOrdered
<1>2. b \in Nat /\ Head(todo[w]) \in Nat
  <2>1. Hot \in SUBSET Ids
    BY Listings DEF Hot, Tiers
  <2>2. QED
    BY <1>1, <2>1, IdsAreNumbers
<1>3. CASE b <= Head(todo[w])
  BY <1>1, <1>3 DEF Lowest
<1>4. QED
  BY <1>2, <1>3

\* An older archive has no fewer chains after it.
LEMMA YoungerGrows ==
    ASSUME NEW A \in SUBSET Ids, NEW x \in A, NEW b \in A, b <= x, NEW n \in Nat,
           Cardinality(Younger(A, x)) >= n
    PROVE  Cardinality(Younger(A, b)) >= n
<1>1. Younger(A, b) \in SUBSET Ids /\ Younger(A, x) \in SUBSET Younger(A, b)
  <2>1. \A h \in Heads(A) : h > x => h > b
    BY IdsAreNumbers DEF Heads
  <2>2. QED
    BY <2>1 DEF Younger, Heads
<1>2. Cardinality(Younger(A, x)) <= Cardinality(Younger(A, b))
  BY <1>1, CardinalityGrows
<1>3. Cardinality(Younger(A, x)) \in Nat /\ Cardinality(Younger(A, b)) \in Nat
  BY <1>1, FiniteIds
<1>4. QED
  BY <1>2, <1>3

LEMMA OrderInit == Init => OrderInv
<1> SUFFICES ASSUME Init PROVE OrderInv
  OBVIOUS
<1>1. TInv
  BY InitTyped
<1>2. /\ "HOT" \in Tiers /\ "COLD" \in Tiers /\ files["HOT"] = <<>> /\ files["COLD"] = <<>>
      /\ \A w \in Workers : worker[w] = "idle"
  BY DEF Init, Tiers
<1>3. Ascending(<<>>) /\ Range(<<>>) = {}
  BY RangeOfEmpty DEF Ascending
<1>4. QED
  BY <1>1, <1>2, <1>3 DEF OrderInv, ListsOrdered, Lowest, OnePrunes, Prunes, CopyLast, Copiers,
     ColdOrdered, Moving, Held, Hot, Cold

\* Steps of a handler that takes a file away, or nothing.
LEMMA TakingKeepsOrder ==
    ASSUME OrderInv, TInv', NEW w \in Workers,
           \/ Stops(w) \/ ListsCold(w) \/ DeletesHot(w) \/ DeletesCold(w)
           \/ Passes(w) /\ MovesAll
    PROVE  OrderInv'
<1>1. /\ faults' = faults /\ made' = made /\ Others(w)
      /\ Hot' \subseteq Hot /\ Cold' \subseteq Cold
  BY DEF Stops, ListsCold, DeletesHot, DeletesCold, Passes, Same
<1>2. \A t \in Tiers : Ascending(files[t]) => Ascending(files'[t])
  BY DEF Stops, ListsCold, DeletesHot, DeletesCold, Passes, Tiers
<1>3. /\ worker'[w] \notin Copiers
      /\ Prunes(w)' => Prunes(w)
      /\ Moving(w)' =>
           /\ Moving(w) /\ (Ascending(todo[w]) => Ascending(todo'[w]))
           /\ Todo(w)' \subseteq Todo(w) /\ Todo(w) \cap Hot' \subseteq Todo(w)'
  <2>1. CASE Stops(w) \/ ListsCold(w)
    BY <2>1 DEF Stops, ListsCold, Copiers, Prunes, Moving, Held
  <2>2. CASE DeletesHot(w)
    BY <2>2 DEF DeletesHot, TakesHead, Copiers, Prunes, Moving, Held
  <2>3. CASE DeletesCold(w)
    BY <2>3 DEF DeletesCold, Copiers, Prunes, Moving, Held
  <2>4. CASE Passes(w) /\ MovesAll
    BY <2>4 DEF Passes, TakesHead, MovesAll, Copiers, Prunes, Moving, Held
  <2>5. QED
    BY <2>1, <2>2, <2>3, <2>4
<1>4. ASSUME NEW v \in Workers, v # w
      PROVE  /\ worker'[v] = worker[v] /\ todo'[v] = todo[v] /\ Todo(v)' = Todo(v)
             /\ (Moving(v)' <=> Moving(v)) /\ (Prunes(v)' <=> Prunes(v))
  BY <1>1, <1>4 DEF Others, Moving, Prunes
<1>5. \A v \in Workers : Moving(v)' =>
        /\ Moving(v) /\ (Ascending(todo[v]) => Ascending(todo'[v]))
        /\ Todo(v)' \subseteq Todo(v) /\ Todo(v) \cap Hot' \subseteq Todo(v)'
  BY <1>3, <1>4
<1>6. /\ \A v \in Workers : Prunes(v)' => Prunes(v)
      /\ \A v \in Workers : worker'[v] \in Copiers => worker[v] \in Copiers /\ todo'[v] = todo[v]
  BY <1>3, <1>4
<1>7. QED
  BY <1>1, <1>2, <1>5, <1>6, OrderKept

\* Steps of a handler that lists files or copies one.
LEMMA MovingKeepsOrder ==
    ASSUME OrderInv, TInv', NEW w \in Workers,
           ListsHot(w) \/ Opens(w) \/ Fills(w) \/ Ends(w)
    PROVE  OrderInv'
<1>1. /\ TInv /\ ListsOrdered
      /\ Hot \in SUBSET Ids /\ Cold \in SUBSET Ids /\ Hot \subseteq 1 .. made
      /\ RetentionCount \in Nat /\ \A x \in Ids : x \in Nat
  <2>1. TInv /\ ListsOrdered /\ "HOT" \in Tiers /\ "COLD" \in Tiers
    BY DEF OrderInv, Tiers
  <2>2. QED
    BY <2>1, Listings, RetentionsAreNat, IdsAreNumbers DEF Hot, Cold
<1>2. /\ faults' = faults /\ made' = made /\ files'["HOT"] = files["HOT"] /\ Hot' = Hot
      /\ \A v \in Workers : v # w =>
           worker'[v] = worker[v] /\ todo'[v] = todo[v] /\ Todo(v)' = Todo(v)
  BY DEF ListsHot, Opens, Fills, Ends, Same, Others
<1>3. CASE ListsHot(w)
  <2>1. /\ files' = files /\ Cold' = Cold /\ worker[w] = "idle"
        /\ worker'[w] = "hot" /\ Ascending(todo'[w])
        /\ Todo(w)' = IF RetentionCount = 0 THEN {}
                       ELSE {a \in Hot : Cardinality(Younger(Hot, a)) >= RetentionCount}
    BY <1>1, <1>3 DEF ListsHot, ListsOrdered
  <2>2. ListsOrdered'
    BY <1>1, <1>2, <2>1 DEF ListsOrdered, Moving
  <2>3. ASSUME MovesAll
        PROVE  Lowest'
    <3>1. Lowest
      BY <2>3 DEF OrderInv
    <3>2. ASSUME NEW v \in Workers, Moving(v)', NEW x \in Todo(v)', NEW b \in Hot', b <= x
          PROVE  b \in Todo(v)'
      <4>1. CASE v = w
        BY <1>1, <1>2, <2>1, <3>2, <4>1, YoungerGrows
      <4>2. CASE v # w
        BY <1>2, <3>1, <3>2, <4>2 DEF Lowest, Moving
      <4>3. QED
        BY <4>1, <4>2
    <3>3. QED
      BY <3>2 DEF Lowest
  <2>4. ASSUME MovesAll, "prunes" \notin faults
        PROVE  OnePrunes' /\ CopyLast' /\ ColdOrdered'
    <3>1. CopyLast /\ ColdOrdered /\ \A v \in Workers : ~Prunes(v)
      BY <1>3, <2>4 DEF OrderInv, ListsHot
    <3>2. \A v \in Workers : Prunes(v)' => v = w
      BY <1>2, <3>1 DEF Prunes
    <3>3. \A v \in Workers : worker'[v] \notin Copiers
      BY <1>2, <2>1, <3>1 DEF Prunes, Copiers
    <3>4. QED
      BY <1>2, <2>1, <3>1, <3>2, <3>3 DEF OnePrunes, CopyLast, ColdOrdered
  <2>5. MovesAll' <=> MovesAll
    BY <1>2 DEF MovesAll
  <2>6. QED
    BY <1>2, <2>2, <2>3, <2>4, <2>5 DEF OrderInv
<1>4. CASE Opens(w) \/ Fills(w) \/ Ends(w)
  <2> DEFINE h == Head(todo[w])
  <2>1. /\ todo[w] # <<>> /\ todo'[w] = todo[w] /\ Todo(w)' = Todo(w)
        /\ Moving(w) /\ Prunes(w)
    BY <1>4 DEF Opens, Fills, Ends, Moving, Prunes, Held
  <2>2. \A v \in Workers : (Moving(v)' => Moving(v)) /\ (Prunes(v)' => Prunes(v))
    BY <1>2, <2>1 DEF Moving, Prunes
  <2>3. ListsOrdered'
    <3>1. \A v \in Workers : todo'[v] = todo[v] /\ Todo(v)' = Todo(v)
      BY <1>2, <2>1
    <3>2. QED
      BY <1>1, <1>2, <2>2, <3>1 DEF ListsOrdered
  <2>4. MovesAll => Lowest'
    <3>1. \A v \in Workers : Todo(v)' = Todo(v)
      BY <1>2, <2>1
    <3>2. QED
      BY <1>2, <2>2, <3>1 DEF OrderInv, Lowest
  <2>5. ASSUME MovesAll, "prunes" \notin faults
        PROVE  OnePrunes' /\ CopyLast' /\ ColdOrdered'
    <3>1. Lowest /\ OnePrunes /\ CopyLast /\ ColdOrdered
      BY <2>5 DEF OrderInv
    <3>2. h \in Nat /\ \A b \in Hot : h <= b
      BY <1>1, <2>1, <3>1, HeadIsLowest, HandFacts
    <3>3. OnePrunes'
      BY <2>2, <3>1 DEF OnePrunes
    <3>4. \A v \in Workers : worker'[v] \in Copiers => v = w
      BY <1>2, <2>1, <3>1 DEF OnePrunes, Prunes, Copiers
    <3>5. worker'[w] \in Copiers => (\A x \in Cold : x <= h)
      BY <1>4, <3>1 DEF Opens, Fills, Ends, Copiers, CopyLast, ColdOrdered
    <3> HIDE DEF h
    <3>6. Cold' = Cold \/ (Cold' = Cold \cup {h} /\ worker'[w] \in Copiers)
      BY <1>4 DEF Opens, Fills, Ends, Copiers, h
    <3>7. CopyLast'
      <4>1. Head(todo'[w]) = h
        BY <2>1 DEF h
      <4>2. worker'[w] \in Copiers => \A x \in Cold' : x <= h
        BY <3>2, <3>5, <3>6
      <4>3. QED
        BY <3>4, <4>1, <4>2 DEF CopyLast
    <3>8. Ascending(files'["COLD"])
      BY <1>4, <3>1, <3>5 DEF Opens, Fills, Ends, Copiers, ColdOrdered, h
    <3>9. ColdOrdered'
      BY <1>2, <3>1, <3>2, <3>6, <3>8 DEF ColdOrdered
    <3>10. QED
      BY <3>3, <3>7, <3>9
  <2>6. MovesAll' <=> MovesAll
    BY <1>2 DEF MovesAll
  <2>7. QED
    BY <1>2, <2>3, <2>4, <2>5, <2>6 DEF OrderInv
<1>5. QED
  BY <1>3, <1>4

LEMMA OrderWorkerStep ==
    ASSUME OrderInv, TInv', NEW w \in Workers, WorkerStep(w)
    PROVE  OrderInv'
<1>1. TInv /\ ListsOrdered
  BY DEF OrderInv
<1>2. CASE Passes(w) /\ ~MovesAll
  <2>1. /\ faults' = faults /\ made' = made /\ files' = files
        /\ Todo(w)' = Todo(w) \ {Head(todo[w])} /\ (Ascending(todo[w]) => Ascending(todo'[w]))
        /\ Moving(w)' => Moving(w)
        /\ \A v \in Workers : v # w =>
             worker'[v] = worker[v] /\ todo'[v] = todo[v] /\ Todo(v)' = Todo(v)
    BY <1>2 DEF Passes, Same, Others, TakesHead, Moving, Held
  <2>2. ListsOrdered'
    BY <1>1, <2>1 DEF ListsOrdered, Moving
  <2>3. ~MovesAll'
    BY <1>2, <2>1 DEF MovesAll
  <2>4. QED
    BY <2>2, <2>3 DEF OrderInv
<1>3. QED
  BY <1>1, <1>2, WorkerEffects, TakingKeepsOrder, MovingKeepsOrder

LEMMA OrderStep ==
    ASSUME OrderInv, [Next]_vars
    PROVE  OrderInv'
<1>1. TInv /\ TInv' /\ ListsOrdered
  BY TInvStep DEF OrderInv
<1>2. \A t \in Tiers : t = "HOT" \/ t = "COLD"
  BY DEF Tiers
<1>3. ASSUME UNCHANGED <<faults, made, files, worker, todo>>
      PROVE  OrderInv'
  <2>1. Hot' = Hot /\ Cold' = Cold
    BY <1>3, TiersStay
  <2>2. \A v \in Workers : worker'[v] = worker[v] /\ todo'[v] = todo[v] /\ Todo(v)' = Todo(v)
    BY <1>3, TodoStays
  <2>3. QED
    BY <1>1, <1>3, <2>1, <2>2, OrderKept DEF Moving, Prunes
<1>4. CASE Decide \/ Complete \/ Elapse \/ (\E a \in Ids : RestoreBackup(a)) \/ Extract
           \/ RestoreEnds \/ UNCHANGED vars
  BY <1>3, <1>4 DEF Decide, Complete, Elapse, RestoreBackup, Extract, RestoreEnds, vars, runVars,
                    workerVars
<1>5. CASE CreateArchive
  <2>1. UNCHANGED <<faults, worker, todo>>
    BY <1>5 DEF CreateArchive, workerVars
  <2>2. CASE pc' = "writing"
    <3>1. /\ made' = made + 1 /\ made \in Nat
          /\ Hot' = Hot \cup {made + 1} /\ Cold' = Cold /\ files'["COLD"] = files["COLD"]
          /\ Ascending(files["HOT"]) => Ascending(files'["HOT"])
          /\ \A a \in Hot \cup Cold : a \in Nat /\ a <= made
      BY <1>1, <1>5, <2>2, CreateEffect
    <3>2. \A v \in Workers : worker'[v] = worker[v] /\ todo'[v] = todo[v] /\ Todo(v)' = Todo(v)
      BY <2>1, TodoStays
    <3>3. 1 .. made \subseteq 1 .. made'
      BY <3>1
    <3>4. ListsOrdered'
      BY <1>1, <3>1, <3>2, <3>3 DEF ListsOrdered, Moving
    <3>5. ASSUME MovesAll
          PROVE  Lowest'
      <4>1. Lowest
        BY <3>5 DEF OrderInv
      <4>2. ASSUME NEW v \in Workers, Moving(v)', NEW x \in Todo(v)', NEW b \in Hot', b <= x
            PROVE  b \in Todo(v)'
        <5>1. Moving(v) /\ x \in Todo(v) /\ x \in 1 .. made
          BY <1>1, <3>2, <4>2 DEF ListsOrdered, Moving
        <5>2. b # made + 1
          BY <3>1, <4>2, <5>1
        <5>3. QED
          BY <3>1, <3>2, <4>1, <4>2, <5>1, <5>2 DEF Lowest
      <4>3. QED
        BY <4>2 DEF Lowest
    <3>6. ASSUME MovesAll, "prunes" \notin faults
          PROVE  OnePrunes' /\ CopyLast' /\ ColdOrdered'
      BY <3>1, <3>2, <3>6 DEF OrderInv, OnePrunes, Prunes, CopyLast, ColdOrdered
    <3>7. MovesAll' <=> MovesAll
      BY <2>1 DEF MovesAll
    <3>8. QED
      BY <1>1, <2>1, <3>4, <3>5, <3>6, <3>7 DEF OrderInv
  <2>3. CASE pc' # "writing"
    <3>1. UNCHANGED <<faults, made, files, worker, todo>>
      BY <1>5, <2>1, <2>3 DEF CreateArchive
    <3>2. QED
      BY <1>3, <3>1
  <2>4. QED
    BY <2>2, <2>3
<1>6. CASE Fail
  <2>1. UNCHANGED <<faults, made, worker, todo>> /\ Removed("HOT", made)
    BY <1>6 DEF Fail, workerVars
  <2>2. made \in Ids /\ "HOT" \in Tiers
    BY <1>1, <1>6, TInvParts DEF Fail, Phases, RunTyped, Ids, Tiers
  <2>3. /\ Range(files'["HOT"]) \subseteq Range(files["HOT"])
        /\ \A s \in Tiers \ {"HOT"} : files'[s] = files[s]
        /\ \A s \in Tiers : Ascending(files[s]) => Ascending(files'[s])
    BY <1>1, <2>1, <2>2, RemovedFrom
  <2>4. Hot' \subseteq Hot /\ Cold' = Cold
    BY <2>3 DEF Hot, Cold, Tiers
  <2>5. \A v \in Workers : worker'[v] = worker[v] /\ todo'[v] = todo[v] /\ Todo(v)' = Todo(v)
    BY <2>1, TodoStays
  <2>6. QED
    BY <1>1, <2>1, <2>3, <2>4, <2>5, OrderKept DEF Moving, Prunes
<1>7. CASE \E w \in Workers : WorkerStep(w)
  BY <1>1, <1>7, OrderWorkerStep
<1>8. CASE \E c \in Clients, a \in Ids : RemoveBackup(c, a)
  <2>1. PICK c \in Clients, a \in Ids : RemoveBackup(c, a)
    BY <1>8
  <2>2. /\ Same /\ Others(c) /\ files' = files /\ Hot' = Hot /\ Cold' = Cold
        /\ worker'[c] \in {"removing", "purging"}
    BY <1>1, <2>1, RemoveEffect
  <2>3. QED
    BY <1>1, <2>2, OrderKept DEF Same, Others, Moving, Held, Prunes, Copiers
<1>9. CASE Crash
  <2>1. /\ faults' = faults /\ made' = made /\ \A v \in Workers : worker'[v] = "idle"
    BY <1>9 DEF Crash
  <2>2. files' = files
    BY <1>9 DEF Crash
  <2>3. QED
    BY <1>1, <2>1, <2>2, TiersStay, OrderKept DEF Moving, Held, Prunes, Copiers
<1>10. QED
  BY <1>4, <1>5, <1>6, <1>7, <1>8, <1>9 DEF Next, RunStep

\* Unless a copy or a removal of a file fails, and as long as no two prunes work at once,
\* both tiers list their archives in the order they were made and no archive of cold storage
\* is younger than one of hot storage, whatever else fails, stops or runs at the same time.
THEOREM TiersStayOrdered == Spec => []TiersOrdered
<1>1. Init => OrderInv
  BY OrderInit
<1>2. OrderInv /\ [Next]_vars => OrderInv'
  BY OrderStep
<1>3. OrderInv => TiersOrdered
  <2>1. SUFFICES ASSUME OrderInv, MovesAll, "prunes" \notin faults
                 PROVE  TiersOrderedAlways
    BY DEF TiersOrdered, MovesAll
  <2>2. Ascending(files["HOT"]) /\ Ascending(files["COLD"]) /\ \A a \in Cold, b \in Hot : a <= b
    BY <2>1 DEF OrderInv, ListsOrdered, ColdOrdered
  <2>3. \A t \in Tiers : Ascending(files[t])
    BY <2>2 DEF Tiers
  <2>4. QED
    BY <2>2, <2>3 DEF TiersOrderedAlways, Ascending, Hot, Cold
<1>4. QED
  BY <1>1, <1>2, <1>3, PTL DEF Spec

-------------------------------------------------------------------------------
(* Retention, where no copy, removal, mount or daemon fails.  The run leaves *)
(* hot storage with its chains at the end of its prune; until then what it  *)
(* has not in hand makes that many.  Other handlers only take away.         *)

HotChainCount    == Cardinality(Heads(Hot))
HotLeftCount     == Cardinality(Heads(Hot \ Todo("run")))
ColdChainCount   == Cardinality(Heads(Cold))
ColdLeftCount(w) == Cardinality(Heads(Cold \ Todo(w)))

HotKept ==
    RetentionCount > 0 =>
      /\ pc \in {"idle", "decided"} \/ worker["run"] = "cold" => HotChainCount <= RetentionCount
      /\ Moving("run") => HotLeftCount <= RetentionCount

\* A copy adds to cold storage; the handler that made it prunes there afterwards.
ColdKept ==
    UsesCold /\ (\A w \in Workers : ~Moving(w)) =>
      \/ ColdChainCount <= cold
      \/ \E w \in Workers : worker[w] = "cold" /\ ColdLeftCount(w) <= cold

Reliable == MovesAll /\ "mount" \notin faults /\ "crash" \notin faults

RetInv ==
    /\ OrderInv
    /\ Reliable => HotKept
    /\ Reliable /\ "prunes" \notin faults => ColdKept

LEMMA CountsPrimed ==
    ASSUME kind' = kind, NEW A
    PROVE  /\ Hot' = A => HotChainCount' = Cardinality(Heads(A))
           /\ Hot' \ Todo("run")' = A => HotLeftCount' = Cardinality(Heads(A))
           /\ Cold' = A => ColdChainCount' = Cardinality(Heads(A))
           /\ \A w : Cold' \ Todo(w)' = A => ColdLeftCount(w)' = Cardinality(Heads(A))
BY DEF HotChainCount, HotLeftCount, ColdChainCount, ColdLeftCount, Heads

\* The number of chains of any archives, and that it does not grow when one goes.
LEMMA CountFacts ==
    ASSUME TInv
    PROVE  /\ Hot \in SUBSET Ids /\ Cold \in SUBSET Ids
           /\ RetentionCount \in Nat /\ cold \in Nat
           /\ \A A \in SUBSET Ids : Cardinality(Heads(A)) \in Nat
           /\ \A A \in SUBSET Ids : \A a :
                Cardinality(Heads(A \ {a})) <= Cardinality(Heads(A))
<1>1. Hot \in SUBSET Ids /\ Cold \in SUBSET Ids
  BY Listings DEF Hot, Cold, Tiers
<1>2. \A A \in SUBSET Ids : Cardinality(Heads(A)) \in Nat
  BY FiniteIds DEF Heads
<1>3. QED
  BY <1>1, <1>2, HeadsShrink, RetentionsAreNat

LEMMA HotKeptByWorker ==
    ASSUME OrderInv, TInv', Reliable, HotKept, NEW w \in Workers, WorkerStep(w)
    PROVE  HotKept'
<1>1. TInv /\ Ascending(files["HOT"]) /\ "run" \in Workers
  BY DEF OrderInv, ListsOrdered, Workers
<1>2. /\ Hot \in SUBSET Ids /\ RetentionCount \in Nat
      /\ \A A \in SUBSET Ids : Cardinality(Heads(A)) \in Nat
      /\ \A A \in SUBSET Ids : \A a :
           Cardinality(Heads(A \ {a})) <= Cardinality(Heads(A))
  BY <1>1, CountFacts
<1>3. SUFFICES ASSUME RetentionCount > 0
               PROVE  /\ pc' \in {"idle", "decided"} \/ worker'["run"] = "cold" =>
                           HotChainCount' <= RetentionCount
                      /\ Moving("run")' => HotLeftCount' <= RetentionCount
  BY DEF HotKept
<1>4. /\ pc \in {"idle", "decided"} \/ worker["run"] = "cold" => HotChainCount <= RetentionCount
      /\ Moving("run") => HotLeftCount <= RetentionCount
  BY <1>3 DEF HotKept
<1>5. /\ kind' = kind
      /\ w # "run" => worker'["run"] = worker["run"] /\ Todo("run")' = Todo("run") /\ pc' = pc
  BY <1>1, WorkerEffects DEF Stops, ListsHot, ListsCold, DeletesHot, DeletesCold, Opens, Fills, Ends,
     Passes, Same, Others
<1>6. worker["run"] = "idle" => Todo("run") = {}
  BY <1>1, HandFacts
\* Hot storage and the run's list stay as they are.
<1>7. ASSUME Hot' = Hot
      PROVE  /\ HotChainCount' = HotChainCount
             /\ Todo("run")' = Todo("run") => HotLeftCount' = HotLeftCount
  BY <1>5, <1>7, CountsPrimed DEF HotChainCount, HotLeftCount
<1>8. Todo("run") = {} => HotLeftCount = HotChainCount
  <2>1. Todo("run") = {} => Hot \ Todo("run") = Hot
    OBVIOUS
  <2>2. QED
    BY <2>1 DEF HotLeftCount, HotChainCount
<1>9. CASE Stops(w)
  <2>1. Hot' = Hot /\ worker'[w] = "idle" /\ Todo(w)' = {} /\ todo[w] = <<>>
    BY <1>9 DEF Stops
  <2>2. CASE w = "run"
    <3>1. worker["run"] \in {"hot", "cold"} /\ worker'["run"] = "idle"
      <4>1. Phases
        BY <1>1, TInvParts
      <4>2. QED
        BY <1>9, <2>2, <4>1 DEF Stops, Reliable, Phases
    <3>2. Todo("run") = {}
      BY <1>1, <2>1, <2>2, HandFacts
    <3>3. HotChainCount <= RetentionCount
      BY <1>4, <1>8, <3>1, <3>2 DEF Moving, Held
    <3>4. QED
      BY <1>7, <2>1, <3>1, <3>3 DEF Moving, Held
  <2>3. CASE w # "run"
    BY <1>4, <1>5, <1>7, <2>1, <2>3 DEF Moving, Held
  <2>4. QED
    BY <2>2, <2>3
<1>10. CASE ListsHot(w)
  <2>1. Hot' = Hot /\ worker'[w] = "hot"
    BY <1>10 DEF ListsHot
  <2>2. CASE w = "run"
    <3>1. pc' = "pruning"
      BY <1>10, <2>2 DEF ListsHot
    <3>2. Hot' \ Todo("run")' =
            Hot \ {a \in Hot : Cardinality(Younger(Hot, a)) >= RetentionCount}
      BY <1>1, <1>3, <1>10, <2>1, <2>2 DEF ListsHot
    <3>3. HotLeftCount' <= RetentionCount
      BY <1>2, <1>3, <1>5, <3>2, CountsPrimed, KeptChains
    <3>4. QED
      BY <2>1, <2>2, <3>1, <3>3
  <2>3. CASE w # "run"
    BY <1>4, <1>5, <1>7, <2>1, <2>3 DEF Moving, Held
  <2>4. QED
    BY <2>2, <2>3
<1>11. CASE ListsCold(w)
  <2>1. Hot' = Hot /\ worker[w] = "hot" /\ worker'[w] = "cold" /\ todo[w] = <<>>
    BY <1>11 DEF ListsCold
  <2>2. CASE w = "run"
    <3>1. Todo("run") = {}
      BY <1>1, <2>1, <2>2, HandFacts
    <3>2. HotChainCount <= RetentionCount
      BY <1>4, <1>8, <2>1, <2>2, <3>1 DEF Moving, Held
    <3>3. QED
      BY <1>7, <2>1, <2>2, <3>2 DEF Moving, Held
  <2>3. CASE w # "run"
    BY <1>4, <1>5, <1>7, <2>1, <2>3 DEF Moving, Held
  <2>4. QED
    BY <2>2, <2>3
<1>12. CASE DeletesHot(w)
  <2> DEFINE h == Head(todo[w])
  <2>1. /\ Hot' = Hot \ {h} /\ pc' = pc /\ Todo(w)' = Todo(w) \ {h}
        /\ worker'[w] = worker[w] \/ (worker[w] = "moved" /\ worker'[w] = "hot")
    BY <1>12 DEF DeletesHot, TakesHead
  <2>2. h \in Todo(w)
    BY <1>1, <1>12, HandFacts DEF DeletesHot, TakesHead
  <2> HIDE DEF h
  <2>3. HotChainCount' <= HotChainCount /\ HotChainCount' \in Nat /\ HotChainCount \in Nat
    <3>1. HotChainCount' = Cardinality(Heads(Hot \ {h}))
      BY <1>5, <2>1, CountsPrimed
    <3>2. QED
      BY <1>2, <3>1 DEF HotChainCount
  <2>4. HotLeftCount' <= HotLeftCount /\ HotLeftCount' \in Nat /\ HotLeftCount \in Nat
    <3>1. Hot \ Todo("run") \in SUBSET Ids
      BY <1>2
    <3>2. CASE w = "run"
      <4>1. Hot' \ Todo("run")' = Hot \ Todo("run")
        BY <2>1, <2>2, <3>2
      <4>2. HotLeftCount' = Cardinality(Heads(Hot \ Todo("run")))
        BY <1>5, <4>1, CountsPrimed
      <4>3. QED
        BY <1>2, <3>1, <4>2 DEF HotLeftCount
    <3>3. CASE w # "run"
      <4>1. Hot' \ Todo("run")' = (Hot \ Todo("run")) \ {h}
        BY <1>5, <2>1, <3>3
      <4>2. HotLeftCount' = Cardinality(Heads((Hot \ Todo("run")) \ {h}))
        BY <1>5, <4>1, CountsPrimed
      <4>3. QED
        BY <1>2, <3>1, <4>2 DEF HotLeftCount
    <3>4. QED
      BY <3>2, <3>3
  <2>5. /\ Moving("run")' => Moving("run")
        /\ worker'["run"] = "cold" => worker["run"] = "cold"
    BY <1>5, <2>1 DEF Moving, Held
  <2>6. QED
    BY <1>2, <1>4, <2>1, <2>3, <2>4, <2>5
<1>13. CASE DeletesCold(w)
  <2>1. Hot' = Hot /\ pc' = pc /\ worker'[w] = worker[w] /\ worker[w] \in {"cold", "purging"}
    BY <1>13 DEF DeletesCold
  <2>2. CASE w = "run"
    BY <1>4, <1>7, <2>1, <2>2 DEF Moving, Held
  <2>3. CASE w # "run"
    BY <1>4, <1>5, <1>7, <2>1, <2>3 DEF Moving, Held
  <2>4. QED
    BY <2>2, <2>3
<1>14. CASE Opens(w) \/ Fills(w) \/ Ends(w)
  <2>1. /\ Hot' = Hot /\ pc' = pc /\ Moving(w) /\ worker'[w] \in Held
        /\ Todo(w)' = Todo(w)
    BY <1>14 DEF Opens, Fills, Ends, Moving, Held
  <2>2. CASE w = "run"
    BY <1>4, <1>7, <2>1, <2>2 DEF Moving, Held
  <2>3. CASE w # "run"
    BY <1>4, <1>5, <1>7, <2>1, <2>3 DEF Moving, Held
  <2>4. QED
    BY <2>2, <2>3
<1>15. CASE Passes(w)
  <2> DEFINE h == Head(todo[w])
  <2>1. /\ Hot' = Hot /\ pc' = pc /\ worker[w] = "hot" /\ worker'[w] = "hot" /\ h \notin Hot
        /\ Todo(w)' = Todo(w) \ {h}
    BY <1>15 DEF Passes, TakesHead, Reliable, MovesAll, Moving
  <2> HIDE DEF h
  <2>2. CASE w = "run"
    <3>1. Hot' \ Todo("run")' = Hot \ Todo("run")
      BY <2>1, <2>2
    <3>2. HotLeftCount' = HotLeftCount
      BY <1>5, <3>1, CountsPrimed DEF HotLeftCount
    <3>3. QED
      BY <1>4, <1>7, <2>1, <2>2, <3>2 DEF Moving, Held
  <2>3. CASE w # "run"
    BY <1>4, <1>5, <1>7, <2>1, <2>3 DEF Moving, Held
  <2>4. QED
    BY <2>2, <2>3
<1>16. QED
  BY <1>1, <1>9, <1>10, <1>11, <1>12, <1>13, <1>14, <1>15, WorkerEffects

LEMMA ColdKeptByWorker ==
    ASSUME OrderInv, TInv', Reliable, "prunes" \notin faults, ColdKept, NEW w \in Workers,
           WorkerStep(w)
    PROVE  ColdKept'
<1>1. TInv /\ Ascending(files["COLD"])
  BY DEF OrderInv, ColdOrdered, Reliable
<1>2. /\ Cold \in SUBSET Ids /\ cold \in Nat
      /\ \A A \in SUBSET Ids : Cardinality(Heads(A)) \in Nat
      /\ \A A \in SUBSET Ids : \A a :
           Cardinality(Heads(A \ {a})) <= Cardinality(Heads(A))
  BY <1>1, CountFacts
<1>3. /\ kind' = kind /\ cold' = cold /\ (UsesCold' <=> UsesCold)
      /\ \A v \in Workers : v # w => worker'[v] = worker[v] /\ Todo(v)' = Todo(v)
  BY <1>1, WorkerEffects DEF Stops, ListsHot, ListsCold, DeletesHot, DeletesCold, Opens, Fills, Ends,
     Passes, Same, Others, UsesCold
<1>4. SUFFICES ASSUME UsesCold, \A v \in Workers : ~Moving(v)'
               PROVE  \/ ColdChainCount' <= cold'
                      \/ \E v \in Workers : worker'[v] = "cold" /\ ColdLeftCount(v)' <= cold'
  BY <1>3 DEF ColdKept
\* A handler that was not moving hot files is at work, or none was.
<1>5. ASSUME ~Moving(w)
      PROVE  \/ ColdChainCount <= cold
             \/ \E v \in Workers : worker[v] = "cold" /\ ColdLeftCount(v) <= cold
  <2>1. \A v \in Workers : ~Moving(v)
    BY <1>3, <1>4, <1>5 DEF Moving, Held
  <2>2. QED
    BY <1>4, <2>1 DEF ColdKept
<1>6. CASE Stops(w)
  <2>1. /\ Cold' = Cold /\ todo[w] = <<>>
        /\ worker[w] \in {"cold", "removing", "purging"}
    BY <1>4, <1>6 DEF Stops, Reliable
  <2>2. ~Moving(w) /\ Todo(w) = {}
    BY <1>1, <2>1, HandFacts DEF Moving, Held
  <2>3. ColdChainCount' = ColdChainCount
    BY <1>3, <2>1, CountsPrimed DEF ColdChainCount
  <2>4. ASSUME NEW v \in Workers, worker[v] = "cold", ColdLeftCount(v) <= cold, v # w
        PROVE  worker'[v] = "cold" /\ ColdLeftCount(v)' <= cold'
    <3>1. Cold' \ Todo(v)' = Cold \ Todo(v)
      BY <1>3, <2>1, <2>4
    <3>2. ColdLeftCount(v)' = ColdLeftCount(v)
      BY <1>3, <3>1, CountsPrimed DEF ColdLeftCount
    <3>3. QED
      BY <1>3, <2>4, <3>2
  <2>5. ColdLeftCount(w) = ColdChainCount
    <3>1. Cold \ Todo(w) = Cold
      BY <2>2
    <3>2. QED
      BY <3>1 DEF ColdLeftCount, ColdChainCount
  <2>6. QED
    BY <1>3, <1>5, <2>2, <2>3, <2>4, <2>5
<1>7. CASE ListsCold(w)
  <2>1. /\ worker'[w] = "cold" /\ cold > 0
        /\ Cold' \ Todo(w)' = Cold \ {a \in Cold : Cardinality(Younger(Cold, a)) >= cold}
    BY <1>1, <1>4, <1>7 DEF ListsCold, UsesCold
  <2>2. ColdLeftCount(w)' <= cold
    BY <1>2, <1>3, <2>1, CountsPrimed, KeptChains
  <2>3. QED
    BY <1>3, <2>1, <2>2
<1>8. CASE DeletesHot(w)
  <2>1. /\ Cold' = Cold /\ worker'[w] # "hot"
        /\ worker[w] = "hot" \/ worker[w] = "moved" \/ worker[w] = "removing"
        /\ worker[w] \in {"hot", "moved"} => worker'[w] = "hot"
    BY <1>4, <1>8 DEF DeletesHot, Moving, Held
  <2>2. worker[w] = "removing" /\ ~Moving(w)
    BY <2>1 DEF Moving, Held
  <2>3. ColdChainCount' = ColdChainCount
    BY <1>3, <2>1, CountsPrimed DEF ColdChainCount
  <2>4. ASSUME NEW v \in Workers, worker[v] = "cold", ColdLeftCount(v) <= cold
        PROVE  worker'[v] = "cold" /\ ColdLeftCount(v)' <= cold'
    <3>1. v # w
      BY <2>2, <2>4
    <3>2. Cold' \ Todo(v)' = Cold \ Todo(v)
      BY <1>3, <2>1, <3>1
    <3>3. ColdLeftCount(v)' = ColdLeftCount(v)
      BY <1>3, <3>2, CountsPrimed DEF ColdLeftCount
    <3>4. QED
      BY <1>3, <2>4, <3>1, <3>3
  <2>5. QED
    BY <1>3, <1>5, <2>2, <2>3, <2>4
<1>9. CASE DeletesCold(w)
  <2> DEFINE h == Head(todo[w])
  <2>1. /\ Cold' = Cold \ {h} /\ Todo(w)' = Todo(w) \ {h}
        /\ worker'[w] = worker[w] /\ worker[w] \in {"cold", "purging"}
    BY <1>9 DEF DeletesCold, TakesHead
  <2>2. h \in Todo(w)
    BY <1>1, <1>9, HandFacts DEF DeletesCold, TakesHead
  <2> HIDE DEF h
  <2>3. ColdChainCount' <= ColdChainCount /\ ColdChainCount' \in Nat /\ ColdChainCount \in Nat
    <3>1. ColdChainCount' = Cardinality(Heads(Cold \ {h})) /\ Cold \ {h} \in SUBSET Ids
      BY <1>2, <1>3, <2>1, CountsPrimed
    <3>2. QED
      BY <1>2, <3>1 DEF ColdChainCount
  <2>4. ASSUME NEW v \in Workers
        PROVE  /\ ColdLeftCount(v)' <= ColdLeftCount(v)
               /\ ColdLeftCount(v)' \in Nat /\ ColdLeftCount(v) \in Nat
    <3>1. Cold \ Todo(v) \in SUBSET Ids /\ (Cold \ Todo(v)) \ {h} \in SUBSET Ids
      BY <1>2
    <3>2. CASE v = w
      <4>1. Cold' \ Todo(v)' = Cold \ Todo(v)
        BY <2>1, <2>2, <3>2
      <4>2. ColdLeftCount(v)' = Cardinality(Heads(Cold \ Todo(v)))
        BY <1>3, <4>1, CountsPrimed
      <4>3. QED
        BY <1>2, <3>1, <4>2 DEF ColdLeftCount
    <3>3. CASE v # w
      <4>1. Cold' \ Todo(v)' = (Cold \ Todo(v)) \ {h}
        BY <1>3, <2>1, <3>3
      <4>2. ColdLeftCount(v)' = Cardinality(Heads((Cold \ Todo(v)) \ {h}))
        BY <1>3, <4>1, CountsPrimed
      <4>3. QED
        BY <1>2, <3>1, <4>2 DEF ColdLeftCount
    <3>4. QED
      BY <3>2, <3>3
  <2>5. ~Moving(w)
    BY <2>1 DEF Moving, Held
  <2>6. \A v \in Workers : worker[v] = "cold" => worker'[v] = "cold"
    BY <1>3, <2>1
  <2>7. CASE ColdChainCount <= cold
    BY <1>2, <1>3, <2>3, <2>7
  <2>8. CASE \E v \in Workers : worker[v] = "cold" /\ ColdLeftCount(v) <= cold
    <3>1. PICK v \in Workers : worker[v] = "cold" /\ ColdLeftCount(v) <= cold
      BY <2>8
    <3>2. ColdLeftCount(v)' <= cold'
      BY <1>2, <1>3, <2>4, <3>1
    <3>3. QED
      BY <2>6, <3>1, <3>2
  <2>9. QED
    BY <1>5, <2>5, <2>7, <2>8
<1>10. ~ListsHot(w) /\ ~Opens(w) /\ ~Fills(w) /\ ~Ends(w) /\ ~Passes(w)
  BY <1>4 DEF ListsHot, Opens, Fills, Ends, Passes, Reliable, MovesAll, Moving, Held
<1>11. QED
  BY <1>1, <1>6, <1>7, <1>8, <1>9, <1>10, WorkerEffects

LEMMA RetStep ==
    ASSUME RetInv, [Next]_vars
    PROVE  RetInv'
<1>1. OrderInv /\ OrderInv' /\ TInv /\ TInv' /\ "run" \in Workers
  BY OrderStep DEF RetInv, OrderInv, Workers
<1>2. faults' = faults
  <2>1. CASE \E w \in Workers : WorkerStep(w)
    BY <1>1, <2>1, WorkerEffects DEF Stops, ListsHot, ListsCold, DeletesHot, DeletesCold, Opens,
       Fills, Ends, Passes, Same
  <2>2. QED
    BY <2>1 DEF Next, RunStep, Decide, CreateArchive, Complete, Fail, Elapse, Crash, RemoveBackup,
       RestoreBackup, Extract, RestoreEnds, vars, runVars
<1>3. SUFFICES ASSUME Reliable, HotKept
               PROVE  HotKept' /\ ("prunes" \notin faults /\ ColdKept => ColdKept')
  <2>1. Reliable' <=> Reliable
    BY <1>2 DEF Reliable, MovesAll
  <2>2. QED
    BY <1>1, <1>2, <2>1 DEF RetInv
\* Steps that leave cold storage and the handlers alone.
<1>4. ASSUME UNCHANGED <<kind, cold, worker, todo>>, Cold' = Cold, ColdKept
      PROVE  ColdKept'
  <2>1. \A v \in Workers : Todo(v)' = Todo(v)
    BY <1>4, TodoStays
  <2>2. ColdChainCount' = ColdChainCount
    BY <1>4, CountsPrimed DEF ColdChainCount
  <2>3. \A v \in Workers : ColdLeftCount(v)' = ColdLeftCount(v)
    <3>1. SUFFICES ASSUME NEW v \in Workers PROVE ColdLeftCount(v)' = ColdLeftCount(v)
      OBVIOUS
    <3>2. Cold' \ Todo(v)' = Cold \ Todo(v)
      BY <1>4, <2>1
    <3>3. QED
      BY <1>4, <3>2, CountsPrimed DEF ColdLeftCount
  <2>4. QED
    BY <1>4, <2>2, <2>3 DEF ColdKept, Moving, Held, UsesCold
<1>5. ASSUME pc' \in {"writing", "pruning"}, worker'["run"] = "idle"
      PROVE  HotKept'
  BY <1>5 DEF HotKept, Moving, Held
<1>6. ASSUME UNCHANGED <<kind, worker, todo, pc>>, Hot' = Hot
      PROVE  HotKept'
  <2>1. Todo("run")' = Todo("run")
    BY <1>1, <1>6, TodoStays
  <2>2. HotChainCount' = HotChainCount /\ HotLeftCount' = HotLeftCount
    BY <1>6, <2>1, CountsPrimed DEF HotChainCount, HotLeftCount
  <2>3. QED
    BY <1>3, <1>6, <2>2 DEF HotKept, Moving, Held
<1>7. CASE Elapse \/ (\E a \in Ids : RestoreBackup(a)) \/ Extract \/ RestoreEnds \/ UNCHANGED vars
  <2>1. UNCHANGED <<kind, cold, worker, todo, pc>> /\ Hot' = Hot /\ Cold' = Cold
    BY <1>7, TiersStay DEF Elapse, RestoreBackup, Extract, RestoreEnds, vars, runVars, workerVars
  <2>2. QED
    BY <1>4, <1>6, <2>1
<1>8. CASE Decide
  <2>1. /\ UNCHANGED <<made, cold, worker, todo, files>> /\ pc = "idle" /\ pc' = "decided"
        /\ \E k \in {"FULL", "INC"} : kind' = [kind EXCEPT ![made + 1] = k]
        /\ Hot' = Hot /\ Cold' = Cold
    BY <1>8, TiersStay DEF Decide, workerVars
  <2>2. /\ worker["run"] = "idle" /\ made \in Nat /\ kind \in [Ids -> {"FULL", "INC"}]
        /\ Hot \subseteq 1 .. made /\ Cold \subseteq 1 .. made
    <3>1. Hot \subseteq 1 .. made /\ Cold \subseteq 1 .. made
      BY <1>1, Listings DEF Hot, Cold, Tiers
    <3>2. Phases /\ RunTyped
      BY <1>1, TInvParts
    <3>3. QED
      BY <2>1, <3>1, <3>2 DEF Phases, RunTyped
  <2>3. \A a \in Hot \cup Cold : kind'[a] = kind[a]
    <3>1. SUFFICES ASSUME NEW a \in Hot \cup Cold PROVE kind'[a] = kind[a]
      OBVIOUS
    <3>2. a # made + 1
      BY <2>2
    <3>3. QED
      BY <2>1, <2>2, <3>2
  <2>4. HotChainCount' = HotChainCount /\ ColdChainCount' = ColdChainCount
    <3>1. Heads(Hot)' = Heads(Hot) /\ Heads(Cold)' = Heads(Cold)
      BY <2>1, <2>3 DEF Heads
    <3>2. QED
      BY <3>1 DEF HotChainCount, ColdChainCount
  <2>5. \A v \in Workers : ColdLeftCount(v)' = ColdLeftCount(v)
    <3>1. SUFFICES ASSUME NEW v \in Workers PROVE ColdLeftCount(v)' = ColdLeftCount(v)
      OBVIOUS
    <3>2. Todo(v)' = Todo(v)
      BY <2>1, TodoStays
    <3>3. Heads(Cold \ Todo(v))' = Heads(Cold \ Todo(v))
      BY <2>1, <2>3, <3>2 DEF Heads
    <3>4. QED
      BY <3>3 DEF ColdLeftCount
  <2>6. HotKept'
    BY <1>3, <2>1, <2>2, <2>4 DEF HotKept, Moving, Held
  <2>7. ColdKept => ColdKept'
    BY <2>1, <2>4, <2>5 DEF ColdKept, Moving, Held, UsesCold
  <2>8. QED
    BY <2>6, <2>7
<1>9. CASE CreateArchive
  <2>1. /\ UNCHANGED <<kind, cold, worker, todo>> /\ pc = "decided"
        /\ pc' \in {"writing", "pruning"} /\ (pc' # "writing" => files' = files)
    BY <1>9 DEF CreateArchive, workerVars
  <2>2. Cold' = Cold
    BY <1>1, <1>9, <2>1, CreateEffect, TiersStay
  <2>3. worker'["run"] = "idle"
    BY <1>1, <2>1, TInvParts DEF Phases
  <2>4. QED
    BY <1>4, <1>5, <2>1, <2>2, <2>3
<1>10. CASE Complete
  <2>1. /\ UNCHANGED <<kind, cold, worker, todo>> /\ pc = "writing" /\ pc' = "pruning"
        /\ Cold' = Cold
    BY <1>10, TiersStay DEF Complete, workerVars
  <2>2. worker'["run"] = "idle"
    BY <1>1, <2>1, TInvParts DEF Phases
  <2>3. QED
    BY <1>4, <1>5, <2>1, <2>2
<1>11. CASE Fail
  <2>1. /\ UNCHANGED <<kind, cold, worker, todo>> /\ pc = "writing" /\ pc' = "pruning"
        /\ Removed("HOT", made)
    BY <1>11 DEF Fail, workerVars
  <2>2. worker'["run"] = "idle" /\ made \in Ids /\ "HOT" \in Tiers /\ "COLD" \in Tiers \ {"HOT"}
    BY <1>1, <2>1, TInvParts DEF Phases, RunTyped, Ids, Tiers
  <2>3. Cold' = Cold
    BY <1>1, <2>1, <2>2, RemovedFrom DEF Cold
  <2>4. QED
    BY <1>4, <1>5, <2>1, <2>2, <2>3
<1>12. CASE \E w \in Workers : WorkerStep(w)
  BY <1>1, <1>3, <1>12, HotKeptByWorker, ColdKeptByWorker
<1>13. CASE \E c \in Clients, a \in Ids : RemoveBackup(c, a)
  <2>1. PICK c \in Clients, a \in Ids : RemoveBackup(c, a)
    BY <1>13
  <2>2. /\ kind' = kind /\ cold' = cold /\ pc' = pc /\ Hot' = Hot /\ Cold' = Cold
        /\ c \in Workers /\ c # "run" /\ worker[c] = "idle"
        /\ worker'[c] \in {"removing", "purging"}
        /\ \A v \in Workers : v # c =>
             worker'[v] = worker[v] /\ todo'[v] = todo[v] /\ Todo(v)' = Todo(v)
    BY <1>1, <2>1, RemoveEffect DEF Same, Others
  <2>3. HotKept'
    <3>1. worker'["run"] = worker["run"] /\ Todo("run")' = Todo("run")
      BY <1>1, <2>2
    <3>2. HotChainCount' = HotChainCount /\ HotLeftCount' = HotLeftCount
      BY <2>2, <3>1, CountsPrimed DEF HotChainCount, HotLeftCount
    <3>3. QED
      BY <1>3, <2>2, <3>1, <3>2 DEF HotKept, Moving, Held
  <2>4. ColdKept => ColdKept'
    <3>1. ColdChainCount' = ColdChainCount
      BY <2>2, CountsPrimed DEF ColdChainCount
    <3>2. ASSUME NEW v \in Workers, worker[v] = "cold"
          PROVE  worker'[v] = "cold" /\ ColdLeftCount(v)' = ColdLeftCount(v)
      <4>1. v # c
        BY <2>2, <3>2
      <4>2. Cold' \ Todo(v)' = Cold \ Todo(v)
        BY <2>2, <4>1
      <4>3. QED
        BY <2>2, <3>2, <4>1, <4>2, CountsPrimed DEF ColdLeftCount
    <3>3. (\A v \in Workers : ~Moving(v)') => \A v \in Workers : ~Moving(v)
      BY <2>2 DEF Moving, Held
    <3>4. QED
      BY <2>2, <3>1, <3>2, <3>3 DEF ColdKept, UsesCold
  <2>5. QED
    BY <2>3, <2>4
<1>14. ~Crash
  BY <1>3 DEF Crash, Reliable
<1>15. QED
  BY <1>7, <1>8, <1>9, <1>10, <1>11, <1>12, <1>13, <1>14 DEF Next, RunStep

LEMMA RetInit == Init => RetInv
<1> SUFFICES ASSUME Init PROVE RetInv
  OBVIOUS
<1>1. OrderInv /\ RetentionCount \in Nat /\ cold \in Nat
  BY OrderInit, RetentionsAreNat DEF OrderInv
<1>2. Hot = {} /\ Cold = {}
  BY RangeOfEmpty DEF Init, Hot, Cold, Tiers
<1>3. Heads({}) = {} /\ Cardinality({}) = 0
  BY FS_EmptySet DEF Heads
<1>4. HotChainCount = 0 /\ ColdChainCount = 0
  BY <1>2, <1>3 DEF HotChainCount, ColdChainCount
<1>5. \A w \in Workers : worker[w] = "idle"
  BY DEF Init
<1>6. HotKept /\ ColdKept
  BY <1>1, <1>4, <1>5 DEF HotKept, ColdKept, Moving, Held, Workers
<1>7. QED
  BY <1>1, <1>6 DEF RetInv

\* Commands and resets may fail and removals overlap with everything: once the runs and
\* handlers are through, each tier has no more chains than its retention count.
THEOREM RetentionKept ==
    ASSUME FaultModels \subseteq SUBSET {"command", "reset", "overlap"}
    PROVE  Spec => []RetentionHolds
<1>1. Init => RetInv
  BY RetInit
<1>2. RetInv /\ [Next]_vars => RetInv'
  BY RetStep
<1>3. RetInv => RetentionHolds
  <2>1. SUFFICES ASSUME RetInv, Quiet
                 PROVE  /\ RetentionCount > 0 => Cardinality(Starts(files["HOT"])) <= RetentionCount
                        /\ UsesCold => Cardinality(Starts(files["COLD"])) <= cold
    BY DEF RetentionHolds
  <2>2. Reliable /\ "prunes" \notin faults
    BY <2>1 DEF RetInv, OrderInv, TInv, RunTyped, Reliable, MovesAll
  <2>3. HotKept /\ ColdKept /\ OrderInv /\ TInv
    BY <2>1, <2>2 DEF RetInv, OrderInv
  <2>4. /\ files["HOT"] \in Seq(Ids) /\ Ascending(files["HOT"])
        /\ files["COLD"] \in Seq(Ids) /\ Ascending(files["COLD"])
    BY <2>2, <2>3, Listings DEF OrderInv, ListsOrdered, ColdOrdered, Reliable, Tiers
  <2>5. /\ Cardinality(Starts(files["HOT"])) = HotChainCount
        /\ Cardinality(Starts(files["COLD"])) = ColdChainCount
    BY <2>4, StartsAreHeads DEF HotChainCount, ColdChainCount, Hot, Cold
  <2>6. \A w \in Workers : worker[w] = "idle"
    BY <2>1 DEF Quiet
  <2>7. QED
    BY <2>1, <2>3, <2>5, <2>6 DEF HotKept, ColdKept, Moving, Held, Quiet
<1>4. QED
  BY <1>1, <1>2, <1>3, PTL DEF Spec

-------------------------------------------------------------------------------
(* The complete FULL archives of hot storage, where the runs alone prune:   *)
(* no prune has an archive in hand that retention counts on.                *)

AllWhole ==
    "crash" \notin faults => \A a \in Hot : a \in whole["HOT"] \/ (pc = "writing" /\ a = made)

Unwritten == pc = "writing" => made \notin whole["HOT"] /\ made \in Hot

FullLeftCount == Cardinality(Fulls(Hot \ Todo("run")))

FullsKept == Moving("run") /\ Todo("run") # {} => FullLeftCount >= RetentionCount

KeepInv == OrderInv /\ AllWhole /\ Unwritten /\ FullsKept

\* Where there are no other handlers, a step of one is a step of the run's prune.
LEMMA RunPrunes ==
    ASSUME TInv, Clients = {}, NEW w \in Workers, WorkerStep(w)
    PROVE  /\ w = "run" /\ pc = "pruning"
           /\ worker["run"] \in {"idle", "cold"} \/ Moving("run")
           /\ Same /\ pc' \in {"pruning", "idle"}
<1>1. w = "run" /\ Phases /\ HandsTyped
  BY TInvParts DEF Workers
<1>2. /\ worker["run"] # "idle" => pc = "pruning"
      /\ worker["run"] \in {"idle", "cold"} \/ Moving("run")
  BY RunWorks DEF Moving, Held
<1>3. Stops(w) \/ ListsHot(w) \/ ListsCold(w)
        \/ DeletesHot(w) \/ DeletesCold(w) \/ Opens(w) \/ Fills(w) \/ Ends(w) \/ Passes(w)
  BY WorkerEffects
<1>4. Same
  BY <1>3 DEF Stops, ListsHot, ListsCold, DeletesHot, DeletesCold, Opens, Fills, Ends, Passes
<1>5. worker["run"] = "idle" => Stops(w) \/ ListsHot(w)
  BY <1>1, <1>3 DEF ListsCold, DeletesHot, DeletesCold, Opens, Fills, Ends, Passes
<1>6. pc = "pruning"
  BY <1>1, <1>2, <1>5 DEF Stops, ListsHot
<1>7. pc' = pc \/ pc' = "idle"
  BY <1>1, <1>3 DEF Stops, ListsHot, ListsCold, DeletesHot, DeletesCold, Opens, Fills, Ends, Passes
<1>8. QED
  BY <1>1, <1>2, <1>4, <1>6, <1>7

LEMMA FullLeftPrimed ==
    ASSUME kind' = kind, NEW A, Hot' \ Todo("run")' = A
    PROVE  FullLeftCount' = Cardinality(Fulls(A))
BY DEF FullLeftCount, Fulls

LEMMA KeepByWorker ==
    ASSUME KeepInv, OrderInv', Clients = {}, NEW w \in Workers, WorkerStep(w)
    PROVE  KeepInv'
<1>1. TInv /\ TInv' /\ Ascending(files["HOT"]) /\ "run" \in Workers
  BY DEF KeepInv, OrderInv, ListsOrdered, Workers
<1>2. /\ w = "run" /\ pc = "pruning" /\ pc' \in {"pruning", "idle"} /\ Same
      /\ faults' = faults /\ kind' = kind
  BY <1>1, RunPrunes DEF Same
<1>3. Unwritten'
  BY <1>2 DEF Unwritten
<1>4. Hot \in SUBSET Ids /\ RetentionCount \in Nat /\ MaxArchives \in Nat
  BY <1>1, CountFacts, IdsAreNumbers
<1>5. "crash" \notin faults => \A a \in Hot : a \in whole["HOT"]
  BY <1>2 DEF KeepInv, AllWhole
<1>6. CASE /\ Hot' = Hot /\ whole'["HOT"] = whole["HOT"]
           /\ Moving("run")' => Moving("run") /\ Todo("run")' \subseteq Todo("run")
  <2>1. AllWhole'
    BY <1>2, <1>5, <1>6 DEF AllWhole
  <2>2. FullsKept'
    <3>1. SUFFICES ASSUME Moving("run")', Todo("run")' # {} PROVE FullLeftCount' >= RetentionCount
      BY DEF FullsKept
    <3> DEFINE A == Hot \ Todo("run")'
    <3>2. Fulls(Hot \ Todo("run")) \in SUBSET Fulls(A) /\ Fulls(A) \in SUBSET Ids
      BY <1>4, <1>6, <3>1 DEF Fulls
    <3>3. Cardinality(Fulls(Hot \ Todo("run"))) <= Cardinality(Fulls(A))
      BY <3>2, CardinalityGrows
    <3>4. Cardinality(Fulls(A)) \in Nat /\ Cardinality(Fulls(Hot \ Todo("run"))) \in Nat
      BY <3>2, FiniteIds
    <3>5. Cardinality(Fulls(Hot \ Todo("run"))) >= RetentionCount
      BY <1>6, <3>1 DEF KeepInv, FullsKept, FullLeftCount
    <3>6. FullLeftCount' = Cardinality(Fulls(A))
      <4>1. Hot' \ Todo("run")' = A
        BY <1>6
      <4>2. QED
        BY <1>2, <1>6 DEF FullLeftCount, Fulls
    <3> HIDE DEF A
    <3>7. QED
      BY <1>4, <3>3, <3>4, <3>5, <3>6
  <2>3. QED
    BY <1>3, <2>1, <2>2 DEF KeepInv
<1>7. CASE ListsHot(w)
  <2>1. /\ Hot' = Hot /\ whole' = whole
        /\ Todo("run")' = IF RetentionCount = 0 THEN {}
                       ELSE {a \in Hot : Cardinality(Younger(Hot, a)) >= RetentionCount}
    BY <1>1, <1>2, <1>7 DEF ListsHot
  <2>2. AllWhole'
    BY <1>2, <1>5, <2>1 DEF AllWhole
  <2>3. FullsKept'
    <3>1. SUFFICES ASSUME Todo("run")' # {} PROVE FullLeftCount' >= RetentionCount
      BY DEF FullsKept
    <3> DEFINE B == {a \in Hot : Cardinality(Younger(Hot, a)) >= RetentionCount}
    <3>2. Todo("run")' = B /\ B # {} /\ B \in SUBSET Hot
      BY <2>1, <3>1
    <3>3. B \subseteq 0 .. MaxArchives
      <4>1. B \subseteq Hot /\ Hot \subseteq 1 .. MaxArchives /\ MaxArchives \in Nat
        BY <1>4 DEF Ids
      <4> HIDE DEF B
      <4>2. QED
        BY <4>1
    <3>4. FullLeftCount' = Cardinality(Fulls(Hot \ B))
      <4>1. Hot' \ Todo("run")' = Hot \ B
        BY <2>1, <3>2
      <4> HIDE DEF B
      <4>2. QED
        BY <1>2, <4>1, FullLeftPrimed
    <3>5. \A x \in B : Cardinality(Younger(Hot, x)) >= RetentionCount
      OBVIOUS
    <3> HIDE DEF B
    <3>6. PICK m \in B : \A x \in B : x <= m
      BY <1>4, <3>2, <3>3, MaxProperties
    <3>7. m \in Hot /\ Cardinality(Younger(Hot, m)) >= RetentionCount
      BY <3>2, <3>5, <3>6
    <3>8. Cardinality(Fulls(Hot \ B)) >= RetentionCount
      BY <1>4, <3>2, <3>6, <3>7, FullsAbove
    <3>9. QED
      BY <3>4, <3>8
  <2>4. QED
    BY <1>3, <2>2, <2>3 DEF KeepInv
<1>8. CASE DeletesHot(w)
  <2> DEFINE h == Head(todo["run"])
  <2>1. /\ Hot' = Hot \ {h} /\ whole'["HOT"] = whole["HOT"] \ {h}
        /\ Todo("run")' = Todo("run") \ {h} /\ Moving("run")
    BY <1>1, <1>2, <1>8, RunPrunes DEF DeletesHot, TakesHead, Moving, Held
  <2>2. h \in Todo("run")
    BY <1>1, <1>2, <1>8, HandFacts DEF DeletesHot, TakesHead
  <2> HIDE DEF h
  <2>3. AllWhole'
    BY <1>2, <1>5, <2>1 DEF AllWhole
  <2>4. FullsKept'
    <3>1. Hot' \ Todo("run")' = Hot \ Todo("run")
      BY <2>1, <2>2
    <3>2. FullLeftCount' = FullLeftCount
      BY <1>2, <3>1, FullLeftPrimed DEF FullLeftCount
    <3>3. QED
      BY <2>1, <2>2, <3>2 DEF KeepInv, FullsKept
  <2>5. QED
    BY <1>3, <2>3, <2>4 DEF KeepInv
<1>9. ASSUME Stops(w) \/ ListsCold(w) \/ DeletesCold(w) \/ Opens(w) \/ Fills(w) \/ Ends(w) \/ Passes(w)
      PROVE  /\ Hot' = Hot /\ whole'["HOT"] = whole["HOT"]
             /\ Moving("run")' => Moving("run") /\ Todo("run")' \subseteq Todo("run")
  BY <1>2, <1>9 DEF Stops, ListsCold, DeletesCold, Opens, Fills, Ends,
     Passes, TakesHead, Moving, Held
<1>10. QED
  BY <1>1, <1>6, <1>7, <1>8, <1>9, WorkerEffects

LEMMA KeepStep ==
    ASSUME KeepInv, Clients = {}, "remove" \notin faults, [Next]_vars
    PROVE  KeepInv'
<1>1. /\ OrderInv /\ OrderInv' /\ TInv /\ TInv' /\ AllWhole /\ Unwritten /\ FullsKept
      /\ "HOT" \in Tiers /\ "run" \in Workers
  BY OrderStep DEF KeepInv, OrderInv, Tiers, Workers
<1>2. /\ whole["HOT"] \subseteq 1 .. made /\ Hot \subseteq 1 .. made
      /\ whole \in [Tiers -> SUBSET Ids]
  BY <1>1, Listings DEF Hot, TInv, FilesTyped
<1>3. ASSUME worker'["run"] = "idle"
      PROVE  FullsKept'
  BY <1>3 DEF FullsKept, Moving, Held
<1>4. CASE Elapse \/ (\E a \in Ids : RestoreBackup(a)) \/ Extract \/ RestoreEnds \/ UNCHANGED vars
  <2>1. UNCHANGED <<faults, made, kind, worker, todo, whole, pc>> /\ Hot' = Hot
    BY <1>4, TiersStay DEF Elapse, RestoreBackup, Extract, RestoreEnds, vars, runVars, workerVars
  <2>2. AllWhole' /\ Unwritten'
    BY <1>1, <2>1 DEF AllWhole, Unwritten
  <2>3. Todo("run")' = Todo("run")
    BY <1>1, <2>1, TodoStays
  <2>4. Hot' \ Todo("run")' = Hot \ Todo("run")
    BY <2>1, <2>3
  <2>5. FullLeftCount' = FullLeftCount
    BY <2>1, <2>4, FullLeftPrimed DEF FullLeftCount
  <2>6. QED
    BY <1>1, <2>1, <2>2, <2>3, <2>5 DEF KeepInv, FullsKept, Moving, Held
<1>5. CASE Decide
  <2>1. UNCHANGED <<faults, made, worker, whole, files>> /\ pc = "idle" /\ pc' = "decided"
    BY <1>5 DEF Decide, workerVars
  <2>2. worker'["run"] = "idle" /\ Hot' = Hot
    BY <1>1, <2>1, TInvParts, TiersStay DEF Phases
  <2>3. AllWhole' /\ Unwritten'
    BY <1>1, <2>1, <2>2 DEF AllWhole, Unwritten
  <2>4. QED
    BY <1>1, <1>3, <2>2, <2>3 DEF KeepInv
<1>6. CASE CreateArchive
  <2>1. /\ UNCHANGED <<faults, worker, whole>> /\ pc = "decided"
        /\ pc' \in {"writing", "pruning"} /\ (pc' # "writing" => files' = files)
    BY <1>6 DEF CreateArchive, workerVars
  <2>2. worker'["run"] = "idle"
    BY <1>1, <2>1, TInvParts DEF Phases
  <2>3. "crash" \notin faults => \A a \in Hot : a \in whole["HOT"]
    BY <1>1, <2>1 DEF AllWhole
  <2>4. AllWhole' /\ Unwritten'
    <3>1. CASE pc' = "writing"
      <4>1. made' = made + 1 /\ made \in Nat /\ Hot' = Hot \cup {made + 1}
        BY <1>1, <1>6, <3>1, CreateEffect
      <4>2. made + 1 \notin whole["HOT"]
        BY <1>2, <4>1
      <4>3. QED
        BY <2>1, <2>3, <3>1, <4>1, <4>2 DEF AllWhole, Unwritten
    <3>2. CASE pc' # "writing"
      <4>1. Hot' = Hot
        BY <2>1, <3>2, TiersStay
      <4>2. QED
        BY <2>1, <2>3, <3>2, <4>1 DEF AllWhole, Unwritten
    <3>3. QED
      BY <3>1, <3>2
  <2>5. QED
    BY <1>1, <1>3, <2>2, <2>4 DEF KeepInv
<1>7. CASE Complete
  <2>1. /\ UNCHANGED <<faults, worker, files>> /\ pc = "writing" /\ pc' = "pruning"
        /\ whole' = [whole EXCEPT !["HOT"] = @ \cup ({made} \cap Range(files["HOT"]))]
        /\ Hot' = Hot
    BY <1>7, TiersStay DEF Complete, workerVars
  <2>2. worker'["run"] = "idle"
    BY <1>1, <2>1, TInvParts DEF Phases
  <2>3. whole'["HOT"] = whole["HOT"] \cup ({made} \cap Hot)
    BY <1>1, <1>2, <2>1 DEF Hot
  <2>4. AllWhole' /\ Unwritten'
    BY <1>1, <2>1, <2>3 DEF AllWhole, Unwritten
  <2>5. QED
    BY <1>1, <1>3, <2>2, <2>4 DEF KeepInv
<1>8. CASE Fail
  <2>1. /\ UNCHANGED <<faults, worker, made>> /\ pc = "writing" /\ pc' = "pruning"
        /\ Removed("HOT", made)
    BY <1>8 DEF Fail, workerVars
  <2>2. worker'["run"] = "idle" /\ made \in Ids
    BY <1>1, <2>1, TInvParts DEF Phases, RunTyped, Ids
  <2>3. Hot' = Hot \ {made} /\ whole'["HOT"] = whole["HOT"] \ {made}
    BY <1>1, <2>1, <2>2, RemovedFrom DEF Hot, KeepInv
  <2>4. AllWhole' /\ Unwritten'
    BY <1>1, <2>1, <2>3 DEF AllWhole, Unwritten
  <2>5. QED
    BY <1>1, <1>3, <2>2, <2>4 DEF KeepInv
<1>9. CASE \E w \in Workers : WorkerStep(w)
  BY <1>1, <1>9, KeepByWorker
<1>10. CASE Crash
  <2>1. faults' = faults /\ pc' = "idle" /\ worker'["run"] = "idle" /\ "crash" \in faults
    BY <1>1, <1>10 DEF Crash
  <2>2. AllWhole' /\ Unwritten'
    BY <2>1 DEF AllWhole, Unwritten
  <2>3. QED
    BY <1>1, <1>3, <2>1, <2>2 DEF KeepInv
<1>11. QED
  BY <1>4, <1>5, <1>6, <1>7, <1>8, <1>9, <1>10 DEF Next, RunStep

\* The complete FULL archives become fewer by the deletions of the run's prune alone.
LEMMA AnchorsGo ==
    ASSUME KeepInv, Clients = {}, "remove" \notin faults, [Next]_vars,
           ~(\E w \in Workers : WorkerStep(w) /\ DeletesHot(w))
    PROVE  ~(Cardinality(Anchors') < Cardinality(Anchors))
<1>1. TInv /\ Unwritten /\ "HOT" \in Tiers
  BY DEF KeepInv, OrderInv, Tiers
<1>2. /\ whole["HOT"] \subseteq 1 .. made /\ whole["HOT"] \in SUBSET Ids
      /\ whole \in [Tiers -> SUBSET Ids] /\ made \in 0 .. MaxArchives
      /\ kind \in [Ids -> {"FULL", "INC"}] /\ TInv'
  <2>1. /\ whole["HOT"] \subseteq 1 .. made
    BY <1>1, Listings
  <2>2. TInv'
    BY <1>1, TInvStep
  <2>3. RunTyped /\ FilesTyped
    BY <1>1 DEF TInv
  <2>4. QED
    BY <1>1, <2>1, <2>2, <2>3 DEF RunTyped, FilesTyped
<1>3. SUFFICES Anchors \subseteq Anchors'
  <2>1. Anchors' \in SUBSET Ids /\ Anchors \in SUBSET Ids
    <3>1. whole'["HOT"] \in SUBSET Ids
      BY <1>1, <1>2 DEF TInv, FilesTyped
    <3>2. QED
      BY <1>2, <3>1 DEF Anchors
  <2>2. Cardinality(Anchors) \in Nat /\ Cardinality(Anchors') \in Nat
    BY <2>1, FiniteIds
  <2>3. Anchors \subseteq Anchors' => Cardinality(Anchors) <= Cardinality(Anchors')
    BY <2>1, CardinalityGrows
  <2>4. QED
    BY <2>2, <2>3
<1>4. ASSUME kind' = kind, whole["HOT"] \subseteq whole'["HOT"]
      PROVE  Anchors \subseteq Anchors'
  BY <1>4 DEF Anchors
<1>5. CASE Decide
  <2>1. made \in Nat /\ whole' = whole /\ kind \in [Ids -> {"FULL", "INC"}]
        /\ \E k \in {"FULL", "INC"} : kind' = [kind EXCEPT ![made + 1] = k]
    <3> DEFINE K == IF Incremental /\ recent \in Range(files["HOT"]) THEN "INC" ELSE "FULL"
    <3>1. K \in {"FULL", "INC"} /\ made \in Nat /\ whole' = whole
      BY <1>2, <1>5, IdsAreNumbers DEF Decide
    <3>2. kind' = [kind EXCEPT ![made + 1] = K]
      BY <1>5 DEF Decide
    <3> HIDE DEF K
    <3>3. QED
      BY <1>2, <3>1, <3>2
  <2>2. \A a \in whole["HOT"] : a \in Ids /\ a # made + 1
    BY <1>2, <2>1
  <2>3. \A a \in whole["HOT"] : kind'[a] = kind[a]
    BY <2>1, <2>2
  <2>4. QED
    BY <2>1, <2>3 DEF Anchors
<1>6. CASE Complete
  <2>1. kind' = kind /\ whole["HOT"] \subseteq whole'["HOT"]
    BY <1>1, <1>2, <1>6 DEF Complete
  <2>2. QED
    BY <1>4, <2>1
<1>7. CASE Fail
  <2>1. kind' = kind /\ Removed("HOT", made) /\ made \notin whole["HOT"]
    BY <1>1, <1>7 DEF Fail, Unwritten
  <2>2. whole'["HOT"] = whole["HOT"] \ {made}
    BY <1>1, <1>2, <2>1 DEF Removed
  <2>3. QED
    BY <1>4, <2>1, <2>2
<1>8. CASE \E w \in Workers : WorkerStep(w)
  <2>1. PICK w \in Workers : WorkerStep(w)
    BY <1>8
  <2>2. ~DeletesHot(w)
    BY <2>1
  <2>3. kind' = kind /\ whole'["HOT"] = whole["HOT"]
    BY <1>1, <2>1, <2>2, WorkerEffects DEF Stops, ListsHot, ListsCold, DeletesCold, Opens, Fills, Ends,
     Passes,
       Same
  <2>4. QED
    BY <1>4, <2>3
<1>9. CASE Crash
  <2>1. kind' = kind /\ whole' = whole
    BY <1>9 DEF Crash
  <2>2. QED
    BY <1>4, <2>1
<1>10. CASE Elapse \/ CreateArchive \/ (\E a \in Ids : RestoreBackup(a)) \/ Extract \/ RestoreEnds
            \/ UNCHANGED vars
  <2>1. kind' = kind /\ whole' = whole
    BY <1>10 DEF Elapse, CreateArchive, RestoreBackup, Extract, RestoreEnds, vars, runVars
  <2>2. QED
    BY <1>4, <2>1
<1>11. QED
  BY <1>5, <1>6, <1>7, <1>8, <1>9, <1>10 DEF Next, RunStep

\* Every file that a prune deletes leaves the retention count of FULL archives behind.
LEMMA DeletionLeavesFulls ==
    ASSUME KeepInv, Clients = {}, NEW w \in Workers, WorkerStep(w), DeletesHot(w)
    PROVE  Cardinality(Anchors' \cup TornAnchors') >= RetentionCount
<1>1. TInv /\ AllWhole /\ FullsKept
  BY DEF KeepInv, OrderInv
<1>2. /\ w = "run" /\ pc = "pruning" /\ Same /\ kind' = kind /\ faults' = faults
      /\ Moving("run") /\ pc' = pc
  BY <1>1, RunPrunes DEF DeletesHot, Same, Moving, Held
<1> DEFINE h == Head(todo["run"])
<1>3. /\ Hot' = Hot \ {h} /\ whole'["HOT"] = whole["HOT"] \ {h} /\ h \in Todo("run")
  BY <1>1, <1>2, HandFacts DEF DeletesHot, TakesHead
<1> HIDE DEF h
<1>4. FullLeftCount >= RetentionCount
  BY <1>1, <1>2, <1>3 DEF FullsKept, Moving, Held
<1>5. Hot \in SUBSET Ids /\ whole["HOT"] \in SUBSET Ids /\ RetentionCount \in Nat
  BY <1>1, CountFacts DEF TInv, FilesTyped, Tiers
<1> DEFINE T == Anchors' \cup TornAnchors'
<1>6. T \in SUBSET Ids
  BY <1>3, <1>5 DEF Anchors, TornAnchors, Hot
<1>7. Fulls(Hot \ Todo("run")) \subseteq T
  <2>1. SUFFICES ASSUME NEW a \in Hot, a \notin Todo("run"), kind[a] = "FULL" PROVE a \in T
    BY DEF Fulls
  <2>2. a \in Hot' /\ kind'[a] = "FULL" /\ a # h
    BY <1>2, <1>3, <2>1
  <2>3. CASE a \in whole["HOT"]
    BY <1>3, <2>2, <2>3 DEF Anchors
  <2>4. CASE a \notin whole["HOT"]
    <3>1. "crash" \in faults
      BY <1>1, <1>2, <2>1, <2>4 DEF AllWhole
    <3>2. a \in Range(files["HOT"])' /\ a \notin whole'["HOT"] /\ pc' # "writing"
      BY <1>2, <1>3, <2>2, <2>4 DEF Hot
    <3>3. a \in TornAnchors'
      BY <1>2, <2>2, <3>1, <3>2 DEF TornAnchors
    <3>4. QED
      BY <3>3
  <2>5. QED
    BY <2>3, <2>4
<1> HIDE DEF T
<1>8. Cardinality(Fulls(Hot \ Todo("run"))) <= Cardinality(T)
  BY <1>6, <1>7, CardinalityGrows
<1>9. Cardinality(T) \in Nat /\ FullLeftCount \in Nat
  BY <1>5, <1>6, FiniteIds DEF FullLeftCount, Fulls
<1>10. QED
  BY <1>4, <1>5, <1>8, <1>9 DEF FullLeftCount, T

LEMMA KeepInit == Init => KeepInv
<1> SUFFICES ASSUME Init PROVE KeepInv
  OBVIOUS
<1>1. OrderInv
  BY OrderInit
<1>2. Hot = {} /\ pc = "idle" /\ worker["run"] = "idle"
  BY RangeOfEmpty DEF Init, Hot, Tiers, Workers
<1>3. QED
  BY <1>1, <1>2 DEF KeepInv, AllWhole, Unwritten, FullsKept, Moving, Held

\* No step of the runs or of a stop of the daemon brings the complete FULL archives of hot
\* storage below the retention count, torn ones set aside, whatever fails but the removal of
\* a file.
THEOREM FullsAreKept ==
    ASSUME Clients = {}, \A f \in FaultModels : "remove" \notin f
    PROVE  Spec => KeepsRetention
<1>1. Init => KeepInv
  BY KeepInit
<1>2. KeepInv => "remove" \notin faults
  BY DEF KeepInv, OrderInv, TInv, RunTyped
<1>3. KeepInv /\ [Next]_vars => KeepInv'
  BY <1>2, KeepStep
<1>4. KeepInv /\ [Next]_vars =>
        [Cardinality(Anchors') < Cardinality(Anchors) =>
           Cardinality(Anchors' \cup TornAnchors') >= RetentionCount]_vars
  <2>1. SUFFICES ASSUME KeepInv, [Next]_vars, Cardinality(Anchors') < Cardinality(Anchors)
                 PROVE  Cardinality(Anchors' \cup TornAnchors') >= RetentionCount
    OBVIOUS
  <2>2. PICK w \in Workers : WorkerStep(w) /\ DeletesHot(w)
    BY <1>2, <2>1, AnchorsGo
  <2>3. QED
    BY <2>1, <2>2, DeletionLeavesFulls
<1>5. QED
  BY <1>1, <1>3, <1>4, PTL DEF Spec, KeepsRetention

-------------------------------------------------------------------------------
(* Copies, where no copy or removal fails and the daemon goes on.  A copy   *)
(* that is begun anew cuts off the one under way, but reads the whole file: *)
(* the last one that was begun is complete when it ends.                    *)

CopySafe == {"copy", "remove", "crash"} \cap faults = {}

\* A file of hot storage is complete, unless the run is writing it.
HotComplete == \A a \in Hot : a \in whole["HOT"] \/ (pc = "writing" /\ a = made)

\* No handler moves or deletes the newest archive.
MovingHands == \A w \in Workers : Moving(w) => \A x \in Todo(w) : x < made

OpenedWhole == \A w \in Workers : worker[w] = "opened" => copy[w] = "whole"

ColdComplete ==
    \A a \in Cold : a \in whole["COLD"] \/ \E w \in Workers : Copying(w, a) /\ copy[w] = "whole"

CopyInv ==
    OrderInv /\ (CopySafe => HotComplete /\ MovingHands /\ OpenedWhole /\ ColdComplete)

\* A FULL archive is younger than an expired one.
LEMMA FullFollows ==
    ASSUME NEW A \in SUBSET Ids, NEW x \in A, NEW n \in Nat, n > 0,
           Cardinality(Younger(A, x)) >= n
    PROVE  \E z \in A : x < z /\ kind[z] = "FULL"
<1>1. Younger(A, x) # {}
  BY FS_EmptySet
<1>2. PICK z \in Younger(A, x) : TRUE
  BY <1>1
<1>3. z \in A /\ z > x /\ z \in Nat /\ x \in Nat /\ z \in Heads(A)
  BY IdsAreNumbers DEF Younger, Heads
<1>4. ~(z <= x)
  BY <1>3
<1>5. QED
  BY <1>3, <1>4 DEF Heads

\* Who lists hot storage leaves the newest archive.
LEMMA ListedBeforeLast ==
    ASSUME OrderInv, NEW w \in Workers, ListsHot(w), NEW x \in Todo(w)'
    PROVE  x < made
<1>1. /\ TInv /\ Ascending(files["HOT"]) /\ RetentionCount \in Nat
      /\ Hot \in SUBSET Ids /\ Hot \subseteq 1 .. made
  BY CountFacts, Listings DEF OrderInv, ListsOrdered, Hot, Tiers
<1>2. x \in Hot /\ Cardinality(Younger(Hot, x)) >= RetentionCount /\ RetentionCount > 0
  BY <1>1 DEF ListsHot
<1>3. PICK z \in Hot : x < z
  BY <1>1, <1>2, FullFollows
<1>4. x \in 1 .. made /\ z \in 1 .. made /\ made \in Int
  BY <1>1, <1>2 DEF TInv, RunTyped
<1>5. QED
  BY <1>3, <1>4

\* Steps that begin and end no copy.
LEMMA CopyInvKept ==
    ASSUME CopyInv, OrderInv', faults' = faults,
           CopySafe => HotComplete' /\ MovingHands',
           Cold' \subseteq Cold, whole["COLD"] \cap Cold' \subseteq whole'["COLD"],
           \A v \in Workers : worker'[v] = "opened" => worker[v] = "opened" /\ copy'[v] = copy[v],
           \A v \in Workers, a \in Cold' : Copying(v, a) =>
             worker'[v] = "copying" /\ Head(todo'[v]) = a /\ copy'[v] = copy[v]
    PROVE  CopyInv'
<1>1. CopySafe' <=> CopySafe
  BY DEF CopySafe
<1>2. ASSUME CopySafe
      PROVE  OpenedWhole' /\ ColdComplete'
  <2>1. OpenedWhole'
    BY <1>2 DEF CopyInv, OpenedWhole
  <2>2. SUFFICES ASSUME NEW a \in Cold', a \notin whole'["COLD"]
                 PROVE  \E v \in Workers :
                          worker'[v] = "copying" /\ Head(todo'[v]) = a /\ copy'[v] = "whole"
    BY <2>1 DEF ColdComplete, Copying
  <2>3. PICK v \in Workers : Copying(v, a) /\ copy[v] = "whole"
    BY <1>2, <2>2 DEF CopyInv, ColdComplete
  <2>4. QED
    BY <2>2, <2>3
<1>3. QED
  BY <1>1, <1>2 DEF CopyInv

LEMMA CopyInvByWorker ==
    ASSUME CopyInv, OrderInv', NEW w \in Workers, WorkerStep(w)
    PROVE  CopyInv'
<1>1. /\ OrderInv /\ TInv /\ made \in Nat
      /\ Hot \in SUBSET Ids /\ Cold \in SUBSET Ids
      /\ CopySafe => HotComplete /\ MovingHands /\ OpenedWhole /\ ColdComplete
  BY Listings DEF CopyInv, OrderInv, TInv, RunTyped, Hot, Cold, Tiers
<1> DEFINE h == Head(todo[w])
<1>2. \/ Stops(w) \/ ListsHot(w) \/ ListsCold(w) \/ DeletesHot(w) \/ DeletesCold(w)
      \/ Opens(w) \/ Fills(w) \/ Ends(w) \/ Passes(w)
  BY <1>1, WorkerEffects
<1>3. /\ Same /\ Others(w) /\ faults' = faults /\ made' = made
      /\ \A v \in Workers : v # w => worker'[v] = worker[v] /\ todo'[v] = todo[v] /\ Todo(v)' = Todo(v)
  BY <1>2 DEF Stops, ListsHot, ListsCold, DeletesHot, DeletesCold, Opens, Fills, Ends, Passes, Same,
     Others
<1>4. CopySafe' <=> CopySafe
  BY <1>3 DEF CopySafe
<1>5. CopySafe => MovingHands'
  <2>1. SUFFICES ASSUME CopySafe, NEW v \in Workers, Moving(v)', NEW x \in Todo(v)' PROVE x < made
    BY <1>3 DEF MovingHands
  <2>2. CASE Moving(v) /\ Todo(v)' \subseteq Todo(v)
    BY <1>1, <2>1, <2>2 DEF MovingHands
  <2>3. CASE ListsHot(w) /\ v = w
    BY <1>1, <2>1, <2>3, ListedBeforeLast
  <2>4. (ListsHot(w) /\ v = w) \/ (Moving(v) /\ Todo(v)' \subseteq Todo(v))
    <3>1. CASE v # w
      BY <1>3, <2>1, <3>1 DEF Moving
    <3>2. CASE v = w
      <4>1. ~Stops(w) /\ ~ListsCold(w) /\ ~DeletesCold(w)
        BY <2>1, <3>2 DEF Stops, ListsCold, DeletesCold, Moving, Held
      <4>2. CASE DeletesHot(w)
        BY <2>1, <3>2, <4>2 DEF DeletesHot, TakesHead, Moving, Held
      <4>3. CASE Opens(w) \/ Fills(w) \/ Ends(w)
        BY <3>2, <4>3 DEF Opens, Fills, Ends, Moving, Held
      <4>4. CASE Passes(w)
        BY <2>1, <3>2, <4>4 DEF Passes, TakesHead, Moving, Held
      <4>5. QED
        BY <1>2, <3>2, <4>1, <4>2, <4>3, <4>4
    <3>3. QED
      BY <3>1, <3>2
  <2>5. QED
    BY <2>2, <2>3, <2>4
<1>6. CopySafe => HotComplete'
  <2>1. SUFFICES ASSUME CopySafe, NEW a \in Hot'
                 PROVE  a \in whole'["HOT"] \/ (pc' = "writing" /\ a = made)
    BY <1>3 DEF HotComplete
  <2>2. pc = "writing" => pc' = "writing"
    BY <1>2 DEF Stops, ListsHot, ListsCold, DeletesHot, DeletesCold, Opens, Fills, Ends, Passes
  <2>3. a \in Hot /\ (a \in whole["HOT"] => a \in whole'["HOT"])
    BY <1>2, <2>1 DEF Stops, ListsHot, ListsCold, DeletesHot, DeletesCold, Opens, Fills, Ends, Passes
  <2>4. QED
    BY <1>1, <2>1, <2>2, <2>3 DEF HotComplete
<1>7. CASE Stops(w) \/ ListsHot(w) \/ ListsCold(w) \/ DeletesHot(w)
  <2>1. /\ Cold' = Cold /\ whole'["COLD"] = whole["COLD"] /\ \A v \in Workers : copy'[v] = copy[v]
        /\ worker[w] \notin Copiers /\ worker'[w] \notin Copiers
    BY <1>7 DEF Stops, ListsHot, ListsCold, DeletesHot, Copiers
  <2>2. QED
    BY <1>3, <1>5, <1>6, <2>1, CopyInvKept DEF Copiers, Copying
<1>8. CASE DeletesCold(w)
  <2>1. /\ Cold' = Cold \ {h} /\ whole'["COLD"] = whole["COLD"] \ {h}
        /\ \A v \in Workers : ~Copying(v, h) => copy'[v] = copy[v]
        /\ worker[w] \notin Copiers /\ worker'[w] = worker[w]
    BY <1>8 DEF DeletesCold, Copiers
  <2> HIDE DEF h
  <2>2. ASSUME NEW v \in Workers, NEW a \in Cold', Copying(v, a)
        PROVE  worker'[v] = "copying" /\ Head(todo'[v]) = a /\ copy'[v] = copy[v]
    <3>1. v # w /\ a # h
      BY <2>1, <2>2 DEF Copying, Copiers
    <3>2. ~Copying(v, h)
      BY <2>2, <3>1 DEF Copying
    <3>3. QED
      BY <1>3, <2>1, <2>2, <3>1, <3>2 DEF Copying
  <2>3. ASSUME NEW v \in Workers, worker'[v] = "opened"
        PROVE  worker[v] = "opened" /\ copy'[v] = copy[v]
    <3>1. v # w /\ worker[v] = "opened"
      BY <1>3, <2>1, <2>3 DEF Copiers
    <3>2. ~Copying(v, h)
      BY <3>1 DEF Copying
    <3>3. QED
      BY <2>1, <3>1, <3>2
  <2>4. Cold' \subseteq Cold /\ whole["COLD"] \cap Cold' \subseteq whole'["COLD"]
    BY <2>1
  <2>5. QED
    BY <1>3, <1>5, <1>6, <2>2, <2>3, <2>4, CopyInvKept
<1>9. CASE Passes(w)
  <2>1. /\ Cold' = Cold /\ whole' = whole
        /\ CopySafe => worker[w] = "hot" /\ worker'[w] = "hot" /\ copy' = copy
    BY <1>9 DEF Passes, CopySafe, Moving
  <2>2. CASE CopySafe
    BY <1>3, <1>5, <1>6, <2>1, <2>2, CopyInvKept DEF Copying
  <2>3. CASE ~CopySafe
    BY <1>4, <2>3 DEF CopyInv
  <2>4. QED
    BY <2>2, <2>3
\* What is opened is a complete file.
<1>10. CASE Opens(w)
  <2>1. /\ Cold' = Cold /\ whole' = whole /\ h \in Hot
        /\ worker[w] = "hot" /\ worker'[w] = "opened"
        /\ h \in whole["HOT"] => copy'[w] = "whole"
        /\ \A v \in Workers : v # w => copy'[v] = copy[v]
        /\ todo[w] # <<>>
    BY <1>10 DEF Opens
  <2>2. ASSUME CopySafe
        PROVE  OpenedWhole' /\ ColdComplete'
    <3>1. h \in Todo(w) /\ h \in Nat
      BY <1>1, <2>1, HandFacts, IdsAreNumbers
    <3>2. h < made
      BY <1>1, <2>1, <2>2, <3>1 DEF MovingHands, Moving
    <3>3. h # made
      BY <1>1, <3>1, <3>2
    <3>4. copy'[w] = "whole"
      BY <1>1, <2>1, <2>2, <3>3 DEF HotComplete
    <3>5. OpenedWhole'
      BY <1>1, <1>3, <2>1, <2>2, <3>4 DEF OpenedWhole
    <3>6. \A v \in Workers : worker[v] = "copying" =>
            worker'[v] = "copying" /\ todo'[v] = todo[v] /\ copy'[v] = copy[v]
      BY <1>3, <2>1
    <3>7. ColdComplete'
      BY <1>1, <2>1, <2>2, <3>6 DEF ColdComplete, Copying
    <3>8. QED
      BY <3>5, <3>7
  <2>3. QED
    BY <1>4, <1>5, <1>6, <2>2 DEF CopyInv
\* Who creates the copy writes all of it.
<1>11. CASE Fills(w)
  <2>1. /\ worker[w] \in Copiers /\ worker'[w] = "copying" /\ todo'[w] = todo[w]
        /\ Cold' = Cold \cup {h}
        /\ whole'["COLD"] = IF worker[w] = "opened" THEN whole["COLD"] \ {h} ELSE whole["COLD"]
        /\ copy'[w] = copy[w]
        /\ \A v \in Workers : ~Copying(v, h) => copy'[v] = copy[v]
    BY <1>11 DEF Fills, Copiers
  <2>2. ASSUME CopySafe
        PROVE  OpenedWhole' /\ ColdComplete'
    <3>1. OpenedWhole'
      <4>1. ASSUME NEW v \in Workers, worker'[v] = "opened"
            PROVE  copy'[v] = "whole"
        <5>1. v # w /\ worker[v] = "opened"
          BY <1>3, <2>1, <4>1
        <5>2. ~Copying(v, h)
          BY <5>1 DEF Copying
        <5>3. QED
          BY <1>1, <2>1, <2>2, <5>1, <5>2 DEF OpenedWhole
      <4>2. QED
        BY <4>1 DEF OpenedWhole
    <3>2. CASE worker[w] = "opened"
      <4>1. copy'[w] = "whole" /\ Head(todo'[w]) = h
        BY <1>1, <2>1, <2>2, <3>2 DEF OpenedWhole
      <4> HIDE DEF h
      <4>2. ASSUME NEW a \in Cold', a \notin whole'["COLD"]
            PROVE  \E v \in Workers :
                     worker'[v] = "copying" /\ Head(todo'[v]) = a /\ copy'[v] = "whole"
        <5>1. CASE a = h
          BY <2>1, <4>1, <5>1
        <5>2. CASE a # h
          <6>1. a \in Cold /\ a \notin whole["COLD"]
            BY <2>1, <3>2, <4>2, <5>2
          <6>2. PICK v \in Workers : Copying(v, a) /\ copy[v] = "whole"
            BY <1>1, <2>2, <6>1 DEF ColdComplete
          <6>3. v # w /\ ~Copying(v, h)
            BY <3>2, <5>2, <6>2 DEF Copying
          <6>4. worker'[v] = worker[v] /\ todo'[v] = todo[v] /\ copy'[v] = copy[v]
            BY <1>3, <2>1, <6>3
          <6>5. QED
            BY <6>2, <6>4 DEF Copying
        <5>3. QED
          BY <5>1, <5>2
      <4>3. ColdComplete'
        BY <4>2 DEF ColdComplete, Copying
      <4>4. QED
        BY <3>1, <4>3
    <3>3. CASE worker[w] = "copying"
      <4>1. /\ Cold' = Cold /\ whole'["COLD"] = whole["COLD"] /\ copy' = copy
            /\ \A v \in Workers : worker'[v] = worker[v] /\ todo'[v] = todo[v]
        BY <1>3, <1>11, <2>1, <3>3 DEF Fills
      <4>2. ColdComplete'
        BY <1>1, <2>2, <4>1 DEF ColdComplete, Copying
      <4>3. QED
        BY <3>1, <4>2
    <3>4. QED
      BY <2>1, <3>2, <3>3 DEF Copiers
  <2>3. QED
    BY <1>4, <1>5, <1>6, <2>2 DEF CopyInv
<1>12. CASE Ends(w)
  <2>1. /\ worker[w] = "copying" /\ worker'[w] = "moved" /\ Cold' = Cold
        /\ whole["COLD"] \subseteq whole'["COLD"]
        /\ \A v \in Workers : v # w => copy'[v] = copy[v]
    BY <1>12 DEF Ends
  <2>2. CopySafe /\ copy[w] = "whole" => h \in whole'["COLD"]
    BY <1>12 DEF Ends, CopySafe
  <2> HIDE DEF h
  <2>3. ASSUME CopySafe
        PROVE  OpenedWhole' /\ ColdComplete'
    <3>1. OpenedWhole'
      BY <1>1, <1>3, <2>1, <2>3 DEF OpenedWhole
    <3>2. ASSUME NEW a \in Cold', a \notin whole'["COLD"]
          PROVE  \E v \in Workers :
                   worker'[v] = "copying" /\ Head(todo'[v]) = a /\ copy'[v] = "whole"
      <4>1. a \in Cold /\ a \notin whole["COLD"]
        BY <2>1, <3>2
      <4>2. PICK v \in Workers : Copying(v, a) /\ copy[v] = "whole"
        BY <1>1, <2>3, <4>1 DEF ColdComplete
      <4>3. v # w
        BY <2>2, <2>3, <3>2, <4>2 DEF Copying, h
      <4>4. worker'[v] = worker[v] /\ todo'[v] = todo[v] /\ copy'[v] = copy[v]
        BY <1>3, <2>1, <4>3
      <4>5. QED
        BY <4>2, <4>4 DEF Copying
    <3>3. ColdComplete'
      BY <3>2 DEF ColdComplete, Copying
    <3>4. QED
      BY <3>1, <3>3
  <2>4. QED
    BY <1>4, <1>5, <1>6, <2>3 DEF CopyInv
<1>13. QED
  BY <1>2, <1>7, <1>8, <1>9, <1>10, <1>11, <1>12

LEMMA CopyInvStep ==
    ASSUME CopyInv, [Next]_vars
    PROVE  CopyInv'
<1>1. /\ OrderInv /\ OrderInv' /\ TInv /\ TInv'
      /\ CopySafe => HotComplete /\ MovingHands /\ OpenedWhole /\ ColdComplete
      /\ "HOT" \in Tiers /\ made \in Nat /\ whole \in [Tiers -> SUBSET Ids]
  <2>1. OrderInv /\ (CopySafe => HotComplete /\ MovingHands /\ OpenedWhole /\ ColdComplete)
    BY DEF CopyInv
  <2>2. OrderInv'
    BY <2>1, OrderStep
  <2>3. TInv /\ TInv'
    BY <2>1, <2>2 DEF OrderInv
  <2>4. "HOT" \in Tiers /\ made \in Nat /\ whole \in [Tiers -> SUBSET Ids]
    BY <2>3 DEF Tiers, TInv, RunTyped, FilesTyped
  <2>5. QED
    BY <2>1, <2>2, <2>3, <2>4
\* Steps of the runs: no handler does anything.
<1>2. ASSUME UNCHANGED <<faults, worker, todo>>, \A v \in Workers : copy'[v] = copy[v],
             made' \in Nat, made <= made', Cold' = Cold, whole'["COLD"] = whole["COLD"],
             CopySafe => HotComplete'
      PROVE  CopyInv'
  <2>1. MovingHands' \/ ~CopySafe
    <3>1. SUFFICES ASSUME CopySafe, NEW v \in Workers, Moving(v), NEW x \in Todo(v) PROVE x < made'
      BY <1>2, TodoStays DEF MovingHands, Moving
    <3>2. x < made /\ x \in Nat
      BY <1>1, <3>1, HandFacts, IdsAreNumbers DEF MovingHands
    <3>3. QED
      BY <1>1, <1>2, <3>2
  <2>2. QED
    BY <1>1, <1>2, <2>1, CopyInvKept DEF Copying
<1>3. CASE Elapse \/ (\E a \in Ids : RestoreBackup(a)) \/ Extract \/ RestoreEnds \/ UNCHANGED vars
  <2>1. /\ UNCHANGED <<faults, made, worker, todo, copy, whole, pc>>
        /\ Hot' = Hot /\ Cold' = Cold
    BY <1>3, TiersStay DEF Elapse, RestoreBackup, Extract, RestoreEnds, vars, runVars, workerVars
  <2>2. CopySafe => HotComplete'
    BY <1>1, <2>1 DEF HotComplete
  <2>3. QED
    BY <1>1, <1>2, <2>1, <2>2
<1>4. CASE Decide
  <2>1. /\ UNCHANGED <<faults, made, worker, todo, copy, whole, files>> /\ pc = "idle"
        /\ Hot' = Hot /\ Cold' = Cold
    BY <1>4, TiersStay DEF Decide, workerVars
  <2>2. CopySafe => HotComplete'
    BY <1>1, <2>1 DEF HotComplete
  <2>3. QED
    BY <1>1, <1>2, <2>1, <2>2
<1>5. CASE CreateArchive
  <2>1. /\ UNCHANGED <<faults, worker, todo, copy, whole>> /\ pc = "decided"
        /\ pc' \in {"writing", "pruning"}
        /\ pc' # "writing" => UNCHANGED <<made, files>>
    BY <1>5 DEF CreateArchive, workerVars
  <2>2. CASE pc' = "writing"
    <3>1. made' = made + 1 /\ Hot' = Hot \cup {made + 1} /\ Cold' = Cold
      BY <1>1, <1>5, <2>2, CreateEffect
    <3>2. CopySafe => HotComplete'
      BY <1>1, <2>1, <2>2, <3>1 DEF HotComplete
    <3>3. made' \in Nat /\ made <= made'
      BY <1>1, <3>1
    <3>4. QED
      BY <1>2, <2>1, <3>1, <3>2, <3>3
  <2>3. CASE pc' # "writing"
    <3>1. Hot' = Hot /\ Cold' = Cold
      BY <2>1, <2>3, TiersStay
    <3>2. CopySafe => HotComplete'
      BY <1>1, <2>1, <2>3, <3>1 DEF HotComplete
    <3>3. QED
      BY <1>1, <1>2, <2>1, <2>3, <3>1, <3>2
  <2>4. QED
    BY <2>2, <2>3
<1>6. CASE Complete
  <2>1. /\ UNCHANGED <<faults, made, worker, todo, copy, files>> /\ pc = "writing"
        /\ whole' = [whole EXCEPT !["HOT"] = @ \cup ({made} \cap Hot)]
        /\ Hot' = Hot /\ Cold' = Cold
    BY <1>6, TiersStay DEF Complete, workerVars, Hot
  <2>2. whole'["HOT"] = whole["HOT"] \cup ({made} \cap Hot) /\ whole'["COLD"] = whole["COLD"]
    BY <1>1, <2>1
  <2>3. CopySafe => HotComplete'
    BY <1>1, <2>1, <2>2 DEF HotComplete
  <2>4. QED
    BY <1>1, <1>2, <2>1, <2>2, <2>3
<1>7. CASE Fail
  <2>1. /\ UNCHANGED <<faults, worker, todo, made>> /\ pc = "writing" /\ Removed("HOT", made)
    BY <1>7 DEF Fail
  <2>2. made \in Ids
    BY <1>1, <2>1, TInvParts DEF Phases, RunTyped, Ids
  <2>3. CASE CopySafe
    <3>1. /\ Hot' = Hot \ {made} /\ whole'["HOT"] = whole["HOT"] \ {made}
          /\ Cold' = Cold /\ whole'["COLD"] = whole["COLD"]
      BY <1>1, <2>1, <2>2, <2>3, RemovedFrom DEF CopySafe, Hot, Cold, Tiers
    <3>2. \A v \in Workers : copy'[v] = copy[v]
      BY <2>1, <2>3 DEF Removed, CopySafe
    <3>3. HotComplete'
      BY <1>1, <2>1, <2>3, <3>1 DEF HotComplete
    <3>4. QED
      BY <1>1, <1>2, <2>1, <3>1, <3>2, <3>3
  <2>4. CASE ~CopySafe
    BY <1>1, <2>1, <2>4 DEF CopyInv, CopySafe
  <2>5. QED
    BY <2>3, <2>4
<1>8. CASE \E w \in Workers : WorkerStep(w)
  BY <1>1, <1>8, CopyInvByWorker
<1>9. CASE \E c \in Clients, a \in Ids : RemoveBackup(c, a)
  <2>1. PICK c \in Clients, a \in Ids : RemoveBackup(c, a)
    BY <1>9
  <2>2. /\ Same /\ Others(c) /\ UNCHANGED <<files, whole, pc>> /\ Hot' = Hot /\ Cold' = Cold
        /\ worker[c] = "idle" /\ worker'[c] \in {"removing", "purging"} /\ copy' = copy
    BY <1>1, <2>1, RemoveEffect DEF RemoveBackup
  <2>3. CopySafe => HotComplete' /\ MovingHands'
    <3>1. CopySafe => HotComplete'
      BY <1>1, <2>2 DEF HotComplete, Same
    <3>2. \A v \in Workers : Moving(v)' => v # c /\ Moving(v) /\ Todo(v)' = Todo(v)
      BY <2>2 DEF Others, Moving, Held
    <3>3. CopySafe => MovingHands'
      BY <1>1, <2>2, <3>2 DEF MovingHands, Same
    <3>4. QED
      BY <3>1, <3>3
  <2>4. \A v \in Workers : /\ worker'[v] = "opened" => worker[v] = "opened"
                           /\ worker[v] = "copying" => worker'[v] = "copying" /\ todo'[v] = todo[v]
    BY <2>2 DEF Others
  <2>5. QED
    BY <1>1, <2>2, <2>3, <2>4, CopyInvKept DEF Copying, Same
<1>10. CASE Crash
  BY <1>1, <1>10 DEF Crash, CopyInv, CopySafe
<1>11. QED
  BY <1>3, <1>4, <1>5, <1>6, <1>7, <1>8, <1>9, <1>10 DEF Next, RunStep

\* Whatever runs, prunes and removals go on at once, and however their copies of a file cut
\* each other off, no torn archive is left in cold storage, unless a copy or a removal
\* fails or the daemon stops.
THEOREM CopiesStayComplete == Spec => []CopiesComplete
<1>1. Init => CopyInv
  <2>1. SUFFICES ASSUME Init PROVE CopyInv
    OBVIOUS
  <2>2. /\ OrderInv /\ Hot = {} /\ Cold = {}
        /\ \A w \in Workers : worker[w] = "idle"
    BY <2>1, OrderInit, RangeOfEmpty DEF Init, Hot, Cold, Tiers
  <2>3. QED
    BY <2>2 DEF CopyInv, HotComplete, MovingHands, OpenedWhole, ColdComplete, Moving, Held
<1>2. CopyInv /\ [Next]_vars => CopyInv'
  BY CopyInvStep
<1>3. CopyInv => CopiesComplete
  BY DEF CopyInv, CopySafe, ColdComplete, Copying, CopiesComplete, Quiet, Cold
<1>4. QED
  BY <1>1, <1>2, <1>3, PTL DEF Spec

-------------------------------------------------------------------------------
(* Chains, where nothing fails and RemoveBackup is asked for FULL archives  *)
(* alone.  Every file is deleted together with what follows in its chain,   *)
(* so that an INC whose predecessor is gone is in the hands of a handler.   *)

Inc(a) == kind[a] = "INC"

Deletes(w) == Moving(w) \/ worker[w] = "removing"
Purges(w)  == worker[w] \in {"cold", "purging"}

\* An INC is relative to the archive before it, which the snapshot holds between two runs.
Bases ==
    /\ \A a \in 1 .. made : base[a] = IF Inc(a) THEN a - 1 ELSE 0
    /\ pc # "writing" /\ Incremental => snapshot = made
    /\ pc = "decided" /\ Inc(made + 1) => Incremental

\* A run that has decided for an INC finds the newest archive in hot storage.
Newest ==
    /\ recent # 0 => /\ recent \in 1 .. made /\ ~Inc(recent)
                     /\ \A a \in 1 .. made : recent < a => Inc(a)
    /\ pc = "decided" /\ Inc(made + 1) => made \in Hot

AllComplete ==
    /\ \A a \in Hot : a \in whole["HOT"] \/ (pc = "writing" /\ a = made)
    /\ \A a \in Cold : a \in whole["COLD"] \/ \E w \in Workers : Copying(w, a)

\* What follows an archive of hot storage in its chain is there as well.
Upward == \A x \in Hot : x < made /\ Inc(x + 1) => x + 1 \in Hot

\* Who deletes hot files has all that follow in the chain in hand, and of a chain's files
\* those before it first.
HotHands ==
    \A w \in Workers : Deletes(w) =>
        /\ \A y \in Todo(w) : Inc(y) /\ y - 1 \in Hot => y - 1 \in Todo(w)
        /\ \A x \in Todo(w) : x + 1 \in Hot /\ Inc(x + 1) => x + 1 \in Todo(w)

\* A complete file is copied, which stays in hot storage until then.
CopyHands ==
    \A w \in Workers :
        /\ worker[w] \in Held => Head(todo[w]) \in Hot
        /\ worker[w] \in {"copying", "moved"} => Head(todo[w]) \in Cold
        /\ worker[w] \in Copiers => copy[w] = "whole"

\* While files of hot storage are removed no run goes on, and no prune has any in hand.
OneRemoves ==
    \A w \in Workers : worker[w] = "removing" =>
        /\ pc = "idle"
        /\ \A v \in Workers : v # w => worker[v] # "removing" /\ (Moving(v) => Todo(v) = {})

\* What is deleted from cold storage is older than hot storage, and no chain that is
\* deleted in part reaches into hot storage.
ColdHands ==
    \A w \in Workers : Purges(w) =>
        /\ \A y \in Todo(w) : y < made /\ \A b \in Hot : y < b
        /\ \A y \in Todo(w) : Inc(y + 1) => /\ y + 1 \notin Hot
                                            /\ y + 1 \in Cold => y + 1 \in Todo(w)
        /\ worker[w] = "cold" => \A x \in Todo(w), b \in Cold : b <= x => b \in Todo(w)

\* An INC without its predecessor is about to be deleted: by RemoveBackup, or, if it is
\* the oldest file, by a prune.
HotChains ==
    \A a \in Hot : Inc(a) /\ a - 1 \notin Hot =>
        \E w \in Workers : a \in Todo(w) /\
            (worker[w] = "removing" \/ (Moving(w) /\ \A b \in Hot : a <= b))

ColdChains ==
    \A a \in Cold : Inc(a) /\ a - 1 \notin Cold =>
        \E w \in Workers : a \in Todo(w) /\
            (worker[w] = "purging" \/ (worker[w] = "cold" /\ \A b \in Cold : a <= b))

\* An archive is in both tiers only while it is moved, and a chain that has been moved in
\* part goes on in cold storage without a gap.
BetweenTiers ==
    /\ \A a \in Cold : a < made
    /\ \A a \in Hot \cap Cold : \E w \in Workers :
          worker[w] \in {"copying", "moved"} /\ Head(todo[w]) = a
    /\ UsesCold /\ (\A w \in Workers : worker[w] # "removing") =>
         \A a \in Hot : Inc(a) /\ a - 1 \notin Hot => a - 1 \in Cold

\* What a restore has extracted and will extract.
RestoreSound ==
    /\ restore.pc = "DONE" => restore.plan = <<>>
    /\ restore.pc \in {"extract", "DONE"} =>
         \E q \in Seq(Ids) :
            /\ q = restore.applied \o restore.plan /\ q # <<>> /\ Range(q) \subseteq 1 .. made
            /\ kind[q[1]] = "FULL" => Rebuilds(q)

HandsOrdered == \A w \in Workers : Ascending(todo[w])

ChainParts ==
    /\ Bases /\ Newest /\ AllComplete /\ Upward /\ HandsOrdered /\ HotHands /\ MovingHands
    /\ CopyHands /\ OneRemoves /\ ColdHands /\ HotChains /\ ColdChains /\ BetweenTiers

ChainInv == RetInv /\ (faults = {} => ChainParts /\ RestoreSound)

LEMMA ChainFacts ==
    ASSUME RetInv, faults = {}
    PROVE  /\ TInv /\ OrderInv /\ HotKept /\ OnePrunes
           /\ "run" \in Workers /\ "HOT" \in Tiers /\ "COLD" \in Tiers
           /\ made \in Nat /\ Hot \in SUBSET Ids /\ Cold \in SUBSET Ids
           /\ Hot \subseteq 1 .. made /\ Cold \subseteq 1 .. made
           /\ \A a \in 1 .. made : a \in Ids
           /\ \A a \in Ids : a \in Nat /\ (kind[a] = "FULL" <=> ~Inc(a))
           /\ Ascending(files["HOT"]) /\ Ascending(files["COLD"])
           /\ \A a \in Cold, b \in Hot : a <= b
           /\ \A w \in Workers : Moving(w) => \A x \in Todo(w), b \in Hot : b <= x => b \in Todo(w)
           /\ \A w \in Workers : Todo(w) \in SUBSET Ids
<1>1. TInv /\ OrderInv /\ HotKept /\ ListsOrdered /\ Lowest /\ ColdOrdered /\ OnePrunes
  BY DEF RetInv, OrderInv, Reliable, MovesAll
<1>2. /\ "run" \in Workers /\ "HOT" \in Tiers /\ "COLD" \in Tiers
      /\ \A w \in Workers : Todo(w) \in SUBSET Ids
  BY <1>1, HandFacts DEF Workers, Tiers
<1>3. /\ made \in 0 .. MaxArchives /\ MaxArchives \in Nat /\ kind \in [Ids -> {"FULL", "INC"}]
      /\ \A a \in Ids : a \in Nat
  BY <1>1, IdsAreNumbers DEF TInv, RunTyped
<1>4. made \in Nat /\ \A a \in 1 .. made : a \in Ids
  BY <1>3 DEF Ids
<1>5. /\ Hot \in SUBSET Ids /\ Cold \in SUBSET Ids
      /\ Hot \subseteq 1 .. made /\ Cold \subseteq 1 .. made
  BY <1>1, <1>2, Listings DEF Hot, Cold
<1>6. \A a \in Ids : kind[a] = "FULL" <=> ~Inc(a)
  BY <1>3 DEF Inc
<1>7. QED
  BY <1>1, <1>2, <1>3, <1>4, <1>5, <1>6 DEF ListsOrdered, Lowest, ColdOrdered

\* An increment of an expired archive is expired.
LEMMA IncrementsExpire ==
    ASSUME NEW A \in SUBSET Ids, NEW x \in A, x + 1 \in A, kind[x + 1] # "FULL",
           NEW n \in Nat, Cardinality(Younger(A, x)) >= n
    PROVE  Cardinality(Younger(A, x + 1)) >= n
<1> PICK y \in A : y = x + 1
  OBVIOUS
<1>1. /\ Younger(A, x) \in SUBSET Ids /\ Younger(A, y) \in SUBSET Ids
      /\ \A a \in A : a \in Nat
  BY IdsAreNumbers DEF Younger, Heads
<1>2. Younger(A, x) \in SUBSET Younger(A, y)
  <2>1. SUFFICES ASSUME NEW z \in Younger(A, x) PROVE z \in Younger(A, y)
    OBVIOUS
  <2>2. z \in Heads(A) /\ z \in A /\ z > x
    BY <2>1 DEF Younger, Heads
  <2>3. z # y
    <3>1. ~(y <= x)
      BY <1>1
    <3>2. y \notin Heads(A)
      BY <3>1 DEF Heads
    <3>3. QED
      BY <2>2, <3>2
  <2>4. z > y
    BY <1>1, <2>2, <2>3
  <2>5. QED
    BY <2>2, <2>4 DEF Younger
<1>3. Cardinality(Younger(A, x)) <= Cardinality(Younger(A, y))
  BY <1>1, <1>2, CardinalityGrows
<1>4. Cardinality(Younger(A, x)) \in Nat /\ Cardinality(Younger(A, y)) \in Nat
  BY <1>1, FiniteIds
<1>5. QED
  BY <1>3, <1>4

\* Nothing is expired in a tier that has no more chains than it keeps.
LEMMA NoneExpired ==
    ASSUME NEW A \in SUBSET Ids, NEW n \in Nat, Cardinality(Heads(A)) <= n, NEW x \in A
    PROVE  ~(Cardinality(Younger(A, x)) >= n)
<1>1. PICK m \in A : \A y \in A : m <= y
  BY Oldest
<1>2. /\ m \in Heads(A) /\ m \notin Younger(A, x)
      /\ Younger(A, x) \in SUBSET Ids /\ Heads(A) \in SUBSET Ids
  <2>1. m <= x /\ m \in Nat /\ x \in Nat
    BY <1>1, IdsAreNumbers
  <2>2. ~(m > x)
    BY <2>1
  <2>3. QED
    BY <1>1, <2>2 DEF Younger, Heads
<1>3. Cardinality(Younger(A, x)) \in Nat /\ IsFiniteSet(Younger(A, x)) /\ Cardinality(Heads(A)) \in Nat
  BY <1>2, FiniteIds
<1>4. Cardinality(Younger(A, x) \cup {m}) = Cardinality(Younger(A, x)) + 1
  BY <1>2, <1>3, FS_AddElement
<1>5. Younger(A, x) \cup {m} \in SUBSET Heads(A)
  BY <1>2 DEF Younger
<1>6. Cardinality(Younger(A, x) \cup {m}) <= Cardinality(Heads(A))
  BY <1>2, <1>5, CardinalityGrows
<1>7. QED
  BY <1>3, <1>4, <1>6

\* What a handler takes next is the oldest file it has in hand.
LEMMA TakenIsLowest ==
    ASSUME TInv, HandsOrdered, NEW w \in Workers, todo[w] # <<>>
    PROVE  Head(todo[w]) \in Todo(w) /\ \A x \in Todo(w) : Head(todo[w]) <= x
BY HandFacts DEF HandsOrdered

\* The parts that no step of a handler disturbs.
LEMMA RunPartsStay ==
    ASSUME RetInv, faults = {}, Bases, Newest, Same,
           pc' = pc \/ (pc' = "idle" /\ pc = "pruning"),
           pc = "decided" => pc' = "decided" /\ (made \in Hot => made \in Hot')
    PROVE  Bases' /\ Newest'
<1>1. Bases'
  BY DEF Bases, Same, Inc
<1>2. Newest'
  BY DEF Newest, Same, Inc
<1>3. QED
  BY <1>1, <1>2

\* The copies that go on are of the same files.
LEMMA CopyHandsStay ==
    ASSUME CopyHands,
           \A v \in Workers : worker'[v] \in Held =>
             /\ worker'[v] = worker[v] /\ todo'[v] = todo[v] /\ copy'[v] = copy[v]
             /\ Head(todo[v]) \in Hot => Head(todo[v]) \in Hot'
             /\ Head(todo[v]) \in Cold => Head(todo[v]) \in Cold'
    PROVE  CopyHands'
BY DEF CopyHands, Held, Copiers

LEMMA HotDeletionKeepsChains ==
    ASSUME RetInv, RetInv', faults = {}, ChainParts, NEW w \in Workers, DeletesHot(w)
    PROVE  ChainParts'
<1> USE DEF Moving, Held, Deletes, Purges
<1>1. /\ TInv /\ made \in Nat /\ Hot \in SUBSET Ids /\ Cold \in SUBSET Ids
      /\ \A a \in Ids : a \in Nat
      /\ \A v \in Workers : Moving(v) => \A x \in Todo(v), b \in Hot : b <= x => b \in Todo(v)
      /\ \A v \in Workers : Todo(v) \in SUBSET Ids
      /\ OnePrunes
  BY ChainFacts
<1>2. /\ Bases /\ Newest /\ AllComplete /\ Upward /\ HandsOrdered /\ HotHands /\ MovingHands
      /\ CopyHands /\ OneRemoves /\ ColdHands /\ HotChains /\ ColdChains /\ BetweenTiers
  BY DEF ChainParts
<1> DEFINE h == Head(todo[w])
<1>3. /\ kind' = kind /\ made' = made /\ pc' = pc /\ cold' = cold /\ Same
      /\ \A v \in Workers : v # w =>
           worker'[v] = worker[v] /\ todo'[v] = todo[v] /\ Todo(v)' = Todo(v)
      /\ Hot' = Hot \ {h} /\ Cold' = Cold /\ Todo(w)' = Todo(w) \ {h}
      /\ whole'["HOT"] = whole["HOT"] \ {h} /\ whole'["COLD"] = whole["COLD"]
      /\ todo[w] # <<>> /\ (Ascending(todo[w]) => Ascending(todo'[w]))
  BY DEF DeletesHot, Same, Others, TakesHead
<1>4. \/ worker[w] = "hot" /\ ~UsesCold /\ worker'[w] = "hot"
      \/ worker[w] = "moved" /\ worker'[w] = "hot"
      \/ worker[w] = "removing" /\ worker'[w] = "removing"
  BY DEF DeletesHot
<1>5. h \in Todo(w) /\ \A x \in Todo(w) : h <= x
  BY <1>1, <1>2, <1>3, TakenIsLowest
<1>6. worker[w] = "moved" => h \in Cold
  BY <1>2 DEF CopyHands
\* No other handler is copying.
<1>7. \A v \in Workers : v # w => worker[v] \notin Held
  <2>1. SUFFICES ASSUME NEW v \in Workers, v # w, worker[v] \in Held PROVE FALSE
    OBVIOUS
  <2>2. CASE worker[w] = "removing"
    <3>1. Todo(v) = {}
      BY <1>2, <2>1, <2>2 DEF OneRemoves
    <3>2. Head(todo[v]) \in Todo(v)
      BY <1>1, <2>1, HandFacts DEF TInv, HandsTyped, InHand
    <3>3. QED
      BY <3>1, <3>2
  <2>3. CASE worker[w] \in {"hot", "moved"}
    BY <1>1, <2>1, <2>3 DEF OnePrunes, Prunes
  <2>4. QED
    BY <1>4, <2>2, <2>3
<1>8. Moving(w) => h < made
  BY <1>2, <1>5 DEF MovingHands
<1>9. UsesCold' <=> UsesCold
  BY <1>3 DEF UsesCold
<1> HIDE DEF h
<1>10. Bases' /\ Newest'
  <2>1. pc = "decided" => Moving(w)
    BY <1>2, <1>4 DEF OneRemoves
  <2>2. pc = "decided" => (made \in Hot => made \in Hot')
    BY <1>1, <1>3, <1>8, <2>1
  <2>3. /\ pc' = pc \/ (pc' = "idle" /\ pc = "pruning")
        /\ pc = "decided" => pc' = "decided" /\ (made \in Hot => made \in Hot')
    BY <1>3, <2>2
  <2>4. QED
    BY <1>2, <1>3, <2>3, RunPartsStay
<1>11. AllComplete'
  <2>1. ASSUME NEW a \in Hot'
        PROVE  a \in whole'["HOT"] \/ (pc' = "writing" /\ a = made')
    BY <1>2, <1>3, <2>1 DEF AllComplete
  <2>2. \A a \in Cold : a \in whole["COLD"]
    BY <1>2, <1>4, <1>7 DEF AllComplete, Copying
  <2>3. QED
    BY <1>3, <2>1, <2>2 DEF AllComplete
<1>12. Upward'
  <2>1. SUFFICES ASSUME NEW x \in Hot, x # h, x < made, Inc(x + 1) PROVE x + 1 \in Hot \ {h}
    BY <1>3 DEF Upward, Inc
  <2>2. x + 1 \in Hot /\ x \in Nat
    BY <1>1, <1>2, <2>1 DEF Upward
  <2>3. x + 1 # h
    <3>1. SUFFICES ASSUME x + 1 = h PROVE FALSE
      OBVIOUS
    <3>2. Inc(h) /\ h - 1 = x
      BY <2>1, <2>2, <3>1
    <3>3. x \in Todo(w)
      BY <1>2, <1>4, <1>5, <2>1, <3>2 DEF HotHands
    <3>4. QED
      BY <1>5, <2>2, <3>1, <3>3
  <2>4. QED
    BY <2>2, <2>3
<1>13. HandsOrdered'
  BY <1>2, <1>3 DEF HandsOrdered
<1>14. HotHands'
  <2>1. ASSUME NEW v \in Workers, Deletes(v)', NEW y \in Todo(v)', Inc(y), y - 1 \in Hot'
        PROVE  y - 1 \in Todo(v)'
    <3>1. Deletes(v) /\ y \in Todo(v) /\ y - 1 \in Hot /\ y - 1 # h
      BY <1>3, <1>4, <2>1
    <3>2. y - 1 \in Todo(v)
      BY <1>2, <2>1, <3>1 DEF HotHands
    <3>3. QED
      BY <1>3, <3>1, <3>2
  <2>2. ASSUME NEW v \in Workers, Deletes(v)', NEW x \in Todo(v)', x + 1 \in Hot', Inc(x + 1)
        PROVE  x + 1 \in Todo(v)'
    <3>1. Deletes(v) /\ x \in Todo(v) /\ x + 1 \in Hot /\ x + 1 # h
      BY <1>3, <1>4, <2>2
    <3>2. x + 1 \in Todo(v)
      BY <1>2, <2>2, <3>1 DEF HotHands
    <3>3. QED
      BY <1>3, <3>1, <3>2
  <2>3. QED
    BY <1>3, <2>1, <2>2 DEF HotHands, Inc
<1>15. MovingHands'
  <2>1. ASSUME NEW v \in Workers, Moving(v)', NEW x \in Todo(v)'
        PROVE  x < made
    <3>1. Moving(v) /\ x \in Todo(v)
      BY <1>3, <1>4, <2>1
    <3>2. QED
      BY <1>2, <3>1 DEF MovingHands
  <2>2. QED
    BY <1>3, <2>1 DEF MovingHands
<1>16. CopyHands'
  <2>1. \A v \in Workers : worker'[v] \notin Held
    BY <1>3, <1>4, <1>7
  <2>2. QED
    BY <1>2, <2>1, CopyHandsStay
<1>17. OneRemoves'
  <2>1. SUFFICES ASSUME NEW v \in Workers, worker'[v] = "removing"
                 PROVE  /\ pc' = "idle"
                        /\ \A u \in Workers : u # v =>
                             worker'[u] # "removing" /\ (Moving(u)' => Todo(u)' = {})
    BY DEF OneRemoves
  <2>2. worker[v] = "removing"
    BY <1>3, <1>4, <2>1
  <2>3. QED
    BY <1>2, <1>3, <1>4, <2>2 DEF OneRemoves
<1>18. ColdHands'
  <2>1. SUFFICES ASSUME NEW v \in Workers, Purges(v)'
                 PROVE  /\ \A y \in Todo(v)' : y < made' /\ \A b \in Hot' : y < b
                        /\ \A y \in Todo(v)' : Inc(y + 1) => /\ y + 1 \notin Hot'
                                                             /\ y + 1 \in Cold' => y + 1 \in Todo(v)'
                        /\ worker'[v] = "cold" =>
                             \A x \in Todo(v)', b \in Cold' : b <= x => b \in Todo(v)'
    BY <1>3 DEF ColdHands, Inc
  <2>2. v # w
    BY <1>4, <2>1
  <2>3. QED
    BY <1>2, <1>3, <2>1, <2>2 DEF ColdHands
<1>19. HotChains'
  <2>1. SUFFICES ASSUME NEW a \in Hot', Inc(a), a - 1 \notin Hot'
                 PROVE  \E v \in Workers : a \in Todo(v)' /\
                          (worker'[v] = "removing" \/ (Moving(v)' /\ \A b \in Hot' : a <= b))
    BY <1>3 DEF HotChains, Inc
  <2>2. a \in Hot /\ a # h /\ a \in Nat
    BY <1>1, <1>3
  <2>3. CASE a - 1 \in Hot
    <3>1. a = h + 1
      BY <1>1, <1>3, <2>1, <2>2, <2>3
    <3>2. a \in Todo(w)
      BY <1>2, <1>4, <1>5, <2>1, <2>2, <3>1 DEF HotHands
    <3>3. CASE worker[w] = "removing"
      BY <1>3, <1>4, <2>2, <3>2, <3>3
    <3>4. CASE Moving(w)
      <4>1. \A b \in Hot' : a <= b
        <5>1. SUFFICES ASSUME NEW b \in Hot', ~(a <= b) PROVE FALSE
          OBVIOUS
        <5>2. b \in Hot /\ b # h /\ b \in Nat /\ b <= a
          BY <1>1, <1>3, <2>2, <5>1
        <5>3. b \in Todo(w)
          BY <1>1, <3>2, <3>4, <5>2
        <5>4. h <= b /\ h \in Nat
          BY <1>1, <1>5, <5>3
        <5>5. QED
          BY <2>2, <3>1, <5>1, <5>2, <5>4
      <4>2. QED
        BY <1>3, <1>4, <2>2, <3>2, <3>4, <4>1
    <3>5. QED
      BY <1>4, <3>3, <3>4
  <2>4. CASE a - 1 \notin Hot
    <3>1. PICK v \in Workers : a \in Todo(v) /\
             (worker[v] = "removing" \/ (Moving(v) /\ \A b \in Hot : a <= b))
      BY <1>2, <2>1, <2>2, <2>4 DEF HotChains
    <3>2. a \in Todo(v)'
      BY <1>3, <2>2, <3>1
    <3>3. worker'[v] = "removing" \/ (Moving(v)' /\ \A b \in Hot' : a <= b)
      BY <1>3, <1>4, <3>1
    <3>4. QED
      BY <3>2, <3>3
  <2>5. QED
    BY <2>3, <2>4
<1>20. ColdChains'
  <2>1. SUFFICES ASSUME NEW a \in Cold, Inc(a), a - 1 \notin Cold
                 PROVE  \E v \in Workers : a \in Todo(v)' /\
                          (worker'[v] = "purging" \/ (worker'[v] = "cold" /\ \A b \in Cold : a <= b))
    BY <1>3 DEF ColdChains, Inc
  <2>2. PICK v \in Workers : a \in Todo(v) /\
           (worker[v] = "purging" \/ (worker[v] = "cold" /\ \A b \in Cold : a <= b))
    BY <1>2, <2>1 DEF ColdChains
  <2>3. v # w
    BY <1>4, <2>2
  <2>4. QED
    BY <1>3, <2>2, <2>3
<1>21. BetweenTiers'
  <2>1. \A a \in Cold' : a < made'
    BY <1>2, <1>3 DEF BetweenTiers
  <2>2. ASSUME NEW a \in Hot' \cap Cold'
        PROVE  \E v \in Workers : worker'[v] \in {"copying", "moved"} /\ Head(todo'[v]) = a
    <3>1. a \in Hot \cap Cold /\ a # h
      BY <1>3
    <3>2. PICK v \in Workers : worker[v] \in {"copying", "moved"} /\ Head(todo[v]) = a
      BY <1>2, <3>1 DEF BetweenTiers
    <3>3. v # w
      BY <3>1, <3>2 DEF h
    <3>4. QED
      BY <1>3, <3>2, <3>3
  <2>3. ASSUME UsesCold', \A v \in Workers : worker'[v] # "removing",
               NEW a \in Hot', Inc(a), a - 1 \notin Hot'
        PROVE  a - 1 \in Cold'
    <3>1. worker[w] = "moved" /\ \A v \in Workers : worker[v] # "removing"
      BY <1>3, <1>4, <1>9, <2>3
    <3>2. a \in Hot
      BY <1>3
    <3>3. CASE a - 1 \in Hot
      BY <1>3, <1>6, <2>3, <3>1, <3>3
    <3>4. CASE a - 1 \notin Hot
      BY <1>2, <1>3, <1>9, <2>3, <3>1, <3>2, <3>4 DEF BetweenTiers
    <3>5. QED
      BY <3>3, <3>4
  <2>4. QED
    BY <1>3, <2>1, <2>2, <2>3 DEF BetweenTiers, Inc
<1>22. QED
  BY <1>10, <1>11, <1>12, <1>13, <1>14, <1>15, <1>16, <1>17, <1>18, <1>19, <1>20, <1>21 DEF ChainParts

\* A handler ends, or passes over a file that is gone.
LEMMA EndKeepsChains ==
    ASSUME RetInv, RetInv', faults = {}, ChainParts, NEW w \in Workers, Stops(w) \/ Passes(w)
    PROVE  ChainParts'
<1> USE DEF Moving, Held, Deletes, Purges
<1>1. TInv
  BY ChainFacts
<1>2. /\ Bases /\ Newest /\ AllComplete /\ Upward /\ HandsOrdered /\ HotHands /\ MovingHands
      /\ CopyHands /\ OneRemoves /\ ColdHands /\ HotChains /\ ColdChains /\ BetweenTiers
  BY DEF ChainParts
<1> DEFINE h == Head(todo[w])
<1>3. /\ kind' = kind /\ made' = made /\ cold' = cold /\ Same
      /\ \A v \in Workers : v # w =>
           worker'[v] = worker[v] /\ todo'[v] = todo[v] /\ Todo(v)' = Todo(v)
      /\ Hot' = Hot /\ Cold' = Cold
      /\ whole'["HOT"] = whole["HOT"] /\ whole'["COLD"] = whole["COLD"]
      /\ pc' = pc \/ (pc' = "idle" /\ pc = "pruning")
      /\ pc' = pc \/ pc' = "idle"
      /\ pc = "decided" => pc' = "decided"
      /\ Ascending(todo[w]) => Ascending(todo'[w])
      /\ copy' = copy
  BY DEF Stops, Passes, Same, Others, TakesHead
<1>4. \/ /\ worker[w] \in {"hot", "cold", "removing", "purging"} /\ worker'[w] = "idle"
         /\ Todo(w) = {} /\ Todo(w)' = {}
      \/ /\ worker[w] = "hot" /\ worker'[w] = "hot" /\ h \notin Hot
         /\ Todo(w)' = Todo(w) \ {h}
  BY <1>1, HandFacts DEF Stops, Passes, TakesHead
<1>5. UsesCold' <=> UsesCold
  BY <1>3 DEF UsesCold
<1> HIDE DEF h
<1>6. Bases' /\ Newest'
  <2>1. pc = "decided" => pc' = "decided" /\ (made \in Hot => made \in Hot')
    BY <1>3
  <2>2. QED
    BY <1>2, <1>3, <2>1, RunPartsStay
<1>7. AllComplete'
  <2>1. pc = "writing" => pc' = "writing"
    BY <1>3
  <2>2. \A v \in Workers : worker[v] = "copying" => worker'[v] = "copying" /\ todo'[v] = todo[v]
    BY <1>3, <1>4
  <2>3. QED
    BY <1>2, <1>3, <2>1, <2>2 DEF AllComplete, Copying
<1>8. Upward' /\ HandsOrdered'
  BY <1>2, <1>3 DEF Upward, Inc, HandsOrdered
<1>9. \A v \in Workers : /\ Deletes(v)' => Deletes(v) /\ Todo(v) \cap Hot \subseteq Todo(v)'
                         /\ Todo(v)' \subseteq Todo(v)
                         /\ Moving(v)' => Moving(v)
                         /\ worker'[v] \in Held \cup {"removing", "cold", "purging"} =>
                              /\ worker[v] = worker'[v] /\ Todo(v)' = Todo(v)
                              /\ todo'[v] = todo[v]
  BY <1>3, <1>4
<1>10. HotHands'
  BY <1>2, <1>3, <1>9 DEF HotHands, Inc
<1>11. MovingHands'
  BY <1>2, <1>3, <1>9 DEF MovingHands
<1>12. CopyHands'
  BY <1>2, <1>3, <1>9, CopyHandsStay
<1>13. OneRemoves'
  <2>1. SUFFICES ASSUME NEW v \in Workers, worker'[v] = "removing"
                 PROVE  /\ pc' = "idle"
                        /\ \A u \in Workers : u # v =>
                             worker'[u] # "removing" /\ (Moving(u)' => Todo(u)' = {})
    BY DEF OneRemoves
  <2>2. worker[v] = "removing"
    BY <1>9, <2>1
  <2>3. QED
    BY <1>2, <1>3, <1>9, <2>2 DEF OneRemoves
<1>14. ColdHands'
  BY <1>2, <1>3, <1>9 DEF ColdHands, Inc
<1>15. HotChains'
  <2>1. SUFFICES ASSUME NEW a \in Hot, Inc(a), a - 1 \notin Hot
                 PROVE  \E v \in Workers : a \in Todo(v)' /\
                          (worker'[v] = "removing" \/ (Moving(v)' /\ \A b \in Hot : a <= b))
    BY <1>3 DEF HotChains, Inc
  <2>2. PICK v \in Workers : a \in Todo(v) /\
           (worker[v] = "removing" \/ (Moving(v) /\ \A b \in Hot : a <= b))
    BY <1>2, <2>1 DEF HotChains
  <2>3. QED
    BY <1>3, <1>4, <2>1, <2>2
<1>16. ColdChains'
  <2>1. SUFFICES ASSUME NEW a \in Cold, Inc(a), a - 1 \notin Cold
                 PROVE  \E v \in Workers : a \in Todo(v)' /\
                          (worker'[v] = "purging" \/ (worker'[v] = "cold" /\ \A b \in Cold : a <= b))
    BY <1>3 DEF ColdChains, Inc
  <2>2. PICK v \in Workers : a \in Todo(v) /\
           (worker[v] = "purging" \/ (worker[v] = "cold" /\ \A b \in Cold : a <= b))
    BY <1>2, <2>1 DEF ColdChains
  <2>3. QED
    BY <1>3, <1>4, <2>2
<1>17. BetweenTiers'
  <2>1. \A a \in Cold' : a < made'
    BY <1>2, <1>3 DEF BetweenTiers
  <2>2. ASSUME NEW a \in Hot' \cap Cold'
        PROVE  \E v \in Workers : worker'[v] \in {"copying", "moved"} /\ Head(todo'[v]) = a
    <3>1. PICK v \in Workers : worker[v] \in {"copying", "moved"} /\ Head(todo[v]) = a
      BY <1>2, <1>3, <2>2 DEF BetweenTiers
    <3>2. v # w
      BY <1>4, <3>1
    <3>3. QED
      BY <1>3, <3>1, <3>2
  <2>3. ASSUME UsesCold', \A v \in Workers : worker'[v] # "removing",
               NEW a \in Hot', Inc(a), a - 1 \notin Hot'
        PROVE  a - 1 \in Cold'
    <3>1. CASE worker[w] = "removing"
      <4>1. PICK v \in Workers : a \in Todo(v) /\ (worker[v] = "removing" \/ Moving(v))
        BY <1>2, <1>3, <2>3 DEF HotChains
      <4>2. v # w
        BY <1>4, <3>1, <4>1
      <4>3. QED
        BY <1>2, <3>1, <4>1, <4>2 DEF OneRemoves
    <3>2. CASE worker[w] # "removing"
      <4>1. \A v \in Workers : worker[v] # "removing"
        BY <1>3, <2>3, <3>2
      <4>2. QED
        BY <1>2, <1>3, <1>5, <2>3, <4>1 DEF BetweenTiers
    <3>3. QED
      BY <3>1, <3>2
  <2>4. QED
    BY <1>3, <2>1, <2>2, <2>3 DEF BetweenTiers, Inc
<1>18. QED
  BY <1>6, <1>7, <1>8, <1>10, <1>11, <1>12, <1>13, <1>14, <1>15, <1>16, <1>17 DEF ChainParts

LEMMA ColdDeletionKeepsChains ==
    ASSUME RetInv, RetInv', faults = {}, ChainParts, NEW w \in Workers, DeletesCold(w)
    PROVE  ChainParts'
<1> USE DEF Moving, Held, Deletes, Purges
<1>1. /\ TInv /\ made \in Nat /\ Hot \in SUBSET Ids /\ Cold \in SUBSET Ids
      /\ \A a \in Ids : a \in Nat
      /\ \A v \in Workers : Todo(v) \in SUBSET Ids
  BY ChainFacts
<1>2. /\ Bases /\ Newest /\ AllComplete /\ Upward /\ HandsOrdered /\ HotHands /\ MovingHands
      /\ CopyHands /\ OneRemoves /\ ColdHands /\ HotChains /\ ColdChains /\ BetweenTiers
  BY DEF ChainParts
<1> DEFINE h == Head(todo[w])
<1>3. /\ kind' = kind /\ made' = made /\ pc' = pc /\ cold' = cold /\ Same
      /\ \A v \in Workers : v # w =>
           worker'[v] = worker[v] /\ todo'[v] = todo[v] /\ Todo(v)' = Todo(v)
      /\ Hot' = Hot /\ Cold' = Cold \ {h} /\ Todo(w)' = Todo(w) \ {h}
      /\ whole'["HOT"] = whole["HOT"] /\ whole'["COLD"] = whole["COLD"] \ {h}
      /\ todo[w] # <<>> /\ (Ascending(todo[w]) => Ascending(todo'[w]))
      /\ worker[w] \in {"cold", "purging"} /\ worker'[w] = worker[w]
      /\ \A v \in Workers : ~Copying(v, h) => copy'[v] = copy[v]
  BY DEF DeletesCold, Same, Others, TakesHead
<1>4. h \in Todo(w) /\ \A x \in Todo(w) : h <= x
  BY <1>1, <1>2, <1>3, TakenIsLowest
<1>5. /\ \A b \in Hot : h < b
      /\ Inc(h + 1) => /\ h + 1 \notin Hot
                       /\ h + 1 \in Cold => h + 1 \in Todo(w)
      /\ worker[w] = "cold" => \A x \in Todo(w), b \in Cold : b <= x => b \in Todo(w)
  BY <1>2, <1>3, <1>4 DEF ColdHands
<1>6. UsesCold' <=> UsesCold
  BY <1>3 DEF UsesCold
<1>7. h \notin Hot /\ h \in Nat
  BY <1>1, <1>4, <1>5
<1> HIDE DEF h
<1>8. Bases' /\ Newest'
  <2>1. /\ pc' = pc \/ (pc' = "idle" /\ pc = "pruning")
        /\ pc = "decided" => pc' = "decided" /\ (made \in Hot => made \in Hot')
    BY <1>3
  <2>2. QED
    BY <1>2, <1>3, <2>1, RunPartsStay
<1>9. AllComplete'
  BY <1>2, <1>3 DEF AllComplete, Copying
<1>10. Upward' /\ HandsOrdered'
  BY <1>2, <1>3 DEF Upward, Inc, HandsOrdered
<1>11. \A v \in Workers : worker'[v] = worker[v] /\ (v # w => Todo(v)' = Todo(v))
  BY <1>3
<1>12. HotHands'
  <2>1. \A v \in Workers : Deletes(v)' => Deletes(v) /\ Todo(v)' = Todo(v)
    BY <1>3
  <2>2. QED
    BY <1>2, <1>3, <2>1 DEF HotHands, Inc
<1>13. MovingHands'
  <2>1. \A v \in Workers : Moving(v)' => Moving(v) /\ Todo(v)' = Todo(v)
    BY <1>3
  <2>2. QED
    BY <1>2, <1>3, <2>1 DEF MovingHands
<1>14. CopyHands'
  <2>1. SUFFICES ASSUME NEW v \in Workers, worker'[v] \in Held
                 PROVE  /\ worker'[v] = worker[v] /\ todo'[v] = todo[v] /\ copy'[v] = copy[v]
                        /\ Head(todo[v]) \in Hot => Head(todo[v]) \in Hot'
                        /\ Head(todo[v]) \in Cold => Head(todo[v]) \in Cold'
    BY <1>2, CopyHandsStay
  <2>2. v # w /\ worker'[v] = worker[v] /\ todo'[v] = todo[v]
    BY <1>3, <2>1
  <2>3. Head(todo[v]) \in Hot
    BY <1>2, <2>1, <2>2 DEF CopyHands
  <2>4. Head(todo[v]) # h /\ copy'[v] = copy[v]
    BY <1>3, <1>7, <2>3 DEF Copying
  <2>5. QED
    BY <1>3, <2>2, <2>4
<1>15. OneRemoves'
  <2>1. \A v \in Workers : Moving(v)' => Moving(v) /\ Todo(v)' = Todo(v)
    BY <1>3
  <2>2. QED
    BY <1>2, <1>3, <1>11, <2>1 DEF OneRemoves
<1>16. ColdHands'
  <2>1. SUFFICES ASSUME NEW v \in Workers, Purges(v)'
                 PROVE  /\ \A y \in Todo(v)' : y < made' /\ \A b \in Hot' : y < b
                        /\ \A y \in Todo(v)' : Inc(y + 1) => /\ y + 1 \notin Hot'
                                                             /\ y + 1 \in Cold' => y + 1 \in Todo(v)'
                        /\ worker'[v] = "cold" =>
                             \A x \in Todo(v)', b \in Cold' : b <= x => b \in Todo(v)'
    BY <1>3 DEF ColdHands, Inc
  <2>2. /\ Purges(v) /\ Todo(v)' \subseteq Todo(v) /\ Todo(v) \cap Cold' \subseteq Todo(v)'
        /\ worker'[v] = worker[v]
    BY <1>3, <2>1
  <2>3. QED
    BY <1>2, <1>3, <2>2 DEF ColdHands
<1>17. HotChains'
  <2>1. \A v \in Workers : /\ worker[v] = "removing" => worker'[v] = "removing" /\ Todo(v)' = Todo(v)
                           /\ Moving(v) => Moving(v)' /\ Todo(v)' = Todo(v)
    BY <1>3
  <2>2. SUFFICES ASSUME NEW a \in Hot, Inc(a), a - 1 \notin Hot
                 PROVE  \E v \in Workers : a \in Todo(v)' /\
                          (worker'[v] = "removing" \/ (Moving(v)' /\ \A b \in Hot : a <= b))
    BY <1>3 DEF HotChains, Inc
  <2>3. PICK v \in Workers : a \in Todo(v) /\
           (worker[v] = "removing" \/ (Moving(v) /\ \A b \in Hot : a <= b))
    BY <1>2, <2>2 DEF HotChains
  <2>4. QED
    BY <2>1, <2>3
<1>18. ColdChains'
  <2>1. SUFFICES ASSUME NEW a \in Cold', Inc(a), a - 1 \notin Cold'
                 PROVE  \E v \in Workers : a \in Todo(v)' /\
                          (worker'[v] = "purging" \/ (worker'[v] = "cold" /\ \A b \in Cold' : a <= b))
    BY <1>3 DEF ColdChains, Inc
  <2>2. a \in Cold /\ a # h /\ a \in Nat
    BY <1>1, <1>3
  <2>3. CASE a - 1 \in Cold
    <3>1. a = h + 1
      BY <1>1, <1>3, <2>1, <2>2, <2>3
    <3>2. a \in Todo(w) /\ a \in Todo(w)'
      BY <1>3, <1>5, <2>1, <2>2, <3>1
    <3>3. CASE worker[w] = "purging"
      BY <1>3, <3>2, <3>3
    <3>4. CASE worker[w] = "cold"
      <4>1. \A b \in Cold' : a <= b
        <5>1. SUFFICES ASSUME NEW b \in Cold', ~(a <= b) PROVE FALSE
          OBVIOUS
        <5>2. b \in Cold /\ b # h /\ b \in Nat /\ b <= a
          BY <1>1, <1>3, <2>2, <5>1
        <5>3. b \in Todo(w)
          BY <1>5, <3>2, <3>4, <5>2
        <5>4. h <= b
          BY <1>4, <5>3
        <5>5. QED
          BY <1>7, <2>2, <3>1, <5>1, <5>2, <5>4
      <4>2. QED
        BY <1>3, <3>2, <3>4, <4>1
    <3>5. QED
      BY <1>3, <3>3, <3>4
  <2>4. CASE a - 1 \notin Cold
    <3>1. PICK v \in Workers : a \in Todo(v) /\
             (worker[v] = "purging" \/ (worker[v] = "cold" /\ \A b \in Cold : a <= b))
      BY <1>2, <2>1, <2>2, <2>4 DEF ColdChains
    <3>2. a \in Todo(v)' /\ worker'[v] = worker[v]
      BY <1>3, <1>11, <2>2, <3>1
    <3>3. QED
      BY <1>3, <3>1, <3>2
  <2>5. QED
    BY <2>3, <2>4
<1>19. BetweenTiers'
  <2>1. \A a \in Cold' : a < made'
    BY <1>2, <1>3 DEF BetweenTiers
  <2>2. ASSUME NEW a \in Hot' \cap Cold'
        PROVE  \E v \in Workers : worker'[v] \in {"copying", "moved"} /\ Head(todo'[v]) = a
    <3>1. PICK v \in Workers : worker[v] \in {"copying", "moved"} /\ Head(todo[v]) = a
      BY <1>2, <1>3, <2>2 DEF BetweenTiers
    <3>2. v # w
      BY <1>3, <3>1
    <3>3. QED
      BY <1>3, <3>1, <3>2
  <2>3. ASSUME UsesCold', \A v \in Workers : worker'[v] # "removing",
               NEW a \in Hot', Inc(a), a - 1 \notin Hot'
        PROVE  a - 1 \in Cold'
    <3>1. a - 1 \in Cold
      BY <1>2, <1>3, <1>6, <1>11, <2>3 DEF BetweenTiers
    <3>2. a \in Nat /\ a \in Hot
      BY <1>1, <1>3, <2>3
    <3>3. a - 1 = h => a = h + 1
      BY <1>7, <3>2
    <3>4. a - 1 # h
      BY <1>5, <2>3, <3>2, <3>3
    <3>5. QED
      BY <1>3, <3>1, <3>4
  <2>4. QED
    BY <1>3, <2>1, <2>2, <2>3 DEF BetweenTiers, Inc
<1>20. QED
  BY <1>8, <1>9, <1>10, <1>12, <1>13, <1>14, <1>15, <1>16, <1>17, <1>18, <1>19 DEF ChainParts

LEMMA CopyKeepsChains ==
    ASSUME RetInv, RetInv', faults = {}, ChainParts, NEW w \in Workers,
           Opens(w) \/ Fills(w) \/ Ends(w)
    PROVE  ChainParts'
<1> USE DEF Moving, Held, Deletes, Purges
<1>1. /\ TInv /\ made \in Nat /\ Hot \in SUBSET Ids /\ Cold \in SUBSET Ids
      /\ \A a \in Ids : a \in Nat
      /\ \A v \in Workers : Moving(v) => \A x \in Todo(v), b \in Hot : b <= x => b \in Todo(v)
      /\ \A v \in Workers : Todo(v) \in SUBSET Ids
      /\ \A a \in Cold, b \in Hot : a <= b
      /\ OnePrunes
  BY ChainFacts
<1>2. /\ Bases /\ Newest /\ AllComplete /\ Upward /\ HandsOrdered /\ HotHands /\ MovingHands
      /\ CopyHands /\ OneRemoves /\ ColdHands /\ HotChains /\ ColdChains /\ BetweenTiers
  BY DEF ChainParts
<1> DEFINE h == Head(todo[w])
<1>3. /\ kind' = kind /\ made' = made /\ pc' = pc /\ cold' = cold /\ Same
      /\ \A v \in Workers : v # w => worker'[v] = worker[v]
      /\ \A v \in Workers : todo'[v] = todo[v] /\ Todo(v)' = Todo(v)
      /\ Hot' = Hot /\ Cold \subseteq Cold' /\ Cold' \subseteq Cold \cup {h}
      /\ whole'["HOT"] = whole["HOT"] /\ whole["COLD"] \ {h} \subseteq whole'["COLD"]
      /\ todo[w] # <<>> /\ Moving(w) /\ worker'[w] \in Held
  BY DEF Opens, Fills, Ends, Same, Others
\* What is copied is in hot storage, complete, and no other handler copies.
<1>4. h \in Hot
  BY <1>2 DEF Opens, Fills, Ends, CopyHands
<1>5. \A v \in Workers : v # w => worker[v] \notin Held
  BY <1>1, <1>3 DEF OnePrunes, Prunes
<1>6. \/ Opens(w) /\ worker[w] = "hot" /\ worker'[w] = "opened" /\ Cold' = Cold
      \/ Fills(w) /\ worker[w] \in Copiers /\ worker'[w] = "copying" /\ h \in Cold'
      \/ Ends(w) /\ worker[w] = "copying" /\ worker'[w] = "moved" /\ h \in Cold'
  BY <1>2 DEF Opens, Fills, Ends, CopyHands, Copiers
<1>7. UsesCold /\ UsesCold'
  <2>1. UsesCold
    BY <1>1, <1>6 DEF TInv, CopiesTyped, Opens, Copiers
  <2>2. QED
    BY <1>3, <2>1 DEF UsesCold
<1>8. h \in Todo(w) /\ \A x \in Todo(w) : h <= x
  BY <1>1, <1>2, <1>3, TakenIsLowest
<1>9. Head(todo'[w]) = h
  BY <1>3
<1>10. Ends(w) => h \in whole'["COLD"]
  BY <1>2, <1>6 DEF Ends, CopyHands, Copiers
<1>11. worker'[w] = "opened" => whole'["COLD"] = whole["COLD"] /\ worker[w] = "hot"
  BY <1>6 DEF Opens
<1>12. worker'[w] \in Copiers /\ h \in whole["HOT"] => copy'[w] = "whole"
  BY <1>2, <1>6 DEF Opens, Fills, CopyHands, Copiers
<1>13. \A v \in Workers, a \in Ids : Copying(v, a) => v = w /\ a = h
  BY <1>5 DEF Copying
<1> HIDE DEF h
<1>14. h < made /\ h \in Nat /\ h \in whole["HOT"]
  <2>1. h < made /\ h \in Nat
    BY <1>1, <1>2, <1>3, <1>8 DEF MovingHands
  <2>2. h # made
    BY <1>1, <2>1
  <2>3. QED
    BY <1>2, <1>4, <2>1, <2>2 DEF AllComplete
\* Nothing is removed meanwhile, so that its predecessor has been moved.
<1>15. Inc(h) => h - 1 \in Cold
  <2>1. SUFFICES ASSUME Inc(h) PROVE h - 1 \in Cold
    OBVIOUS
  <2>2. h - 1 \notin Hot
    <3>1. SUFFICES ASSUME h - 1 \in Hot PROVE FALSE
      OBVIOUS
    <3>2. h - 1 \in Todo(w)
      BY <1>2, <1>3, <1>8, <2>1, <3>1 DEF HotHands
    <3>3. QED
      BY <1>8, <1>14, <3>2
  <2>3. \A v \in Workers : worker[v] # "removing"
    BY <1>2, <1>3, <1>8 DEF OneRemoves
  <2>4. QED
    BY <1>2, <1>4, <1>7, <2>1, <2>2, <2>3 DEF BetweenTiers
<1>16. Bases' /\ Newest'
  <2>1. /\ pc' = pc \/ (pc' = "idle" /\ pc = "pruning")
        /\ pc = "decided" => pc' = "decided" /\ (made \in Hot => made \in Hot')
    BY <1>3
  <2>2. QED
    BY <1>2, <1>3, <2>1, RunPartsStay
<1>17. AllComplete'
  <2>1. ASSUME NEW a \in Cold'
        PROVE  a \in whole'["COLD"] \/ \E v \in Workers : worker'[v] = "copying" /\ Head(todo'[v]) = a
    <3>1. CASE a = h /\ worker'[w] # "opened"
      BY <1>6, <1>9, <1>10, <3>1
    <3>2. CASE a # h \/ worker'[w] = "opened"
      <4>1. a \in Cold /\ a \in Ids
        BY <1>1, <1>3, <1>6, <3>2
      <4>2. ~ \E v \in Workers : Copying(v, a)
        <5>1. SUFFICES ASSUME NEW v \in Workers, Copying(v, a) PROVE FALSE
          OBVIOUS
        <5>2. v = w /\ a = h
          BY <1>13, <4>1, <5>1
        <5>3. QED
          BY <1>11, <3>2, <5>1, <5>2 DEF Copying
      <4>3. a \in whole["COLD"]
        BY <1>2, <4>1, <4>2 DEF AllComplete
      <4>4. QED
        BY <1>3, <1>6, <1>11, <3>2, <4>3
    <3>3. QED
      BY <3>1, <3>2
  <2>2. QED
    BY <1>2, <1>3, <2>1 DEF AllComplete, Copying
<1>18. Upward' /\ HandsOrdered'
  BY <1>2, <1>3 DEF Upward, Inc, HandsOrdered
<1>19. \A v \in Workers : /\ Deletes(v)' => Deletes(v)
                          /\ Moving(v)' <=> Moving(v)
                          /\ worker'[v] \in {"removing", "cold", "purging"} => worker'[v] = worker[v]
                          /\ worker[v] \in {"removing", "cold", "purging"} => worker'[v] = worker[v]
  BY <1>3
<1>20. HotHands'
  BY <1>2, <1>3, <1>19 DEF HotHands, Inc
<1>21. MovingHands'
  <2>1. ASSUME NEW v \in Workers, Moving(v)', NEW x \in Todo(v)'
        PROVE  x < made'
    <3>1. Moving(v) /\ x \in Todo(v)
      BY <1>3, <1>19, <2>1
    <3>2. QED
      BY <1>2, <1>3, <3>1 DEF MovingHands
  <2>2. QED
    BY <2>1 DEF MovingHands
<1>22. CopyHands'
  <2>1. \A v \in Workers : worker'[v] \in Held => v = w
    BY <1>3, <1>5
  <2>2. Head(todo'[w]) \in Hot' /\ (worker'[w] \in {"copying", "moved"} => Head(todo'[w]) \in Cold')
    BY <1>3, <1>4, <1>6, <1>9
  <2>3. worker'[w] \in Copiers => copy'[w] = "whole"
    BY <1>12, <1>14
  <2>4. QED
    BY <2>1, <2>2, <2>3 DEF CopyHands, Copiers
<1>23. OneRemoves'
  BY <1>2, <1>3, <1>19 DEF OneRemoves
<1>24. ColdHands'
  <2>1. SUFFICES ASSUME NEW v \in Workers, Purges(v)'
                 PROVE  /\ \A y \in Todo(v) : y < made /\ \A b \in Hot : y < b
                        /\ \A y \in Todo(v) : Inc(y + 1) => /\ y + 1 \notin Hot
                                                            /\ y + 1 \in Cold' => y + 1 \in Todo(v)
                        /\ worker'[v] = "cold" =>
                             \A x \in Todo(v), b \in Cold' : b <= x => b \in Todo(v)
    BY <1>3 DEF ColdHands, Inc
  <2>2. Purges(v) /\ worker'[v] = worker[v]
    BY <1>19, <2>1
  <2>3. /\ \A y \in Todo(v) : y < made /\ \A b \in Hot : y < b
        /\ \A y \in Todo(v) : Inc(y + 1) => /\ y + 1 \notin Hot
                                            /\ y + 1 \in Cold => y + 1 \in Todo(v)
        /\ worker[v] = "cold" => \A x \in Todo(v), b \in Cold : b <= x => b \in Todo(v)
    BY <1>2, <2>2 DEF ColdHands
  <2>4. \A x \in Todo(v) : ~(h <= x)
    <3>1. SUFFICES ASSUME NEW x \in Todo(v) PROVE ~(h <= x)
      OBVIOUS
    <3>2. x < h /\ x \in Nat
      BY <1>1, <1>4, <2>3
    <3>3. QED
      BY <1>14, <3>2
  <2>5. QED
    BY <1>3, <1>4, <2>2, <2>3, <2>4
<1>25. HotChains'
  <2>1. SUFFICES ASSUME NEW a \in Hot, Inc(a), a - 1 \notin Hot
                 PROVE  \E v \in Workers : a \in Todo(v) /\
                          (worker'[v] = "removing" \/ (Moving(v)' /\ \A b \in Hot : a <= b))
    BY <1>3 DEF HotChains, Inc
  <2>2. PICK v \in Workers : a \in Todo(v) /\
           (worker[v] = "removing" \/ (Moving(v) /\ \A b \in Hot : a <= b))
    BY <1>2, <2>1 DEF HotChains
  <2>3. QED
    BY <1>19, <2>2
<1>26. ColdChains'
  <2>1. SUFFICES ASSUME NEW a \in Cold', Inc(a), a - 1 \notin Cold'
                 PROVE  \E v \in Workers : a \in Todo(v) /\
                          (worker'[v] = "purging" \/ (worker'[v] = "cold" /\ \A b \in Cold' : a <= b))
    BY <1>3 DEF ColdChains, Inc
  <2>2. a \in Cold /\ a - 1 \notin Cold
    BY <1>3, <1>15, <2>1
  <2>3. PICK v \in Workers : a \in Todo(v) /\
           (worker[v] = "purging" \/ (worker[v] = "cold" /\ \A b \in Cold : a <= b))
    BY <1>2, <2>1, <2>2 DEF ColdChains
  <2>4. a <= h
    BY <1>1, <1>4, <2>2
  <2>5. QED
    BY <1>3, <1>19, <2>3, <2>4
<1>27. BetweenTiers'
  <2>1. \A a \in Cold' : a < made'
    BY <1>2, <1>3, <1>14 DEF BetweenTiers
  <2>2. ASSUME NEW a \in Hot' \cap Cold'
        PROVE  \E v \in Workers : worker'[v] \in {"copying", "moved"} /\ Head(todo'[v]) = a
    <3>1. CASE a \in Cold
      <4>1. PICK v \in Workers : worker[v] \in {"copying", "moved"} /\ Head(todo[v]) = a
        BY <1>2, <1>3, <2>2, <3>1 DEF BetweenTiers
      <4>2. v = w
        BY <1>5, <4>1
      <4>3. QED
        BY <1>3, <1>6, <4>1, <4>2
    <3>2. CASE a \notin Cold
      BY <1>3, <1>6, <1>9, <2>2, <3>2
    <3>3. QED
      BY <3>1, <3>2
  <2>3. ASSUME \A v \in Workers : worker'[v] # "removing", NEW a \in Hot', Inc(a), a - 1 \notin Hot'
        PROVE  a - 1 \in Cold'
    BY <1>2, <1>3, <1>7, <1>19, <2>3 DEF BetweenTiers
  <2>4. QED
    BY <1>3, <2>1, <2>2, <2>3 DEF BetweenTiers, Inc
<1>28. QED
  BY <1>16, <1>17, <1>18, <1>20, <1>21, <1>22, <1>23, <1>24, <1>25, <1>26, <1>27 DEF ChainParts

LEMMA HotListKeepsChains ==
    ASSUME RetInv, RetInv', faults = {}, ChainParts, NEW w \in Workers, ListsHot(w)
    PROVE  ChainParts'
<1> USE DEF Moving, Held, Deletes, Purges
<1>1. /\ TInv /\ made \in Nat /\ Hot \in SUBSET Ids /\ Hot \subseteq 1 .. made
      /\ \A a \in Ids : a \in Nat /\ (kind[a] = "FULL" <=> ~Inc(a))
      /\ Ascending(files["HOT"]) /\ RetentionCount \in Nat /\ HotKept
  BY ChainFacts, CountFacts
<1>2. /\ Bases /\ Newest /\ AllComplete /\ Upward /\ HandsOrdered /\ HotHands /\ MovingHands
      /\ CopyHands /\ OneRemoves /\ ColdHands /\ HotChains /\ ColdChains /\ BetweenTiers
  BY DEF ChainParts
<1>3. /\ kind' = kind /\ made' = made /\ pc' = pc /\ cold' = cold /\ Same
      /\ \A v \in Workers : v # w =>
           worker'[v] = worker[v] /\ todo'[v] = todo[v] /\ Todo(v)' = Todo(v)
      /\ Hot' = Hot /\ Cold' = Cold /\ whole' = whole /\ copy' = copy
      /\ worker[w] = "idle" /\ worker'[w] = "hot"
      /\ Ascending(todo'[w])
      /\ UsesCold' <=> UsesCold
  BY <1>1 DEF ListsHot, Same, Others, UsesCold
<1>4. Todo(w)' = IF RetentionCount = 0 THEN {}
                 ELSE {a \in Hot : Cardinality(Younger(Hot, a)) >= RetentionCount}
  BY <1>1 DEF ListsHot
<1>5. Todo(w) = {}
  BY <1>1, <1>3, HandFacts
<1>6. \A y \in Todo(w)' : Inc(y) /\ y - 1 \in Hot => y - 1 \in Todo(w)'
  <2>1. SUFFICES ASSUME NEW y \in Todo(w)', Inc(y), NEW x \in Hot, x = y - 1
                 PROVE  x \in Todo(w)'
    OBVIOUS
  <2>2. y \in Hot /\ Cardinality(Younger(Hot, y)) >= RetentionCount /\ RetentionCount # 0
    BY <1>4
  <2>3. x <= y
    BY <1>1, <2>1, <2>2
  <2>4. Cardinality(Younger(Hot, x)) >= RetentionCount
    BY <1>1, <2>2, <2>3, YoungerGrows
  <2>5. QED
    BY <1>4, <2>2, <2>4
<1>7. \A x \in Todo(w)' : x + 1 \in Hot /\ Inc(x + 1) => x + 1 \in Todo(w)'
  <2>1. SUFFICES ASSUME NEW x \in Todo(w)', x + 1 \in Hot, Inc(x + 1)
                 PROVE  x + 1 \in Todo(w)'
    OBVIOUS
  <2>2. x \in Hot /\ Cardinality(Younger(Hot, x)) >= RetentionCount /\ RetentionCount # 0
    BY <1>4
  <2>3. kind[x + 1] # "FULL"
    BY <1>1, <2>1
  <2>4. Cardinality(Younger(Hot, x + 1)) >= RetentionCount
    BY <1>1, <2>1, <2>2, <2>3, IncrementsExpire
  <2>5. QED
    BY <1>4, <2>1, <2>2, <2>4
<1>8. \A x \in Todo(w)' : x < made
  <2>1. SUFFICES ASSUME NEW x \in Todo(w)' PROVE x < made
    OBVIOUS
  <2>2. x \in Hot /\ Cardinality(Younger(Hot, x)) >= RetentionCount /\ RetentionCount > 0
    BY <1>1, <1>4
  <2>3. PICK z \in Hot : x < z
    BY <1>1, <2>2, FullFollows
  <2>4. QED
    BY <1>1, <2>2, <2>3
<1>9. pc = "idle" => Todo(w)' = {}
  <2>1. SUFFICES ASSUME pc = "idle", NEW x \in Todo(w)' PROVE FALSE
    OBVIOUS
  <2>2. x \in Hot /\ Cardinality(Younger(Hot, x)) >= RetentionCount /\ RetentionCount > 0
    BY <1>1, <1>4
  <2>3. Cardinality(Heads(Hot)) <= RetentionCount
    BY <1>1, <2>1, <2>2 DEF HotKept, HotChainCount
  <2>4. QED
    BY <1>1, <2>2, <2>3, NoneExpired
<1>10. Bases' /\ Newest'
  <2>1. /\ pc' = pc \/ (pc' = "idle" /\ pc = "pruning")
        /\ pc = "decided" => pc' = "decided" /\ (made \in Hot => made \in Hot')
    BY <1>3
  <2>2. QED
    BY <1>2, <1>3, <2>1, RunPartsStay
<1>11. Upward' /\ HandsOrdered'
  BY <1>2, <1>3 DEF Upward, Inc, HandsOrdered
<1>12. AllComplete'
  BY <1>2, <1>3 DEF AllComplete, Copying
<1>13. CopyHands'
  <2>1. \A v \in Workers : worker'[v] \in Held =>
          worker'[v] = worker[v] /\ todo'[v] = todo[v] /\ copy'[v] = copy[v]
    BY <1>3
  <2>2. QED
    BY <1>2, <1>3, <2>1, CopyHandsStay
<1>14. HotHands'
  <2>1. SUFFICES ASSUME NEW v \in Workers, Deletes(v)'
                 PROVE  /\ \A y \in Todo(v)' : Inc(y) /\ y - 1 \in Hot => y - 1 \in Todo(v)'
                        /\ \A x \in Todo(v)' : x + 1 \in Hot /\ Inc(x + 1) => x + 1 \in Todo(v)'
    BY <1>3 DEF HotHands, Inc
  <2>2. CASE v = w
    BY <1>6, <1>7, <2>2
  <2>3. CASE v # w
    BY <1>2, <1>3, <2>1, <2>3 DEF HotHands
  <2>4. QED
    BY <2>2, <2>3
<1>15. MovingHands'
  <2>1. SUFFICES ASSUME NEW v \in Workers
                 PROVE  Moving(v)' => \A x \in Todo(v)' : x < made
    BY <1>3 DEF MovingHands
  <2>2. CASE v = w
    BY <1>3, <1>8, <2>2
  <2>3. CASE v # w
    BY <1>2, <1>3, <2>3 DEF MovingHands
  <2>4. QED
    BY <2>2, <2>3
<1>16. OneRemoves'
  <2>1. SUFFICES ASSUME NEW v \in Workers, worker'[v] = "removing"
                 PROVE  /\ pc = "idle"
                        /\ \A u \in Workers : u # v =>
                             worker'[u] # "removing" /\ (Moving(u)' => Todo(u)' = {})
    BY <1>3 DEF OneRemoves
  <2>2. v # w /\ worker[v] = "removing"
    BY <1>3, <2>1
  <2>3. pc = "idle"
    BY <1>2, <2>2 DEF OneRemoves
  <2>4. QED
    BY <1>2, <1>3, <1>9, <2>2, <2>3 DEF OneRemoves
<1>17. ColdHands'
  <2>1. \A v \in Workers : Purges(v)' => Purges(v) /\ Todo(v)' = Todo(v) /\ worker'[v] = worker[v]
    BY <1>3
  <2>2. QED
    BY <1>2, <1>3, <2>1 DEF ColdHands, Inc
<1>18. HotChains'
  <2>1. SUFFICES ASSUME NEW a \in Hot, Inc(a), a - 1 \notin Hot
                 PROVE  \E v \in Workers : a \in Todo(v)' /\
                          (worker'[v] = "removing" \/ (Moving(v)' /\ \A b \in Hot : a <= b))
    BY <1>3 DEF HotChains, Inc
  <2>2. PICK v \in Workers : a \in Todo(v) /\
           (worker[v] = "removing" \/ (Moving(v) /\ \A b \in Hot : a <= b))
    BY <1>2, <2>1 DEF HotChains
  <2>3. v # w
    BY <1>3, <2>2
  <2>4. QED
    BY <1>3, <2>2, <2>3
<1>19. ColdChains'
  <2>1. SUFFICES ASSUME NEW a \in Cold, Inc(a), a - 1 \notin Cold
                 PROVE  \E v \in Workers : a \in Todo(v)' /\
                          (worker'[v] = "purging" \/ (worker'[v] = "cold" /\ \A b \in Cold : a <= b))
    BY <1>3 DEF ColdChains, Inc
  <2>2. PICK v \in Workers : a \in Todo(v) /\
           (worker[v] = "purging" \/ (worker[v] = "cold" /\ \A b \in Cold : a <= b))
    BY <1>2, <2>1 DEF ColdChains
  <2>3. v # w
    BY <1>3, <2>2
  <2>4. QED
    BY <1>3, <2>2, <2>3
<1>20. BetweenTiers'
  <2>1. ASSUME NEW a \in Hot' \cap Cold'
        PROVE  \E v \in Workers : worker'[v] \in {"copying", "moved"} /\ Head(todo'[v]) = a
    <3>1. PICK v \in Workers : worker[v] \in {"copying", "moved"} /\ Head(todo[v]) = a
      BY <1>2, <1>3, <2>1 DEF BetweenTiers
    <3>2. v # w
      BY <1>3, <3>1
    <3>3. QED
      BY <1>3, <3>1, <3>2
  <2>2. (\A v \in Workers : worker'[v] # "removing") => \A v \in Workers : worker[v] # "removing"
    BY <1>3
  <2>3. QED
    BY <1>2, <1>3, <2>1, <2>2 DEF BetweenTiers, Inc
<1>21. QED
  BY <1>10, <1>11, <1>12, <1>13, <1>14, <1>15, <1>16, <1>17, <1>18, <1>19, <1>20 DEF ChainParts

LEMMA ColdListKeepsChains ==
    ASSUME RetInv, RetInv', faults = {}, ChainParts, NEW w \in Workers, ListsCold(w)
    PROVE  ChainParts'
<1> USE DEF Moving, Held, Deletes, Purges
<1>1. /\ TInv /\ made \in Nat /\ Hot \in SUBSET Ids /\ Cold \in SUBSET Ids
      /\ \A a \in Ids : a \in Nat /\ (kind[a] = "FULL" <=> ~Inc(a))
      /\ Ascending(files["COLD"]) /\ cold \in Nat
      /\ \A a \in Cold, b \in Hot : a <= b
  BY ChainFacts, CountFacts
<1>2. /\ Bases /\ Newest /\ AllComplete /\ Upward /\ HandsOrdered /\ HotHands /\ MovingHands
      /\ CopyHands /\ OneRemoves /\ ColdHands /\ HotChains /\ ColdChains /\ BetweenTiers
  BY DEF ChainParts
<1>3. /\ kind' = kind /\ made' = made /\ pc' = pc /\ cold' = cold /\ Same
      /\ \A v \in Workers : v # w =>
           worker'[v] = worker[v] /\ todo'[v] = todo[v] /\ Todo(v)' = Todo(v)
      /\ Hot' = Hot /\ Cold' = Cold /\ whole' = whole /\ copy' = copy
      /\ worker[w] = "hot" /\ worker'[w] = "cold" /\ cold > 0
      /\ Ascending(todo'[w])
      /\ Todo(w)' = {a \in Cold : Cardinality(Younger(Cold, a)) >= cold}
      /\ UsesCold' <=> UsesCold
  BY <1>1 DEF ListsCold, Same, Others, UsesCold
<1>4. Todo(w) = {}
  BY <1>1, HandFacts DEF ListsCold
\* A FULL archive in cold storage follows, so that hot storage holds only younger files.
<1>5. ASSUME NEW y \in Todo(w)'
      PROVE  /\ y \in Cold /\ y < made /\ \A b \in Hot : y < b
             /\ Inc(y + 1) => /\ y + 1 \notin Hot
                              /\ y + 1 \in Cold => y + 1 \in Todo(w)'
  <2>1. y \in Cold /\ Cardinality(Younger(Cold, y)) >= cold
    BY <1>3, <1>5
  <2>2. PICK z \in Cold : y < z /\ kind[z] = "FULL"
    BY <1>1, <1>3, <2>1, FullFollows
  <2>3. y \in Nat /\ z \in Nat /\ z < made /\ \A b \in Hot : z <= b /\ b \in Nat
    BY <1>1, <1>2, <2>1, <2>2 DEF BetweenTiers
  <2>4. Inc(y + 1) => y + 1 # z
    BY <1>1, <2>2
  <2>5. Inc(y + 1) => y + 1 \notin Hot
    BY <2>2, <2>3, <2>4
  <2>6. Inc(y + 1) /\ y + 1 \in Cold => y + 1 \in Todo(w)'
    <3>1. SUFFICES ASSUME Inc(y + 1), y + 1 \in Cold PROVE y + 1 \in Todo(w)'
      OBVIOUS
    <3>2. kind[y + 1] # "FULL"
      BY <1>1, <3>1
    <3>3. Cardinality(Younger(Cold, y + 1)) >= cold
      BY <1>1, <2>1, <3>1, <3>2, IncrementsExpire
    <3>4. QED
      BY <1>3, <3>1, <3>3
  <2>7. QED
    BY <1>1, <2>1, <2>2, <2>3, <2>5, <2>6
<1>6. \A x \in Todo(w)', b \in Cold : b <= x => b \in Todo(w)'
  BY <1>1, <1>3, YoungerGrows
<1>7. Bases' /\ Newest'
  <2>1. /\ pc' = pc \/ (pc' = "idle" /\ pc = "pruning")
        /\ pc = "decided" => pc' = "decided" /\ (made \in Hot => made \in Hot')
    BY <1>3
  <2>2. QED
    BY <1>2, <1>3, <2>1, RunPartsStay
<1>8. Upward' /\ HandsOrdered'
  BY <1>2, <1>3 DEF Upward, Inc, HandsOrdered
<1>9. AllComplete'
  BY <1>2, <1>3 DEF AllComplete, Copying
<1>10. CopyHands'
  <2>1. \A v \in Workers : worker'[v] \in Held =>
          worker'[v] = worker[v] /\ todo'[v] = todo[v] /\ copy'[v] = copy[v]
    BY <1>3
  <2>2. QED
    BY <1>2, <1>3, <2>1, CopyHandsStay
<1>11. \A v \in Workers : Deletes(v)' => v # w /\ Deletes(v) /\ Todo(v)' = Todo(v)
  BY <1>3
<1>12. HotHands'
  BY <1>2, <1>3, <1>11 DEF HotHands, Inc
<1>13. MovingHands'
  BY <1>2, <1>3, <1>11 DEF MovingHands
<1>14. OneRemoves'
  <2>1. \A v \in Workers : /\ worker'[v] = "removing" <=> worker[v] = "removing"
                           /\ Moving(v)' => Moving(v) /\ Todo(v)' = Todo(v)
    BY <1>3
  <2>2. QED
    BY <1>2, <1>3, <2>1 DEF OneRemoves
<1>15. ColdHands'
  <2>1. SUFFICES ASSUME NEW v \in Workers, Purges(v)'
                 PROVE  /\ \A y \in Todo(v)' : y < made /\ \A b \in Hot : y < b
                        /\ \A y \in Todo(v)' : Inc(y + 1) => /\ y + 1 \notin Hot
                                                             /\ y + 1 \in Cold => y + 1 \in Todo(v)'
                        /\ worker'[v] = "cold" =>
                             \A x \in Todo(v)', b \in Cold : b <= x => b \in Todo(v)'
    BY <1>3 DEF ColdHands, Inc
  <2>2. CASE v = w
    BY <1>5, <1>6, <2>2
  <2>3. CASE v # w
    BY <1>2, <1>3, <2>1, <2>3 DEF ColdHands
  <2>4. QED
    BY <2>2, <2>3
<1>16. HotChains'
  <2>1. SUFFICES ASSUME NEW a \in Hot, Inc(a), a - 1 \notin Hot
                 PROVE  \E v \in Workers : a \in Todo(v)' /\
                          (worker'[v] = "removing" \/ (Moving(v)' /\ \A b \in Hot : a <= b))
    BY <1>3 DEF HotChains, Inc
  <2>2. PICK v \in Workers : a \in Todo(v) /\
           (worker[v] = "removing" \/ (Moving(v) /\ \A b \in Hot : a <= b))
    BY <1>2, <2>1 DEF HotChains
  <2>3. v # w
    BY <1>4, <2>2
  <2>4. QED
    BY <1>3, <2>2, <2>3
<1>17. ColdChains'
  <2>1. SUFFICES ASSUME NEW a \in Cold, Inc(a), a - 1 \notin Cold
                 PROVE  \E v \in Workers : a \in Todo(v)' /\
                          (worker'[v] = "purging" \/ (worker'[v] = "cold" /\ \A b \in Cold : a <= b))
    BY <1>3 DEF ColdChains, Inc
  <2>2. PICK v \in Workers : a \in Todo(v) /\
           (worker[v] = "purging" \/ (worker[v] = "cold" /\ \A b \in Cold : a <= b))
    BY <1>2, <2>1 DEF ColdChains
  <2>3. v # w
    BY <1>3, <2>2
  <2>4. QED
    BY <1>3, <2>2, <2>3
<1>18. BetweenTiers'
  <2>1. ASSUME NEW a \in Hot' \cap Cold'
        PROVE  \E v \in Workers : worker'[v] \in {"copying", "moved"} /\ Head(todo'[v]) = a
    <3>1. PICK v \in Workers : worker[v] \in {"copying", "moved"} /\ Head(todo[v]) = a
      BY <1>2, <1>3, <2>1 DEF BetweenTiers
    <3>2. v # w
      BY <1>3, <3>1
    <3>3. QED
      BY <1>3, <3>1, <3>2
  <2>2. (\A v \in Workers : worker'[v] # "removing") => \A v \in Workers : worker[v] # "removing"
    BY <1>3
  <2>3. QED
    BY <1>2, <1>3, <2>1, <2>2 DEF BetweenTiers, Inc
<1>19. QED
  BY <1>7, <1>8, <1>9, <1>10, <1>12, <1>13, <1>14, <1>15, <1>16, <1>17, <1>18 DEF ChainParts

LEMMA RemovalKeepsChains ==
    ASSUME RetInv, RetInv', faults = {}, ChainParts, Removes \subseteq {"FULL"},
           NEW c \in Clients, NEW a \in Ids, RemoveBackup(c, a)
    PROVE  ChainParts'
<1> USE DEF Moving, Held, Deletes, Purges
<1>1. /\ TInv /\ made \in Nat /\ Hot \in SUBSET Ids /\ Cold \in SUBSET Ids
      /\ \A x \in Ids : x \in Nat /\ (kind[x] = "FULL" <=> ~Inc(x))
      /\ Ascending(files["HOT"]) /\ Ascending(files["COLD"])
      /\ \A x \in Cold, b \in Hot : x <= b
  BY ChainFacts
<1>2. /\ Bases /\ Newest /\ AllComplete /\ Upward /\ HandsOrdered /\ HotHands /\ MovingHands
      /\ CopyHands /\ OneRemoves /\ ColdHands /\ HotChains /\ ColdChains /\ BetweenTiers
  BY DEF ChainParts
<1>3. pc = "idle" /\ kind[a] = "FULL" /\ ~Inc(a) /\ \A v \in Workers : worker[v] = "idle"
  BY <1>1 DEF RemoveBackup
<1>4. /\ kind' = kind /\ made' = made /\ pc' = pc /\ cold' = cold /\ Same
      /\ \A v \in Workers : v # c =>
           worker'[v] = worker[v] /\ todo'[v] = todo[v] /\ Todo(v)' = Todo(v)
      /\ Hot' = Hot /\ Cold' = Cold /\ whole' = whole
      /\ c \in Workers /\ a \in Hot \cup Cold
      /\ worker'[c] = IF a \in Hot THEN "removing" ELSE "purging"
      /\ UsesCold' <=> UsesCold
  BY <1>1, RemoveEffect DEF Same, Others, UsesCold
<1> DEFINE A == IF a \in Hot THEN Hot ELSE Cold
<1>5. /\ Ascending(todo'[c])
      /\ Todo(c)' = {x \in A : a <= x /\ \A b \in A : a < b /\ b <= x => kind[b] # "FULL"}
  BY <1>1, <1>3, RemoveEffect
<1>6. A \in SUBSET Ids /\ a \in A
  BY <1>1, <1>4
<1>7. (a \in Hot => A = Hot) /\ (a \notin Hot => A = Cold)
  OBVIOUS
<1> HIDE DEF A
\* The chain is taken as a whole.
<1>8. \A y \in Todo(c)' : Inc(y) /\ y - 1 \in A => y - 1 \in Todo(c)'
  <2>1. SUFFICES ASSUME NEW y \in Todo(c)', Inc(y), NEW x \in A, x = y - 1
                 PROVE  x \in Todo(c)'
    OBVIOUS
  <2>2. /\ y \in A /\ a <= y /\ y \in Nat /\ x \in Nat /\ a \in Nat
        /\ \A b \in A : a < b /\ b <= y => kind[b] # "FULL"
    BY <1>1, <1>5, <1>6, <2>1
  <2>3. a # y
    BY <1>3, <2>1
  <2>4. a <= x /\ \A b \in A : b <= x => b <= y
    <3>1. \A b \in A : b \in Nat
      BY <1>1, <1>6
    <3>2. QED
      BY <2>1, <2>2, <2>3, <3>1
  <2>5. QED
    BY <1>5, <2>2, <2>4
<1>9. \A x \in Todo(c)' : x + 1 \in A /\ Inc(x + 1) => x + 1 \in Todo(c)'
  <2>1. SUFFICES ASSUME NEW x \in Todo(c)', NEW y \in A, y = x + 1, Inc(y)
                 PROVE  y \in Todo(c)'
    OBVIOUS
  <2>2. /\ x \in A /\ a <= x /\ y \in Nat /\ x \in Nat /\ a \in Nat /\ kind[y] # "FULL"
        /\ \A b \in A : a < b /\ b <= x => kind[b] # "FULL"
    BY <1>1, <1>5, <1>6, <2>1
  <2>3. a <= y /\ \A b \in A : b <= y => b <= x \/ b = y
    <3>1. \A b \in A : b \in Nat
      BY <1>1, <1>6
    <3>2. QED
      BY <2>1, <2>2, <3>1
  <2>4. QED
    BY <1>5, <2>2, <2>3
<1>10. Hot \cap Cold = {}
  BY <1>2, <1>3 DEF BetweenTiers
<1>11. \A x \in Hot : Inc(x) => x - 1 \in Hot
  BY <1>2, <1>3 DEF HotChains
<1>12. \A x \in Cold : Inc(x) => x - 1 \in Cold
  BY <1>2, <1>3 DEF ColdChains
<1>13. Bases' /\ Newest'
  <2>1. /\ pc' = pc \/ (pc' = "idle" /\ pc = "pruning")
        /\ pc = "decided" => pc' = "decided" /\ (made \in Hot => made \in Hot')
    BY <1>4
  <2>2. QED
    BY <1>2, <1>4, <2>1, RunPartsStay
<1>14. Upward'
  BY <1>2, <1>4 DEF Upward, Inc
<1>15. AllComplete' /\ CopyHands'
  <2>1. \A v \in Workers : worker[v] # "copying" /\ worker'[v] \notin Held
    BY <1>3, <1>4
  <2>2. AllComplete'
    BY <1>2, <1>4, <2>1 DEF AllComplete, Copying
  <2>3. QED
    BY <1>2, <2>1, <2>2, CopyHandsStay
<1>16. HandsOrdered'
  BY <1>2, <1>4, <1>5 DEF HandsOrdered
<1>17. HotHands'
  <2>1. SUFFICES ASSUME NEW v \in Workers, Deletes(v)'
                 PROVE  /\ \A y \in Todo(v)' : Inc(y) /\ y - 1 \in Hot => y - 1 \in Todo(v)'
                        /\ \A x \in Todo(v)' : x + 1 \in Hot /\ Inc(x + 1) => x + 1 \in Todo(v)'
    BY <1>4 DEF HotHands, Inc
  <2>2. v = c /\ a \in Hot
    BY <1>3, <1>4, <2>1
  <2>3. QED
    BY <1>7, <1>8, <1>9, <2>2
<1>18. MovingHands'
  <2>1. \A v \in Workers : ~Moving(v)'
    BY <1>3, <1>4
  <2>2. QED
    BY <2>1 DEF MovingHands
<1>19. OneRemoves'
  <2>1. \A v \in Workers : ~Moving(v)' /\ (v # c => worker'[v] # "removing")
    BY <1>3, <1>4
  <2>2. pc' = "idle"
    BY <1>3, <1>4
  <2>3. QED
    BY <2>1, <2>2 DEF OneRemoves
<1>20. ColdHands'
  <2>1. SUFFICES ASSUME NEW v \in Workers, Purges(v)'
                 PROVE  /\ \A y \in Todo(v)' : y < made /\ \A b \in Hot : y < b
                        /\ \A y \in Todo(v)' : Inc(y + 1) => /\ y + 1 \notin Hot
                                                             /\ y + 1 \in Cold => y + 1 \in Todo(v)'
                        /\ worker'[v] = "cold" =>
                             \A x \in Todo(v)', b \in Cold : b <= x => b \in Todo(v)'
    BY <1>4 DEF ColdHands, Inc
  <2>2. v = c /\ A = Cold /\ worker'[v] = "purging"
    BY <1>3, <1>4, <1>7, <2>1
  <2>3. Todo(c)' \subseteq Cold
    BY <1>5, <2>2
  <2>4. ASSUME NEW y \in Todo(c)'
        PROVE  /\ y < made /\ (Inc(y + 1) => y + 1 \notin Hot) /\ \A b \in Hot : y < b
    <3>1. y \in Cold /\ y \notin Hot /\ y < made /\ y \in Nat
      BY <1>1, <1>2, <1>10, <2>3, <2>4 DEF BetweenTiers
    <3>2. \A b \in Hot : y <= b /\ b # y /\ b \in Nat
      BY <1>1, <3>1
    <3>3. Inc(y + 1) /\ y + 1 \in Hot => y + 1 - 1 \in Hot /\ y + 1 - 1 = y
      BY <1>11, <3>1
    <3>4. QED
      BY <3>1, <3>2, <3>3
  <2>5. QED
    BY <1>9, <2>2, <2>4
<1>21. HotChains'
  BY <1>4, <1>11 DEF HotChains, Inc
<1>22. ColdChains'
  BY <1>4, <1>12 DEF ColdChains, Inc
<1>23. BetweenTiers'
  BY <1>2, <1>4, <1>10, <1>11 DEF BetweenTiers, Inc
<1>24. QED
  BY <1>13, <1>14, <1>15, <1>16, <1>17, <1>18, <1>19, <1>20, <1>21, <1>22, <1>23 DEF ChainParts

\* The run decides for an INC when the youngest FULL archive is in hot storage: then the
\* newest archive is there as well.
LEMMA DecisionKeepsChains ==
    ASSUME RetInv, RetInv', faults = {}, ChainParts, Decide
    PROVE  ChainParts'
<1> USE DEF Moving, Held, Deletes, Purges
<1>1. /\ TInv /\ made \in Nat /\ Hot \in SUBSET Ids /\ Cold \in SUBSET Ids
      /\ Hot \subseteq 1 .. made /\ Cold \subseteq 1 .. made
      /\ \A x \in Ids : x \in Nat
  BY ChainFacts
<1>2. /\ Bases /\ Newest /\ AllComplete /\ Upward /\ HandsOrdered /\ HotHands /\ MovingHands
      /\ CopyHands /\ OneRemoves /\ ColdHands /\ HotChains /\ ColdChains /\ BetweenTiers
  BY DEF ChainParts
<1> DEFINE k == IF Incremental /\ recent \in Hot THEN "INC" ELSE "FULL"
<1>3. /\ pc = "idle" /\ pc' = "decided" /\ made < MaxArchives
      /\ \A w \in Workers : worker[w] # "removing"
      /\ kind' = [kind EXCEPT ![made + 1] = k]
      /\ UNCHANGED <<faults, cold, made, base, snapshot, recent, files, whole, worker, todo, copy>>
  BY DEF Decide, workerVars, Hot
<1>4. made + 1 \in Ids /\ kind \in [Ids -> {"FULL", "INC"}]
  <2>1. MaxArchives \in Nat /\ kind \in [Ids -> {"FULL", "INC"}]
    BY <1>1, IdsAreNumbers DEF TInv, RunTyped
  <2>2. QED
    BY <1>1, <1>3, <2>1 DEF Ids
<1>5. /\ \A x \in 1 .. made : kind'[x] = kind[x]
      /\ kind'[made + 1] = k
      /\ \A x \in 1 .. made : x # made + 1
  BY <1>1, <1>3, <1>4
<1>6. k = "INC" => Incremental /\ recent \in Hot
  OBVIOUS
<1> HIDE DEF k
<1>7. recent \in Hot => made \in Hot
  <2>1. SUFFICES ASSUME recent \in Hot PROVE made \in Hot
    OBVIOUS
  <2>2. Hot \subseteq 0 .. made
    BY <1>1
  <2>3. PICK m \in Hot : \A x \in Hot : x <= m
    BY <1>1, <2>1, <2>2, MaxProperties
  <2>4. SUFFICES ASSUME m # made PROVE FALSE
    BY <2>3
  <2>5. m \in Nat /\ m < made /\ recent <= m /\ recent \in Nat /\ m + 1 \in 1 .. made
    BY <1>1, <2>1, <2>3, <2>4
  <2>6. Inc(m + 1)
    <3>1. recent # 0 /\ recent < m + 1
      BY <1>1, <2>1, <2>5
    <3>2. QED
      BY <1>2, <2>5, <3>1 DEF Newest
  <2>7. m + 1 \in Hot
    BY <1>2, <2>3, <2>5, <2>6 DEF Upward
  <2>8. QED
    BY <2>3, <2>5, <2>7
<1>8. Hot' = Hot /\ Cold' = Cold /\ \A w \in Workers : Todo(w)' = Todo(w)
  BY <1>3, TiersStay, TodoStays
<1>9. Bases'
  BY <1>2, <1>3, <1>5, <1>6 DEF Bases, Inc
<1>10. Newest'
  <2>1. recent # 0 => recent \in 1 .. made /\ \A x \in 1 .. made : recent < x => kind'[x] = kind[x]
    BY <1>2, <1>5 DEF Newest
  <2>2. QED
    BY <1>2, <1>3, <1>5, <1>6, <1>7, <1>8, <2>1 DEF Newest, Inc
<1>11. AllComplete' /\ CopyHands'
  <2>1. AllComplete'
    BY <1>2, <1>3, <1>8 DEF AllComplete, Copying
  <2>2. QED
    BY <1>2, <1>3, <1>8, <2>1, CopyHandsStay
<1>12. \A x \in Hot \cup Cold : kind'[x] = kind[x]
  BY <1>1, <1>5
<1>13. Upward'
  <2>1. SUFFICES ASSUME NEW x \in Hot, x < made, kind'[x + 1] = "INC" PROVE x + 1 \in Hot
    BY <1>3, <1>8 DEF Upward, Inc
  <2>2. x + 1 \in 1 .. made
    BY <1>1, <2>1
  <2>3. QED
    BY <1>2, <1>5, <2>1, <2>2 DEF Upward, Inc
<1>14. HandsOrdered' /\ MovingHands' /\ OneRemoves'
  BY <1>2, <1>3, <1>8 DEF HandsOrdered, MovingHands, OneRemoves
<1>15. HotHands'
  <2>1. SUFFICES ASSUME NEW w \in Workers, Deletes(w)
                 PROVE  /\ \A y \in Todo(w) : kind'[y] = "INC" /\ y - 1 \in Hot => y - 1 \in Todo(w)
                        /\ \A x \in Todo(w) : x + 1 \in Hot /\ kind'[x + 1] = "INC" => x + 1 \in Todo(w)
    BY <1>3, <1>8 DEF HotHands, Inc
  <2>2. \A y \in Todo(w) : y \in 1 .. made
    <3>1. Moving(w)
      BY <1>3, <2>1
    <3>2. \A y \in Todo(w) : y < made /\ y \in Ids
      BY <1>2, <3>1, ChainFacts DEF MovingHands
    <3>3. QED
      BY <1>1, <3>2 DEF Ids
  <2>3. QED
    BY <1>2, <1>5, <1>12, <2>1, <2>2 DEF HotHands, Inc
<1>16. ColdHands'
  <2>1. SUFFICES ASSUME NEW w \in Workers, Purges(w)
                 PROVE  /\ \A y \in Todo(w) : y < made /\ \A b \in Hot : y < b
                        /\ \A y \in Todo(w) : kind'[y + 1] = "INC" =>
                             /\ y + 1 \notin Hot
                             /\ y + 1 \in Cold => y + 1 \in Todo(w)
                        /\ worker[w] = "cold" => \A x \in Todo(w), b \in Cold : b <= x => b \in Todo(w)
    BY <1>3, <1>8 DEF ColdHands, Inc
  <2>2. QED
    BY <1>2, <1>12, <2>1 DEF ColdHands, Inc
<1>17. HotChains' /\ ColdChains' /\ BetweenTiers'
  BY <1>2, <1>3, <1>8, <1>12 DEF HotChains, ColdChains, BetweenTiers, Inc, UsesCold
<1>18. QED
  BY <1>9, <1>10, <1>11, <1>13, <1>14, <1>15, <1>16, <1>17 DEF ChainParts

\* Without faults the archive is created, relative to the state that the snapshot holds.
LEMMA CreationKeepsChains ==
    ASSUME RetInv, RetInv', faults = {}, ChainParts, CreateArchive
    PROVE  ChainParts'
<1> USE DEF Moving, Held, Deletes, Purges
<1>1. /\ TInv /\ made \in Nat /\ Hot \in SUBSET Ids /\ Cold \in SUBSET Ids
      /\ Hot \subseteq 1 .. made /\ Cold \subseteq 1 .. made
      /\ \A x \in Ids : x \in Nat /\ (kind[x] = "FULL" <=> ~Inc(x))
      /\ \A w \in Workers : Todo(w) \in SUBSET Ids
  BY ChainFacts
<1>2. /\ Bases /\ Newest /\ AllComplete /\ Upward /\ HandsOrdered /\ HotHands /\ MovingHands
      /\ CopyHands /\ OneRemoves /\ ColdHands /\ HotChains /\ ColdChains /\ BetweenTiers
  BY DEF ChainParts
<1>3. /\ pc = "decided" /\ pc' = "writing" /\ snapshot' \in ResetSnapshot(kind[made + 1])
      /\ UNCHANGED <<faults, cold, kind, whole, worker, todo, copy>>
  BY DEF CreateArchive, workerVars
<1> DEFINE n == made + 1
<1>4. /\ made' = n /\ n \in Ids
      /\ base' = [base EXCEPT ![n] = IF Incremental THEN snapshot' ELSE 0]
      /\ recent' = (IF kind[n] = "FULL" THEN n ELSE recent)
      /\ Hot' = Hot \cup {n} /\ Cold' = Cold
  BY <1>1, <1>3, CreateEffect
<1>5. /\ n \in Nat /\ made < n /\ n = made + 1 /\ n - 1 = made
      /\ \A x \in 1 .. made : x \in 1 .. n /\ x # n
      /\ \A x \in 1 .. n : x \in 1 .. made \/ x = n
  BY <1>1
<1>6. Inc(n) => made \in Hot /\ Incremental
  BY <1>2, <1>3 DEF Newest, Bases
<1>7. Incremental => snapshot = made
  BY <1>2, <1>3 DEF Bases
<1>8. snapshot' = IF Incremental /\ ~Inc(n) THEN 0 ELSE snapshot
  <2>1. kind[made + 1] = "INC" <=> Inc(n)
    BY DEF Inc
  <2>2. "reset" \notin faults
    OBVIOUS
  <2>3. QED
    BY <1>3, <2>1, <2>2 DEF ResetSnapshot
<1> HIDE DEF n
<1>9. \A w \in Workers : Todo(w)' = Todo(w)
  BY <1>3, TodoStays
<1>10. Bases'
  <2>1. base \in [Ids -> 0 .. MaxArchives]
    BY <1>1 DEF TInv, RunTyped
  <2>2. \A x \in 1 .. made : base'[x] = base[x]
    BY <1>4, <1>5, <2>1
  <2>3. base'[n] = IF Incremental THEN snapshot' ELSE 0
    BY <1>4, <2>1
  <2>4. base'[n] = IF Inc(n) THEN n - 1 ELSE 0
    BY <1>5, <1>6, <1>7, <1>8, <2>3
  <2>5. QED
    BY <1>2, <1>3, <1>4, <1>5, <2>2, <2>4 DEF Bases, Inc
<1>11. Newest'
  <2>1. kind[n] = "FULL" <=> ~Inc(n)
    BY <1>1, <1>4
  <2>2. CASE ~Inc(n)
    <3>1. recent' = n /\ n \in 1 .. n /\ \A x \in 1 .. n : ~(n < x)
      <4>1. recent' = n
        BY <1>4, <2>1, <2>2
      <4>2. n >= 1
        BY <1>1, <1>5
      <4>3. QED
        BY <1>5, <4>1, <4>2
    <3>2. QED
      BY <1>3, <1>4, <2>2, <3>1 DEF Newest, Inc
  <2>3. CASE Inc(n)
    <3>1. recent' = recent
      BY <1>4, <2>1, <2>3
    <3>2. QED
      BY <1>2, <1>3, <1>4, <1>5, <2>3, <3>1 DEF Newest, Inc
  <2>4. QED
    BY <2>2, <2>3
<1>12. AllComplete' /\ CopyHands'
  <2>1. AllComplete'
    BY <1>2, <1>3, <1>4 DEF AllComplete, Copying
  <2>2. QED
    BY <1>2, <1>3, <1>4, <2>1, CopyHandsStay
<1>13. Upward'
  <2>1. SUFFICES ASSUME NEW x \in Hot \cup {n}, x < n, Inc(x + 1) PROVE x + 1 \in Hot \cup {n}
    BY <1>3, <1>4 DEF Upward, Inc
  <2>2. x \in Hot /\ x \in Nat /\ (x = made \/ x < made)
    BY <1>1, <1>5, <2>1
  <2>3. QED
    BY <1>2, <1>5, <2>1, <2>2 DEF Upward
<1>14. /\ HandsOrdered'
       /\ \A w \in Workers : worker[w] # "removing"
  BY <1>2, <1>3 DEF HandsOrdered, OneRemoves
<1>15. \A w \in Workers : Moving(w) => \A x \in Todo(w) : x < made /\ x \in Nat
  BY <1>1, <1>2 DEF MovingHands
<1>16. HotHands'
  <2>1. SUFFICES ASSUME NEW w \in Workers, Moving(w)
                 PROVE  /\ \A y \in Todo(w) : Inc(y) /\ y - 1 \in Hot \cup {n} => y - 1 \in Todo(w)
                        /\ \A x \in Todo(w) : x + 1 \in Hot \cup {n} /\ Inc(x + 1) => x + 1 \in Todo(w)
    BY <1>3, <1>4, <1>9, <1>14 DEF HotHands, Inc
  <2>2. \A y \in Todo(w) : y - 1 # n /\ y + 1 # n
    BY <1>1, <1>5, <1>15, <2>1
  <2>3. QED
    BY <1>2, <2>1, <2>2 DEF HotHands
<1>17. MovingHands'
  <2>1. \A w \in Workers : Moving(w) => \A x \in Todo(w) : x < n
    BY <1>1, <1>5, <1>15
  <2>2. QED
    BY <1>3, <1>4, <1>9, <2>1 DEF MovingHands
<1>18. OneRemoves'
  BY <1>3, <1>14 DEF OneRemoves
<1>19. ColdHands'
  <2>1. SUFFICES ASSUME NEW w \in Workers, Purges(w)
                 PROVE  /\ \A y \in Todo(w) : y < n /\ \A b \in Hot \cup {n} : y < b
                        /\ \A y \in Todo(w) : Inc(y + 1) => /\ y + 1 \notin Hot \cup {n}
                                                            /\ y + 1 \in Cold => y + 1 \in Todo(w)
                        /\ worker[w] = "cold" => \A x \in Todo(w), b \in Cold : b <= x => b \in Todo(w)
    BY <1>3, <1>4, <1>9 DEF ColdHands, Inc
  <2>2. \A y \in Todo(w) : y < made /\ y \in Nat
    BY <1>1, <1>2, <2>1 DEF ColdHands
  <2>3. \A y \in Todo(w) : y < n /\ y + 1 # n
    BY <1>1, <1>5, <2>2
  <2>4. QED
    BY <1>2, <2>1, <2>3 DEF ColdHands
<1>20. HotChains'
  <2>1. SUFFICES ASSUME NEW a \in Hot \cup {n}, Inc(a), a - 1 \notin Hot \cup {n}
                 PROVE  \E w \in Workers : a \in Todo(w) /\
                          (worker[w] = "removing" \/ (Moving(w) /\ \A b \in Hot \cup {n} : a <= b))
    BY <1>3, <1>4, <1>9 DEF HotChains, Inc
  <2>2. a \in Hot /\ a < n
    BY <1>1, <1>5, <1>6, <2>1
  <2>3. PICK w \in Workers : a \in Todo(w) /\
           (worker[w] = "removing" \/ (Moving(w) /\ \A b \in Hot : a <= b))
    BY <1>2, <2>1, <2>2 DEF HotChains
  <2>4. a <= n
    BY <1>1, <1>5, <2>2
  <2>5. QED
    BY <2>3, <2>4
<1>21. ColdChains'
  BY <1>2, <1>3, <1>4, <1>9 DEF ColdChains, Inc
<1>22. BetweenTiers'
  <2>1. \A a \in Cold : a < n /\ a # n
    BY <1>1, <1>5
  <2>2. ASSUME UsesCold, NEW a \in Hot \cup {n}, Inc(a), a - 1 \notin Hot \cup {n}
        PROVE  a - 1 \in Cold
    <3>1. a \in Hot /\ a - 1 \notin Hot
      BY <1>5, <1>6, <2>2
    <3>2. QED
      BY <1>2, <1>14, <2>2, <3>1 DEF BetweenTiers
  <2>3. \A a \in (Hot \cup {n}) \cap Cold : a \in Hot \cap Cold
    BY <2>1
  <2>4. QED
    BY <1>2, <1>3, <1>4, <2>1, <2>2, <2>3 DEF BetweenTiers, Inc, UsesCold
<1>23. QED
  BY <1>10, <1>11, <1>12, <1>13, <1>14, <1>16, <1>17, <1>18, <1>19, <1>20, <1>21, <1>22
     DEF ChainParts

\* The steps that touch no file and no list.
LEMMA RunEndKeepsChains ==
    ASSUME RetInv, RetInv', faults = {}, ChainParts,
           Complete \/ Elapse \/ UNCHANGED <<runVars, files, whole, workerVars>>
    PROVE  ChainParts'
<1> USE DEF Moving, Held, Deletes, Purges
<1>1. /\ Bases /\ Newest /\ AllComplete /\ Upward /\ HandsOrdered /\ HotHands /\ MovingHands
      /\ CopyHands /\ OneRemoves /\ ColdHands /\ HotChains /\ ColdChains /\ BetweenTiers
  BY DEF ChainParts
<1>2. UNCHANGED <<faults, cold, kind, made, base, files, worker, todo, copy>>
  BY DEF Complete, Elapse, runVars, workerVars
<1>3. Hot' = Hot /\ Cold' = Cold /\ \A w \in Workers : Todo(w)' = Todo(w)
  BY <1>2, TiersStay, TodoStays
<1>4. /\ HandsOrdered' /\ Upward' /\ HotHands' /\ MovingHands' /\ ColdHands'
      /\ HotChains' /\ ColdChains' /\ BetweenTiers' /\ CopyHands'
  BY <1>1, <1>2, <1>3 DEF HandsOrdered, Upward, HotHands, MovingHands, ColdHands, HotChains,
     ColdChains, BetweenTiers, CopyHands, Copiers, UsesCold, Inc
<1>5. CASE Complete
  <2>1. /\ pc = "writing" /\ pc' = "pruning" /\ recent' = recent
        /\ whole' = [whole EXCEPT !["HOT"] = @ \cup ({made} \cap Hot)]
        /\ Incremental => snapshot' = made
    BY <1>5 DEF Complete, Hot
  <2>2. Bases' /\ Newest'
    BY <1>1, <1>2, <1>3, <2>1 DEF Bases, Newest, Inc
  <2>3. whole \in [Tiers -> SUBSET Ids] /\ "HOT" \in Tiers /\ "COLD" \in Tiers /\ "COLD" # "HOT"
    BY ChainFacts DEF TInv, FilesTyped, Tiers
  <2>4. AllComplete'
    <3>1. whole'["HOT"] = whole["HOT"] \cup ({made} \cap Hot) /\ whole'["COLD"] = whole["COLD"]
      BY <2>1, <2>3
    <3>2. QED
      BY <1>1, <1>2, <1>3, <3>1 DEF AllComplete, Copying
  <2>5. OneRemoves'
    BY <1>1, <1>2, <2>1 DEF OneRemoves
  <2>6. QED
    BY <1>4, <2>2, <2>4, <2>5 DEF ChainParts
<1>6. CASE Elapse \/ UNCHANGED <<runVars, files, whole, workerVars>>
  <2>1. UNCHANGED <<pc, whole, snapshot>> /\ recent' \in {recent, 0}
    BY <1>6 DEF Elapse, runVars, workerVars
  <2>2. Bases' /\ Newest'
    BY <1>1, <1>2, <1>3, <2>1 DEF Bases, Newest, Inc
  <2>3. AllComplete'
    BY <1>1, <1>2, <1>3, <2>1 DEF AllComplete, Copying
  <2>4. OneRemoves'
    BY <1>1, <1>2, <1>3, <2>1 DEF OneRemoves
  <2>5. QED
    BY <1>4, <2>2, <2>3, <2>4 DEF ChainParts
<1>7. QED
  BY <1>5, <1>6

LEMMA ChainStep ==
    ASSUME RetInv, RetInv', faults = {}, ChainParts, Removes \subseteq {"FULL"}, [Next]_vars
    PROVE  ChainParts'
<1>1. CASE \E w \in Workers : WorkerStep(w)
  <2>1. PICK w \in Workers : WorkerStep(w)
    BY <1>1
  <2>2. \/ Stops(w) \/ ListsHot(w) \/ ListsCold(w)
        \/ DeletesHot(w) \/ DeletesCold(w)
        \/ Opens(w) \/ Fills(w) \/ Ends(w) \/ Passes(w)
    BY <2>1, ChainFacts, WorkerEffects
  <2>3. QED
    BY <2>2, EndKeepsChains, HotListKeepsChains, ColdListKeepsChains, HotDeletionKeepsChains,
       ColdDeletionKeepsChains, CopyKeepsChains
<1>2. CASE Decide
  BY <1>2, DecisionKeepsChains
<1>3. CASE CreateArchive
  BY <1>3, CreationKeepsChains
<1>4. CASE \E c \in Clients, a \in Ids : RemoveBackup(c, a)
  BY <1>4, RemovalKeepsChains
<1>5. CASE Complete \/ Elapse
  BY <1>5, RunEndKeepsChains
<1>6. CASE (\E a \in Ids : RestoreBackup(a)) \/ Extract \/ RestoreEnds \/ UNCHANGED vars
  <2>1. UNCHANGED <<runVars, files, whole, workerVars>>
    BY <1>6 DEF RestoreBackup, Extract, RestoreEnds, vars
  <2>2. QED
    BY <2>1, RunEndKeepsChains
<1>7. ~Fail /\ ~Crash
  BY DEF Fail, Crash
<1>8. QED
  BY <1>1, <1>2, <1>3, <1>4, <1>5, <1>6, <1>7 DEF Next, RunStep

\* A plan that begins with a FULL archive rebuilds the state, and it does so begin where
\* no predecessor is missing.
LEMMA PlanRebuilds ==
    ASSUME RetInv, faults = {}, Bases,
           NEW q \in Seq(Ids), Ascending(q), Range(q) \subseteq 1 .. made, NEW a \in Range(q),
           \A x \in Range(q) : Inc(x) /\ x - 1 \notin Range(q) => \A b \in Range(q) : x <= b
    PROVE  /\ PlanOf(q, a) \in Seq(Ids) /\ PlanOf(q, a) # <<>>
           /\ Range(PlanOf(q, a)) \subseteq 1 .. made
           /\ kind[PlanOf(q, a)[1]] = "FULL" => Rebuilds(PlanOf(q, a))
           /\ (\A x \in Range(q) : Inc(x) => x - 1 \in Range(q)) => kind[PlanOf(q, a)[1]] = "FULL"
<1>1. /\ made \in Nat /\ \A x \in 1 .. made : x \in Ids
      /\ \A x \in Ids : x \in Nat /\ (kind[x] = "FULL" <=> ~Inc(x))
  BY ChainFacts
<1> DEFINE p == PlanOf(q, a)
<1>2. /\ p \in Seq(Ids) /\ p # <<>> /\ Range(p) \subseteq Range(q)
      /\ \A m \in 2 .. Len(p) :
           /\ kind[p[m]] # "FULL"
           /\ \E b \in Range(q) : b < p[m]
           /\ p[m] - 1 \in Range(q) => p[m - 1] = p[m] - 1
      /\ kind[p[1]] # "FULL" => \A b \in Range(q) : p[1] <= b
  BY PlanOfProperties
<1> HIDE DEF p
<1>3. /\ Len(p) \in Nat /\ Len(p) # 0 /\ DOMAIN p = 1 .. Len(p)
      /\ \A m \in 1 .. Len(p) : p[m] \in Range(q) /\ p[m] \in 1 .. made
  BY <1>2, SeqFacts
<1>4. ASSUME kind[p[1]] = "FULL"
      PROVE  Rebuilds(p)
  <2>1. 1 \in DOMAIN p /\ base[p[1]] = 0
    <3>1. 1 \in 1 .. Len(p)
      BY <1>3
    <3>2. p[1] \in 1 .. made /\ ~Inc(p[1])
      BY <1>1, <1>3, <1>4, <3>1
    <3>3. QED
      BY <1>3, <3>1, <3>2 DEF Bases
  <2>2. ASSUME NEW m \in DOMAIN p, m > 1
        PROVE  base[p[m]] = p[m - 1]
    <3>1. m \in 2 .. Len(p) /\ m \in 1 .. Len(p)
      BY <1>3, <2>2
    <3>2. p[m] \in Range(q) /\ p[m] \in 1 .. made /\ p[m] \in Nat /\ Inc(p[m])
      BY <1>1, <1>2, <1>3, <3>1
    <3>3. p[m] - 1 \in Range(q)
      <4>1. SUFFICES ASSUME p[m] - 1 \notin Range(q) PROVE FALSE
        OBVIOUS
      <4>2. PICK b \in Range(q) : b < p[m]
        BY <1>2, <3>1
      <4>3. p[m] <= b /\ b \in Nat
        BY <1>1, <3>2, <4>1
      <4>4. QED
        BY <3>2, <4>2, <4>3
    <3>4. p[m - 1] = p[m] - 1
      BY <1>2, <3>1, <3>3
    <3>5. QED
      BY <3>2, <3>4 DEF Bases
  <2>3. QED
    BY <2>1, <2>2 DEF Rebuilds
<1>5. ASSUME \A x \in Range(q) : Inc(x) => x - 1 \in Range(q), kind[p[1]] # "FULL"
      PROVE  FALSE
  <2>1. 1 \in 1 .. Len(p)
    BY <1>3
  <2>2. p[1] \in Range(q) /\ p[1] \in Nat /\ Inc(p[1])
    BY <1>1, <1>3, <1>5, <2>1
  <2>3. p[1] - 1 \in Range(q)
    BY <1>5, <2>2
  <2>4. p[1] <= p[1] - 1
    BY <1>2, <1>5, <2>3
  <2>5. QED
    BY <2>2, <2>4
<1>6. QED
  BY <1>2, <1>4, <1>5 DEF p

\* A plan stays good whatever is created afterwards.
LEMMA SoundStays ==
    ASSUME RetInv, NEW q \in Seq(Ids), q # <<>>, Range(q) \subseteq 1 .. made,
           kind[q[1]] = "FULL" => Rebuilds(q),
           made \in Nat, made' \in Nat, made <= made',
           \A x \in 1 .. made : kind'[x] = kind[x] /\ base'[x] = base[x],
           restore' = restore \/ restore'.applied \o restore'.plan = q,
           restore.applied \o restore.plan = q,
           restore'.pc = "DONE" => restore'.plan = <<>>
    PROVE  RestoreSound'
<1>1. /\ Len(q) \in Nat /\ DOMAIN q = 1 .. Len(q) /\ Len(q) # 0
      /\ \A m \in 1 .. Len(q) : q[m] \in Range(q)
  <2>1. /\ Len(q) \in Nat /\ DOMAIN q = 1 .. Len(q)
        /\ Range(q) = {q[i] : i \in 1 .. Len(q)}
        /\ q = <<>> <=> Len(q) = 0
    BY ONLY SeqFacts, q \in Seq(Ids)
  <2>2. QED
    BY <2>1
<1>2. Range(q) \subseteq 1 .. made'
  OBVIOUS
<1>3. kind'[q[1]] = kind[q[1]]
  <2>1. 1 \in 1 .. Len(q)
    BY <1>1
  <2>2. QED
    BY <1>1, <2>1
<1>4. Rebuilds(q) => Rebuilds(q)'
  <2>1. \A m \in DOMAIN q : base'[q[m]] = base[q[m]]
    BY <1>1
  <2>2. SUFFICES ASSUME NEW k \in DOMAIN q, base[q[k]] = 0,
                        \A m \in DOMAIN q : m > k => base[q[m]] = q[m - 1]
                 PROVE  \E i \in DOMAIN q : /\ base'[q[i]] = 0
                                            /\ \A m \in DOMAIN q : m > i => base'[q[m]] = q[m - 1]
    BY DEF Rebuilds
  <2>3. base'[q[k]] = 0
    BY <2>1, <2>2
  <2>4. ASSUME NEW m \in DOMAIN q, m > k
        PROVE  base'[q[m]] = q[m - 1]
    BY <2>1, <2>2, <2>4
  <2>5. QED
    BY <2>2, <2>3, <2>4
<1>5. (kind[q[1]] = "FULL" => Rebuilds(q))'
  BY <1>3, <1>4
<1>6. q = restore'.applied \o restore'.plan
  OBVIOUS
<1>7. QED
  BY <1>2, <1>5, <1>6 DEF RestoreSound

LEMMA RestoreStep ==
    ASSUME RetInv, RetInv', faults = {}, ChainParts, ChainParts', RestoreSound, [Next]_vars
    PROVE  RestoreSound'
<1>1. /\ TInv /\ TInv' /\ made \in Nat /\ made' \in Nat
      /\ \A x \in 1 .. made : x \in Ids
      /\ Ascending(files["HOT"]) /\ Ascending(files["COLD"])
      /\ Hot \subseteq 1 .. made /\ Cold \subseteq 1 .. made
  <2>1. TInv /\ TInv' /\ made' \in 0 .. MaxArchives /\ MaxArchives \in Nat
    BY ChainFacts, IdsAreNumbers DEF RetInv, OrderInv, TInv, RunTyped
  <2>2. made' \in Nat
    BY <2>1
  <2>3. QED
    BY <2>1, <2>2, ChainFacts
<1>2. /\ kind \in [Ids -> {"FULL", "INC"}] /\ base \in [Ids -> 0 .. MaxArchives]
      /\ restore \in [pc : {"idle", "extract", "DONE", "ERROR"}, tier : Tiers,
                      plan : Seq(Ids), applied : Seq(Ids)]
  BY <1>1 DEF TInv, RunTyped, RestoreTyped
<1>3. made <= made' /\ \A x \in 1 .. made : kind'[x] = kind[x] /\ base'[x] = base[x]
  <2>1. CASE Decide
    <3>1. made' = made /\ base' = base /\ \E k : kind' = [kind EXCEPT ![made + 1] = k]
      BY <2>1 DEF Decide
    <3>2. \A x \in 1 .. made : x # made + 1
      BY <1>1
    <3>3. QED
      BY <1>1, <1>2, <3>1, <3>2
  <2>2. CASE CreateArchive
    <3>1. kind' = kind /\ \/ made' = made + 1 /\ \E k : base' = [base EXCEPT ![made + 1] = k]
                          \/ made' = made /\ base' = base
      BY <2>2 DEF CreateArchive
    <3>2. \A x \in 1 .. made : x # made + 1
      BY <1>1
    <3>3. QED
      BY <1>1, <1>2, <3>1, <3>2
  <2>3. CASE \E w \in Workers : WorkerStep(w)
    <3>1. Same
      BY <1>1, <2>3, WorkerEffects DEF Stops, ListsHot, ListsCold, DeletesHot, DeletesCold, Opens,
         Fills, Ends, Passes
    <3>2. QED
      BY <1>1, <3>1 DEF Same
  <2>4. CASE UNCHANGED <<kind, made, base>>
    BY <1>1, <2>4
  <2>5. QED
    BY <2>1, <2>2, <2>3, <2>4 DEF Next, RunStep, Complete, Fail, Elapse, Crash, RemoveBackup,
       RestoreBackup, Extract, RestoreEnds, vars, runVars
<1>4. CASE \E a \in Ids : RestoreBackup(a)
  <2>1. PICK a \in Ids : RestoreBackup(a)
    BY <1>4
  <2> DEFINE t == TierOf(a)
             p == PlanOf(files[t], a)
  <2>2. /\ restore' = [pc |-> "extract", tier |-> t, plan |-> p, applied |-> <<>>]
        /\ \A w \in Workers : worker[w] \notin {"removing", "purging"}
        /\ t \in Tiers /\ a \in Range(files[t])
        /\ UNCHANGED <<kind, made, base>>
    BY <2>1 DEF RestoreBackup, TierOf, Tiers, runVars
  <2>3. /\ files[t] \in Seq(Ids) /\ Ascending(files[t]) /\ Range(files[t]) \subseteq 1 .. made
        /\ \A x \in Range(files[t]) :
             Inc(x) /\ x - 1 \notin Range(files[t]) => \A b \in Range(files[t]) : x <= b
    <3>1. files[t] \in Seq(Ids) /\ Range(files[t]) \subseteq 1 .. made
      BY <1>1, <2>2, Listings
    <3>2. CASE t = "HOT"
      BY <1>1, <2>2, <3>1, <3>2 DEF ChainParts, HotChains, Hot
    <3>3. CASE t = "COLD"
      BY <1>1, <2>2, <3>1, <3>3 DEF ChainParts, ColdChains, Cold
    <3>4. QED
      BY <2>2, <3>2, <3>3 DEF Tiers
  <2> HIDE DEF t
  <2>4. /\ p \in Seq(Ids) /\ p # <<>> /\ Range(p) \subseteq 1 .. made
        /\ kind[p[1]] = "FULL" => Rebuilds(p)
    BY <2>2, <2>3, PlanRebuilds DEF ChainParts
  <2> HIDE DEF p
  <2>5. PICK q \in Seq(Ids) :
           /\ q = p /\ q # <<>> /\ Range(q) \subseteq 1 .. made
           /\ kind[q[1]] = "FULL" => Rebuilds(q)
    BY <2>4
  <2>6. restore'.pc = "extract" /\ restore'.applied = <<>> /\ restore'.plan = q
    BY <2>2, <2>5
  <2>7. <<>> \o q = q
    BY ConcatEmptySeq
  <2>8. q = restore'.applied \o restore'.plan
    BY <2>6, <2>7
  <2>9. (Rebuilds(q)' <=> Rebuilds(q)) /\ kind' = kind /\ made' = made
    BY <2>2 DEF Rebuilds
  <2>10. QED
    BY <2>5, <2>6, <2>8, <2>9 DEF RestoreSound
<1>5. ASSUME restore.pc \in {"extract", "DONE"}, restore'.pc = "DONE" => restore'.plan = <<>>,
             \/ restore' = restore
             \/ restore'.applied \o restore'.plan = restore.applied \o restore.plan
      PROVE  RestoreSound'
  <2>1. PICK q \in Seq(Ids) :
           /\ q = restore.applied \o restore.plan /\ q # <<>> /\ Range(q) \subseteq 1 .. made
           /\ kind[q[1]] = "FULL" => Rebuilds(q)
    BY <1>5 DEF RestoreSound
  <2>2. QED
    BY <1>1, <1>3, <1>5, <2>1, SoundStays
<1>6. CASE Extract
  <2>1. /\ restore.pc = "extract" /\ restore.plan # <<>>
        /\ \/ restore' = [restore EXCEPT !.plan = Tail(restore.plan),
                                         !.applied = Append(restore.applied, Head(restore.plan))]
           \/ restore' = [restore EXCEPT !.pc = "ERROR"]
    BY <1>6 DEF Extract
  <2>2. restore'.pc = "extract" \/ (restore'.pc = "ERROR")
    BY <1>2, <2>1
  <2>3. CASE restore'.pc = "ERROR"
    BY <2>3 DEF RestoreSound
  <2>4. CASE restore'.pc = "extract"
    <3>1. /\ restore'.plan = Tail(restore.plan)
          /\ restore'.applied = Append(restore.applied, Head(restore.plan))
      BY <1>2, <2>1, <2>4
    <3> DEFINE s == restore.applied
               p == restore.plan
    <3>2. s \in Seq(Ids) /\ p \in Seq(Ids) /\ p # <<>>
      BY <1>2, <2>1
    <3> HIDE DEF s, p
    <3>3. Append(s, Head(p)) \o Tail(p) = s \o p
      <4>1. Head(p) \in Ids /\ Tail(p) \in Seq(Ids) /\ p = <<Head(p)>> \o Tail(p)
        BY <3>2, HeadTailProperties
      <4>2. Append(s, Head(p)) = s \o <<Head(p)>> /\ <<Head(p)>> \in Seq(Ids)
        BY <3>2, <4>1, AppendIsConcat
      <4>3. (s \o <<Head(p)>>) \o Tail(p) = s \o (<<Head(p)>> \o Tail(p))
        BY <3>2, <4>1, <4>2, ConcatAssociative
      <4>4. QED
        BY <4>1, <4>2, <4>3
    <3>4. QED
      BY <1>5, <2>1, <2>4, <3>1, <3>3 DEF s, p
  <2>5. QED
    BY <2>2, <2>3, <2>4
<1>7. CASE RestoreEnds
  <2>1. /\ restore.pc = "extract" /\ restore.plan = <<>>
        /\ restore' = [restore EXCEPT !.pc = "DONE"]
    BY <1>7 DEF RestoreEnds
  <2>2. restore'.plan = restore.plan /\ restore'.applied = restore.applied
    BY <1>2, <2>1
  <2>3. QED
    BY <1>5, <2>1, <2>2
<1>8. CASE restore' = restore
  <2>1. restore'.pc = "DONE" => restore'.plan = <<>>
    BY <1>8 DEF RestoreSound
  <2>2. CASE restore.pc \in {"extract", "DONE"}
    BY <1>5, <1>8, <2>1, <2>2
  <2>3. CASE restore.pc \notin {"extract", "DONE"}
    BY <1>8, <2>3 DEF RestoreSound
  <2>4. QED
    BY <2>2, <2>3
<1>9. CASE \E w \in Workers : WorkerStep(w)
  <2>1. restore' = restore
    BY <1>1, <1>9, WorkerEffects DEF Stops, ListsHot, ListsCold, DeletesHot, DeletesCold, Opens,
       Fills, Ends, Passes, Same
  <2>2. QED
    BY <1>8, <2>1
<1>10. ~Crash
  BY DEF Crash
<1>11. QED
  BY <1>4, <1>6, <1>7, <1>8, <1>9, <1>10 DEF Next, RunStep, Decide, CreateArchive, Complete, Fail,
     Elapse, RemoveBackup, vars

LEMMA ChainInit == Init => ChainInv
<1> SUFFICES ASSUME Init PROVE ChainInv
  OBVIOUS
<1>1. RetInv /\ TInv
  BY RetInit DEF RetInv, OrderInv
<1>2. /\ Hot = {} /\ Cold = {} /\ pc = "idle" /\ made = 0 /\ snapshot = 0 /\ recent = 0
      /\ \A w \in Workers : worker[w] = "idle" /\ todo[w] = <<>>
      /\ restore = NoRestore
  BY RangeOfEmpty DEF Init, Hot, Cold, Tiers
<1>3. \A a : a \notin 1 .. made
  BY <1>2
<1>4. \A w \in Workers : Ascending(todo[w]) /\ Todo(w) = {}
  BY <1>2, RangeOfEmpty DEF Ascending, Todo
<1>5. Bases /\ Newest
  BY <1>2, <1>3 DEF Bases, Newest
<1>6. AllComplete /\ Upward /\ HotChains /\ ColdChains /\ BetweenTiers
  BY <1>2 DEF AllComplete, Upward, HotChains, ColdChains, BetweenTiers
<1>7. CopyHands
  BY <1>2 DEF CopyHands, Held, Copiers
<1>8. HandsOrdered /\ HotHands /\ MovingHands /\ OneRemoves /\ ColdHands
  BY <1>2, <1>4 DEF HandsOrdered, HotHands, MovingHands, OneRemoves, ColdHands, Deletes, Moving, Held,
     Purges
<1>9. RestoreSound
  BY <1>2 DEF RestoreSound, NoRestore
<1>10. QED
  BY <1>1, <1>5, <1>6, <1>7, <1>8, <1>9 DEF ChainInv, ChainParts

LEMMA ChainInvStep ==
    ASSUME Removes \subseteq {"FULL"}, ChainInv, [Next]_vars
    PROVE  ChainInv'
<1>1. RetInv /\ RetInv' /\ TInv
  BY RetStep DEF ChainInv, RetInv, OrderInv
<1>2. faults' = faults
  <2>1. CASE \E w \in Workers : WorkerStep(w)
    BY <1>1, <2>1, WorkerEffects DEF Stops, ListsHot, ListsCold, DeletesHot, DeletesCold, Opens,
       Fills, Ends, Passes, Same
  <2>2. QED
    BY <2>1 DEF Next, RunStep, Decide, CreateArchive, Complete, Fail, Elapse, Crash, RemoveBackup,
       RestoreBackup, Extract, RestoreEnds, vars, runVars
<1>3. ASSUME faults = {}
      PROVE  ChainParts' /\ RestoreSound'
  <2>1. ChainParts /\ RestoreSound
    BY <1>3 DEF ChainInv
  <2>2. ChainParts'
    BY <1>1, <1>3, <2>1, ChainStep
  <2>3. QED
    BY <1>1, <1>3, <2>1, <2>2, RestoreStep
<1>4. QED
  BY <1>1, <1>2, <1>3 DEF ChainInv

\* Where nothing fails and chains are removed as a whole, every archive that the runs and
\* the prunes of any number of callers, one at a time, leave can be restored from its own
\* tier, however long a copy to cold storage takes.
THEOREM ChainsStayIntact ==
    ASSUME \A f \in FaultModels : f = {} \/ "prunes" \in f, Removes \subseteq {"FULL"}
    PROVE  Spec => []ChainsIntact
<1>1. Init => ChainInv
  BY ChainInit
<1>2. ChainInv /\ [Next]_vars => ChainInv'
  BY ChainInvStep
<1>3. ChainInv => ChainsIntact
  <2>1. SUFFICES ASSUME ChainInv, "prunes" \notin faults, Quiet, NEW t \in Tiers, NEW a \in Range(files[t])
                 PROVE  a \in whole[t] /\ Rebuilds(PlanOf(files[t], a))
    BY DEF ChainsIntact, Restorable
  <2>2. RetInv /\ faults = {}
    BY <2>1 DEF ChainInv, RetInv, OrderInv, TInv, RunTyped
  <2>3. /\ TInv /\ Ascending(files["HOT"]) /\ Ascending(files["COLD"])
        /\ ChainParts /\ pc = "idle" /\ \A w \in Workers : worker[w] = "idle"
    BY <2>1, <2>2, ChainFacts DEF ChainInv, Quiet
  <2>4. files[t] \in Seq(Ids) /\ Range(files[t]) \subseteq 1 .. made /\ Ascending(files[t])
    BY <2>3, Listings DEF Tiers
  <2>5. a \in whole[t]
    BY <2>1, <2>3 DEF ChainParts, AllComplete, Tiers, Hot, Cold, Copying
  <2>6. \A x \in Range(files[t]) : Inc(x) => x - 1 \in Range(files[t])
    <3>1. CASE t = "HOT"
      BY <2>3, <3>1 DEF ChainParts, HotChains, Hot, Moving, Held
    <3>2. CASE t = "COLD"
      BY <2>3, <3>2 DEF ChainParts, ColdChains, Cold
    <3>3. QED
      BY <3>1, <3>2 DEF Tiers
  <2>7. Rebuilds(PlanOf(files[t], a))
    BY <2>2, <2>3, <2>4, <2>6, PlanRebuilds DEF ChainParts
  <2>8. QED
    BY <2>5, <2>7
<1>4. QED
  BY <1>1, <1>2, <1>3, PTL DEF Spec

\* There, a restore that begins with a FULL archive and reports DONE has rebuilt the state,
\* whatever runs and prunes did meanwhile.
THEOREM RestoresRebuild ==
    ASSUME \A f \in FaultModels : f = {} \/ "prunes" \in f, Removes \subseteq {"FULL"}
    PROVE  Spec => []AnchoredRestoreRebuilds
<1>1. Init => ChainInv
  BY ChainInit
<1>2. ChainInv /\ [Next]_vars => ChainInv'
  BY ChainInvStep
<1>3. ChainInv => AnchoredRestoreRebuilds
  <2>1. SUFFICES ASSUME ChainInv, "prunes" \notin faults, restore.pc = "DONE", kind[restore.applied[1]] = "FULL"
                 PROVE  Rebuilds(restore.applied)
    BY DEF AnchoredRestoreRebuilds, AnchoredRestores
  <2>2. RestoreSound /\ restore \in [pc : {"idle", "extract", "DONE", "ERROR"}, tier : Tiers,
                                       plan : Seq(Ids), applied : Seq(Ids)]
    BY <2>1 DEF ChainInv, RetInv, OrderInv, TInv, RunTyped, RestoreTyped
  <2>3. PICK q \in Seq(Ids) : /\ q = restore.applied \o restore.plan
                              /\ kind[q[1]] = "FULL" => Rebuilds(q)
    BY <2>1, <2>2 DEF RestoreSound
  <2>4. restore.plan = <<>> /\ restore.applied \in Seq(Ids)
    BY <2>1, <2>2 DEF RestoreSound
  <2>5. q = restore.applied
    BY <2>3, <2>4, ConcatEmptySeq
  <2>6. QED
    BY <2>1, <2>3, <2>5
<1>4. QED
  BY <1>1, <1>2, <1>3, PTL DEF Spec
===============================================================================
