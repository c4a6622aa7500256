----------------------------- MODULE SequenceLemmas -----------------------------
(***************************************************************************)
(* Facts that the proofs of several components share: what appending an    *)
(* element, removing one or listing a set does to a sequence, mostly to    *)
(* one without duplicates, and the least element of a set of numbers.      *)
(***************************************************************************)
EXTENDS Integers, SequencesExt, FiniteSetsExt, SequenceTheorems, FiniteSetTheorems,
        WellFoundedInduction, TLAPS

\* Append adds one element (the queue and the batch's list grow by a key).
LEMMA RangeAppend ==
    ASSUME NEW S, NEW q \in Seq(S), NEW e \in S
    PROVE  /\ Append(q, e) \in Seq(S)
           /\ Append(q, e) # <<>>
           /\ Range(Append(q, e)) = Range(q) \cup {e}
<1>1. /\ Append(q, e) \in Seq(S)
      /\ Append(q, e) # <<>>
      /\ Len(Append(q, e)) = Len(q) + 1
      /\ \A i \in 1 .. Len(q) : Append(q, e)[i] = q[i]
      /\ Append(q, e)[Len(q) + 1] = e
  BY AppendProperties
<1>2. /\ Range(Append(q, e)) = {Append(q, e)[i] : i \in 1 .. Len(q) + 1}
      /\ Range(q) = {q[i] : i \in 1 .. Len(q)}
      /\ Len(q) \in Nat
  BY <1>1, RangeEquality, LenProperties
<1>3. Range(Append(q, e)) \subseteq Range(q) \cup {e}
  BY <1>1, <1>2
<1>4. Range(q) \cup {e} \subseteq Range(Append(q, e))
  BY <1>1, <1>2
<1>5. QED
  BY <1>1, <1>3, <1>4

\* Append, as the function a sequence is.
LEMMA AppendIsFunction ==
    ASSUME NEW S, NEW q \in Seq(S), NEW e \in S
    PROVE  Append(q, e) = [i \in 1 .. (Len(q) + 1) |-> IF i <= Len(q) THEN q[i] ELSE e]
<1>1. /\ Append(q, e) \in Seq(S)
      /\ Len(Append(q, e)) = Len(q) + 1
      /\ \A i \in 1 .. Len(q) : Append(q, e)[i] = q[i]
      /\ Append(q, e)[Len(q) + 1] = e
      /\ Len(q) \in Nat
  BY AppendProperties, LenProperties
<1> DEFINE t == Append(q, e)
<1>2. t = [i \in 1 .. (Len(q) + 1) |-> t[i]]
  BY <1>1, LenProperties
<1> HIDE DEF t
<1>3. \A i \in 1 .. (Len(q) + 1) : t[i] = IF i <= Len(q) THEN q[i] ELSE e
  BY <1>1 DEF t
<1>4. QED
  BY <1>2, <1>3 DEF t

\* Appending an absent element keeps the sequence free of duplicates.
LEMMA InjectiveAppend ==
    ASSUME NEW S, NEW q \in Seq(S), NEW e \in S, IsInjective(q), e \notin Range(q)
    PROVE  IsInjective(Append(q, e))
<1>1. /\ Append(q, e) \in Seq(S)
      /\ Len(Append(q, e)) = Len(q) + 1
      /\ \A i \in 1 .. Len(q) : Append(q, e)[i] = q[i]
      /\ Append(q, e)[Len(q) + 1] = e
      /\ Len(q) \in Nat /\ DOMAIN q = 1 .. Len(q)
  BY AppendProperties, LenProperties
<1>2. DOMAIN Append(q, e) = 1 .. Len(q) + 1
  BY <1>1, LenProperties
<1>3. \A i \in 1 .. Len(q) : q[i] # e
  BY <1>1, RangeEquality
<1>4. SUFFICES ASSUME NEW a \in 1 .. Len(q) + 1, NEW b \in 1 .. Len(q) + 1,
                      Append(q, e)[a] = Append(q, e)[b]
               PROVE  a = b
  BY <1>2 DEF IsInjective
<1>5. CASE a \in 1 .. Len(q) /\ b \in 1 .. Len(q)
  BY <1>1, <1>4, <1>5 DEF IsInjective
<1>6. CASE a = Len(q) + 1 \/ b = Len(q) + 1
  BY <1>1, <1>3, <1>4, <1>6
<1>7. QED
  BY <1>1, <1>5, <1>6

\* A set of natural numbers that is not empty has a least element.
LEMMA LeastExists ==
    ASSUME NEW T, T \subseteq Nat, T # {}
    PROVE  \E m \in T : \A x \in T : m <= x
<1> DEFINE R == OpToRel(<, Nat)
<1>1. R = {p \in Nat \X Nat : p[1] < p[2]}
  BY DEF OpToRel
<1>2. IsWellFoundedOn(R, Nat)
  BY NatLessThanWellFounded
<1> HIDE DEF R
<1>3. PICK m \in T : \A x \in T : <<x, m>> \notin R
  BY <1>2, WFMin
<1>4. \A x \in T : ~(x < m)
  BY <1>1, <1>3
<1>5. QED
  BY <1>4

LEMMA MinProperties ==
    ASSUME NEW T, T \subseteq Nat, T # {}
    PROVE  Min(T) \in T /\ \A x \in T : Min(T) <= x
BY LeastExists DEF Min

\* The least element of a set of integers that has one.
LEMMA MinIsLeast ==
    ASSUME NEW I \in SUBSET Int, NEW k \in I, \A i \in I : i = k
    PROVE  Min(I) = k
<1>1. k \in Int /\ I = {k}
  OBVIOUS
<1>2. \E x \in I : \A y \in I : x <= y
  BY <1>1
<1>3. Min(I) \in I
  BY <1>2 DEF Min
<1>4. QED
  BY <1>1, <1>3

\* RemoveAt closes the gap (append(s[:i], s[i+1:]...)).
LEMMA RemoveAtProperties ==
    ASSUME NEW S, NEW q \in Seq(S), NEW k \in 1 .. Len(q)
    PROVE  /\ RemoveAt(q, k) \in Seq(S) /\ Len(RemoveAt(q, k)) = Len(q) - 1
           /\ \A i \in 1 .. Len(q) - 1 : RemoveAt(q, k)[i] = IF i < k THEN q[i] ELSE q[i + 1]
<1>1. /\ Len(q) \in Nat /\ k \in 1 .. Len(q)
      /\ \A i \in 1 .. Len(q) : q[i] \in S
  BY LenProperties, ElementOfSeq
<1> DEFINE a == SubSeq(q, 1, k - 1)
           b == SubSeq(q, k + 1, Len(q))
           t == a \o b
<1>2. /\ a \in Seq(S) /\ Len(a) = k - 1
      /\ \A i \in 1 .. k - 1 : a[i] = q[i]
  <2>1. k - 1 \in Nat /\ (k - 1) - 1 + 1 = k - 1 /\ \A i \in 1 .. k - 1 : i \in 1 .. Len(q)
    BY <1>1
  <2>2. \A i \in 1 .. k - 1 : q[i] \in S
    BY <1>1, <2>1
  <2>3. /\ a \in Seq(S)
        /\ Len(a) = IF 1 <= k - 1 THEN (k - 1) - 1 + 1 ELSE 0
        /\ \A i \in 1 .. (k - 1) - 1 + 1 : a[i] = q[1 + i - 1]
    BY <2>1, <2>2, SubSeqProperties
  <2> HIDE DEF a
  <2>4. QED
    BY <2>1, <2>3
<1>3. /\ b \in Seq(S) /\ Len(b) = Len(q) - k
      /\ \A i \in 1 .. Len(q) - k : b[i] = q[k + i]
  <2>1. k + 1 \in Int /\ Len(q) \in Int /\ \A i \in k + 1 .. Len(q) : i \in 1 .. Len(q)
    BY <1>1
  <2>2. \A i \in k + 1 .. Len(q) : q[i] \in S
    BY <1>1, <2>1
  <2>3. /\ b \in Seq(S)
        /\ Len(b) = IF k + 1 <= Len(q) THEN Len(q) - (k + 1) + 1 ELSE 0
        /\ \A i \in 1 .. Len(q) - (k + 1) + 1 : b[i] = q[(k + 1) + i - 1]
    BY <2>1, <2>2, SubSeqProperties
  <2> HIDE DEF b
  <2>4. Len(b) = Len(q) - k
    <3>1. k \in Int /\ Len(q) \in Int /\ k <= Len(q)
      BY <1>1
    <3>2. Len(b) = IF k + 1 <= Len(q) THEN Len(q) - (k + 1) + 1 ELSE 0
      BY <2>3
    <3> HIDE DEF b
    <3>3. QED
      BY <3>1, <3>2
  <2>5. ASSUME NEW i \in 1 .. Len(q) - k
        PROVE  b[i] = q[k + i]
    <3>1. i \in 1 .. Len(q) - (k + 1) + 1 /\ (k + 1) + i - 1 = k + i
      BY <1>1
    <3>2. b[i] = q[(k + 1) + i - 1]
      BY <2>3, <3>1
    <3>3. QED
      BY <3>1, <3>2
  <2>6. QED
    BY <2>3, <2>4, <2>5
<1>4. /\ t \in Seq(S) /\ Len(t) = Len(q) - 1
      /\ \A i \in 1 .. Len(q) - 1 : t[i] = IF i < k THEN q[i] ELSE q[i + 1]
  <2>1. /\ t \in Seq(S) /\ Len(t) = Len(a) + Len(b)
        /\ \A i \in 1 .. Len(a) + Len(b) :
             t[i] = IF i <= Len(a) THEN a[i] ELSE b[i - Len(a)]
    BY <1>2, <1>3, ConcatProperties
  <2>2. Len(a) = k - 1 /\ Len(b) = Len(q) - k
    BY <1>2, <1>3
  <2> HIDE DEF a, b, t
  <2>3. Len(a) + Len(b) = Len(q) - 1
    BY <1>1, <2>2
  <2>4. ASSUME NEW i \in 1 .. Len(q) - 1
        PROVE  t[i] = IF i < k THEN q[i] ELSE q[i + 1]
    <3>1. CASE i < k
      <4>1. i \in 1 .. k - 1 /\ i <= Len(a) /\ i \in 1 .. Len(a) + Len(b)
        BY <1>1, <2>2, <2>3, <3>1
      <4>2. t[i] = a[i] /\ a[i] = q[i]
        BY <1>2, <2>1, <4>1
      <4>3. QED
        BY <3>1, <4>2
    <3>2. CASE ~(i < k)
      <4>1. i - (k - 1) \in 1 .. Len(q) - k /\ k + (i - (k - 1)) = i + 1
        BY <1>1, <3>2
      <4>2. t[i] = b[i - (k - 1)]
        BY <1>1, <2>1, <2>2, <2>3, <3>2
      <4>3. QED
        BY <1>3, <3>2, <4>1, <4>2
    <3>3. QED
      BY <3>1, <3>2
  <2>5. QED
    BY <2>1, <2>3, <2>4
<1>5. QED
  BY <1>4 DEF RemoveAt

\* Removing from a sequence without duplicates: exactly the element goes.
LEMMA RemoveFirstProperties ==
    ASSUME NEW S, NEW q \in Seq(S), NEW e, IsInjective(q)
    PROVE  /\ RemoveFirst(q, e) \in Seq(S)
           /\ IsInjective(RemoveFirst(q, e))
           /\ Range(RemoveFirst(q, e)) = Range(q) \ {e}
<1>1. /\ Len(q) \in Nat /\ DOMAIN q = 1 .. Len(q)
      /\ Range(q) = {q[i] : i \in 1 .. Len(q)}
      /\ \A i \in 1 .. Len(q) : q[i] \in S
  BY LenProperties, RangeEquality, ElementOfSeq
<1>2. CASE ~ \E i \in 1 .. Len(q) : q[i] = e
  BY <1>1, <1>2 DEF RemoveFirst
<1>3. CASE \E i \in 1 .. Len(q) : q[i] = e
  <2>1. PICK k \in 1 .. Len(q) : q[k] = e
    BY <1>3
  <2>2. \A i \in 1 .. Len(q) : q[i] = e => i = k
    BY <1>1, <2>1 DEF IsInjective
  <2>3. SelectInSeq(q, LAMBDA v : v = e) = k
    <3> DEFINE I == {i \in 1 .. Len(q) : q[i] = e}
    <3>1. I \in SUBSET Int /\ k \in I /\ \A i \in I : i = k
      BY <1>1, <2>1, <2>2
    <3>2. Min(I) = k
      BY <3>1, MinIsLeast
    <3>3. QED
      BY <3>1, <3>2 DEF SelectInSeq
  <2> DEFINE t == RemoveAt(q, k)
  <2>4. RemoveFirst(q, e) = t
    BY <1>3, <2>3 DEF RemoveFirst
  <2>7. /\ t \in Seq(S) /\ Len(t) = Len(q) - 1
        /\ \A i \in 1 .. Len(q) - 1 : t[i] = IF i < k THEN q[i] ELSE q[i + 1]
    BY <1>1, <2>1, RemoveAtProperties
  <2> HIDE DEF t
  <2>8. DOMAIN t = 1 .. Len(q) - 1 /\ Range(t) = {t[i] : i \in 1 .. Len(q) - 1}
    BY <2>7, LenProperties, RangeEquality
  <2>9. IsInjective(t)
    <3>1. SUFFICES ASSUME NEW i \in 1 .. Len(q) - 1, NEW j \in 1 .. Len(q) - 1, t[i] = t[j]
                   PROVE  i = j
      BY <2>8 DEF IsInjective
    <3> DEFINE up(x) == IF x < k THEN x ELSE x + 1
    <3>2. up(i) \in 1 .. Len(q) /\ up(j) \in 1 .. Len(q) /\ t[i] = q[up(i)] /\ t[j] = q[up(j)]
      BY <1>1, <2>1, <2>7
    <3>3. up(i) = up(j)
      BY <1>1, <3>1, <3>2 DEF IsInjective
    <3>4. QED
      BY <1>1, <3>3
  <2>10. Range(t) \subseteq Range(q) \ {e}
    <3>1. SUFFICES ASSUME NEW i \in 1 .. Len(q) - 1 PROVE t[i] \in Range(q) \ {e}
      BY <2>8
    <3>2. PICK j \in 1 .. Len(q) : j # k /\ t[i] = q[j]
      BY <1>1, <2>1, <2>7
    <3>3. QED
      BY <1>1, <2>2, <3>2
  <2>11. Range(q) \ {e} \subseteq Range(t)
    <3>1. SUFFICES ASSUME NEW j \in 1 .. Len(q), q[j] # e PROVE q[j] \in Range(t)
      BY <1>1
    <3>2. PICK i \in 1 .. Len(q) - 1 : t[i] = q[j]
      <4>1. j < k \/ j > k
        BY <1>1, <2>1, <3>1
      <4>2. CASE j < k
        BY <1>1, <2>1, <2>7, <4>2
      <4>3. CASE j > k
        <5>1. j - 1 \in 1 .. Len(q) - 1 /\ ~(j - 1 < k) /\ (j - 1) + 1 = j
          BY <1>1, <2>1, <4>3
        <5>2. QED
          BY <2>7, <5>1
      <4>4. QED
        BY <4>1, <4>2, <4>3
    <3>3. QED
      BY <2>8, <3>2
  <2>12. QED
    BY <2>4, <2>7, <2>9, <2>10, <2>11
<1>4. QED
  BY <1>2, <1>3

LEMMA RemoveFirstFromEmpty ==
    ASSUME NEW e
    PROVE  RemoveFirst(<<>>, e) = <<>>
BY DEF RemoveFirst

\* Adding an element that may be there already.
LEMMA AppendIfAbsent ==
    ASSUME NEW S, NEW q \in Seq(S), NEW e \in S, IsInjective(q),
           NEW t, t = IF Contains(q, e) THEN q ELSE Append(q, e)
    PROVE  /\ t \in Seq(S)
           /\ IsInjective(t)
           /\ Range(t) = Range(q) \cup {e}
           /\ Contains(q, e) <=> e \in Range(q)
<1>1. Contains(q, e) <=> e \in Range(q)
  BY RangeEquality DEF Contains
<1>2. CASE e \in Range(q)
  BY <1>1, <1>2
<1>3. CASE e \notin Range(q)
  BY <1>1, <1>3, RangeAppend, InjectiveAppend
<1>4. QED
  BY <1>1, <1>2, <1>3

LEMMA RangeSingleton ==
    ASSUME NEW S, NEW e \in S
    PROVE  <<e>> \in Seq(S) /\ Range(<<e>>) = {e} /\ Range(<<>>) = {}
<1>1. /\ <<e>> \in Seq(S) /\ Len(<<e>>) = 1 /\ <<e>>[1] = e
      /\ <<>> \in Seq(S) /\ Len(<<>>) = 0
  OBVIOUS
<1>2. /\ Range(<<e>>) = {<<e>>[i] : i \in 1 .. Len(<<e>>)}
      /\ Range(<<>>) = {<<>>[i] : i \in 1 .. Len(<<>>)}
  BY <1>1, RangeEquality
<1>3. QED
  BY <1>1, <1>2

\* A queue that is not empty holds some key.
LEMMA NonEmptyRange ==
    ASSUME NEW S, NEW q \in Seq(S), q # <<>>
    PROVE  \E e \in Range(q) : TRUE
<1>1. Range(q) = {q[i] : i \in 1 .. Len(q)} /\ Len(q) \in Nat /\ Len(q) # 0
  BY RangeEquality, LenProperties, EmptySeq
<1>2. q[1] \in Range(q)
  BY <1>1
<1>3. QED
  BY <1>2

LEMMA RangeOfEmpty == Range(<<>>) = {} /\ IsInjective(<<>>)
<1>1. Range(<<>>) = {}
  BY RangeSingleton
<1>2. IsInjective(<<>>)
  BY DEF IsInjective
<1>3. QED
  BY <1>1, <1>2

\* A finite set listed as a sequence: each element stands somewhere.
LEMMA SetToSeqProperties ==
    ASSUME NEW S, IsFiniteSet(S)
    PROVE  /\ SetToSeq(S) \in Seq(S) /\ Len(SetToSeq(S)) = Cardinality(S)
           /\ Cardinality(S) \in Nat
           /\ \A e \in S : \E i \in 1 .. Cardinality(S) : SetToSeq(S)[i] = e
<1> DEFINE n == Cardinality(S)
           q == SetToSeq(S)
<1>1. n \in Nat /\ ExistsBijection(1 .. n, S)
  BY FS_CardinalityType
<1>2. PICK f \in [1 .. n -> S] : IsInjective(f)
  BY <1>1 DEF ExistsBijection, Bijection, Injection
<1>3. q \in [1 .. n -> S] /\ IsInjective(q)
  BY <1>2 DEF SetToSeq
<1> HIDE DEF q
<1>4. q \in Seq(S) /\ Len(q) = n
  BY <1>1, <1>3
<1>5. q \in Injection(1 .. n, S)
  BY <1>3 DEF Injection
<1>6. IsFiniteSet(1 .. n) /\ Cardinality(1 .. n) = n
  BY <1>1, FS_Interval
<1>7. q \in Surjection(1 .. n, S)
  BY <1>5, <1>6, FS_Injection
<1>8. \A e \in S : \E i \in 1 .. n : q[i] = e
  BY <1>7 DEF Surjection
<1>9. QED
  BY <1>1, <1>4, <1>8 DEF q
===============================================================================
