------------------------- MODULE ConfigSchedulerProofs -------------------------
(***************************************************************************)
(* Proofs about the configuration and the scheduler, for any jobs, servers *)
(* and number of requests, and any number of handlers that overlap.        *)
(*                                                                         *)
(* The difficult part is the slice of servers that a scheduler keeps: its  *)
(* array is the handlers' too as long as it has not grown.  SliceOK says   *)
(* where in it each known server stands.                                   *)
(***************************************************************************)
EXTENDS ConfigScheduler, SequenceLemmas

Elements == [name : Names, version : Versions \cup {"torn"}]
Header   == [cap : Nat, len : Nat]
DiskType == [Names -> Versions \cup {"none", "torn"}]

-------------------------------------------------------------------------------
(* Lists.                                                                   *)

Is(x, n) == x.name = n /\ x.version # "torn"

\* Named finds an element if there is one.
LEMMA NamedProperties ==
    ASSUME NEW q \in Seq(Elements), NEW n
    PROVE  /\ Named(q, n) \in 0 .. Len(q)
           /\ Named(q, n) # 0 => Is(q[Named(q, n)], n)
           /\ Named(q, n) = 0 => \A i \in 1 .. Len(q) : ~Is(q[i], n)
<1> DEFINE I == {i \in 1 .. Len(q) : q[i].name = n /\ q[i].version # "torn"}
<1>1. Len(q) \in Nat
  BY LenProperties
<1>2. Named(q, n) = IF I # {} THEN Min(I) ELSE 0
  BY DEF Named, SelectInSeq
<1>3. CASE I = {}
  BY <1>1, <1>2, <1>3 DEF Is
<1>4. CASE I # {}
  <2>1. I \subseteq Nat
    BY <1>1
  <2>2. Min(I) \in I
    BY <1>4, <2>1, MinProperties
  <2>3. QED
    BY <1>1, <1>2, <1>4, <2>2 DEF Is
<1>5. QED
  BY <1>3, <1>4

\* What is after an update where s was before it, or nearer to the beginning.
Keeps(q, r, s) ==
    \A i \in 1 .. Len(q) : Is(q[i], s) => \E j \in 1 .. Len(r) : j <= i /\ Is(r[j], s)

LEMMA AddedProperties ==
    ASSUME NEW q \in Seq(Elements), NEW x \in Elements, x.version # "torn"
    PROVE  /\ Added(q, x) \in Seq(Elements) /\ Len(Added(q, x)) <= Len(q) + 1
           /\ \A s : Keeps(q, Added(q, x), s)
<1>1. Len(q) \in Nat /\ q \in [1 .. Len(q) -> Elements]
  BY LenProperties
<1>2. CASE Named(q, x.name) = 0
  <2> DEFINE r == Append(q, x)
  <2>1. /\ r \in Seq(Elements) /\ Len(r) = Len(q) + 1
        /\ \A i \in 1 .. Len(q) : r[i] = q[i]
    BY AppendProperties
  <2> HIDE DEF r
  <2>2. \A s : Keeps(q, r, s)
    BY <1>1, <2>1 DEF Keeps
  <2>3. QED
    BY <1>1, <1>2, <2>1, <2>2 DEF Added, With, r
<1>3. CASE Named(q, x.name) # 0
  <2>1. PICK k \in 1 .. Len(q) : k = Named(q, x.name) /\ q[k].name = x.name
    BY <1>1, <1>3, NamedProperties DEF Is
  <2> DEFINE r == [q EXCEPT ![k] = x]
  <2>2. r \in [1 .. Len(q) -> Elements] /\ \A i \in 1 .. Len(q) : r[i] = IF i = k THEN x ELSE q[i]
    BY <1>1
  <2>3. r \in Seq(Elements) /\ Len(r) = Len(q)
    BY <1>1, <2>2
  <2>4. Added(q, x) = r
    BY <1>3, <2>1 DEF Added
  <2> HIDE DEF r
  <2>5. ASSUME NEW s
        PROVE  Keeps(q, r, s)
    <3>1. SUFFICES ASSUME NEW i \in 1 .. Len(q), Is(q[i], s)
                   PROVE  Is(r[i], s)
      BY <1>1, <2>3 DEF Keeps
    <3>2. CASE i = k
      BY <2>1, <2>2, <3>1, <3>2 DEF Is
    <3>3. CASE i # k
      BY <2>2, <3>1, <3>3
    <3>4. QED
      BY <3>2, <3>3
  <2>6. QED
    BY <1>1, <2>3, <2>4, <2>5
<1>4. QED
  BY <1>2, <1>3

LEMMA RemovedProperties ==
    ASSUME NEW q \in Seq(Elements), NEW n, Named(q, n) # 0
    PROVE  /\ RemoveAt(q, Named(q, n)) \in Seq(Elements) /\ Len(RemoveAt(q, Named(q, n))) = Len(q) - 1
           /\ \A s : s # n => Keeps(q, RemoveAt(q, Named(q, n)), s)
<1>1. Len(q) \in Nat
  BY LenProperties
<1>2. PICK k \in 1 .. Len(q) : k = Named(q, n) /\ q[k].name = n
  BY <1>1, NamedProperties DEF Is
<1> DEFINE r == RemoveAt(q, k)
<1>3. /\ r \in Seq(Elements) /\ Len(r) = Len(q) - 1
      /\ \A i \in 1 .. Len(q) - 1 : r[i] = IF i < k THEN q[i] ELSE q[i + 1]
  BY RemoveAtProperties
<1> HIDE DEF r
<1>4. ASSUME NEW s, s # n
      PROVE  Keeps(q, r, s)
  <2>1. SUFFICES ASSUME NEW i \in 1 .. Len(q), Is(q[i], s)
                 PROVE  \E j \in 1 .. Len(r) : j <= i /\ Is(r[j], s)
    BY DEF Keeps
  <2>2. i # k
    BY <1>2, <1>4, <2>1 DEF Is
  <2>3. CASE i < k
    <3>1. i \in 1 .. Len(q) - 1 /\ i <= i
      BY <1>1, <1>2, <2>3
    <3>2. r[i] = q[i]
      BY <1>3, <2>3, <3>1
    <3>3. QED
      BY <1>3, <2>1, <3>1, <3>2
  <2>4. CASE i > k
    <3>1. i - 1 \in 1 .. Len(q) - 1 /\ i - 1 <= i /\ ~(i - 1 < k) /\ (i - 1) + 1 = i
      BY <1>1, <1>2, <2>4
    <3>2. r[i - 1] = q[i]
      BY <1>3, <3>1
    <3>3. QED
      BY <1>3, <2>1, <3>1, <3>2
  <2>5. QED
    BY <1>1, <1>2, <2>2, <2>3, <2>4
<1>5. QED
  BY <1>2, <1>3, <1>4 DEF r

-------------------------------------------------------------------------------
(* Arrays and slices.                                                       *)

\* An array holds no more than its capacity, a list no more than its array.
StoreOK(a, h) ==
    /\ h \in Header /\ h.cap \in DOMAIN a /\ h.len <= Len(a[h.cap])
    /\ \A c \in DOMAIN a : c \in Nat /\ a[c] \in Seq(Elements) /\ Len(a[c]) <= c

\* The slice's array is the list's, or one that the list has outgrown; each known
\* server stands in it, and where the list has it as long as they share the array.
SliceOK(a, h, sl, kn) ==
    /\ sl \in Header /\ sl.cap \in DOMAIN a /\ sl.cap <= h.cap /\ sl.len <= Len(a[sl.cap])
    /\ \A s \in kn : \E i \in 1 .. sl.len :
          Is(a[sl.cap][i], s) /\ (sl.cap = h.cap => i <= h.len)

LEMMA SliceView ==
    ASSUME NEW b \in Seq(Elements), NEW n \in Nat, n <= Len(b)
    PROVE  /\ SubSeq(b, 1, n) \in Seq(Elements) /\ Len(SubSeq(b, 1, n)) = n
           /\ \A i \in 1 .. n : SubSeq(b, 1, n)[i] = b[i]
<1>1. Len(b) \in Nat /\ \A i \in 1 .. Len(b) : b[i] \in Elements
  BY LenProperties, ElementOfSeq
<1>2. \A i \in 1 .. n : b[i] \in Elements
  BY <1>1
<1> DEFINE r == SubSeq(b, 1, n)
<1>3. /\ r \in Seq(Elements)
      /\ Len(r) = IF 1 <= n THEN n - 1 + 1 ELSE 0
      /\ \A i \in 1 .. n - 1 + 1 : r[i] = b[1 + i - 1]
  BY <1>2, SubSeqProperties
<1> HIDE DEF r
<1>4. Len(r) = n /\ \A i \in 1 .. n : r[i] = b[i]
  BY <1>3
<1>5. QED
  BY <1>3, <1>4 DEF r

LEMMA SliceFinds ==
    ASSUME NEW a, NEW h, NEW sl, NEW kn, StoreOK(a, h), SliceOK(a, h, sl, kn), kn \subseteq Servers
    PROVE  kn \subseteq ServersIn(SubSeq(a[sl.cap], 1, sl.len))
<1> DEFINE q == SubSeq(a[sl.cap], 1, sl.len)
<1>0. PICK b \in Seq(Elements), n \in Nat : b = a[sl.cap] /\ n = sl.len /\ n <= Len(b)
  BY DEF StoreOK, SliceOK, Header
<1>1. /\ q \in Seq(Elements) /\ Len(q) = sl.len
      /\ \A i \in 1 .. sl.len : q[i] = a[sl.cap][i]
  BY <1>0, SliceView
<1> HIDE DEF q
<1>2. SUFFICES ASSUME NEW s \in kn
               PROVE  Named(q, s) # 0
  BY DEF ServersIn, q
<1>3. PICK i \in 1 .. sl.len : Is(a[sl.cap][i], s)
  BY DEF SliceOK
<1>4. i \in 1 .. Len(q) /\ Is(q[i], s)
  BY <1>1, <1>3
<1>5. QED
  BY <1>1, <1>4, NamedProperties

ArraysInv ==
    /\ arrays = [k \in Kinds |-> arrays[k]] /\ header \in [Kinds -> Header]
    /\ \A k \in Kinds : StoreOK(arrays[k], header[k])

LEMMA MemoryProperties ==
    ASSUME ArraysInv, NEW k \in Kinds
    PROVE  /\ Memory(k) \in Seq(Elements) /\ Len(Memory(k)) = header[k].len
           /\ \A i \in 1 .. header[k].len : Memory(k)[i] = arrays[k][header[k].cap][i]
<1>1. StoreOK(arrays[k], header[k])
  BY DEF ArraysInv
<1>2. PICK b \in Seq(Elements), n \in Nat : b = arrays[k][header[k].cap] /\ n = header[k].len /\ n <= Len(b)
  BY <1>1 DEF StoreOK, Header
<1>3. Memory(k) = SubSeq(b, 1, n)
  BY <1>2 DEF Memory, View
<1>4. QED
  BY <1>2, <1>3, SliceView

\* A list is stored: its array keeps the rest, or is left for a longer one.
LEMMA StoredProperties ==
    ASSUME ArraysInv, NEW k \in Kinds, NEW q \in Seq(Elements), Len(q) <= header[k].len + 1, Stored(k, q)
    PROVE  /\ ArraysInv'
           /\ \A m \in Kinds \ {k} : arrays'[m] = arrays[m] /\ header'[m] = header[m]
           /\ header'[k].cap >= header[k].cap /\ header'[k].len = Len(q)
           /\ \A i \in 1 .. Len(q) : arrays'[k][header'[k].cap][i] = q[i]
           /\ header'[k].cap = header[k].cap =>
                 Len(arrays'[k][header'[k].cap]) >= Len(arrays[k][header[k].cap])
           /\ \A c \in DOMAIN arrays[k] : c \in DOMAIN arrays'[k]
           /\ \A c \in DOMAIN arrays[k] \ {header'[k].cap} : arrays'[k][c] = arrays[k][c]
<1>1. /\ StoreOK(arrays[k], header[k]) /\ header \in [Kinds -> Header]
      /\ arrays = [m \in Kinds |-> arrays[m]]
  BY DEF ArraysInv
<1> DEFINE a == arrays[k]
<1>0. header[k] \in Header /\ header[k].cap \in Nat /\ header[k].len \in Nat /\ Len(q) \in Nat
  BY <1>1, LenProperties DEF Header
<1> HIDE DEF a
<1>2. PICK cap \in Nat, len \in Nat, n \in Nat :
        cap = header[k].cap /\ len = header[k].len /\ n = Len(q) /\ a = arrays[k]
  BY <1>0 DEF a
<1>3. /\ cap \in DOMAIN a /\ len <= Len(a[cap]) /\ n <= len + 1
      /\ \A c \in DOMAIN a : c \in Nat /\ a[c] \in Seq(Elements) /\ Len(a[c]) <= c
  BY <1>1, <1>2 DEF StoreOK
<1> DEFINE p == IF n > cap THEN Grown(cap) ELSE cap
           h == [cap |-> p, len |-> n]
           old == IF p = cap THEN a[p] ELSE <<>>
           rest == SubSeq(old, n + 1, Len(old))
           new == q \o rest
<1>4. /\ header' = [header EXCEPT ![k] = h]
      /\ arrays' = [arrays EXCEPT ![k] = [c \in DOMAIN a \cup {p} |-> IF c = p THEN new ELSE a[c]]]
  BY <1>1, <1>2 DEF Stored
<1>5. p \in Nat /\ p >= cap /\ n <= p
  <2>1. PICK x \in Nat : x = Len(a[cap])
    BY <1>3, LenProperties
  <2>2. n <= cap + 1
    BY <1>3, <2>1
  <2>3. QED
    BY <2>2 DEF Grown
<1> HIDE DEF p
<1>6. old \in Seq(Elements) /\ Len(old) <= p /\ Len(old) \in Nat
  <2>1. CASE p = cap
    BY <1>3, <2>1, LenProperties
  <2>2. CASE p # cap
    BY <1>5, <2>2
  <2>3. QED
    BY <2>1, <2>2
<1>7. p = cap => old = a[cap]
  OBVIOUS
<1> HIDE DEF old
<1>8. rest \in Seq(Elements) /\ Len(rest) = IF n + 1 <= Len(old) THEN Len(old) - n ELSE 0
  <2>1. PICK z \in Nat : z = Len(old)
    BY <1>6
  <2>2. \A i \in 1 .. z : old[i] \in Elements
    BY <1>6, <2>1, ElementOfSeq
  <2>3. \A i \in n + 1 .. z : old[i] \in Elements
    BY <2>2
  <2>4. SubSeq(old, n + 1, z) \in Seq(Elements) /\ Len(SubSeq(old, n + 1, z)) = IF n + 1 <= z THEN z - (n + 1) + 1 ELSE 0
    BY <1>6, <2>3, SubSeqProperties
  <2>5. z - (n + 1) + 1 = z - n
    OBVIOUS
  <2>6. QED
    BY <2>1, <2>4, <2>5
<1> HIDE DEF rest
<1>9. /\ new \in Seq(Elements) /\ Len(new) = n + Len(rest)
      /\ \A i \in 1 .. n + Len(rest) : new[i] = IF i <= n THEN q[i] ELSE rest[i - n]
  BY <1>2, <1>8, ConcatProperties
<1> HIDE DEF new
<1>10. Len(new) \in Nat /\ Len(new) <= p /\ n <= Len(new) /\ Len(new) >= Len(old)
  BY <1>5, <1>6, <1>8, <1>9
<1>11. \A i \in 1 .. n : new[i] = q[i]
  <2>1. TAKE i \in 1 .. n
  <2>2. Len(rest) \in Nat
    BY <1>6, <1>8
  <2>3. i \in 1 .. n + Len(rest) /\ i <= n
    BY <2>2
  <2>4. QED
    BY <1>9, <2>3
<1>12. h \in Header /\ h.cap = p /\ h.len = n
  BY <1>5 DEF Header
<1> HIDE DEF h
<1> DEFINE b == [c \in DOMAIN a \cup {p} |-> IF c = p THEN new ELSE a[c]]
<1>13. /\ DOMAIN b = DOMAIN a \cup {p} /\ b[p] = new
       /\ \A c \in DOMAIN a \ {p} : b[c] = a[c]
  OBVIOUS
<1> HIDE DEF b
<1>14. header'[k] = h /\ arrays'[k] = b /\ header' \in [Kinds -> Header]
       /\ arrays' = [m \in Kinds |-> arrays'[m]]
       /\ \A m \in Kinds \ {k} : arrays'[m] = arrays[m] /\ header'[m] = header[m]
  BY <1>1, <1>4, <1>12 DEF b
<1>15. StoreOK(b, h)
  BY <1>3, <1>5, <1>9, <1>10, <1>12, <1>13 DEF StoreOK
<1>16. ArraysInv'
  BY <1>14, <1>15 DEF ArraysInv
<1>17. QED
  BY <1>2, <1>5, <1>7, <1>10, <1>11, <1>12, <1>13, <1>14, <1>16

\* The slice of a scheduler outlives what is done to the list of servers.
LEMMA SliceKept ==
    ASSUME ArraysInv, NEW q \in Seq(Elements), Len(q) <= header["servers"].len + 1, Stored("servers", q),
           NEW sl, NEW kn, SliceOK(arrays["servers"], header["servers"], sl, kn),
           \A s \in kn : Keeps(Memory("servers"), q, s)
    PROVE  SliceOK(arrays'["servers"], header'["servers"], sl, kn)
<1> DEFINE k == "servers"
<1>1. k \in Kinds
  BY DEF Kinds
<1> HIDE DEF k
<1> DEFINE a == arrays[k]
           b == arrays'[k]
           h == header[k]
           g == header'[k]
           q0 == Memory(k)
<1>2. /\ g.cap >= h.cap /\ g.len = Len(q)
      /\ \A i \in 1 .. Len(q) : b[g.cap][i] = q[i]
      /\ g.cap = h.cap => Len(b[g.cap]) >= Len(a[h.cap])
      /\ \A c \in DOMAIN a : c \in DOMAIN b
      /\ \A c \in DOMAIN a \ {g.cap} : b[c] = a[c]
      /\ StoreOK(b, g)
  BY <1>1, StoredProperties DEF ArraysInv, k
<1>3. StoreOK(a, h) /\ SliceOK(a, h, sl, kn)
  BY <1>1 DEF ArraysInv, k
<1>4. /\ Len(q0) = h.len /\ \A i \in 1 .. h.len : q0[i] = a[h.cap][i]
      /\ \A s \in kn : Keeps(q0, q, s)
  BY <1>1, MemoryProperties DEF k
<1> HIDE DEF a, b, h, g, q0
<1>5. h.cap \in Nat /\ g.cap \in Nat /\ sl.cap \in Nat /\ sl.len \in Nat /\ h.len \in Nat /\ Len(q) \in Nat
      /\ sl \in Header /\ sl.cap \in DOMAIN a /\ sl.cap <= h.cap /\ sl.len <= Len(a[sl.cap])
      /\ Len(a[h.cap]) \in Nat /\ Len(b[g.cap]) \in Nat
  BY <1>2, <1>3, LenProperties DEF StoreOK, SliceOK, Header
<1>6. CASE sl.cap = g.cap
  <2>1. g.cap = h.cap /\ sl.cap = h.cap
    BY <1>2, <1>5, <1>6
  <2>2. sl.len <= Len(b[sl.cap])
    BY <1>2, <1>5, <2>1
  <2>3. ASSUME NEW s \in kn
        PROVE  \E i \in 1 .. sl.len : Is(b[sl.cap][i], s) /\ i <= g.len
    <3>1. PICK i \in 1 .. sl.len : Is(a[h.cap][i], s) /\ i <= h.len
      BY <1>3, <2>1 DEF SliceOK
    <3>2. i \in 1 .. h.len
      BY <1>5, <3>1
    <3>3. Is(q0[i], s) /\ i \in 1 .. Len(q0)
      BY <1>4, <3>1, <3>2
    <3>4. PICK j \in 1 .. Len(q) : j <= i /\ Is(q[j], s)
      BY <1>4, <3>3 DEF Keeps
    <3>5. j \in 1 .. sl.len /\ j <= g.len /\ b[sl.cap][j] = q[j]
      BY <1>2, <1>5, <2>1, <3>4
    <3>6. QED
      BY <3>4, <3>5
  <2>4. QED
    BY <1>2, <1>5, <2>1, <2>2, <2>3 DEF SliceOK, a, b, g, h, k
<1>7. CASE sl.cap # g.cap
  <2>1. b[sl.cap] = a[sl.cap] /\ sl.cap \in DOMAIN b /\ sl.cap <= g.cap
    BY <1>2, <1>5, <1>7
  <2>2. SliceOK(b, g, sl, kn)
    BY <1>3, <1>5, <1>7, <2>1 DEF SliceOK
  <2>3. QED
    BY <2>2 DEF b, g, k
<1>8. QED
  BY <1>6, <1>7

-------------------------------------------------------------------------------
(* What LoadConfig makes of the files.                                      *)

LEMMA CapacityProperties ==
    ASSUME NEW n \in Nat, n <= 16
    PROVE  Capacity(n) \in Nat /\ n <= Capacity(n)
<1> DEFINE T == {c \in {0, 1, 2, 4, 8, 16} : c >= n}
<1>1. T \subseteq Nat /\ 16 \in T
  OBVIOUS
<1>2. Min(T) \in T
  BY <1>1, MinProperties
<1>3. QED
  BY <1>1, <1>2 DEF Capacity

Base0(k) == IF k = "jobs" THEN Base ELSE <<>>

LEMMA BaseProperties ==
    ASSUME NEW k \in Kinds
    PROVE  /\ Base0(k) \in Seq(Elements) /\ IsFiniteSet(NamesOf(k))
           /\ Len(Base0(k)) \in Nat /\ Cardinality(NamesOf(k)) \in Nat
           /\ Len(Base0(k)) + Cardinality(NamesOf(k)) <= 16
<1>1. IsFiniteSet(Jobs) /\ IsFiniteSet(Servers)
  BY ConfigAssumption
<1>2. Cardinality(Jobs) \in Nat /\ Cardinality(Servers) \in Nat
  BY <1>1, FS_CardinalityType
<1>3. Base \in Seq(Elements)
  <2> DEFINE S == [name : Jobs, version : Versions]
  <2>1. S \subseteq Elements
    BY DEF Elements, Names
  <2>2. Base \in Seq(S)
    BY ConfigAssumption
  <2> HIDE DEF S
  <2>3. PICK n \in Nat : n = Len(Base) /\ DOMAIN Base = 1 .. n
    BY <2>2, LenProperties
  <2>4. \A i \in 1 .. n : Base[i] \in Elements
    BY <2>1, <2>2, <2>3, ElementOfSeq
  <2>5. Base = [i \in 1 .. n |-> Base[i]]
    BY <2>2, <2>3
  <2>6. Base \in [1 .. n -> Elements]
    BY <2>4, <2>5
  <2>7. QED
    BY <2>3, <2>6
<1>4. Len(Base) \in Nat
  BY <1>3, LenProperties
<1>5. Len(Base) + Cardinality(Jobs) <= 16 /\ Cardinality(Servers) <= 16
  BY ConfigAssumption
<1>6. CASE k = "jobs"
  BY <1>1, <1>2, <1>3, <1>4, <1>5, <1>6 DEF Base0, NamesOf
<1>7. CASE k = "servers"
  <2>1. <<>> \in Seq(Elements) /\ Len(<<>>) = 0
    OBVIOUS
  <2>2. QED
    BY <1>1, <1>2, <1>5, <1>7, <2>1 DEF Base0, NamesOf
<1>8. QED
  BY <1>6, <1>7 DEF Kinds

\* The part of a list that comes from the files: one element for each.
FromFiles(k, files) ==
    LET there == SetToSeq({n \in NamesOf(k) : files[n] # "none"})
    IN  [i \in DOMAIN there |-> [name |-> there[i], version |-> files[there[i]]]]

LEMMA FromFilesProperties ==
    ASSUME NEW k \in Kinds, NEW files \in DiskType
    PROVE  /\ FromFiles(k, files) \in Seq(Elements)
           /\ Len(FromFiles(k, files)) <= Cardinality(NamesOf(k))
           /\ \A i \in 1 .. Len(FromFiles(k, files)) :
                FromFiles(k, files)[i].version = files[FromFiles(k, files)[i].name]
           /\ \A n \in NamesOf(k) : files[n] # "none" =>
                \E i \in 1 .. Len(FromFiles(k, files)) : FromFiles(k, files)[i].name = n
<1> DEFINE T == {n \in NamesOf(k) : files[n] # "none"}
           there == SetToSeq(T)
           r == [i \in DOMAIN there |-> [name |-> there[i], version |-> files[there[i]]]]
<1>1. IsFiniteSet(T) /\ Cardinality(T) <= Cardinality(NamesOf(k))
  BY BaseProperties, FS_Subset
<1>2. T \subseteq Names
  BY DEF Names, NamesOf
<1>3. \A n \in T : files[n] \in Versions \cup {"torn"}
  BY <1>2 DEF DiskType
<1>4. \A n \in NamesOf(k) : files[n] # "none" => n \in T
  OBVIOUS
<1> HIDE DEF T
<1>5. /\ there \in Seq(T) /\ Len(there) = Cardinality(T) /\ Cardinality(T) \in Nat
      /\ \A e \in T : \E i \in 1 .. Cardinality(T) : there[i] = e
  BY <1>1, SetToSeqProperties
<1> HIDE DEF there
<1>6. PICK m \in Nat : m = Cardinality(T)
  BY <1>5
<1>7. DOMAIN there = 1 .. m /\ \A i \in 1 .. m : there[i] \in T
  BY <1>5, <1>6, LenProperties, ElementOfSeq
<1>8. r \in [1 .. m -> Elements]
  BY <1>2, <1>3, <1>7 DEF Elements
<1>9. r \in Seq(Elements) /\ Len(r) = m
  BY <1>8
<1>10. \A i \in 1 .. m : r[i].name = there[i] /\ r[i].version = files[there[i]]
  BY <1>7
<1>11. FromFiles(k, files) = r
  BY DEF FromFiles, there, T
<1> HIDE DEF r
<1>12. \A n \in NamesOf(k) : files[n] # "none" => \E i \in 1 .. m : r[i].name = n
  BY <1>4, <1>5, <1>6, <1>10
<1>13. QED
  BY <1>1, <1>6, <1>9, <1>10, <1>11, <1>12

LEMMA LoadedProperties ==
    ASSUME NEW k \in Kinds, NEW files \in DiskType
    PROVE  Loaded(k, files) \in Seq(Elements) /\ Len(Loaded(k, files)) <= 16
<1> DEFINE b == Base0(k)
           r == FromFiles(k, files)
<1>1. /\ b \in Seq(Elements) /\ r \in Seq(Elements)
      /\ Len(b) \in Nat /\ Cardinality(NamesOf(k)) \in Nat
      /\ Len(b) + Cardinality(NamesOf(k)) <= 16 /\ Len(r) <= Cardinality(NamesOf(k))
  BY BaseProperties, FromFilesProperties
<1>2. Loaded(k, files) = b \o r
  BY DEF Loaded, Base0, FromFiles
<1> HIDE DEF b, r
<1>3. b \o r \in Seq(Elements) /\ Len(b \o r) = Len(b) + Len(r) /\ Len(r) \in Nat
  BY <1>1, ConcatProperties, LenProperties
<1>4. QED
  BY <1>1, <1>2, <1>3

\* The version that the handlers see of a file.
Seen(v) == IF v = "torn" THEN "none" ELSE v

LEMMA LoadedVersion ==
    ASSUME NEW k \in Kinds, NEW files \in DiskType, NEW n \in NamesOf(k), Base = <<>>
    PROVE  VersionIn(Loaded(k, files), n) = Seen(files[n])
<1> DEFINE r == FromFiles(k, files)
<1>1. /\ r \in Seq(Elements)
      /\ \A i \in 1 .. Len(r) : r[i].version = files[r[i].name]
      /\ files[n] # "none" => \E i \in 1 .. Len(r) : r[i].name = n
  BY FromFilesProperties
<1>2. Loaded(k, files) = <<>> \o r
  BY DEF Loaded, FromFiles
<1> HIDE DEF r
<1>3. Loaded(k, files) = r
  BY <1>1, <1>2, ConcatEmptySeq
<1> DEFINE i == Named(r, n)
<1>4. /\ i \in 0 .. Len(r)
      /\ i # 0 => Is(r[i], n)
      /\ i = 0 => \A j \in 1 .. Len(r) : ~Is(r[j], n)
  BY <1>1, NamedProperties
<1>5. VersionIn(Loaded(k, files), n) = IF i = 0 THEN "none" ELSE r[i].version
  BY <1>3 DEF VersionIn
<1>6. Len(r) \in Nat
  BY <1>1, LenProperties
<1> HIDE DEF i
<1>7. CASE i = 0
  <2>1. \A j \in 1 .. Len(r) : r[j].name = n => r[j].version = "torn"
    BY <1>4, <1>7 DEF Is
  <2>2. files[n] = "none" \/ files[n] = "torn"
    BY <1>1, <2>1
  <2>3. QED
    BY <1>5, <1>7, <2>2 DEF Seen
<1>8. CASE i # 0
  <2>1. i \in 1 .. Len(r) /\ r[i].name = n /\ r[i].version # "torn"
    BY <1>4, <1>6, <1>8 DEF Is
  <2>2. r[i].version = files[n]
    BY <1>1, <2>1
  <2>3. QED
    BY <1>5, <1>8, <2>1, <2>2 DEF Seen
<1>9. QED
  BY <1>7, <1>8

\* The state that a start of the daemon comes to.
LEMMA BootProperties ==
    ASSUME NEW files \in DiskType, NEW b, b = Boot(files)
    PROVE  /\ b.arrays = [k \in Kinds |-> b.arrays[k]] /\ b.header \in [Kinds -> Header]
           /\ \A k \in Kinds : StoreOK(b.arrays[k], b.header[k])
           /\ b.started = [entries |-> b.started.entries, runs |-> TRUE, slices |-> b.header]
           /\ b.servers \subseteq Servers
           /\ SliceOK(b.arrays["servers"], b.header["servers"], b.header["servers"], b.servers)
<1> DEFINE q == [k \in Kinds |-> Loaded(k, files)]
           h == [k \in Kinds |-> [cap |-> Capacity(Len(q[k])), len |-> Len(q[k])]]
           a == [k \in Kinds |-> [c \in {0, h[k].cap} |-> IF c = 0 THEN <<>> ELSE q[k]]]
<1>1. b = [arrays |-> a, header |-> h,
           started |-> [entries |-> Entries(q["jobs"]), runs |-> TRUE, slices |-> h],
           servers |-> ServersIn(q["servers"])]
  BY DEF Boot
<1> HIDE DEF q, h, a
<1>2. /\ b.arrays = a /\ b.header = h /\ b.servers = ServersIn(q["servers"])
      /\ b.started = [entries |-> b.started.entries, runs |-> TRUE, slices |-> h]
  <2> DEFINE e == Entries(q["jobs"])
  <2>1. b.started = [entries |-> e, runs |-> TRUE, slices |-> h]
    BY <1>1
  <2> HIDE DEF e
  <2>2. b.started = [entries |-> b.started.entries, runs |-> TRUE, slices |-> h]
    BY <2>1
  <2>3. QED
    BY <1>1, <2>2
<1>3. \A k \in Kinds : q[k] \in Seq(Elements) /\ Len(q[k]) \in Nat /\ Len(q[k]) <= 16
  BY LoadedProperties, LenProperties DEF q
<1>4. \A k \in Kinds : Capacity(Len(q[k])) \in Nat /\ Len(q[k]) <= Capacity(Len(q[k]))
  BY <1>3, CapacityProperties
<1>5. ASSUME NEW k \in Kinds
      PROVE  /\ h[k] \in Header /\ h[k].len = Len(q[k]) /\ h[k].cap \in Nat /\ Len(q[k]) <= h[k].cap
             /\ h[k].cap # 0 => a[k][h[k].cap] = q[k]
             /\ StoreOK(a[k], h[k])
  <2> USE DEF a, h
  <2> DEFINE cap == Capacity(Len(q[k]))
             len == Len(q[k])
             e == [c \in {0, cap} |-> IF c = 0 THEN <<>> ELSE q[k]]
  <2>1. cap \in Nat /\ len \in Nat /\ len <= cap /\ q[k] \in Seq(Elements)
    BY <1>3, <1>4
  <2>2. h[k] = [cap |-> cap, len |-> len]
    OBVIOUS
  <2>3. a[k] = e
    BY <2>2
  <2> HIDE DEF a, h, cap
  <2>4. DOMAIN e = {0, cap} /\ e[0] = <<>> /\ (cap # 0 => e[cap] = q[k])
    OBVIOUS
  <2> HIDE DEF e
  <2>5. <<>> \in Seq(Elements) /\ Len(<<>>) = 0
    OBVIOUS
  <2>6. ASSUME NEW c \in {0, cap}
        PROVE  c \in Nat /\ e[c] \in Seq(Elements) /\ Len(e[c]) <= c
    <3>1. CASE c = 0
      BY <2>4, <2>5, <3>1
    <3>2. CASE c # 0
      BY <2>1, <2>4, <3>2 DEF len
    <3>3. QED
      BY <3>1, <3>2
  <2>7. len <= Len(e[cap])
    <3>1. CASE cap = 0
      BY <2>1, <2>4, <2>5, <3>1
    <3>2. CASE cap # 0
      BY <2>1, <2>4, <3>2 DEF len
    <3>3. QED
      BY <3>1, <3>2
  <2>8. h[k] \in Header /\ h[k].cap = cap /\ h[k].len = len
    BY <2>1, <2>2 DEF Header
  <2>9. StoreOK(a[k], h[k])
    BY <2>3, <2>4, <2>6, <2>7, <2>8 DEF StoreOK
  <2>10. QED
    BY <2>1, <2>3, <2>4, <2>8, <2>9 DEF len
<1>6. h \in [Kinds -> Header] /\ a = [k \in Kinds |-> a[k]]
  <2>1. h = [k \in Kinds |-> h[k]]
    BY DEF h
  <2>2. a = [k \in Kinds |-> a[k]]
    BY DEF a
  <2>3. QED
    BY <1>5, <2>1, <2>2
<1>7. ServersIn(q["servers"]) \subseteq Servers
  BY DEF ServersIn
<1>8. SliceOK(a["servers"], h["servers"], h["servers"], ServersIn(q["servers"]))
  <2>1. "servers" \in Kinds
    BY DEF Kinds
  <2> DEFINE p == q["servers"]
             g == h["servers"]
             e == a["servers"]
  <2>2. /\ p \in Seq(Elements) /\ Len(p) \in Nat /\ g \in Header /\ g.len = Len(p) /\ g.cap \in Nat
        /\ Len(p) <= g.cap /\ (g.cap # 0 => e[g.cap] = p) /\ StoreOK(e, g)
    BY <1>3, <1>5, <2>1
  <2> HIDE DEF p, g, e
  <2>3. ASSUME NEW s \in ServersIn(p)
        PROVE  \E i \in 1 .. g.len : Is(e[g.cap][i], s) /\ i <= g.len
    <3>1. Named(p, s) # 0
      BY DEF ServersIn
    <3>2. PICK i \in 0 .. Len(p) : i # 0 /\ Is(p[i], s)
      BY <2>2, <3>1, NamedProperties
    <3>3. i \in 1 .. g.len /\ i <= g.len /\ g.cap # 0
      BY <2>2, <3>2
    <3>4. QED
      BY <2>2, <3>2, <3>3
  <2>4. SliceOK(e, g, g, ServersIn(p))
    BY <2>2, <2>3 DEF SliceOK, StoreOK
  <2>5. QED
    BY <2>4 DEF p, g, e
<1>9. QED
  BY <1>2, <1>5, <1>6, <1>7, <1>8

-------------------------------------------------------------------------------
(* The inductive invariant.                                                 *)

Fields  == {"entries", "runs", "slices"}
Steps   == {"idle", "save", "stop", "replace", "start", "run"}
Unknown == {"unknown", "disputed"}

IsSequence(s) == \E S : s \in Seq(S)

\* The last scheduler made is the daemon's, and the slice of servers it keeps has the
\* known ones.
SchedulerInv ==
    /\ IsSequence(schedulers) /\ current = Len(schedulers) /\ current >= 1
    /\ DOMAIN schedulers[current] = Fields
    /\ known \subseteq Servers
    /\ SliceOK(arrays["servers"], header["servers"],
               schedulers[current].slices["servers"], known)

\* If the daemon's scheduler does not run, some handler is about to replace it or to
\* start it: it is not enough that it is about to start one, which may be replaced.
RunsInv ==
    schedulers[current].runs \/
        \E c \in Clients :
            pc[c] \in {"replace", "start"} \/ (pc[c] = "run" /\ request[c][3] = current)

RequestInv ==
    /\ pc \in [Clients -> Steps]
    /\ ops \in 0 .. MaxOps
    /\ request = [c \in Clients |-> request[c]]
    /\ \A c \in Clients : pc[c] # "idle" =>
          request[c][1] \in Names /\ request[c][2] \in Versions \cup {"none"}

FilesInv ==
    /\ disk \in DiskType
    /\ acked \in [Names -> Versions \cup {"none"} \cup Unknown]
    /\ faults \in FaultModels

Inductive == ArraysInv /\ SchedulerInv /\ RunsInv /\ RequestInv /\ FilesInv

\* What becomes of a sequence of which nothing else is known.
LEMMA Appended ==
    ASSUME NEW s, IsSequence(s), NEW e
    PROVE  /\ IsSequence(Append(s, e)) /\ Len(Append(s, e)) = Len(s) + 1 /\ Len(s) \in Nat
           /\ Append(s, e)[Len(s) + 1] = e
<1>1. PICK S : s \in Seq(S)
  BY DEF IsSequence
<1>2. s \in Seq(S \cup {e}) /\ e \in S \cup {e}
  BY <1>1
<1>3. Append(s, e) \in Seq(S \cup {e})
  BY <1>2
<1>4. QED
  BY <1>2, <1>3, LenProperties DEF IsSequence

ChangedTo(s, i, e, t) == t = [s EXCEPT ![i] = e]

LEMMA Changed ==
    ASSUME NEW s, IsSequence(s), NEW i, NEW e, NEW t, ChangedTo(s, i, e, t)
    PROVE  /\ IsSequence(t) /\ Len(t) = Len(s) /\ Len(s) \in Nat
           /\ \A j \in 1 .. Len(s) : t[j] = IF j = i THEN e ELSE s[j]
<1>1. PICK S : s \in Seq(S)
  BY DEF IsSequence
<1> DEFINE T == S \cup {e}
<1>2. Len(s) \in Nat /\ DOMAIN s = 1 .. Len(s) /\ s = [j \in 1 .. Len(s) |-> s[j]]
      /\ \A j \in 1 .. Len(s) : s[j] \in S
  BY <1>1, LenProperties, ElementOfSeq
<1>3. t = [j \in 1 .. Len(s) |-> IF j = i THEN e ELSE s[j]]
  BY <1>2 DEF ChangedTo
<1>4. t \in [1 .. Len(s) -> T]
  BY <1>2, <1>3
<1>5. t \in Seq(T) /\ DOMAIN t = 1 .. Len(s)
  BY <1>2, <1>4, SeqDef
<1>6. Len(t) = Len(s)
  BY <1>2, <1>5, LenProperties
<1>7. QED
  BY <1>2, <1>3, <1>5, <1>6 DEF IsSequence

LEMMA VersionInType ==
    ASSUME NEW q \in Seq(Elements), NEW n
    PROVE  VersionIn(q, n) \in Versions \cup {"none"}
<1>1. CASE Named(q, n) = 0
  BY <1>1 DEF VersionIn
<1>2. CASE Named(q, n) # 0
  <2>1. Named(q, n) \in 1 .. Len(q) /\ q[Named(q, n)].version # "torn"
    BY <1>2, NamedProperties, LenProperties DEF Is
  <2>2. q[Named(q, n)] \in Elements
    BY <2>1, ElementOfSeq
  <2>3. QED
    BY <1>2, <2>1, <2>2 DEF VersionIn, Elements
<1>3. QED
  BY <1>1, <1>2

LEMMA InitInductive ==
    ASSUME Init
    PROVE  Inductive
<1> DEFINE b == Boot(disk)
<1>1. /\ disk \in [Names -> Versions \cup {"none"}]
      /\ \A s \in Servers : disk[s] \in Valid \cup {"none"}
      /\ arrays = b.arrays /\ header = b.header /\ known = b.servers
      /\ schedulers = <<b.started>> /\ current = 1 /\ ops = 0 /\ faults \in FaultModels
      /\ pc = [c \in Clients |-> "idle"] /\ request = [c \in Clients |-> <<>>]
      /\ acked = [n \in Names |-> IF n \in Jobs THEN VersionIn(Loaded("jobs", disk), n) ELSE disk[n]]
  BY DEF Init
<1>2. disk \in DiskType
  BY <1>1 DEF DiskType
<1>3. /\ b.arrays = [k \in Kinds |-> b.arrays[k]] /\ b.header \in [Kinds -> Header]
      /\ \A k \in Kinds : StoreOK(b.arrays[k], b.header[k])
      /\ b.started = [entries |-> b.started.entries, runs |-> TRUE, slices |-> b.header]
      /\ b.servers \subseteq Servers
      /\ SliceOK(b.arrays["servers"], b.header["servers"], b.header["servers"], b.servers)
  BY <1>2, BootProperties
<1> HIDE DEF b
<1>4. ArraysInv
  BY <1>1, <1>3 DEF ArraysInv
<1>5. IsSequence(schedulers) /\ Len(schedulers) = 1 /\ schedulers[1] = b.started
  <2>1. <<b.started>> \in Seq({b.started})
    OBVIOUS
  <2>2. QED
    BY <1>1, <2>1 DEF IsSequence
<1>6. b.started.slices = b.header /\ b.started.runs = TRUE /\ DOMAIN b.started = Fields
  BY <1>3 DEF Fields
<1>7. SchedulerInv /\ RunsInv
  BY <1>1, <1>3, <1>5, <1>6 DEF SchedulerInv, RunsInv
<1>8. RequestInv
  BY <1>1, ConfigAssumption DEF RequestInv, Steps
<1>9. FilesInv
  <2>1. \A n \in Names : VersionIn(Loaded("jobs", disk), n) \in Versions \cup {"none"}
    BY <1>2, LoadedProperties, VersionInType DEF Kinds
  <2>2. acked \in [Names -> Versions \cup {"none"} \cup Unknown]
    BY <1>1, <2>1
  <2>3. QED
    BY <1>1, <1>2, <2>2 DEF FilesInv
<1>10. QED
  BY <1>4, <1>7, <1>8, <1>9 DEF Inductive

LEMMA UpdateInductive ==
    ASSUME Inductive, NEW c \in Clients, NEW k \in Kinds, NEW n \in NamesOf(k),
           NEW v \in VersionsOf(k) \cup {"none"}, Update(c, k, n, v)
    PROVE  Inductive'
<1>1. /\ pc[c] = "idle" /\ ops < MaxOps
      /\ IF v = "none"
         THEN Named(Memory(k), n) # 0 /\ Stored(k, RemoveAt(Memory(k), Named(Memory(k), n)))
         ELSE Stored(k, Added(Memory(k), [name |-> n, version |-> v]))
      /\ pc' = [pc EXCEPT ![c] = "save"]
      /\ request' = [request EXCEPT ![c] = <<n, v>>]
      /\ ops' = ops + 1
      /\ acked' = [acked EXCEPT ![n] = IF Asked(n) THEN "disputed" ELSE "unknown"]
      /\ known' = IF v = "none" THEN known \ {n} ELSE known
      /\ disk' = disk /\ schedulers' = schedulers /\ current' = current /\ faults' = faults
  BY DEF Update
<1>2. ArraysInv /\ SchedulerInv /\ RunsInv /\ RequestInv /\ FilesInv
  BY DEF Inductive
<1>3. n \in Names /\ v \in Versions \cup {"none"}
  BY ConfigAssumption DEF NamesOf, VersionsOf, Names
<1> DEFINE q == Memory(k)
<1>4. q \in Seq(Elements) /\ Len(q) = header[k].len /\ Len(q) \in Nat
  BY <1>2, MemoryProperties, LenProperties
<1>5. PICK r \in Seq(Elements) :
        Len(r) <= header[k].len + 1 /\ Stored(k, r) /\ \A s \in known' : Keeps(q, r, s)
  <2>1. CASE v = "none"
    <3> DEFINE r == RemoveAt(q, Named(q, n))
    <3>1. Named(q, n) # 0 /\ Stored(k, r) /\ known' = known \ {n}
      BY <1>1, <2>1
    <3>2. r \in Seq(Elements) /\ Len(r) = Len(q) - 1 /\ \A s : s # n => Keeps(q, r, s)
      BY <1>4, <3>1, RemovedProperties
    <3> HIDE DEF r
    <3>3. Len(r) <= header[k].len + 1
      BY <1>4, <3>2
    <3>4. QED
      BY <3>1, <3>2, <3>3
  <2>2. CASE v # "none"
    <3> DEFINE x == [name |-> n, version |-> v]
               r == Added(q, x)
    <3>1. Stored(k, r)
      BY <1>1, <2>2
    <3>2. x \in Elements /\ x.version # "torn"
      BY <1>3, <2>2, ConfigAssumption DEF Elements
    <3> HIDE DEF x
    <3>3. r \in Seq(Elements) /\ Len(r) <= Len(q) + 1 /\ \A s : Keeps(q, r, s)
      BY <1>4, <3>2, AddedProperties
    <3> HIDE DEF r
    <3>4. QED
      BY <1>4, <3>1, <3>3
  <2>3. QED
    BY <2>1, <2>2
<1>6. ArraysInv'
  BY <1>2, <1>5, StoredProperties
<1>7. known' \subseteq known /\ known' \subseteq Servers
  BY <1>1, <1>2 DEF SchedulerInv
<1> DEFINE sl == schedulers[current].slices["servers"]
<1>8. SliceOK(arrays["servers"], header["servers"], sl, known')
  BY <1>2, <1>7 DEF SchedulerInv, SliceOK
<1> HIDE DEF sl
<1>9. SliceOK(arrays'["servers"], header'["servers"], sl, known')
  <2>1. CASE k = "servers"
    BY <1>2, <1>5, <1>8, <2>1, SliceKept
  <2>2. CASE k = "jobs"
    <3>1. arrays'["servers"] = arrays["servers"] /\ header'["servers"] = header["servers"]
      BY <1>2, <1>5, <2>2, StoredProperties DEF Kinds
    <3>2. QED
      BY <1>8, <3>1
  <2>3. QED
    BY <2>1, <2>2 DEF Kinds
<1>10. SchedulerInv'
  BY <1>1, <1>2, <1>7, <1>9 DEF SchedulerInv, sl
<1>11. RunsInv' /\ RequestInv'
  <2>1. ops' \in 0 .. MaxOps
    BY <1>1, <1>2, ConfigAssumption DEF RequestInv
  <2>2. /\ request' = [d \in Clients |-> request'[d]] /\ request'[c] = <<n, v>> /\ pc'[c] = "save"
        /\ \A d \in Clients : d # c => request'[d] = request[d] /\ pc'[d] = pc[d]
        /\ pc' \in [Clients -> Steps]
    BY <1>1, <1>2 DEF RequestInv, Steps
  <2>3. RequestInv'
    <3>1. ASSUME NEW d \in Clients, pc'[d] # "idle"
          PROVE  request'[d][1] \in Names /\ request'[d][2] \in Versions \cup {"none"}
      <4>1. CASE d = c
        BY <1>3, <2>2, <4>1
      <4>2. CASE d # c
        BY <1>2, <2>2, <3>1, <4>2 DEF RequestInv
      <4>3. QED
        BY <4>1, <4>2
    <3>2. QED
      BY <2>1, <2>2, <3>1 DEF RequestInv
  <2>4. RunsInv'
    BY <1>1, <1>2, <2>2 DEF RunsInv
  <2>5. QED
    BY <2>3, <2>4
<1>12. FilesInv'
  BY <1>1, <1>2, Zenon DEF FilesInv, Unknown
<1>13. QED
  BY <1>6, <1>10, <1>11, <1>12 DEF Inductive

LEMMA SaveInductive ==
    ASSUME Inductive, NEW c \in Clients, Save(c)
    PROVE  Inductive'
<1>1. /\ pc[c] = "save"
      /\ arrays' = arrays /\ header' = header /\ schedulers' = schedulers /\ current' = current
      /\ ops' = ops /\ known' = known /\ faults' = faults
  BY DEF Save
<1>2. ArraysInv /\ SchedulerInv /\ RunsInv /\ RequestInv /\ FilesInv
  BY DEF Inductive
<1>3. ArraysInv' /\ SchedulerInv'
  BY <1>1, <1>2 DEF ArraysInv, SchedulerInv
<1>4. request[c][1] \in Names /\ request[c][2] \in Versions \cup {"none"}
  BY <1>1, <1>2 DEF RequestInv
<1>5. /\ pc' \in {[pc EXCEPT ![c] = "idle"], [pc EXCEPT ![c] = "stop"]}
      /\ request' \in {request, [request EXCEPT ![c] = <<>>]}
      /\ pc'[c] = "stop" => request' = request
      /\ acked' \in {acked, [acked EXCEPT ![request[c][1]] = request[c][2]]}
      /\ \/ disk' \in {[disk EXCEPT ![request[c][1]] = request[c][2]], disk}
         \/ disk' = Torn({c})
  <2>1. pc \in [Clients -> Steps]
    BY <1>2 DEF RequestInv
  <2>2. acked = [acked EXCEPT ![request[c][1]] = @]
    BY <1>2 DEF FilesInv
  <2>3. QED
    BY <2>1, <2>2 DEF Save, Written, Unwritten, Saved, Reply, Return
<1>6. Torn({c}) \in DiskType
  BY <1>2 DEF Torn, DiskType, FilesInv
<1>7. disk' \in DiskType
  BY <1>2, <1>4, <1>5, <1>6 DEF FilesInv, DiskType
<1>8. FilesInv'
  BY <1>1, <1>2, <1>4, <1>5, <1>7 DEF FilesInv
<1>9. RunsInv' /\ RequestInv'
  <2>1. /\ pc' \in [Clients -> Steps] /\ request' = [d \in Clients |-> request'[d]]
        /\ pc'[c] \in {"idle", "stop"}
        /\ \A d \in Clients : d # c => request'[d] = request[d] /\ pc'[d] = pc[d]
    BY <1>2, <1>5 DEF RequestInv, Steps
  <2>2. RequestInv'
    BY <1>1, <1>2, <1>4, <1>5, <2>1 DEF RequestInv
  <2>3. RunsInv'
    BY <1>1, <1>2, <2>1 DEF RunsInv
  <2>4. QED
    BY <2>2, <2>3
<1>10. QED
  BY <1>3, <1>8, <1>9 DEF Inductive

LEMMA StopInductive ==
    ASSUME Inductive, NEW c \in Clients, Stop(c)
    PROVE  Inductive'
<1> DEFINE s == schedulers[current]
           t == [s EXCEPT !.runs = FALSE]
<1>1. /\ pc[c] = "stop"
      /\ schedulers' = [schedulers EXCEPT ![current] = t]
      /\ pc' = [pc EXCEPT ![c] = "replace"]
      /\ arrays' = arrays /\ header' = header /\ disk' = disk /\ current' = current
      /\ request' = request /\ ops' = ops /\ acked' = acked /\ known' = known /\ faults' = faults
  BY DEF Stop
<1>2. ArraysInv /\ SchedulerInv /\ RunsInv /\ RequestInv /\ FilesInv
  BY DEF Inductive
<1>3. ArraysInv' /\ FilesInv'
  BY <1>1, <1>2 DEF ArraysInv, FilesInv
<1>4. DOMAIN t = Fields /\ t.slices = s.slices
  BY <1>2 DEF SchedulerInv, Fields
<1> HIDE DEF t
<1>5. IsSequence(schedulers') /\ Len(schedulers') = Len(schedulers) /\ schedulers'[current] = t
  <2>1. IsSequence(schedulers) /\ current = Len(schedulers) /\ current >= 1
    BY <1>2 DEF SchedulerInv
  <2>2. /\ IsSequence(schedulers') /\ Len(schedulers') = Len(schedulers) /\ Len(schedulers) \in Nat
        /\ \A j \in 1 .. Len(schedulers) : schedulers'[j] = IF j = current THEN t ELSE schedulers[j]
    <3>1. ChangedTo(schedulers, current, t, schedulers')
      BY <1>1 DEF ChangedTo
    <3>2. QED
      BY <2>1, <3>1, Changed
  <2>3. QED
    BY <2>1, <2>2
<1>6. SchedulerInv'
  BY <1>1, <1>2, <1>4, <1>5 DEF SchedulerInv
<1>7. RunsInv' /\ RequestInv'
  <2>1. pc' \in [Clients -> Steps] /\ pc'[c] = "replace"
        /\ \A d \in Clients : d # c => pc'[d] = pc[d]
    BY <1>1, <1>2 DEF RequestInv, Steps
  <2>2. QED
    BY <1>1, <1>2, <2>1 DEF RequestInv, RunsInv
<1>8. QED
  BY <1>3, <1>6, <1>7 DEF Inductive

LEMMA ReplaceInductive ==
    ASSUME Inductive, NEW c \in Clients, Replace(c)
    PROVE  Inductive'
<1> DEFINE t == [NoScheduler EXCEPT !.slices = header]
<1>1. /\ pc[c] = "replace"
      /\ schedulers' = Append(schedulers, t) /\ current' = Len(schedulers')
      /\ known' = ServersIn(Memory("servers"))
      /\ pc' = [pc EXCEPT ![c] = "start"]
      /\ arrays' = arrays /\ header' = header /\ disk' = disk
      /\ request' = request /\ ops' = ops /\ acked' = acked /\ faults' = faults
  BY DEF Replace
<1>2. ArraysInv /\ SchedulerInv /\ RunsInv /\ RequestInv /\ FilesInv
  BY DEF Inductive
<1>3. ArraysInv' /\ FilesInv'
  BY <1>1, <1>2 DEF ArraysInv, FilesInv
<1>4. DOMAIN t = Fields /\ t.slices = header
  BY DEF NoScheduler, Fields
<1> HIDE DEF t
<1>5. IsSequence(schedulers') /\ current' >= 1 /\ schedulers'[current'] = t
  BY <1>1, <1>2, Appended DEF SchedulerInv
<1>6. known' \subseteq Servers
  BY <1>1 DEF ServersIn
<1>7. SliceOK(arrays["servers"], header["servers"], header["servers"], known')
  <2> DEFINE a == arrays["servers"]
             h == header["servers"]
             q == Memory("servers")
  <2>1. StoreOK(a, h)
    BY <1>2 DEF ArraysInv, Kinds
  <2>2. /\ q \in Seq(Elements) /\ Len(q) = h.len /\ h.len \in Nat /\ h.cap \in Nat
        /\ \A i \in 1 .. h.len : q[i] = a[h.cap][i]
    BY <1>2, <2>1, MemoryProperties DEF Kinds, StoreOK, Header
  <2> HIDE DEF a, h, q
  <2>3. ASSUME NEW s \in known'
        PROVE  \E i \in 1 .. h.len : Is(a[h.cap][i], s) /\ i <= h.len
    <3>1. Named(q, s) # 0
      BY <1>1 DEF ServersIn, q
    <3>2. PICK i \in 0 .. Len(q) : i # 0 /\ Is(q[i], s)
      BY <2>2, <3>1, NamedProperties
    <3>3. i \in 1 .. h.len /\ i <= h.len
      BY <2>2, <3>2
    <3>4. QED
      BY <2>2, <3>2, <3>3
  <2>4. SliceOK(a, h, h, known')
    BY <2>1, <2>2, <2>3 DEF SliceOK, StoreOK
  <2>5. QED
    BY <2>4 DEF a, h
<1>8. SchedulerInv'
  BY <1>1, <1>4, <1>5, <1>6, <1>7 DEF SchedulerInv
<1>9. RunsInv' /\ RequestInv'
  <2>1. pc' \in [Clients -> Steps] /\ pc'[c] = "start"
        /\ \A d \in Clients : d # c => pc'[d] = pc[d]
    BY <1>1, <1>2 DEF RequestInv, Steps
  <2>2. QED
    BY <1>1, <1>2, <2>1 DEF RequestInv, RunsInv
<1>10. QED
  BY <1>3, <1>8, <1>9 DEF Inductive

LEMMA StartInductive ==
    ASSUME Inductive, NEW c \in Clients, Start(c)
    PROVE  Inductive'
<1> DEFINE s == schedulers[current]
           more == Entries(View("jobs", s.slices["jobs"]))
           t == [s EXCEPT !.entries = @ \o more]
<1>1. /\ pc[c] = "start"
      /\ schedulers' = [schedulers EXCEPT ![current] = t]
      /\ pc' = [pc EXCEPT ![c] = "run"]
      /\ request' = [request EXCEPT ![c] = <<request[c][1], request[c][2], current>>]
      /\ arrays' = arrays /\ header' = header /\ disk' = disk /\ current' = current
      /\ ops' = ops /\ acked' = acked /\ known' = known /\ faults' = faults
  BY DEF Start
<1> HIDE DEF more
<1>2. ArraysInv /\ SchedulerInv /\ RunsInv /\ RequestInv /\ FilesInv
  BY DEF Inductive
<1>3. ArraysInv' /\ FilesInv'
  BY <1>1, <1>2 DEF ArraysInv, FilesInv
<1>4. DOMAIN t = Fields /\ t.slices = s.slices
  BY <1>2 DEF SchedulerInv, Fields
<1> HIDE DEF t
<1>5. IsSequence(schedulers') /\ Len(schedulers') = Len(schedulers) /\ schedulers'[current] = t
  <2>1. IsSequence(schedulers) /\ current = Len(schedulers) /\ current >= 1
    BY <1>2 DEF SchedulerInv
  <2>2. /\ IsSequence(schedulers') /\ Len(schedulers') = Len(schedulers) /\ Len(schedulers) \in Nat
        /\ \A j \in 1 .. Len(schedulers) : schedulers'[j] = IF j = current THEN t ELSE schedulers[j]
    <3>1. ChangedTo(schedulers, current, t, schedulers')
      BY <1>1 DEF ChangedTo
    <3>2. QED
      BY <2>1, <3>1, Changed
  <2>3. QED
    BY <2>1, <2>2
<1>6. SchedulerInv'
  BY <1>1, <1>2, <1>4, <1>5 DEF SchedulerInv
<1>7. RunsInv' /\ RequestInv'
  <2>1. /\ pc' \in [Clients -> Steps] /\ pc'[c] = "run"
        /\ request' = [d \in Clients |-> request'[d]]
        /\ request'[c] = <<request[c][1], request[c][2], current>>
        /\ \A d \in Clients : d # c => pc'[d] = pc[d] /\ request'[d] = request[d]
    BY <1>1, <1>2 DEF RequestInv, Steps
  <2>2. RequestInv'
    BY <1>1, <1>2, <2>1 DEF RequestInv
  <2>3. pc'[c] = "run" /\ request'[c][3] = current'
    BY <1>1, <2>1
  <2>4. QED
    BY <2>2, <2>3 DEF RunsInv
<1>8. QED
  BY <1>3, <1>6, <1>7 DEF Inductive

LEMMA RunInductive ==
    ASSUME Inductive, NEW c \in Clients, Run(c)
    PROVE  Inductive'
<1> DEFINE i == request[c][3]
           t == [schedulers[i] EXCEPT !.runs = TRUE]
<1>1. /\ pc[c] = "run"
      /\ schedulers' = [schedulers EXCEPT ![i] = t]
      /\ pc' = [pc EXCEPT ![c] = "idle"]
      /\ request' = [request EXCEPT ![c] = <<>>]
      /\ arrays' = arrays /\ header' = header /\ disk' = disk /\ current' = current
      /\ ops' = ops /\ known' = known /\ faults' = faults
  BY DEF Run, Reply, Return
<1>2. ArraysInv /\ SchedulerInv /\ RunsInv /\ RequestInv /\ FilesInv
  BY DEF Inductive
<1>3. ArraysInv'
  BY <1>1, <1>2 DEF ArraysInv
<1>4. FilesInv'
  <2>1. request[c][1] \in Names /\ request[c][2] \in Versions \cup {"none"}
    BY <1>1, <1>2 DEF RequestInv
  <2>2. acked' \in {acked, [acked EXCEPT ![request[c][1]] = request[c][2]]}
    <3>1. acked = [acked EXCEPT ![request[c][1]] = @]
      BY <1>2 DEF FilesInv
    <3>2. QED
      BY <3>1 DEF Run, Reply
  <2>3. QED
    BY <1>1, <1>2, <2>1, <2>2 DEF FilesInv
<1>5. i = current => DOMAIN t = Fields /\ t.slices = schedulers[current].slices /\ t.runs = TRUE
  BY <1>2 DEF SchedulerInv, Fields
<1> HIDE DEF t
<1>6. /\ IsSequence(schedulers') /\ Len(schedulers') = Len(schedulers)
      /\ schedulers'[current] = IF i = current THEN t ELSE schedulers[current]
  <2>1. IsSequence(schedulers) /\ current = Len(schedulers) /\ current >= 1
    BY <1>2 DEF SchedulerInv
  <2>2. /\ IsSequence(schedulers') /\ Len(schedulers') = Len(schedulers) /\ Len(schedulers) \in Nat
        /\ \A j \in 1 .. Len(schedulers) : schedulers'[j] = IF j = i THEN t ELSE schedulers[j]
    <3>1. ChangedTo(schedulers, i, t, schedulers')
      BY <1>1 DEF ChangedTo
    <3>2. QED
      BY <2>1, <3>1, Changed
  <2>3. QED
    BY <2>1, <2>2
<1>7. SchedulerInv'
  BY <1>1, <1>2, <1>5, <1>6 DEF SchedulerInv
<1>8. RunsInv' /\ RequestInv'
  <2>1. /\ pc' \in [Clients -> Steps] /\ pc'[c] = "idle"
        /\ request' = [d \in Clients |-> request'[d]]
        /\ \A d \in Clients : d # c => pc'[d] = pc[d] /\ request'[d] = request[d]
    BY <1>1, <1>2 DEF RequestInv, Steps
  <2>2. RequestInv'
    BY <1>1, <1>2, <2>1 DEF RequestInv
  <2>3. ASSUME i = current
        PROVE  RunsInv'
    <3>1. schedulers'[current'] = t /\ t.runs
      BY <1>1, <1>5, <1>6, <2>3
    <3>2. QED
      BY <3>1 DEF RunsInv
  <2>4. ASSUME i # current
        PROVE  RunsInv'
    <3>1. schedulers'[current'] = schedulers[current] /\ current' = current
      BY <1>1, <1>6, <2>4
    <3>2. CASE schedulers[current].runs
      BY <3>1, <3>2 DEF RunsInv
    <3>3. CASE ~schedulers[current].runs
      <4>1. PICK d \in Clients : pc[d] \in {"replace", "start"} \/ (pc[d] = "run" /\ request[d][3] = current)
        BY <1>2, <3>3 DEF RunsInv
      <4>2. d # c
        BY <1>1, <2>4, <4>1
      <4>3. QED
        BY <2>1, <3>1, <4>1, <4>2 DEF RunsInv
    <3>4. QED
      BY <3>2, <3>3
  <2>5. QED
    BY <2>2, <2>3, <2>4
<1>9. QED
  BY <1>3, <1>4, <1>7, <1>8 DEF Inductive

LEMMA TornType ==
    ASSUME FilesInv, NEW cs \in SUBSET Clients
    PROVE  Torn(cs) \in DiskType
BY DEF Torn, DiskType, FilesInv

LEMMA RestartInductive ==
    ASSUME Inductive, Restart
    PROVE  Inductive'
<1> DEFINE b == Boot(disk')
<1>1. /\ \E cs \in SUBSET Clients : disk' = Torn(cs)
      /\ arrays' = b.arrays /\ header' = b.header /\ known' = b.servers
      /\ schedulers' = <<b.started>> /\ current' = 1
      /\ pc' = [c \in Clients |-> "idle"] /\ request' = [c \in Clients |-> <<>>]
      /\ ops' = ops /\ acked' = acked /\ faults' = faults
  BY DEF Restart
<1>2. RequestInv /\ FilesInv
  BY DEF Inductive
<1>3. disk' \in DiskType
  BY <1>1, <1>2, TornType
<1>4. /\ b.arrays = [k \in Kinds |-> b.arrays[k]] /\ b.header \in [Kinds -> Header]
      /\ \A k \in Kinds : StoreOK(b.arrays[k], b.header[k])
      /\ b.started = [entries |-> b.started.entries, runs |-> TRUE, slices |-> b.header]
      /\ b.servers \subseteq Servers
      /\ SliceOK(b.arrays["servers"], b.header["servers"], b.header["servers"], b.servers)
  BY <1>3, BootProperties
<1> HIDE DEF b
<1>5. ArraysInv'
  BY <1>1, <1>4 DEF ArraysInv
<1>6. IsSequence(schedulers') /\ Len(schedulers') = 1 /\ schedulers'[1] = b.started
  <2>1. <<b.started>> \in Seq({b.started})
    OBVIOUS
  <2>2. QED
    BY <1>1, <2>1 DEF IsSequence
<1>7. b.started.slices = b.header /\ b.started.runs = TRUE /\ DOMAIN b.started = Fields
  BY <1>4 DEF Fields
<1>8. SchedulerInv' /\ RunsInv'
  BY <1>1, <1>4, <1>6, <1>7 DEF SchedulerInv, RunsInv
<1>9. RequestInv'
  BY <1>1, <1>2 DEF RequestInv, Steps
<1>10. FilesInv'
  BY <1>1, <1>2, <1>3 DEF FilesInv
<1>11. QED
  BY <1>5, <1>8, <1>9, <1>10 DEF Inductive

LEMMA NextInductive ==
    ASSUME Inductive, [Next]_vars
    PROVE  Inductive'
<1>1. CASE UNCHANGED vars
  BY <1>1 DEF vars, handlerVars, Inductive, ArraysInv, SchedulerInv, RunsInv, RequestInv, FilesInv
<1>2. CASE Next
  BY <1>2, UpdateInductive, SaveInductive, StopInductive, ReplaceInductive, StartInductive,
     RunInductive, RestartInductive DEF Next
<1>3. QED
  BY <1>1, <1>2

THEOREM Invariance == Spec => []Inductive
<1>1. Init => Inductive
  BY InitInductive
<1>2. Inductive /\ [Next]_vars => Inductive'
  BY NextInductive
<1>3. QED
  BY <1>1, <1>2, PTL DEF Spec

-------------------------------------------------------------------------------
(* What follows from it.                                                    *)

\* The type invariant holds in every reachable state, and with it that the lists of
\* jobs and servers never hold more than their arrays do.
THEOREM TypeCorrect == Spec => []TypeOK
<1>1. Inductive => TypeOK
  <2> SUFFICES ASSUME Inductive
               PROVE  TypeOK
    OBVIOUS
  <2>1. ArraysInv /\ SchedulerInv /\ RequestInv /\ FilesInv
    BY DEF Inductive
  <2>2. ASSUME NEW k \in Kinds
        PROVE  /\ header[k].len \in 0 .. header[k].cap /\ header[k].cap \in DOMAIN arrays[k]
               /\ \A c \in DOMAIN arrays[k] : Len(arrays[k][c]) <= c
    <3>1. StoreOK(arrays[k], header[k])
      BY <2>1 DEF ArraysInv
    <3>2. PICK a, h : a = arrays[k] /\ h = header[k]
      OBVIOUS
    <3>3. StoreOK(a, h)
      BY <3>1, <3>2
    <3>4. h.cap \in Nat /\ h.len \in Nat /\ h.cap \in DOMAIN a /\ a[h.cap] \in Seq(Elements)
          /\ h.len <= Len(a[h.cap]) /\ Len(a[h.cap]) <= h.cap
      BY <3>3 DEF StoreOK, Header
    <3>5. Len(a[h.cap]) \in Nat
      BY <3>4, LenProperties
    <3>6. h.len \in 0 .. h.cap
      BY <3>4, <3>5
    <3>7. \A c \in DOMAIN a : Len(a[c]) <= c
      BY <3>3 DEF StoreOK
    <3>8. QED
      BY <3>2, <3>4, <3>6, <3>7
  <2>3. current \in DOMAIN schedulers /\ known \subseteq Servers
    BY <2>1, LenProperties DEF SchedulerInv, IsSequence
  <2>4. pc \in [Clients -> {"idle", "save", "stop", "replace", "start", "run"}] /\ ops \in 0 .. MaxOps
    BY <2>1 DEF RequestInv, Steps
  <2>5. QED
    BY <2>1, <2>2, <2>3, <2>4 DEF TypeOK, FilesInv, DiskType, Unknown
<1>2. QED
  BY <1>1, Invariance, PTL

\* AddJob and RemoveJob stop, replace and start the scheduler, and nothing keeps their
\* handlers apart: whatever their order, when all have answered the scheduler that the
\* daemon has runs.
THEOREM DaemonAlwaysSchedules == Spec => []DaemonSchedules
<1>1. Inductive => DaemonSchedules
  BY DEF Inductive, RunsInv, DaemonSchedules, Quiet
<1>2. QED
  BY <1>1, Invariance, PTL

\* The scheduler keeps a slice of an array that AddServer and RemoveServer change; a
\* server that they leave alone is in that slice all the same.
THEOREM ServersStayInSight == Spec => []KnownServersFound
<1>1. Inductive => KnownServersFound
  <2> SUFFICES ASSUME Inductive
               PROVE  KnownServersFound
    OBVIOUS
  <2> DEFINE a == arrays["servers"]
             h == header["servers"]
             sl == schedulers[current].slices["servers"]
  <2>1. StoreOK(a, h) /\ SliceOK(a, h, sl, known) /\ known \subseteq Servers
    BY DEF Inductive, ArraysInv, SchedulerInv, Kinds
  <2> HIDE DEF h
  <2>2. known \subseteq ServersIn(SubSeq(a[sl.cap], 1, sl.len))
    BY <2>1, SliceFinds
  <2>3. QED
    BY <2>2 DEF KnownServersFound, View
<1>2. QED
  BY <1>1, Invariance, PTL

-------------------------------------------------------------------------------
(* The files.                                                               *)

\* What a client knows of is what a restart sees of the file; what is not answered is
\* not known of, and from the Save on it is in the file.  Handlers that have requests
\* for the same name make it disputed.
SavedInv ==
    /\ \A n \in Names : acked[n] \notin Unknown => acked[n] = Seen(disk[n])
    /\ \A c \in Clients : pc[c] # "idle" => acked[request[c][1]] \in Unknown
    /\ \A c \in Clients : pc[c] \notin {"idle", "save"} =>
          acked[request[c][1]] = "disputed" \/ disk[request[c][1]] = request[c][2]
    /\ \A c, d \in Clients :
          c # d /\ pc[c] # "idle" /\ pc[d] # "idle" /\ request[c][1] = request[d][1] =>
              acked[request[c][1]] = "disputed"

LEMMA InitSaved ==
    ASSUME Init, Base = <<>>
    PROVE  SavedInv
<1>1. /\ disk \in [Names -> Versions \cup {"none"}]
      /\ pc = [c \in Clients |-> "idle"]
      /\ acked = [n \in Names |-> IF n \in Jobs THEN VersionIn(Loaded("jobs", disk), n) ELSE disk[n]]
  BY DEF Init
<1>2. disk \in DiskType
  BY <1>1 DEF DiskType
<1>3. ASSUME NEW n \in Names
      PROVE  acked[n] = Seen(disk[n])
  <2>1. CASE n \in Jobs
    <3>1. n \in NamesOf("jobs") /\ "jobs" \in Kinds
      BY <2>1 DEF NamesOf, Kinds
    <3>2. VersionIn(Loaded("jobs", disk), n) = Seen(disk[n])
      BY <1>2, <3>1, LoadedVersion
    <3>3. QED
      BY <1>1, <2>1, <3>2
  <2>2. CASE n \notin Jobs
    <3>1. disk[n] # "torn"
      BY <1>1, ConfigAssumption
    <3>2. QED
      BY <1>1, <2>2, <3>1 DEF Seen
  <2>3. QED
    BY <2>1, <2>2
<1>4. QED
  BY <1>1, <1>3 DEF SavedInv

\* A handler that is done leaves the invariant to the others, if it has saved what the
\* clients now know of, or they learn nothing.
LEMMA ReplySaved ==
    ASSUME Inductive, SavedInv, NEW c \in Clients, pc[c] # "idle",
           pc' = [pc EXCEPT ![c] = "idle"], request' = [request EXCEPT ![c] = <<>>],
           DOMAIN disk' = Names,
           \A m \in Names : m # request[c][1] => acked'[m] = acked[m] /\ disk'[m] = disk[m],
           \/ acked' = acked
           \/ /\ acked' = [acked EXCEPT ![request[c][1]] = IF @ = "disputed" THEN @ ELSE request[c][2]]
              /\ disk'[request[c][1]] = request[c][2]
    PROVE  SavedInv'
<1> DEFINE n == request[c][1]
           v == request[c][2]
<1>1. /\ pc \in [Clients -> Steps] /\ request = [d \in Clients |-> request[d]]
      /\ acked \in [Names -> Versions \cup {"none"} \cup Unknown]
      /\ \A d \in Clients : pc[d] # "idle" => request[d][1] \in Names
      /\ v \in Versions \cup {"none"} /\ "torn" \notin Versions
  BY ConfigAssumption DEF Inductive, RequestInv, FilesInv
<1>2. /\ pc'[c] = "idle"
      /\ \A d \in Clients : d # c => pc'[d] = pc[d] /\ request'[d] = request[d]
  BY <1>1
<1>3. n \in Names /\ acked[n] \in Unknown /\ v # "torn"
  BY <1>1 DEF SavedInv
<1>4. acked'[n] = acked[n] \/ (acked[n] # "disputed" /\ acked'[n] = v /\ disk'[n] = v)
  BY <1>1, <1>3
<1>5. \A m \in Names : acked'[m] \notin Unknown => acked'[m] = Seen(disk'[m])
  <2>1. ASSUME NEW m \in Names, m # n, acked'[m] \notin Unknown
        PROVE  acked'[m] = Seen(disk'[m])
    BY <2>1 DEF SavedInv
  <2>2. acked'[n] \notin Unknown => acked'[n] = Seen(disk'[n])
    BY <1>3, <1>4 DEF Seen
  <2>3. QED
    BY <2>1, <2>2
<1>6. ASSUME NEW d \in Clients, pc'[d] # "idle"
      PROVE  /\ pc[d] = pc'[d] /\ request'[d] = request[d]
             /\ acked'[request[d][1]] = acked[request[d][1]]
             /\ request[d][1] = n => acked[n] = "disputed"
             /\ request[d][1] # n => disk'[request[d][1]] = disk[request[d][1]]
  <2>1. d # c /\ pc[d] = pc'[d] /\ request'[d] = request[d] /\ request[d][1] \in Names
    BY <1>1, <1>2, <1>6
  <2>2. request[d][1] = n => acked[n] = "disputed"
    BY <1>6, <2>1 DEF SavedInv
  <2>3. QED
    BY <1>4, <2>1, <2>2
<1>7. QED
  BY <1>5, <1>6 DEF SavedInv

LEMMA NextSaved ==
    ASSUME Inductive, SavedInv, Base = <<>>, \A f \in FaultModels : "remove" \notin f, [Next]_vars
    PROVE  SavedInv'
<1>0. /\ RequestInv /\ FilesInv
      /\ pc \in [Clients -> Steps] /\ "remove" \notin faults
      /\ disk \in DiskType /\ acked \in [Names -> Versions \cup {"none"} \cup Unknown]
      /\ request = [c \in Clients |-> request[c]]
      /\ DOMAIN disk = Names
  BY DEF Inductive, RequestInv, FilesInv, DiskType
<1>1. ASSUME NEW c \in Clients, NEW k \in Kinds, NEW n \in NamesOf(k),
             NEW v \in VersionsOf(k) \cup {"none"}, Update(c, k, n, v)
      PROVE  SavedInv'
  <2>1. /\ pc' = [pc EXCEPT ![c] = "save"] /\ request' = [request EXCEPT ![c] = <<n, v>>]
        /\ acked' = [acked EXCEPT ![n] = IF Asked(n) THEN "disputed" ELSE "unknown"]
        /\ disk' = disk
    BY <1>1 DEF Update
  <2>2. n \in Names
    BY DEF Names, NamesOf
  <2>3. /\ acked'[n] = (IF Asked(n) THEN "disputed" ELSE "unknown")
        /\ \A m \in Names : m # n => acked'[m] = acked[m]
        /\ pc'[c] = "save" /\ request'[c] = <<n, v>>
        /\ \A d \in Clients : d # c => pc'[d] = pc[d] /\ request'[d] = request[d]
    BY <1>0, <2>1, <2>2
  <2>4. \A m \in Names : acked'[m] \notin Unknown => acked'[m] = Seen(disk'[m])
    BY <2>1, <2>3 DEF SavedInv, Unknown
  <2>5. ASSUME NEW d \in Clients, d # c, pc[d] # "idle"
        PROVE  /\ request[d][1] \in Names
               /\ request[d][1] = n => acked'[n] = "disputed"
    BY <1>0, <2>3, <2>5 DEF Asked, RequestInv
  <2>6. \A d \in Clients : pc'[d] # "idle" => acked'[request'[d][1]] \in Unknown
    BY <2>3, <2>5 DEF SavedInv, Unknown
  <2>7. \A d \in Clients : pc'[d] \notin {"idle", "save"} =>
          acked'[request'[d][1]] = "disputed" \/ disk'[request'[d][1]] = request'[d][2]
    BY <2>1, <2>3, <2>5 DEF SavedInv
  <2>8. \A d, e \in Clients :
          d # e /\ pc'[d] # "idle" /\ pc'[e] # "idle" /\ request'[d][1] = request'[e][1] =>
              acked'[request'[d][1]] = "disputed"
    BY <2>3, <2>5 DEF SavedInv
  <2>9. QED
    BY <2>4, <2>6, <2>7, <2>8 DEF SavedInv
<1>2. ASSUME NEW c \in Clients, Save(c)
      PROVE  SavedInv'
  <2> DEFINE n == request[c][1]
             v == request[c][2]
  <2>1. pc[c] = "save" /\ n \in Names /\ v \in Versions \cup {"none"} /\ acked[n] \in Unknown
    BY <1>0, <1>2 DEF Save, RequestInv, SavedInv
  <2>2. CASE /\ disk' = [disk EXCEPT ![n] = v]
             /\ Reply(c)
    <3>1. /\ pc' = [pc EXCEPT ![c] = "idle"] /\ request' = [request EXCEPT ![c] = <<>>]
          /\ acked' = [acked EXCEPT ![n] = IF @ = "disputed" THEN @ ELSE v]
      BY <2>2 DEF Reply, Return
    <3>2. DOMAIN disk' = Names /\ disk'[n] = v
          /\ \A m \in Names : m # n => acked'[m] = acked[m] /\ disk'[m] = disk[m]
      BY <1>0, <2>1, <2>2, <3>1
    <3>3. QED
      BY <2>1, <3>1, <3>2, ReplySaved
  <2>3. CASE /\ disk' = [disk EXCEPT ![n] = v]
             /\ pc' = [pc EXCEPT ![c] = "stop"]
             /\ request' = request /\ acked' = acked
    <3>1. \A m \in Names : disk'[m] = IF m = n THEN v ELSE disk[m]
      BY <1>0, <2>3
    <3>2. pc'[c] = "stop" /\ \A d \in Clients : d # c => pc'[d] = pc[d]
      BY <1>0, <2>3
    <3>3. \A m \in Names : acked'[m] \notin Unknown => acked'[m] = Seen(disk'[m])
      BY <2>1, <2>3, <3>1 DEF SavedInv
    <3>4. ASSUME NEW d \in Clients, pc'[d] \notin {"idle", "save"}
          PROVE  acked[request[d][1]] = "disputed" \/ disk'[request[d][1]] = request[d][2]
      <4>1. CASE d = c
        BY <2>1, <3>1, <4>1
      <4>2. CASE d # c
        <5>1. pc[d] \notin {"idle", "save"} /\ request[d][1] \in Names
          BY <1>0, <3>2, <3>4, <4>2 DEF RequestInv
        <5>2. CASE request[d][1] = n
          BY <2>1, <4>2, <5>1, <5>2 DEF SavedInv
        <5>3. CASE request[d][1] # n
          BY <3>1, <5>1, <5>3 DEF SavedInv
        <5>4. QED
          BY <5>2, <5>3
      <4>3. QED
        BY <4>1, <4>2
    <3>5. \A d \in Clients : pc'[d] # "idle" => pc[d] # "idle"
      BY <2>1, <3>2
    <3>6. QED
      BY <2>3, <3>3, <3>4, <3>5 DEF SavedInv
  <2>4. CASE /\ disk' \in {disk, Torn({c})}
             /\ Return(c)
             /\ acked' = acked
    <3>1. pc' = [pc EXCEPT ![c] = "idle"] /\ request' = [request EXCEPT ![c] = <<>>]
      BY <2>4 DEF Return
    <3>2. DOMAIN disk' = Names /\ \A m \in Names : m # n => disk'[m] = disk[m]
      BY <1>0, <2>4 DEF Torn
    <3>3. QED
      BY <2>1, <2>4, <3>1, <3>2, ReplySaved
  <2>5. QED
    BY <1>0, <1>2, <2>2, <2>3, <2>4 DEF Save, Written, Unwritten, Saved
<1>3. ASSUME NEW c \in Clients, Stop(c) \/ Replace(c) \/ Start(c)
      PROVE  SavedInv'
  <2>1. /\ pc[c] \notin {"idle", "save"} /\ disk' = disk /\ acked' = acked
        /\ pc' \in {[pc EXCEPT ![c] = "replace"], [pc EXCEPT ![c] = "start"], [pc EXCEPT ![c] = "run"]}
        /\ request' \in {request, [request EXCEPT ![c] = <<request[c][1], request[c][2], current>>]}
    BY <1>3 DEF Stop, Replace, Start
  <2>2. ASSUME NEW d \in Clients
        PROVE  /\ pc'[d] # "idle" => pc[d] # "idle"
               /\ pc'[d] \notin {"idle", "save"} => pc[d] \notin {"idle", "save"}
               /\ request'[d][1] = request[d][1] /\ request'[d][2] = request[d][2]
    <3>1. CASE d = c
      BY <1>0, <2>1, <3>1
    <3>2. CASE d # c
      BY <1>0, <2>1, <3>2
    <3>3. QED
      BY <3>1, <3>2
  <2>3. QED
    BY <2>1, <2>2 DEF SavedInv
<1>4. ASSUME NEW c \in Clients, Run(c)
      PROVE  SavedInv'
  <2> DEFINE n == request[c][1]
             v == request[c][2]
  <2>1. /\ pc[c] = "run" /\ disk' = disk
        /\ pc' = [pc EXCEPT ![c] = "idle"] /\ request' = [request EXCEPT ![c] = <<>>]
        /\ acked' = [acked EXCEPT ![n] = IF @ = "disputed" THEN @ ELSE v]
    BY <1>4 DEF Run, Reply, Return
  <2>2. n \in Names /\ (acked[n] = "disputed" \/ disk[n] = v)
    BY <1>0, <2>1 DEF RequestInv, SavedInv
  <2>3. \A m \in Names : m # n => acked'[m] = acked[m] /\ disk'[m] = disk[m]
    BY <1>0, <2>1
  <2>4. CASE acked[n] = "disputed"
    <3>1. acked' = acked
      BY <1>0, <2>1, <2>2, <2>4
    <3>2. QED
      BY <1>0, <2>1, <2>3, <3>1, ReplySaved
  <2>5. CASE disk[n] = v
    BY <1>0, <2>1, <2>3, <2>5, ReplySaved
  <2>6. QED
    BY <2>2, <2>4, <2>5
<1>5. ASSUME Restart
      PROVE  SavedInv'
  <2>1. PICK cs \in SUBSET Clients : disk' = Torn(cs)
    BY <1>5 DEF Restart
  <2>2. acked' = acked /\ pc' = [c \in Clients |-> "idle"]
    BY <1>5 DEF Restart
  <2>3. ASSUME NEW m \in Names, acked[m] \notin Unknown
        PROVE  disk'[m] = disk[m]
    <3>1. ~ \E c \in cs : pc[c] = "save" /\ request[c][1] = m
      BY <2>3 DEF SavedInv
    <3>2. QED
      BY <2>1, <3>1 DEF Torn
  <2>4. \A m \in Names : acked'[m] \notin Unknown => acked'[m] = Seen(disk'[m])
    BY <2>2, <2>3 DEF SavedInv
  <2>5. QED
    BY <2>2, <2>4 DEF SavedInv
<1>6. CASE UNCHANGED vars
  BY <1>6 DEF vars, handlerVars, SavedInv
<1>7. CASE Next
  BY <1>1, <1>2, <1>3, <1>4, <1>5, <1>7 DEF Next
<1>8. QED
  BY <1>6, <1>7

\* LoadConfig after a crash, at whatever point of however many requests, finds each job
\* and server as the last answered request has left it, unless requests for it have
\* overlapped: if jobs are defined in their own files only and no removal of a file
\* fails (two configurations show that it is not so otherwise).
THEOREM RestartsKeepAnswers ==
    ASSUME Base = <<>>, \A f \in FaultModels : "remove" \notin f
    PROVE  Spec => []RestartKeepsAcknowledged
<1>1. Init => SavedInv
  BY InitSaved
<1>2. Inductive /\ SavedInv /\ [Next]_vars => SavedInv'
  BY NextSaved
<1>3. Inductive /\ SavedInv => RestartKeepsAcknowledged
  <2> SUFFICES ASSUME Inductive, SavedInv, NEW k \in Kinds, NEW n \in NamesOf(k),
                      acked[n] \notin Unknown
               PROVE  VersionIn(Loaded(k, disk), n) = acked[n]
    BY DEF RestartKeepsAcknowledged, Unknown
  <2>1. n \in Names /\ disk \in DiskType
    BY DEF Names, NamesOf, Inductive, FilesInv
  <2>2. VersionIn(Loaded(k, disk), n) = Seen(disk[n])
    BY <2>1, LoadedVersion
  <2>3. QED
    BY <2>1, <2>2 DEF SavedInv
<1>4. QED
  BY <1>1, <1>2, <1>3, Invariance, PTL DEF Spec
===============================================================================
