-------------------------- MODULE NotificationsProofs --------------------------
(***************************************************************************)
(* Proofs about the log broker and the notification channels, for every    *)
(* number of loggers and clients, every size of channel and stream and     *)
(* every configuration: the type invariant, that Broadcast never sends on  *)
(* a closed channel, that a client misses only what its full channel       *)
(* refused, and that no failed call stays silent.                          *)
(*                                                                         *)
(* What a client is still to get is a sequence in four pieces (received,   *)
(* stream, handler, channel): the lemmas on Way say what each action does  *)
(* to the whole.  The rest of the state is per client, so that an action   *)
(* of one leaves the others' invariants alone (Undisturbed).               *)
(***************************************************************************)
EXTENDS Notifications, SequenceTheorems, TLAPS

-------------------------------------------------------------------------------
(* Sequences of chunks and their numbers.                                   *)

\* The clock's values, as an opaque set: the provers instantiate the library's facts
\* with a name and not with Nat.
Clocks == Nat

Numbers(s) == [i \in DOMAIN s |-> s[i].n]

Way(r, w, s, c) == r \o Numbers(w) \o Numbers(s) \o Numbers(c)

LEMMA NumbersType ==
    ASSUME NEW s \in Seq(Chunks)
    PROVE  /\ Numbers(s) \in Seq(Clocks)
           /\ Len(Numbers(s)) = Len(s)
           /\ \A i \in 1 .. Len(s) : Numbers(s)[i] = s[i].n
<1>1. DOMAIN s = 1 .. Len(s) /\ Len(s) \in Nat /\ \A i \in 1 .. Len(s) : s[i] \in Chunks
  BY LenProperties, ElementOfSeq
<1>2. \A i \in 1 .. Len(s) : s[i].n \in Clocks
  BY <1>1 DEF Chunks, Clocks
<1>3. Numbers(s) = [i \in 1 .. Len(s) |-> s[i].n]
  BY <1>1 DEF Numbers
<1>4. QED
  BY <1>1, <1>2, <1>3

LEMMA NumbersOfEmpty == Numbers(<<>>) = <<>>
<1>1. <<>> \in Seq(Chunks) /\ Len(<<>>) = 0
  OBVIOUS
<1>2. Numbers(<<>>) \in Seq(Clocks) /\ Len(Numbers(<<>>)) = 0
  BY <1>1, NumbersType
<1>3. QED
  BY <1>2, EmptySeq

LEMMA NumbersOfOne ==
    ASSUME NEW c \in Chunks
    PROVE  <<c>> \in Seq(Chunks) /\ Len(<<c>>) = 1 /\ Numbers(<<c>>) = <<c.n>>
<1> DEFINE one == <<c>>
<1>1. one \in Seq(Chunks) /\ Len(one) = 1 /\ one[1] = c
  OBVIOUS
<1> HIDE DEF one
<1>2. Numbers(one) \in Seq(Clocks) /\ Len(Numbers(one)) = 1 /\ Numbers(one)[1] = c.n
  BY <1>1, NumbersType
<1>3. c.n \in Clocks
  BY DEF Chunks, Clocks
<1>4. Numbers(one) = <<c.n>>
  BY <1>2, <1>3
<1>5. QED
  BY <1>1, <1>4 DEF one

LEMMA NumbersOfConcat ==
    ASSUME NEW s \in Seq(Chunks), NEW t \in Seq(Chunks)
    PROVE  s \o t \in Seq(Chunks) /\ Numbers(s \o t) = Numbers(s) \o Numbers(t)
<1>1. /\ s \o t \in Seq(Chunks) /\ Len(s \o t) = Len(s) + Len(t)
      /\ \A i \in 1 .. Len(s) + Len(t) :
            (s \o t)[i] = IF i <= Len(s) THEN s[i] ELSE t[i - Len(s)]
  BY ConcatProperties
<1> DEFINE u == Numbers(s \o t)
           v == Numbers(s) \o Numbers(t)
<1>2. /\ u \in Seq(Clocks) /\ Len(u) = Len(s) + Len(t)
      /\ \A i \in 1 .. Len(s) + Len(t) : u[i] = (s \o t)[i].n
  BY <1>1, NumbersType
<1>3. /\ Numbers(s) \in Seq(Clocks) /\ Len(Numbers(s)) = Len(s)
      /\ Numbers(t) \in Seq(Clocks) /\ Len(Numbers(t)) = Len(t)
      /\ \A i \in 1 .. Len(s) : Numbers(s)[i] = s[i].n
      /\ \A i \in 1 .. Len(t) : Numbers(t)[i] = t[i].n
      /\ Len(s) \in Nat /\ Len(t) \in Nat
  BY NumbersType, LenProperties
<1> DEFINE a == Numbers(s)
           b == Numbers(t)
<1>4. /\ v \in Seq(Clocks) /\ Len(v) = Len(s) + Len(t)
      /\ \A i \in 1 .. Len(s) + Len(t) :
            v[i] = IF i <= Len(s) THEN Numbers(s)[i] ELSE Numbers(t)[i - Len(s)]
  <2>1. a \in Seq(Clocks) /\ b \in Seq(Clocks) /\ Len(a) = Len(s) /\ Len(b) = Len(t)
    BY <1>3
  <2> HIDE DEF a, b
  <2>2. /\ a \o b \in Seq(Clocks) /\ Len(a \o b) = Len(a) + Len(b)
        /\ \A i \in 1 .. Len(a) + Len(b) : (a \o b)[i] = IF i <= Len(a) THEN a[i] ELSE b[i - Len(a)]
    BY <2>1, ConcatProperties
  <2>3. QED
    BY <2>1, <2>2 DEF a, b
<1> HIDE DEF u, v
<1>5. ASSUME NEW i \in 1 .. Len(s) + Len(t)
      PROVE  u[i] = v[i]
  <2>1. CASE i <= Len(s)
    <3>1. i \in 1 .. Len(s)
      BY <1>3, <2>1
    <3>2. Numbers(s)[i] = s[i].n
      BY <1>3, <3>1
    <3>3. u[i] = s[i].n /\ v[i] = Numbers(s)[i]
      BY <1>1, <1>2, <1>4, <2>1
    <3>4. QED
      BY <3>2, <3>3
  <2>2. CASE ~(i <= Len(s))
    <3>1. i - Len(s) \in 1 .. Len(t)
      BY <1>3, <2>2
    <3>2. Numbers(t)[i - Len(s)] = t[i - Len(s)].n
      BY <1>3, <3>1
    <3>3. u[i] = t[i - Len(s)].n /\ v[i] = Numbers(t)[i - Len(s)]
      BY <1>1, <1>2, <1>4, <2>2
    <3>4. QED
      BY <3>2, <3>3
  <2>3. QED
    BY <2>1, <2>2
<1>6. u = v
  BY <1>2, <1>4, <1>5, SeqEqual
<1>7. QED
  BY <1>1, <1>6 DEF u, v

\* The range statement and Recv take a chunk: it is the head and the rest stays.
LEMMA HeadAndTail ==
    ASSUME NEW s \in Seq(Chunks), s # <<>>
    PROVE  /\ Head(s) \in Chunks /\ Tail(s) \in Seq(Chunks) /\ <<Head(s)>> \in Seq(Chunks)
           /\ Len(Tail(s)) = Len(s) - 1 /\ Len(s) \in Nat /\ Len(s) >= 1
           /\ Numbers(s) = <<Head(s).n>> \o Numbers(Tail(s))
<1>1. /\ Head(s) \in Chunks /\ Tail(s) \in Seq(Chunks) /\ Len(Tail(s)) = Len(s) - 1
      /\ Len(s) \in Nat
  BY HeadTailProperties, LenProperties
<1>2. Len(s) >= 1
  BY <1>1, EmptySeq
<1>3. s = <<Head(s)>> \o Tail(s)
  <2> DEFINE t == <<Head(s)>> \o Tail(s)
  <2>1. /\ <<Head(s)>> \in Seq(Chunks) /\ Len(<<Head(s)>>) = 1 /\ <<Head(s)>>[1] = s[1]
        /\ \A i \in 1 .. Len(Tail(s)) : Tail(s)[i] = s[i + 1]
    BY <1>1, HeadTailProperties
  <2>2. /\ t \in Seq(Chunks) /\ Len(t) = Len(s)
        /\ \A i \in 1 .. Len(s) : t[i] = IF i <= 1 THEN <<Head(s)>>[i] ELSE Tail(s)[i - 1]
    BY <1>1, <2>1, ConcatProperties
  <2> HIDE DEF t
  <2>3. ASSUME NEW i \in 1 .. Len(s)
        PROVE  t[i] = s[i]
    <3>1. CASE i = 1
      BY <2>1, <2>2, <3>1
    <3>2. CASE i # 1
      <4>1. i - 1 \in 1 .. Len(Tail(s)) /\ ~(i <= 1) /\ (i - 1) + 1 = i
        BY <1>1, <3>2
      <4>2. QED
        BY <2>1, <2>2, <4>1
    <3>3. QED
      BY <3>1, <3>2
  <2>4. QED
    BY <2>2, <2>3, SeqEqual DEF t
<1>4. Numbers(<<Head(s)>> \o Tail(s)) = Numbers(<<Head(s)>>) \o Numbers(Tail(s))
  BY <1>1, NumbersOfOne, NumbersOfConcat
<1>5. QED
  BY <1>1, <1>2, <1>3, <1>4, NumbersOfOne

LEMMA WayType ==
    ASSUME NEW r \in Seq(Clocks), NEW w \in Seq(Chunks), NEW s \in Seq(Chunks), NEW c \in Seq(Chunks)
    PROVE  Way(r, w, s, c) \in Seq(Clocks)
BY NumbersType, ConcatProperties DEF Way

LEMMA Regroup ==
    ASSUME NEW p \in Seq(Clocks), NEW h \in Seq(Clocks), NEW t \in Seq(Clocks)
    PROVE  (p \o h) \o t = p \o (h \o t)
BY ConcatAssociative

\* Taking a chunk from the channel moves it within the whole.
LEMMA WayOfTake ==
    ASSUME NEW r \in Seq(Clocks), NEW w \in Seq(Chunks), NEW c \in Seq(Chunks), c # <<>>
    PROVE  Way(r, w, <<Head(c)>>, Tail(c)) = Way(r, w, <<>>, c)
<1>1. /\ Numbers(c) = <<Head(c).n>> \o Numbers(Tail(c))
      /\ Numbers(<<Head(c)>>) = <<Head(c).n>> /\ Numbers(<<>>) = <<>>
      /\ Numbers(Tail(c)) \in Seq(Clocks) /\ Numbers(<<Head(c)>>) \in Seq(Clocks)
      /\ Numbers(w) \in Seq(Clocks)
  BY HeadAndTail, NumbersOfOne, NumbersOfEmpty, NumbersType
<1>2. PICK p \in Seq(Clocks) : p = r \o Numbers(w)
  BY <1>1, ConcatProperties
<1>3. PICK h \in Seq(Clocks), t \in Seq(Clocks) : h = Numbers(<<Head(c)>>) /\ t = Numbers(Tail(c))
  BY <1>1
<1>4. (p \o h) \o t = p \o (h \o t)
  BY Regroup, Zenon
<1>5. Numbers(c) = h \o t
  BY <1>1, <1>3
<1>6. Way(r, w, <<Head(c)>>, Tail(c)) = (p \o h) \o t /\ Way(r, w, <<>>, c) = (p \o <<>>) \o (h \o t)
  BY <1>1, <1>2, <1>3, <1>5 DEF Way
<1>7. p \o <<>> = p
  BY ConcatEmptySeq
<1>8. QED
  BY <1>4, <1>6, <1>7

\* A chunk that is sent moves from the handler to the stream.
LEMMA WayOfSend ==
    ASSUME NEW r \in Seq(Clocks), NEW w \in Seq(Chunks), NEW s \in Seq(Chunks), NEW c \in Seq(Chunks)
    PROVE  Way(r, w \o s, <<>>, c) = Way(r, w, s, c)
<1>1. /\ Numbers(w) \in Seq(Clocks) /\ Numbers(s) \in Seq(Clocks) /\ Numbers(c) \in Seq(Clocks)
      /\ Numbers(w \o s) = Numbers(w) \o Numbers(s) /\ Numbers(<<>>) = <<>>
      /\ Numbers(w \o s) \in Seq(Clocks)
  BY NumbersType, NumbersOfConcat, NumbersOfEmpty
<1>2. PICK x \in Seq(Clocks), y \in Seq(Clocks), z \in Seq(Clocks) :
        x = Numbers(w) /\ y = Numbers(s) /\ z = Numbers(w \o s)
  BY <1>1
<1>3. (r \o x) \o y = r \o z
  <2>1. (r \o x) \o y = r \o (x \o y)
    BY Regroup
  <2>2. QED
    BY <1>1, <1>2, <2>1
<1>4. r \o z \in Seq(Clocks)
  BY ConcatProperties
<1>5. (r \o z) \o <<>> = r \o z
  BY <1>4, ConcatEmptySeq
<1>6. QED
  BY <1>1, <1>2, <1>3, <1>5 DEF Way

\* A chunk that is received stays in the whole.
LEMMA WayOfRecv ==
    ASSUME NEW r \in Seq(Clocks), NEW w \in Seq(Chunks), NEW s \in Seq(Chunks), NEW c \in Seq(Chunks),
           w # <<>>
    PROVE  /\ Append(r, Head(w).n) \in Seq(Clocks)
           /\ Way(Append(r, Head(w).n), Tail(w), s, c) = Way(r, w, s, c)
<1>1. /\ Numbers(w) = <<Head(w).n>> \o Numbers(Tail(w))
      /\ Head(w).n \in Clocks /\ Numbers(Tail(w)) \in Seq(Clocks)
  BY HeadAndTail, NumbersType DEF Chunks, Clocks
<1>2. Append(r, Head(w).n) = r \o <<Head(w).n>> /\ Append(r, Head(w).n) \in Seq(Clocks)
  BY <1>1, AppendIsConcat, AppendProperties
<1>3. <<Head(w).n>> \in Seq(Clocks)
  BY <1>1
<1>4. (r \o <<Head(w).n>>) \o Numbers(Tail(w)) = r \o Numbers(w)
  <2>1. PICK h \in Seq(Clocks), t \in Seq(Clocks) : h = <<Head(w).n>> /\ t = Numbers(Tail(w))
    BY <1>1, <1>3
  <2>2. (r \o h) \o t = r \o (h \o t)
    BY ConcatAssociative
  <2>3. QED
    BY <1>1, <2>1, <2>2
<1>5. QED
  BY <1>2, <1>4 DEF Way

\* A chunk that is offered is put last.
LEMMA WayOfOffer ==
    ASSUME NEW r \in Seq(Clocks), NEW w \in Seq(Chunks), NEW s \in Seq(Chunks), NEW c \in Seq(Chunks),
           NEW k \in Chunks
    PROVE  Way(r, w, s, Append(c, k)) = Append(Way(r, w, s, c), k.n)
<1> DEFINE p == r \o Numbers(w) \o Numbers(s)
<1>1. Append(c, k) = c \o <<k>> /\ <<k>> \in Seq(Chunks) /\ Numbers(<<k>>) = <<k.n>> /\ k.n \in Clocks
  BY AppendIsConcat, NumbersOfOne DEF Chunks, Clocks
<1>2. Numbers(Append(c, k)) = Numbers(c) \o <<k.n>> /\ <<k.n>> \in Seq(Clocks)
  <2>1. PICK one \in Seq(Chunks) : one = <<k>>
    BY <1>1
  <2>2. Numbers(c \o one) = Numbers(c) \o Numbers(one) /\ Numbers(one) \in Seq(Clocks)
    BY NumbersOfConcat, NumbersType
  <2>3. QED
    BY <1>1, <2>1, <2>2
<1>3. p \in Seq(Clocks) /\ Numbers(c) \in Seq(Clocks)
  BY NumbersType, ConcatProperties
<1> HIDE DEF p
<1>4. p \o (Numbers(c) \o <<k.n>>) = (p \o Numbers(c)) \o <<k.n>>
  BY <1>2, <1>3, Regroup
<1>5. p \o Numbers(c) \in Seq(Clocks)
  BY <1>3, ConcatProperties
<1>6. (p \o Numbers(c)) \o <<k.n>> = Append(p \o Numbers(c), k.n)
  BY <1>1, <1>5, AppendIsConcat
<1>7. QED
  BY <1>2, <1>4, <1>6 DEF Way, p

\* The greeting alone.
LEMMA WayOfHello ==
    /\ Way(<<>>, <<>>, <<>>, <<>>) = <<>>
    /\ Way(<<>>, Append(<<>>, Hello), <<>>, <<>>) = <<0>>
    /\ Hello \in Chunks /\ Append(<<>>, Hello) \in Seq(Chunks) /\ Len(Append(<<>>, Hello)) = 1
<1>1. Hello \in Chunks /\ Hello.n = 0
  BY DEF Hello, Chunks, Kinds
<1>2. Append(<<>>, Hello) = <<Hello>> /\ <<>> \in Seq(Clocks) /\ <<0>> \in Seq(Clocks)
  BY DEF Clocks
<1>3. Numbers(<<>>) = <<>> /\ Numbers(<<Hello>>) = <<0>>
  BY <1>1, NumbersOfEmpty, NumbersOfOne
<1>4. <<>> \o <<>> = <<>> /\ <<>> \o <<0>> = <<0>> /\ <<0>> \o <<>> = <<0>>
  BY <1>2, ConcatEmptySeq
<1>5. Append(<<>>, Hello) \in Seq(Chunks) /\ Len(Append(<<>>, Hello)) = 1
  BY <1>1, <1>2, NumbersOfOne
<1>6. QED
  BY <1>1, <1>2, <1>3, <1>4, <1>5 DEF Way

-------------------------------------------------------------------------------
(* What a client is to get.                                                 *)

\* "all" holds every number from low + 1 to high that is not in "missing", each once
\* and in order, after the greeting at most.
Complete(all, missing, low, high) ==
    /\ \A i, j \in DOMAIN all : i < j => all[i] < all[j]
    /\ (ToSet(all) \ {0}) \cup missing = low + 1 .. high
    /\ ToSet(all) \cap missing = {}

\* The chunk that is broadcast goes on the way.
LEMMA CompleteAppend ==
    ASSUME NEW all \in Seq(Nat), NEW missing, NEW low \in Nat, NEW high \in Nat, low < high,
           Complete(all, missing, low, high - 1)
    PROVE  Complete(Append(all, high), missing, low, high)
<1> DEFINE next == Append(all, high)
<1>1. PICK n \in Nat :
        /\ n = Len(all)
        /\ next \in Seq(Nat) /\ Len(next) = n + 1 /\ next[n + 1] = high
        /\ \A i \in 1 .. n : next[i] = all[i]
        /\ DOMAIN all = 1 .. n
  BY AppendProperties, LenProperties
<1> HIDE DEF next
<1>2. DOMAIN next = 1 .. n + 1
  BY <1>1, LenProperties
<1>3. \A i \in 1 .. n : all[i] \in Nat /\ all[i] < high
  <2>1. TAKE i \in 1 .. n
  <2>2. all[i] \in ToSet(all)
    BY <1>1 DEF ToSet
  <2>3. all[i] = 0 \/ all[i] \in low + 1 .. high - 1
    BY <2>2 DEF Complete
  <2>4. QED
    BY <2>3
<1>4. ToSet(next) = ToSet(all) \cup {high}
  <2>1. ToSet(next) \subseteq ToSet(all) \cup {high}
    <3>1. SUFFICES ASSUME NEW i \in 1 .. n + 1
                   PROVE  next[i] \in ToSet(all) \cup {high}
      BY <1>2 DEF ToSet
    <3>2. CASE i = n + 1
      BY <1>1, <3>2
    <3>3. CASE i # n + 1
      <4>1. i \in 1 .. n
        BY <3>3
      <4>2. next[i] = all[i] /\ i \in DOMAIN all
        BY <1>1, <4>1
      <4>3. QED
        BY <4>2 DEF ToSet
    <3>4. QED
      BY <3>2, <3>3
  <2>2. ToSet(all) \subseteq ToSet(next)
    <3>1. SUFFICES ASSUME NEW i \in DOMAIN all
                   PROVE  all[i] \in ToSet(next)
      BY DEF ToSet
    <3>2. i \in 1 .. n
      BY <1>1
    <3>3. i \in DOMAIN next /\ next[i] = all[i]
      BY <1>1, <1>2, <3>2
    <3>4. QED
      BY <3>3 DEF ToSet
  <2>3. high \in ToSet(next)
    <3>1. n + 1 \in DOMAIN next /\ next[n + 1] = high
      BY <1>1, <1>2
    <3>2. QED
      BY <3>1 DEF ToSet
  <2>4. QED
    BY <2>1, <2>2, <2>3
<1>5. \A i, j \in DOMAIN next : i < j => next[i] < next[j]
  <2>1. SUFFICES ASSUME NEW i \in 1 .. n + 1, NEW j \in 1 .. n + 1, i < j
                 PROVE  next[i] < next[j]
    BY <1>2
  <2>2. CASE j = n + 1
    <3>1. i \in 1 .. n
      BY <2>1, <2>2
    <3>2. next[i] = all[i] /\ all[i] < high /\ next[j] = high
      BY <1>1, <1>3, <2>2, <3>1
    <3>3. QED
      BY <3>2
  <2>3. CASE j # n + 1
    <3>1. i \in 1 .. n /\ j \in 1 .. n
      BY <2>1, <2>3
    <3>2. i \in DOMAIN all /\ j \in DOMAIN all
      BY <1>1, <3>1
    <3>3. all[i] < all[j]
      BY <2>1, <3>2 DEF Complete
    <3>4. QED
      BY <1>1, <3>1, <3>3
  <2>4. QED
    BY <2>2, <2>3
<1>6. (ToSet(next) \ {0}) \cup missing = low + 1 .. high
  <2>1. (ToSet(all) \ {0}) \cup missing = low + 1 .. high - 1
    BY DEF Complete
  <2>2. low + 1 .. high = (low + 1 .. high - 1) \cup {high} /\ high # 0
    OBVIOUS
  <2>3. QED
    BY <1>4, <2>1, <2>2
<1>7. ToSet(next) \cap missing = {}
  <2>1. missing \subseteq low + 1 .. high - 1 /\ ToSet(all) \cap missing = {}
    BY DEF Complete
  <2>2. high \notin missing
    BY <2>1
  <2>3. QED
    BY <1>4, <2>1, <2>2
<1>8. QED
  BY <1>5, <1>6, <1>7 DEF Complete, next

\* The chunk that is broadcast is refused.
LEMMA CompleteRefuse ==
    ASSUME NEW all \in Seq(Nat), NEW missing, NEW low \in Nat, NEW high \in Nat, low < high,
           Complete(all, missing, low, high - 1)
    PROVE  Complete(all, missing \cup {high}, low, high)
<1>1. /\ (ToSet(all) \ {0}) \cup missing = low + 1 .. high - 1
      /\ ToSet(all) \cap missing = {}
  BY DEF Complete
<1>2. low + 1 .. high = (low + 1 .. high - 1) \cup {high} /\ high # 0
  OBVIOUS
<1>3. high \notin ToSet(all)
  BY <1>1
<1>4. /\ (ToSet(all) \ {0}) \cup (missing \cup {high}) = low + 1 .. high
      /\ ToSet(all) \cap (missing \cup {high}) = {}
  BY <1>1, <1>2, <1>3
<1>5. QED
  BY <1>4 DEF Complete

\* A client that has just been subscribed lacks nothing, greeted or not.
LEMMA CompleteAtFirst ==
    ASSUME NEW all \in {<<>>, << 0 >>}, NEW now \in Nat
    PROVE  Complete(all, {}, now, now)
<1>1. now + 1 .. now = {}
  OBVIOUS
<1>2. CASE all = <<>>
  BY <1>1, <1>2 DEF Complete, ToSet
<1>3. CASE all = <<0>>
  <2>1. DOMAIN all = 1 .. 1 /\ all[1] = 0
    BY <1>3
  <2>2. ToSet(all) = {0}
    BY <2>1 DEF ToSet
  <2>3. QED
    BY <1>1, <2>1, <2>2 DEF Complete
<1>4. QED
  BY <1>2, <1>3

-------------------------------------------------------------------------------
(* The broker's invariant, client by client.                                *)

StreamTyped ==
    /\ owner \in Loggers \cup {Free} /\ clock \in Nat /\ chunk \in Chunks
    /\ todo \subseteq Watchers /\ subscribers \subseteq Watchers /\ closed \subseteq Watchers
    /\ channel \in [Watchers -> Seq(Chunks)] /\ sending \in [Watchers -> Seq(Chunks)]
    /\ wire \in [Watchers -> Seq(Chunks)] /\ received \in [Watchers -> Seq(Clocks)]
    /\ since \in [Watchers -> Nat] /\ dropped \in [Watchers -> SUBSET Nat]
    /\ handler \in [Watchers -> {"idle", "hello", "subscribe", "range", "send", "leave", "done"}]
    /\ client \in [Watchers -> {"away", "reading", "stopped", "gone"}]
    /\ \A w \in Watchers :
          Len(channel[w]) <= Capacity /\ Len(sending[w]) <= 1 /\ Len(wire[w]) <= Window

WayOf(w) == Way(received[w], wire[w], sending[w], channel[w])

Placed(w) ==
    /\ w \in subscribers <=> handler[w] \in {"range", "send", "leave"}
    /\ w \in closed <=> handler[w] = "done"
    /\ client[w] = "away" => handler[w] = "idle"
    /\ handler[w] \in {"idle", "hello", "subscribe"} => channel[w] = <<>> /\ dropped[w] = {}
    /\ handler[w] \in {"idle", "hello"} => wire[w] = <<>> /\ received[w] = <<>>
    /\ handler[w] = "subscribe" => WayOf(w) \in {<<>>, <<0>>}
    /\ handler[w] # "send" => sending[w] = <<>>

Offered(w) == IF w \in todo THEN clock - 1 ELSE clock

Faithful(w) ==
    (w \in subscribers /\ client[w] # "gone") => Complete(WayOf(w), dropped[w], since[w], Offered(w))

Started(w) == w \in subscribers => since[w] <= clock /\ (w \in todo => since[w] < clock)

Mutex ==
    /\ todo \subseteq subscribers
    /\ owner = Free => todo = {}
    /\ owner # Free => chunk.n = clock

Inductive ==
    /\ StreamTyped /\ Mutex
    /\ \A w \in Watchers : Placed(w) /\ Faithful(w) /\ Started(w)

\* It implies the invariants of LogStream.
LEMMA InductiveImplies ==
    ASSUME Inductive
    PROVE  StreamTypeOK /\ NeverSendsOnClosed /\ StreamIsFaithful /\ StreamInv
<1>1. \A w \in Watchers : OnTheWay(w) = WayOf(w)
  BY DEF OnTheWay, WayOf, Way, Numbers
<1>2. StreamTypeOK
  <2>1. ASSUME NEW w \in Watchers
        PROVE  ToSet(channel[w] \o sending[w] \o wire[w]) \subseteq Chunks
    <3>1. channel[w] \in Seq(Chunks) /\ sending[w] \in Seq(Chunks) /\ wire[w] \in Seq(Chunks)
      BY DEF Inductive, StreamTyped
    <3>2. channel[w] \o sending[w] \in Seq(Chunks)
      BY <3>1, ConcatProperties
    <3>3. PICK q \in Seq(Chunks) : q = channel[w] \o sending[w] \o wire[w]
      BY <3>1, <3>2, ConcatProperties
    <3>4. \A i \in DOMAIN q : q[i] \in Chunks
      BY LenProperties, ElementOfSeq
    <3>5. QED
      BY <3>3, <3>4 DEF ToSet
  <2>2. QED
    BY <2>1 DEF StreamTypeOK, Inductive, StreamTyped
<1>3. Subscriptions
  <2>1. SUFFICES ASSUME NEW w \in Watchers
                 PROVE  /\ w \in subscribers <=> handler[w] \in {"range", "send", "leave"}
                        /\ w \in closed <=> handler[w] = "done"
                        /\ client[w] = "away" => handler[w] = "idle"
                        /\ handler[w] \in {"idle", "hello", "subscribe"} =>
                              channel[w] = <<>> /\ dropped[w] = {}
                        /\ handler[w] \in {"idle", "hello"} => wire[w] = <<>> /\ received[w] = <<>>
                        /\ handler[w] = "subscribe" => OnTheWay(w) \in {<<>>, <<0>>}
                        /\ handler[w] # "send" => sending[w] = <<>>
    BY DEF Subscriptions
  <2>2. QED
    BY <1>1 DEF Inductive, Placed
<1>4. StreamIsFaithful
  <2>1. SUFFICES ASSUME NEW w \in subscribers, client[w] # "gone"
                 PROVE  Complete(OnTheWay(w), dropped[w], since[w], Offered(w))
    BY DEF StreamIsFaithful, Complete, Offered
  <2>2. w \in Watchers
    BY DEF Inductive, StreamTyped
  <2>3. QED
    BY <1>1, <2>1, <2>2 DEF Inductive, Faithful
<1>5. LatestIsOffered
  BY DEF LatestIsOffered, Inductive, Mutex, Started, StreamTyped
<1>6. NeverSendsOnClosed
  BY DEF NeverSendsOnClosed, Inductive, Mutex, Placed, StreamTyped
<1>7. QED
  BY <1>2, <1>3, <1>4, <1>5, <1>6 DEF StreamInv

\* What a step does not touch of a client's state.
Untouched(v) ==
    /\ v \in subscribers' <=> v \in subscribers
    /\ v \in closed' <=> v \in closed
    /\ v \in todo' <=> v \in todo
    /\ channel'[v] = channel[v] /\ sending'[v] = sending[v] /\ wire'[v] = wire[v]
    /\ received'[v] = received[v] /\ since'[v] = since[v] /\ dropped'[v] = dropped[v]
    /\ handler'[v] = handler[v] /\ client'[v] = client[v]

LEMMA Undisturbed ==
    ASSUME NEW v, Placed(v), Faithful(v), Started(v), Untouched(v), clock' = clock
    PROVE  Placed(v)' /\ Faithful(v)' /\ Started(v)'
<1>1. WayOf(v)' = WayOf(v)
  BY DEF WayOf, Untouched
<1>2. Placed(v)'
  BY <1>1 DEF Placed, Untouched
<1>3. Offered(v)' = Offered(v)
  BY DEF Offered, Untouched
<1>4. Faithful(v)'
  BY <1>1, <1>3 DEF Faithful, Untouched
<1>5. Started(v)'
  BY DEF Started, Untouched
<1>6. QED
  BY <1>2, <1>4, <1>5

\* A step of one client leaves the invariant to that client.
LEMMA OfOneClient ==
    ASSUME Inductive, NEW w \in Watchers, \A v \in Watchers \ {w} : Untouched(v), clock' = clock,
           StreamTyped', Mutex', Placed(w)', Faithful(w)', Started(w)'
    PROVE  Inductive'
<1>1. SUFFICES ASSUME NEW v \in Watchers
               PROVE  Placed(v)' /\ Faithful(v)' /\ Started(v)'
  BY DEF Inductive
<1>2. CASE v = w
  BY <1>2
<1>3. CASE v # w
  <2>1. Placed(v) /\ Faithful(v) /\ Started(v) /\ Untouched(v)
    BY <1>3 DEF Inductive
  <2>2. QED
    BY <2>1, Undisturbed
<1>4. QED
  BY <1>2, <1>3

-------------------------------------------------------------------------------
(* The broker's steps.                                                      *)

\* A broadcast begins: what was offered to whom stays what it is, one number behind.
LEMMA BroadcastStep ==
    ASSUME Inductive, NEW l \in Loggers, NEW kind \in Kinds, Broadcast(l, kind)
    PROVE  Inductive'
<1> USE DEF Broadcast, watchVars
<1>1. StreamTyped'
  <2>1. chunk' \in Chunks
    BY DEF Inductive, StreamTyped, Chunks
  <2>2. QED
    BY <2>1 DEF Inductive, StreamTyped
<1>2. Mutex'
  BY StreamAssumption DEF Inductive, Mutex, StreamTyped
<1>3. ASSUME NEW v \in Watchers
      PROVE  Placed(v)' /\ Faithful(v)' /\ Started(v)'
  <2>1. Placed(v) /\ Faithful(v) /\ Started(v) /\ clock \in Nat /\ since \in [Watchers -> Nat] /\ todo = {}
    BY <1>3 DEF Inductive, StreamTyped, Mutex
  <2>2. WayOf(v)' = WayOf(v)
    BY DEF WayOf
  <2>3. Placed(v)'
    BY <2>1, <2>2 DEF Placed
  <2>4. Faithful(v)'
    <3>1. v \in subscribers => Offered(v)' = Offered(v)
      BY <2>1 DEF Offered
    <3>2. QED
      BY <2>1, <2>2, <3>1 DEF Faithful
  <2>5. Started(v)'
    BY <2>1 DEF Started
  <2>6. QED
    BY <2>3, <2>4, <2>5
<1>4. QED
  BY <1>1, <1>2, <1>3 DEF Inductive

\* A subscriber with room is given the chunk.
LEMMA AcceptStep ==
    ASSUME Inductive, NEW w \in Watchers, Offer(w), ~Full(w)
    PROVE  Inductive'
<1>1. /\ w \in subscribers /\ w \in todo /\ owner # Free /\ chunk.n = clock /\ chunk \in Chunks
      /\ since[w] < clock /\ clock \in Nat /\ since[w] \in Nat
      /\ Placed(w) /\ Faithful(w)
      /\ received[w] \in Seq(Clocks) /\ wire[w] \in Seq(Chunks)
      /\ sending[w] \in Seq(Chunks) /\ channel[w] \in Seq(Chunks)
  BY DEF Inductive, StreamTyped, Mutex, Started, Offer
<1>2. /\ Append(channel[w], chunk) \in Seq(Chunks)
      /\ Len(Append(channel[w], chunk)) = Len(channel[w]) + 1 /\ Len(channel[w]) \in Nat
  BY <1>1, AppendProperties, LenProperties
<1>3. /\ channel' = [channel EXCEPT ![w] = Append(channel[w], chunk)] /\ todo' = todo \ {w}
      /\ UNCHANGED <<dropped, owner, clock, chunk, subscribers, closed, handler, sending, wire, client, received, since>>
  BY DEF Offer
<1>4. channel'[w] = Append(channel[w], chunk)
  BY <1>3 DEF Inductive, StreamTyped
<1>5. Len(channel[w]) + 1 <= Capacity
  BY <1>2, StreamAssumption DEF Inductive, StreamTyped, Full
<1>6. StreamTyped'
  BY <1>2, <1>3, <1>5 DEF Inductive, StreamTyped
<1>7. Mutex'
  BY <1>1, <1>3 DEF Inductive, Mutex
<1>8. WayOf(w)' = Append(WayOf(w), clock) /\ WayOf(w) \in Seq(Nat)
  <2>1. Way(received[w], wire[w], sending[w], Append(channel[w], chunk))
          = Append(Way(received[w], wire[w], sending[w], channel[w]), chunk.n)
    <3>1. /\ received[w] \in Seq(Clocks) /\ wire[w] \in Seq(Chunks) /\ sending[w] \in Seq(Chunks)
          /\ channel[w] \in Seq(Chunks) /\ chunk \in Chunks
      BY <1>1
    <3>2. QED
      BY <3>1, WayOfOffer, Zenon
  <2>2. Way(received[w], wire[w], sending[w], channel[w]) \in Seq(Clocks)
    BY <1>1, WayType
  <2>3. QED
    BY <1>1, <1>3, <1>4, <2>1, <2>2 DEF WayOf, Clocks
<1>9. Placed(w)'
  BY <1>1, <1>3 DEF Placed
<1>10. Faithful(w)'
  <2>1. SUFFICES ASSUME client[w] # "gone"
                 PROVE  Complete(WayOf(w)', dropped[w], since[w], clock)
    BY <1>3 DEF Faithful, Offered
  <2>2. Complete(WayOf(w), dropped[w], since[w], clock - 1)
    BY <1>1, <2>1 DEF Faithful, Offered
  <2>3. Complete(Append(WayOf(w), clock), dropped[w], since[w], clock)
    BY <1>1, <1>8, <2>2, CompleteAppend
  <2>4. QED
    BY <1>8, <2>3
<1>11. Started(w)'
  BY <1>1, <1>3 DEF Started
<1>12. \A v \in Watchers \ {w} : Untouched(v)
  BY <1>3 DEF Inductive, StreamTyped, Untouched
<1>13. clock' = clock
  BY <1>3
<1>14. QED
  BY <1>6, <1>7, <1>9, <1>10, <1>11, <1>12, <1>13, OfOneClient

\* A subscriber without room is refused the chunk, at once or after a second.
LEMMA RefuseStep ==
    ASSUME Inductive, NEW w \in Watchers, TimesOut(w) \/ (Offer(w) /\ Full(w))
    PROVE  Inductive'
<1>1. /\ w \in subscribers /\ w \in todo /\ owner # Free /\ chunk.n = clock
      /\ since[w] < clock /\ clock \in Nat /\ since[w] \in Nat
      /\ Placed(w) /\ Faithful(w) /\ dropped[w] \in SUBSET Nat
      /\ received[w] \in Seq(Clocks) /\ wire[w] \in Seq(Chunks)
      /\ sending[w] \in Seq(Chunks) /\ channel[w] \in Seq(Chunks)
  BY DEF Inductive, StreamTyped, Mutex, Started, Offer, TimesOut
<1>2. /\ dropped' = [dropped EXCEPT ![w] = dropped[w] \cup {clock}] /\ todo' = todo \ {w}
      /\ UNCHANGED <<channel, owner, clock, chunk, subscribers, closed, handler, sending, wire, client, received, since>>
  BY <1>1 DEF Offer, TimesOut
<1>3. dropped'[w] = dropped[w] \cup {clock}
  BY <1>2 DEF Inductive, StreamTyped
<1>4. StreamTyped'
  BY <1>1, <1>2 DEF Inductive, StreamTyped
<1>5. Mutex'
  BY <1>1, <1>2 DEF Inductive, Mutex
<1>6. WayOf(w)' = WayOf(w) /\ WayOf(w) \in Seq(Nat)
  <2>1. Way(received[w], wire[w], sending[w], channel[w]) \in Seq(Clocks)
    BY <1>1, WayType
  <2>2. QED
    BY <1>2, <2>1 DEF WayOf, Clocks
<1>7. Placed(w)'
  BY <1>1, <1>2 DEF Placed
<1>8. Faithful(w)'
  <2>1. SUFFICES ASSUME client[w] # "gone"
                 PROVE  Complete(WayOf(w), dropped[w] \cup {clock}, since[w], clock)
    BY <1>2, <1>3, <1>6 DEF Faithful, Offered
  <2>2. Complete(WayOf(w), dropped[w], since[w], clock - 1)
    BY <1>1, <2>1 DEF Faithful, Offered
  <2>3. QED
    BY <1>1, <1>6, <2>2, CompleteRefuse
<1>9. Started(w)'
  BY <1>1, <1>2 DEF Started
<1>10. \A v \in Watchers \ {w} : Untouched(v)
  BY <1>2 DEF Inductive, StreamTyped, Untouched
<1>11. clock' = clock
  BY <1>2
<1>12. QED
  BY <1>4, <1>5, <1>7, <1>8, <1>9, <1>10, <1>11, OfOneClient

LEMMA UnlockStep ==
    ASSUME Inductive, Unlock
    PROVE  Inductive'
<1> USE DEF Unlock, watchVars
<1>1. StreamTyped'
  BY WayOfHello DEF Inductive, StreamTyped
<1>2. Mutex'
  BY DEF Inductive, Mutex
<1>3. ASSUME NEW v \in Watchers
      PROVE  Placed(v)' /\ Faithful(v)' /\ Started(v)'
  <2>1. Placed(v) /\ Faithful(v) /\ Started(v) /\ Untouched(v) /\ clock' = clock
    BY <1>3 DEF Inductive, Untouched
  <2>2. QED
    BY <2>1, Undisturbed
<1>4. QED
  BY <1>1, <1>2, <1>3 DEF Inductive

-------------------------------------------------------------------------------
(* The steps of a WatchLogs handler and of its client.                      *)

\* What is known of the client that takes a step.
LEMMA AboutClient ==
    ASSUME Inductive, NEW w \in Watchers
    PROVE  /\ Placed(w) /\ Faithful(w) /\ Started(w)
           /\ received[w] \in Seq(Clocks) /\ wire[w] \in Seq(Chunks)
           /\ sending[w] \in Seq(Chunks) /\ channel[w] \in Seq(Chunks)
           /\ Len(channel[w]) <= Capacity /\ Len(sending[w]) <= 1 /\ Len(wire[w]) <= Window
           /\ clock \in Nat /\ since[w] \in Nat /\ dropped[w] \in SUBSET Nat
BY DEF Inductive, StreamTyped

\* The mutex's part of the invariant does not depend on the clients' own state.
LEMMA MutexKept ==
    ASSUME Mutex, subscribers \subseteq subscribers', UNCHANGED brokerVars
    PROVE  Mutex'
BY DEF Mutex, brokerVars

LEMMA AttachStep ==
    ASSUME Inductive, NEW w \in Watchers, Attach(w)
    PROVE  Inductive'
<1> USE DEF Attach, brokerVars
<1>1. StreamTyped'
  BY DEF Inductive, StreamTyped
<1>2. Mutex'
  BY MutexKept DEF Inductive
<1>3. handler'[w] = "hello" /\ client'[w] = "reading" /\ Placed(w) /\ handler[w] = "idle"
  BY AboutClient DEF Inductive, StreamTyped, Placed
<1>4. w \notin subscribers'
  BY <1>3 DEF Placed
<1>5. Placed(w)' /\ Faithful(w)' /\ Started(w)'
  BY <1>3, <1>4 DEF Placed, Faithful, Started
<1>6. \A v \in Watchers \ {w} : Untouched(v)
  BY DEF Inductive, StreamTyped, Untouched
<1>7. QED
  BY <1>1, <1>2, <1>5, <1>6, OfOneClient

LEMMA SayHelloStep ==
    ASSUME Inductive, NEW w \in Watchers, SayHello(w)
    PROVE  Inductive'
<1> USE DEF SayHello, brokerVars
<1>1. /\ Placed(w) /\ handler[w] = "hello" /\ wire[w] = <<>> /\ received[w] = <<>>
      /\ channel[w] = <<>> /\ sending[w] = <<>> /\ dropped[w] = {}
      /\ w \notin subscribers /\ w \notin closed
  BY AboutClient DEF Placed
<1>2. handler'[w] = "subscribe" /\ wire'[w] \in {<<>>, Append(<<>>, Hello)}
  BY <1>1 DEF Inductive, StreamTyped
<1>3. wire'[w] \in Seq(Chunks) /\ Len(wire'[w]) <= Window
  <2>1. PICK next : next = wire'[w]
    OBVIOUS
  <2> HIDE DEF SayHello, brokerVars
  <2>2. next = <<>> \/ next = Append(<<>>, Hello)
    BY <1>2, <2>1
  <2>3. CASE next = <<>>
    BY <2>1, <2>3, StreamAssumption
  <2>4. CASE next = Append(<<>>, Hello)
    <3>1. next \in Seq(Chunks) /\ Len(next) = 1
      BY <2>4, WayOfHello
    <3>2. QED
      BY <2>1, <3>1, StreamAssumption
  <2>5. QED
    BY <2>2, <2>3, <2>4
<1>4. wire' = [wire EXCEPT ![w] = wire'[w]]
  BY DEF Inductive, StreamTyped
<1>5. StreamTyped'
  BY <1>3, <1>4 DEF Inductive, StreamTyped
<1>6. Mutex'
  BY MutexKept DEF Inductive
<1>7. WayOf(w)' \in {<<>>, <<0>>}
  BY <1>1, <1>2, WayOfHello DEF WayOf
<1>8. Placed(w)'
  BY <1>1, <1>2, <1>7 DEF Placed
<1>9. Faithful(w)' /\ Started(w)'
  BY <1>1 DEF Faithful, Started
<1>10. \A v \in Watchers \ {w} : Untouched(v)
  BY DEF Inductive, StreamTyped, Untouched
<1>11. QED
  BY <1>5, <1>6, <1>8, <1>9, <1>10, OfOneClient

\* Subscribe waits for the mutex, so that no broadcast is under way.
LEMMA SubscribeStep ==
    ASSUME Inductive, NEW w \in Watchers, Subscribe(w)
    PROVE  Inductive'
<1> USE DEF Subscribe, brokerVars
<1>1. /\ handler[w] = "subscribe" /\ dropped[w] = {} /\ channel[w] = <<>> /\ sending[w] = <<>>
      /\ WayOf(w) \in {<<>>, <<0>>} /\ clock \in Nat /\ todo = {} /\ w \notin closed
      /\ client[w] # "away"
  BY AboutClient DEF Placed, Inductive, Mutex
<1>2. handler'[w] = "range" /\ since'[w] = clock /\ w \in subscribers' /\ WayOf(w)' = WayOf(w)
  BY DEF Inductive, StreamTyped, WayOf
<1>3. StreamTyped'
  BY <1>1 DEF Inductive, StreamTyped
<1>4. Mutex'
  BY MutexKept DEF Inductive
<1>5. Placed(w)'
  BY <1>1, <1>2 DEF Placed
<1>6. Faithful(w)'
  BY <1>1, <1>2, CompleteAtFirst DEF Faithful, Offered
<1>7. Started(w)'
  BY <1>1, <1>2 DEF Started
<1>8. \A v \in Watchers \ {w} : Untouched(v)
  BY DEF Inductive, StreamTyped, Untouched
<1>9. QED
  BY <1>3, <1>4, <1>5, <1>6, <1>7, <1>8, OfOneClient

\* A step that only moves chunks along the way.
LEMMA MovesAlong ==
    ASSUME Inductive, NEW w \in Watchers, WayOf(w)' = WayOf(w),
           UNCHANGED <<clock, todo, subscribers, dropped, since>>, client[w] = "gone" => client'[w] = "gone"
    PROVE  Faithful(w)' /\ Started(w)'
<1>1. Offered(w)' = Offered(w)
  BY DEF Offered
<1>2. QED
  BY <1>1, AboutClient DEF Faithful, Started

LEMMA TakeStep ==
    ASSUME Inductive, NEW w \in Watchers, Take(w)
    PROVE  Inductive'
<1> USE DEF Take, brokerVars
<1>1. /\ Head(channel[w]) \in Chunks /\ <<Head(channel[w])>> \in Seq(Chunks)
      /\ Tail(channel[w]) \in Seq(Chunks) /\ Len(Tail(channel[w])) <= Capacity
      /\ Len(<<Head(channel[w])>>) = 1
  <2>1. /\ Len(Tail(channel[w])) = Len(channel[w]) - 1 /\ Len(channel[w]) \in Nat
        /\ Head(channel[w]) \in Chunks /\ Tail(channel[w]) \in Seq(Chunks)
    BY AboutClient, HeadAndTail
  <2>2. Len(channel[w]) <= Capacity
    BY AboutClient
  <2>3. Len(Tail(channel[w])) <= Capacity
    BY <2>1, <2>2, StreamAssumption
  <2>4. QED
    BY <2>1, <2>3, NumbersOfOne
<1>2. /\ handler[w] = "range" /\ handler'[w] = "send" /\ sending[w] = <<>>
      /\ sending'[w] = <<Head(channel[w])>> /\ channel'[w] = Tail(channel[w])
      /\ w \in subscribers /\ w \notin closed /\ client[w] # "away"
  BY AboutClient DEF Placed, Inductive, StreamTyped
<1>3. StreamTyped'
  BY <1>1 DEF Inductive, StreamTyped
<1>4. Mutex'
  BY MutexKept DEF Inductive
<1>5. Placed(w)'
  BY <1>2 DEF Placed
<1>6. WayOf(w)' = WayOf(w)
  <2>1. Way(received[w], wire[w], <<Head(channel[w])>>, Tail(channel[w]))
          = Way(received[w], wire[w], <<>>, channel[w])
    BY AboutClient, WayOfTake
  <2>2. QED
    BY <1>2, <2>1 DEF WayOf
<1>7. Faithful(w)' /\ Started(w)'
  <2>1. UNCHANGED <<clock, todo, subscribers, dropped, since>> /\ client'[w] = client[w]
    OBVIOUS
  <2> HIDE DEF Take, brokerVars
  <2>2. QED
    BY <1>6, <2>1, MovesAlong
<1>8. \A v \in Watchers \ {w} : Untouched(v)
  BY DEF Inductive, StreamTyped, Untouched
<1>9. QED
  BY <1>3, <1>4, <1>5, <1>7, <1>8, OfOneClient

\* A chunk goes on the stream, or is lost with the client that has gone.
LEMMA SendStep ==
    ASSUME Inductive, NEW w \in Watchers, Send(w)
    PROVE  Inductive'
<1> USE DEF Send, brokerVars
<1>1. /\ handler[w] = "send" /\ handler'[w] \in {"range", "leave"} /\ sending'[w] = <<>>
      /\ w \in subscribers /\ w \notin closed /\ client[w] # "away"
      /\ wire'[w] = IF client[w] = "gone" THEN wire[w] ELSE wire[w] \o sending[w]
  BY AboutClient DEF Placed, Inductive, StreamTyped, AfterSend
<1>2. wire'[w] \in Seq(Chunks) /\ Len(wire'[w]) <= Window
  <2>1. CASE client[w] = "gone"
    BY <1>1, <2>1, AboutClient
  <2>2. CASE client[w] # "gone"
    <3>1. /\ wire[w] \o sending[w] \in Seq(Chunks)
          /\ Len(wire[w] \o sending[w]) = Len(wire[w]) + Len(sending[w])
          /\ Len(wire[w]) \in Nat /\ Len(sending[w]) \in Nat
      BY AboutClient, ConcatProperties, LenProperties
    <3>2. Len(wire[w]) < Window /\ Len(sending[w]) <= 1
      BY <2>2, AboutClient
    <3>3. QED
      BY <1>1, <2>2, <3>1, <3>2, StreamAssumption
  <2>3. QED
    BY <2>1, <2>2
<1>3. StreamTyped'
  <2>1. wire' = [wire EXCEPT ![w] = wire'[w]]
    BY DEF Inductive, StreamTyped
  <2>2. handler' = [handler EXCEPT ![w] = handler'[w]]
    BY DEF Inductive, StreamTyped
  <2>3. /\ wire' \in [Watchers -> Seq(Chunks)]
        /\ handler' \in [Watchers -> {"idle", "hello", "subscribe", "range", "send", "leave", "done"}]
        /\ sending' \in [Watchers -> Seq(Chunks)]
    <3>1. <<>> \in Seq(Chunks)
      OBVIOUS
    <3>2. QED
      BY <1>1, <1>2, <2>1, <2>2, <3>1 DEF Inductive, StreamTyped
  <2>4. ASSUME NEW v \in Watchers
        PROVE  Len(sending'[v]) <= 1 /\ Len(wire'[v]) <= Window
    <3>1. Len(<<>>) = 0
      OBVIOUS
    <3>2. CASE v = w
      BY <1>1, <1>2, <3>1, <3>2
    <3>3. CASE v # w
      BY <3>3 DEF Inductive, StreamTyped
    <3>4. QED
      BY <3>2, <3>3
  <2>5. QED
    BY <2>3, <2>4 DEF Inductive, StreamTyped
<1>4. Mutex'
  BY MutexKept DEF Inductive
<1>5. Placed(w)'
  BY <1>1 DEF Placed
<1>6. Faithful(w)' /\ Started(w)'
  <2>1. CASE client[w] = "gone"
    <3>1. Faithful(w)'
      BY <2>1 DEF Faithful
    <3>2. Started(w)'
      BY AboutClient DEF Started
    <3>3. QED
      BY <3>1, <3>2
  <2>2. CASE client[w] # "gone"
    <3>1. Way(received[w], wire[w] \o sending[w], <<>>, channel[w]) = WayOf(w)
      BY AboutClient, WayOfSend DEF WayOf
    <3>2. WayOf(w)' = WayOf(w)
      BY <1>1, <2>2, <3>1 DEF WayOf
    <3>3. QED
      BY <3>2, MovesAlong
  <2>3. QED
    BY <2>1, <2>2
<1>7. \A v \in Watchers \ {w} : Untouched(v)
  BY DEF Inductive, StreamTyped, Untouched
<1>8. QED
  BY <1>3, <1>4, <1>5, <1>6, <1>7, OfOneClient

\* Unsubscribe waits for the mutex too: the channel that it closes is offered nothing.
LEMMA UnsubscribeStep ==
    ASSUME Inductive, NEW w \in Watchers, Unsubscribe(w)
    PROVE  Inductive'
<1> USE DEF Unsubscribe, brokerVars
<1>1. /\ handler[w] = "leave" /\ handler'[w] = "done" /\ todo = {}
      /\ w \notin subscribers' /\ w \in closed' /\ sending[w] = <<>> /\ client[w] # "away"
  BY AboutClient DEF Placed, Inductive, StreamTyped, Mutex
<1>2. StreamTyped'
  BY DEF Inductive, StreamTyped
<1>3. Mutex'
  BY <1>1 DEF Inductive, Mutex
<1>4. Placed(w)' /\ Faithful(w)' /\ Started(w)'
  BY <1>1 DEF Placed, Faithful, Started
<1>5. \A v \in Watchers \ {w} : Untouched(v)
  BY DEF Inductive, StreamTyped, Untouched
<1>6. QED
  BY <1>2, <1>3, <1>4, <1>5, OfOneClient

LEMMA RecvStep ==
    ASSUME Inductive, NEW w \in Watchers, Recv(w)
    PROVE  Inductive'
<1> USE DEF Recv, brokerVars
<1>1. /\ Append(received[w], Head(wire[w]).n) \in Seq(Clocks)
      /\ Way(Append(received[w], Head(wire[w]).n), Tail(wire[w]), sending[w], channel[w]) = WayOf(w)
  BY AboutClient, WayOfRecv DEF WayOf
<1>2. Tail(wire[w]) \in Seq(Chunks) /\ Len(Tail(wire[w])) <= Window
  <2>1. Len(Tail(wire[w])) = Len(wire[w]) - 1 /\ Len(wire[w]) \in Nat /\ Tail(wire[w]) \in Seq(Chunks)
    BY AboutClient, HeadAndTail
  <2>2. Len(wire[w]) <= Window
    BY AboutClient
  <2>3. QED
    BY <2>1, <2>2, StreamAssumption
<1>3. /\ wire'[w] = Tail(wire[w]) /\ received'[w] = Append(received[w], Head(wire[w]).n)
      /\ client'[w] \in {"reading", "stopped"} /\ client[w] = "reading"
      /\ handler[w] \notin {"idle", "hello"}
  BY AboutClient DEF Placed, Inductive, StreamTyped
<1>4. StreamTyped'
  BY <1>1, <1>2 DEF Inductive, StreamTyped
<1>5. Mutex'
  BY MutexKept DEF Inductive
<1>6. WayOf(w)' = WayOf(w)
  BY <1>1, <1>3 DEF WayOf
<1>7. Placed(w)'
  BY <1>3, <1>6, AboutClient DEF Placed
<1>8. Faithful(w)' /\ Started(w)'
  <2>1. UNCHANGED <<clock, todo, subscribers, dropped, since>> /\ client[w] # "gone"
    BY <1>3
  <2> HIDE DEF Recv, brokerVars
  <2>2. QED
    BY <1>6, <2>1, MovesAlong
<1>9. \A v \in Watchers \ {w} : Untouched(v)
  BY DEF Inductive, StreamTyped, Untouched
<1>10. QED
  BY <1>4, <1>5, <1>7, <1>8, <1>9, OfOneClient

LEMMA QuitStep ==
    ASSUME Inductive, NEW w \in Watchers, Quit(w)
    PROVE  Inductive'
<1> USE DEF Quit, brokerVars
<1>1. client'[w] = "gone" /\ wire'[w] = <<>> /\ received'[w] = <<>> /\ Placed(w) /\ Started(w)
  BY AboutClient DEF Inductive, StreamTyped
<1>2. <<>> \in Seq(Chunks) /\ <<>> \in Seq(Clocks) /\ Len(<<>>) = 0
  OBVIOUS
<1>3. StreamTyped'
  BY <1>2, StreamAssumption DEF Inductive, StreamTyped
<1>4. Mutex'
  BY MutexKept DEF Inductive
<1>5. handler[w] = "subscribe" => WayOf(w)' = <<>>
  BY <1>1, WayOfHello DEF WayOf, Placed
<1>6. Placed(w)'
  BY <1>1, <1>5 DEF Placed
<1>7. Faithful(w)' /\ Started(w)'
  BY <1>1 DEF Faithful, Started
<1>8. \A v \in Watchers \ {w} : Untouched(v)
  BY DEF Inductive, StreamTyped, Untouched
<1>9. QED
  BY <1>3, <1>4, <1>6, <1>7, <1>8, OfOneClient

-------------------------------------------------------------------------------
(* The broker, whatever the loggers do.                                     *)

LEMMA StreamStart ==
    ASSUME NEW may, StreamInit(may)
    PROVE  Inductive
<1> USE DEF StreamInit
<1>1. <<>> \in Seq(Chunks) /\ <<>> \in Seq(Clocks) /\ Len(<<>>) = 0
  OBVIOUS
<1>2. StreamTyped
  <2>1. /\ channel \in [Watchers -> Seq(Chunks)] /\ sending \in [Watchers -> Seq(Chunks)]
        /\ wire \in [Watchers -> Seq(Chunks)] /\ received \in [Watchers -> Seq(Clocks)]
    BY <1>1
  <2>2. /\ since \in [Watchers -> Nat] /\ dropped \in [Watchers -> SUBSET Nat]
        /\ handler \in [Watchers -> {"idle", "hello", "subscribe", "range", "send", "leave", "done"}]
        /\ client \in [Watchers -> {"away", "reading", "stopped", "gone"}]
    OBVIOUS
  <2>3. \A w \in Watchers :
          Len(channel[w]) <= Capacity /\ Len(sending[w]) <= 1 /\ Len(wire[w]) <= Window
    BY <1>1, StreamAssumption
  <2>4. QED
    BY <2>1, <2>2, <2>3, WayOfHello DEF StreamTyped
<1>3. Mutex
  BY DEF Mutex
<1>4. \A w \in Watchers : Placed(w) /\ Faithful(w) /\ Started(w)
  BY DEF Placed, Faithful, Started
<1>5. QED
  BY <1>2, <1>3, <1>4 DEF Inductive

LEMMA StreamStill ==
    ASSUME Inductive, UNCHANGED streamVars
    PROVE  Inductive'
<1> USE DEF streamVars
<1>1. StreamTyped'
  BY DEF Inductive, StreamTyped
<1>2. Mutex'
  BY DEF Inductive, Mutex
<1>3. ASSUME NEW v \in Watchers
      PROVE  Placed(v)' /\ Faithful(v)' /\ Started(v)'
  BY <1>3, Undisturbed DEF Inductive, Untouched
<1>4. QED
  BY <1>1, <1>2, <1>3 DEF Inductive

LEMMA StreamStep ==
    ASSUME Inductive, StreamNext
    PROVE  Inductive'
<1>1. CASE Unlock
  BY <1>1, UnlockStep
<1>2. ASSUME NEW w \in Watchers, Offer(w) \/ TimesOut(w)
      PROVE  Inductive'
  BY <1>2, AcceptStep, RefuseStep
<1>3. ASSUME NEW w \in Watchers, Attach(w) \/ WatchLogs(w) \/ Recv(w) \/ Quit(w)
      PROVE  Inductive'
  BY <1>3, AttachStep, SayHelloStep, SubscribeStep, TakeStep, SendStep, UnsubscribeStep, RecvStep, QuitStep
     DEF WatchLogs
<1>4. QED
  BY <1>1, <1>2, <1>3 DEF StreamNext, Broadcasting

-------------------------------------------------------------------------------
(* The runs and the notifiers.                                              *)

Stages == {"asking", "running", "cleared", "composed", "ended"}
Progress == {"none", "calling", "authorized", "ended"}

RunsTyped ==
    /\ role \in [Loggers -> Roles] /\ channels \subseteq Channels
    /\ stage \in [Loggers -> Stages]
    /\ said \in [Loggers -> Nat] /\ \A r \in Loggers : said[r] <= Len(Script(r))
    /\ queueLock \in Loggers \cup {Free} /\ stateLock \in Loggers \cup {Free}
    /\ calls \in [Loggers -> [Channels -> Progress]]
    /\ delivered \subseteq Loggers \X Channels /\ logged \subseteq Loggers \X Channels

LEMMA ScriptType ==
    ASSUME NEW r \in Loggers
    PROVE  /\ Len(Script(r)) \in Nat
           /\ \A i \in 1 .. Len(Script(r)) : Script(r)[i] \in Kinds
<1>1. Script(r) \in {<<"log">>, <<"status", "log", "summary">>, <<"status", "log", "final">>, <<>>}
  BY DEF Script
<1>2. CASE Script(r) = <<>>
  BY <1>2 DEF Kinds
<1>3. CASE Script(r) = <<"log">>
  BY <1>3 DEF Kinds
<1>4. CASE Script(r) = <<"status", "log", "summary">>
  BY <1>4 DEF Kinds
<1>5. CASE Script(r) = <<"status", "log", "final">>
  BY <1>5 DEF Kinds
<1>6. QED
  BY <1>1, <1>2, <1>3, <1>4, <1>5

\* What the runs do to the broker: they broadcast, or leave it alone.
LEMMA BrokerStep ==
    ASSUME Inductive, RunsTyped, [Next]_vars
    PROVE  Inductive'
<1>1. ASSUME NEW r \in Loggers, Say(r)
      PROVE  Inductive'
  <2>1. said[r] + 1 \in 1 .. Len(Script(r)) /\ Broadcast(r, Script(r)[said[r] + 1])
    BY <1>1, ScriptType DEF Say, RunsTyped
  <2>2. QED
    BY <2>1, ScriptType, BroadcastStep
<1>2. ASSUME NEW r \in Loggers, Run(r), ~Say(r)
      PROVE  UNCHANGED streamVars
  BY <1>2 DEF Run, StorageAlert, LockQueue, ClearActive, Return, Wake, Announce
<1>3. ASSUME NEW a \in Loggers, NEW c \in Channels, Call(a, c)
      PROVE  UNCHANGED streamVars
  BY <1>3 DEF Call, DiscordSend, DispatchSend, WebhookSend, EmailSend, GraphAuth, GraphSend, Hook, Post, Ends
<1>4. CASE StreamNext
  BY <1>4, StreamStep
<1>5. CASE Over \/ UNCHANGED vars
  BY <1>5, StreamStill DEF Over, vars
<1>6. QED
  BY <1>1, <1>2, <1>3, <1>4, <1>5, StreamStill DEF Next

\* An alert is sent: every channel is called or left alone, none has ended.
LEMMA AlertStep ==
    ASSUME RunsTyped, NEW a \in Loggers, SendNotifications(a)
    PROVE  /\ calls' \in [Loggers -> [Channels -> Progress]]
           /\ UNCHANGED <<delivered, logged>>
           /\ \A b \in Loggers, c \in Channels :
                 calls'[b][c] = "ended" => calls[b][c] = "ended"
<1> DEFINE alert == [c \in Channels |->
            IF c \in channels /\ c.type \in HookTypes \cup MailTypes THEN "calling" ELSE "none"]
<1>1. alert \in [Channels -> Progress] /\ \A c \in Channels : alert[c] # "ended"
  BY DEF Progress
<1>2. calls' = [calls EXCEPT ![a] = alert] /\ UNCHANGED <<delivered, logged>>
  BY DEF SendNotifications
<1> HIDE DEF alert
<1>3. calls \in [Loggers -> [Channels -> Progress]]
  BY DEF RunsTyped
<1>4. calls' \in [Loggers -> [Channels -> Progress]]
  BY <1>1, <1>2, <1>3
<1>5. ASSUME NEW b \in Loggers, NEW c \in Channels, calls'[b][c] = "ended"
      PROVE  calls[b][c] = "ended"
  BY <1>1, <1>2, <1>3, <1>5
<1>6. QED
  BY <1>2, <1>4, <1>5

\* A call ends, or is authorized.
LEMMA CallMoves ==
    ASSUME RunsTyped, NEW a \in Loggers, NEW c \in Channels, NEW to \in Progress,
           calls' = [calls EXCEPT ![a][c] = to]
    PROVE  /\ calls' \in [Loggers -> [Channels -> Progress]]
           /\ calls'[a][c] = to
           /\ \A b \in Loggers, d \in Channels : (b # a \/ d # c) => calls'[b][d] = calls[b][d]
<1>1. calls \in [Loggers -> [Channels -> Progress]]
  BY DEF RunsTyped
<1>2. calls' = [calls EXCEPT ![a] = [calls[a] EXCEPT ![c] = to]]
  OBVIOUS
<1>3. [calls[a] EXCEPT ![c] = to] \in [Channels -> Progress]
  BY <1>1
<1>4. QED
  BY <1>1, <1>2, <1>3

LEMMA CallEnds ==
    ASSUME RunsTyped, NEW a \in Loggers, NEW c \in Channels,
           calls' = [calls EXCEPT ![a][c] = "ended"]
    PROVE  /\ calls' \in [Loggers -> [Channels -> Progress]]
           /\ \A b \in Loggers, d \in Channels : (b # a \/ d # c) => calls'[b][d] = calls[b][d]
<1>1. PICK to \in Progress : to = "ended"
  BY DEF Progress
<1>2. calls \in [Loggers -> [Channels -> Progress]]
  BY DEF RunsTyped
<1>3. calls' = [calls EXCEPT ![a] = [calls[a] EXCEPT ![c] = to]]
  BY <1>1
<1>4. [calls[a] EXCEPT ![c] = to] \in [Channels -> Progress]
  BY <1>2
<1>5. QED
  BY <1>2, <1>3, <1>4

\* What a call does to the record of calls.
Outcome(a, c) ==
    \E arrives, error \in BOOLEAN :
        /\ Ends(a, c, arrives, error)
        /\ (c.complete \/ c.type \in MailTypes) => arrives \/ error

LEMMA CallOutcome ==
    ASSUME NEW a \in Loggers, NEW c \in Channels, Call(a, c)
    PROVE  \/ Outcome(a, c)
           \/ /\ calls' = [calls EXCEPT ![a][c] = "authorized"]
              /\ UNCHANGED <<streamVars, runVars, delivered, logged>>
<1>1. Post(a, c) => Outcome(a, c)
  <2>1. SUFFICES ASSUME NEW arrives \in BOOLEAN, NEW answered \in BOOLEAN,
                        Ends(a, c, arrives, ~(arrives /\ answered))
                 PROVE  Outcome(a, c)
    BY DEF Post
  <2>2. CASE arrives
    <3>1. Ends(a, c, TRUE, TRUE) \/ Ends(a, c, TRUE, FALSE)
      BY <2>1, <2>2 DEF Ends
    <3>2. QED
      BY <3>1 DEF Outcome
  <2>3. CASE ~arrives
    <3>1. Ends(a, c, FALSE, TRUE)
      BY <2>1, <2>3 DEF Ends
    <3>2. QED
      BY <3>1 DEF Outcome
  <2>4. QED
    BY <2>2, <2>3
<1>2. Ends(a, c, FALSE, TRUE) => Outcome(a, c)
  BY DEF Outcome
<1>3. ASSUME Hook(a, c), c.type \in HookTypes
      PROVE  Outcome(a, c)
  <2>1. c.type \notin MailTypes
    BY <1>3 DEF HookTypes, MailTypes
  <2>2. CASE c.complete
    BY <1>1, <1>3, <2>2 DEF Hook
  <2>3. CASE ~c.complete
    <3>1. Ends(a, c, FALSE, FALSE)
      BY <1>3, <2>3 DEF Hook
    <3>2. QED
      BY <2>1, <2>3, <3>1 DEF Outcome
  <2>4. QED
    BY <2>2, <2>3
<1>4. CASE DiscordSend(a, c) \/ DispatchSend(a, c) \/ WebhookSend(a, c)
  BY <1>3, <1>4 DEF DiscordSend, DispatchSend, WebhookSend, HookTypes
<1>5. CASE EmailSend(a, c)
  <2>1. CASE c.complete
    BY <1>1, <1>5, <2>1 DEF EmailSend
  <2>2. CASE ~c.complete
    BY <1>2, <1>5, <2>2 DEF EmailSend
  <2>3. QED
    BY <2>1, <2>2
<1>6. CASE GraphAuth(a, c)
  BY <1>2, <1>6 DEF GraphAuth
<1>7. CASE GraphSend(a, c)
  BY <1>1, <1>7 DEF GraphSend
<1>8. QED
  BY <1>4, <1>5, <1>6, <1>7 DEF Call

\* The runs' part of the state.
LEMMA RunsStill ==
    ASSUME RunsTyped, UNCHANGED runVars,
           calls' \in [Loggers -> [Channels -> Progress]],
           delivered' \subseteq Loggers \X Channels, logged' \subseteq Loggers \X Channels
    PROVE  RunsTyped'
<1>1. \A r \in Loggers : Script(r)' = Script(r)
  BY DEF Script, runVars
<1>2. QED
  BY <1>1 DEF RunsTyped, runVars

CallsInv == RunsTyped /\ FailuresAreLogged

LEMMA RunKeepsCalls ==
    ASSUME CallsInv, NEW r \in Loggers, Run(r)
    PROVE  CallsInv'
<1>1. RunsTyped /\ FailuresAreLogged
  BY DEF CallsInv
<1>2. \A x \in Loggers : Script(x)' = Script(x)
  BY DEF Script, Run, Say, StorageAlert, LockQueue, ClearActive, Return, Wake, Announce
<1>3. SendNotifications(r) \/ UNCHANGED callVars
  BY DEF Run, Say, StorageAlert, LockQueue, ClearActive, Return, Wake, Announce
<1>4. /\ calls' \in [Loggers -> [Channels -> Progress]] /\ UNCHANGED <<delivered, logged>>
      /\ \A b \in Loggers, c \in Channels : calls'[b][c] = "ended" => calls[b][c] = "ended"
  BY <1>1, <1>3, AlertStep DEF callVars, RunsTyped
<1>5. role' = role /\ channels' = channels
  BY DEF Run, Say, StorageAlert, LockQueue, ClearActive, Return, Wake, Announce
<1>6. stage' \in [Loggers -> Stages]
  <2>1. stage \in [Loggers -> Stages]
    BY <1>1 DEF RunsTyped
  <2>2. \E to \in Stages : stage' = [stage EXCEPT ![r] = to]
    <3>1. stage' = stage \/ \E to \in Stages : stage' = [stage EXCEPT ![r] = to]
      BY DEF Run, Say, StorageAlert, LockQueue, ClearActive, Return, Wake, Announce, Stages
    <3>2. stage[r] \in Stages /\ stage = [stage EXCEPT ![r] = stage[r]]
      BY <2>1
    <3>3. QED
      BY <3>1, <3>2
  <2>3. QED
    BY <2>1, <2>2
<1>7. queueLock' \in Loggers \cup {Free} /\ stateLock' \in Loggers \cup {Free}
  BY <1>1 DEF RunsTyped, Run, Say, StorageAlert, LockQueue, ClearActive, Return, Wake, Announce
<1>8. said' \in [Loggers -> Nat] /\ \A x \in Loggers : said'[x] <= Len(Script(x))
  <2>1. /\ said \in [Loggers -> Nat] /\ \A x \in Loggers : said[x] <= Len(Script(x))
        /\ \A x \in Loggers : Len(Script(x)) \in Nat
    BY <1>1, ScriptType DEF RunsTyped
  <2>2. said' = said \/ (said' = [said EXCEPT ![r] = said[r] + 1] /\ said[r] < Len(Script(r)))
    BY DEF Run, Say, StorageAlert, LockQueue, ClearActive, Return, Wake, Announce
  <2>3. CASE said' = said
    BY <2>1, <2>3
  <2>4. CASE said' = [said EXCEPT ![r] = said[r] + 1] /\ said[r] < Len(Script(r))
    <3>1. said' \in [Loggers -> Nat]
      BY <2>1, <2>4
    <3>2. ASSUME NEW x \in Loggers
          PROVE  said'[x] <= Len(Script(x))
      <4>1. PICK n \in Nat : n = Len(Script(x))
        BY <2>1
      <4>2. said[x] \in Nat /\ said[x] <= n /\ (x = r => said[x] < n)
        BY <2>1, <2>4, <4>1
      <4>3. said'[x] = IF x = r THEN said[x] + 1 ELSE said[x]
        BY <2>1, <2>4
      <4>4. QED
        BY <4>1, <4>2, <4>3
    <3>3. QED
      BY <3>1, <3>2
  <2>5. QED
    BY <2>2, <2>3, <2>4
<1>9. RunsTyped'
  BY <1>1, <1>2, <1>4, <1>5, <1>6, <1>7, <1>8 DEF RunsTyped
<1>10. FailuresAreLogged'
  BY <1>1, <1>4 DEF FailuresAreLogged
<1>11. QED
  BY <1>9, <1>10 DEF CallsInv

LEMMA CallKeepsCalls ==
    ASSUME CallsInv, NEW a \in Loggers, NEW c \in Channels, Call(a, c)
    PROVE  CallsInv'
<1>1. RunsTyped /\ FailuresAreLogged
  BY DEF CallsInv
<1>2. CASE Outcome(a, c)
  <2>1. PICK arrives \in BOOLEAN, error \in BOOLEAN :
          /\ Ends(a, c, arrives, error)
          /\ (c.complete \/ c.type \in MailTypes) => arrives \/ error
    BY <1>2 DEF Outcome
  <2>2. /\ calls' = [calls EXCEPT ![a][c] = "ended"] /\ UNCHANGED runVars
        /\ delivered \subseteq delivered' /\ logged \subseteq logged'
        /\ delivered' \subseteq delivered \cup {<<a, c>>} /\ logged' \subseteq logged \cup {<<a, c>>}
        /\ (arrives \/ error) => <<a, c>> \in delivered' \cup logged'
    BY <2>1 DEF Ends
  <2>3. /\ calls' \in [Loggers -> [Channels -> Progress]]
        /\ \A b \in Loggers, d \in Channels : (b # a \/ d # c) => calls'[b][d] = calls[b][d]
    BY <1>1, <2>2, CallEnds
  <2>4. delivered' \subseteq Loggers \X Channels /\ logged' \subseteq Loggers \X Channels
    BY <1>1, <2>2 DEF RunsTyped
  <2>5. RunsTyped'
    BY <1>1, <2>2, <2>3, <2>4, RunsStill
  <2>6. FailuresAreLogged'
    <3>1. SUFFICES ASSUME NEW b \in Loggers, NEW d \in Channels,
                          calls'[b][d] = "ended", d.complete \/ d.type \in MailTypes
                   PROVE  <<b, d>> \in delivered' \cup logged'
      BY DEF FailuresAreLogged
    <3>2. CASE b = a /\ d = c
      BY <2>1, <2>2, <3>1, <3>2
    <3>3. CASE b # a \/ d # c
      <4>1. calls[b][d] = "ended"
        BY <2>3, <3>1, <3>3
      <4>2. <<b, d>> \in delivered \cup logged
        BY <1>1, <3>1, <4>1 DEF FailuresAreLogged
      <4>3. QED
        BY <2>2, <4>2
    <3>4. QED
      BY <3>2, <3>3
  <2>7. QED
    BY <2>5, <2>6 DEF CallsInv
<1>3. CASE calls' = [calls EXCEPT ![a][c] = "authorized"] /\ UNCHANGED <<streamVars, runVars, delivered, logged>>
  <2>1. /\ calls' \in [Loggers -> [Channels -> Progress]] /\ calls'[a][c] = "authorized"
        /\ \A b \in Loggers, d \in Channels : (b # a \/ d # c) => calls'[b][d] = calls[b][d]
    BY <1>1, <1>3, CallMoves DEF Progress
  <2>2. RunsTyped'
    BY <1>1, <1>3, <2>1, RunsStill DEF RunsTyped
  <2>3. FailuresAreLogged'
    <3>1. SUFFICES ASSUME NEW b \in Loggers, NEW d \in Channels,
                          calls'[b][d] = "ended", d.complete \/ d.type \in MailTypes
                   PROVE  <<b, d>> \in delivered' \cup logged'
      BY DEF FailuresAreLogged
    <3>2. calls[b][d] = "ended"
      BY <2>1, <3>1
    <3>3. QED
      BY <1>1, <1>3, <3>1, <3>2 DEF FailuresAreLogged
  <2>4. QED
    BY <2>2, <2>3 DEF CallsInv
<1>4. QED
  BY <1>2, <1>3, CallOutcome

LEMMA CallsStill ==
    ASSUME CallsInv, UNCHANGED <<runVars, callVars>>
    PROVE  CallsInv'
<1>1. RunsTyped'
  BY RunsStill DEF CallsInv, callVars, RunsTyped
<1>2. FailuresAreLogged'
  BY DEF CallsInv, FailuresAreLogged, callVars
<1>3. QED
  BY <1>1, <1>2 DEF CallsInv

LEMMA CallsStep ==
    ASSUME CallsInv, [Next]_vars
    PROVE  CallsInv'
BY RunKeepsCalls, CallKeepsCalls, CallsStill DEF Next, Over, vars

LEMMA CallsStart ==
    ASSUME Init
    PROVE  CallsInv /\ Inductive
<1>1. PICK s \in Scenarios : role = s.role /\ channels = s.channels /\ StreamInit(s.watched)
  BY DEF Init
<1>2. role \in [Loggers -> Roles] /\ channels \subseteq Channels
  BY <1>1, ScenarioAssumption DEF ScenarioAssumption, Channels
<1>3. stage \in [Loggers -> Stages]
  BY DEF Init, Stages
<1>4. said \in [Loggers -> Nat] /\ \A r \in Loggers : said[r] = 0
  BY DEF Init
<1>5. calls \in [Loggers -> [Channels -> Progress]] /\ \A a \in Loggers, c \in Channels : calls[a][c] = "none"
  BY DEF Init, Progress
<1>6. \A r \in Loggers : said[r] <= Len(Script(r))
  BY <1>4, ScriptType
<1>7. RunsTyped
  BY <1>2, <1>3, <1>4, <1>5, <1>6 DEF RunsTyped, Init
<1>8. FailuresAreLogged
  BY <1>5 DEF FailuresAreLogged
<1>9. QED
  BY <1>1, <1>7, <1>8, StreamStart DEF CallsInv

LEMMA InvariantHolds == Spec => [](CallsInv /\ Inductive)
<1>1. Init => CallsInv /\ Inductive
  BY CallsStart
<1>2. CallsInv /\ Inductive /\ [Next]_vars => (CallsInv /\ Inductive)'
  BY CallsStep, BrokerStep DEF CallsInv
<1>3. QED
  BY <1>1, <1>2, PTL DEF Spec

-------------------------------------------------------------------------------
(* The results.                                                             *)

\* The type invariant: the channels stay within their bound, the streams within
\* theirs, and a handler holds one chunk at most (broker.go's make(chan, 10000)).
THEOREM TypeCorrect == Spec => []TypeOK
<1>1. CallsInv /\ Inductive => TypeOK
  <2>1. SUFFICES ASSUME CallsInv, Inductive
                 PROVE  TypeOK
    OBVIOUS
  <2>2. ASSUME NEW r \in Loggers
        PROVE  said[r] \in 0 .. Len(Script(r))
    <3>1. PICK n \in Nat : n = Len(Script(r))
      BY ScriptType
    <3>2. said[r] \in Nat /\ said[r] <= n
      BY <2>1, <3>1 DEF CallsInv, RunsTyped
    <3>3. QED
      BY <3>1, <3>2
  <2>3. QED
    BY <2>1, <2>2, InductiveImplies DEF TypeOK, CallsInv, RunsTyped, Stages, Progress
<1>2. QED
  BY <1>1, InvariantHolds, PTL

\* Broadcast never sends on a channel that Unsubscribe has closed, whichever clients
\* come and go during a broadcast: the daemon does not panic.
THEOREM ClosedAreLeftAlone == Spec => []NeverSendsOnClosed
<1>1. Inductive => NeverSendsOnClosed
  BY InductiveImplies
<1>2. QED
  BY <1>1, InvariantHolds, PTL

\* An attached client receives what was broadcast since it was subscribed, in that
\* order and once; all that is missing was refused by its full channel.
THEOREM StreamsAreFaithful == Spec => []StreamIsFaithful
<1>1. Inductive => StreamIsFaithful
  BY InductiveImplies
<1>2. QED
  BY <1>1, InvariantHolds, PTL

\* A call of a notification channel that has ended has delivered its alert or has its
\* error in the log, but for a webhook without a URL.
THEOREM NoSilentFailure == Spec => []FailuresAreLogged
<1>1. CallsInv => FailuresAreLogged
  BY DEF CallsInv
<1>2. QED
  BY <1>1, InvariantHolds, PTL
===============================================================================
