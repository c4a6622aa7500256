-------------------------- MODULE ArchiveWriterProofs --------------------------
(***************************************************************************)
(* Theorems about ArchiveWriter, for outputs and blocks of any length and  *)
(* every place where a write may fail.                                     *)
(***************************************************************************)
EXTENDS ArchiveWriter, SequenceTheorems, TLAPS

\* Chunks of the output, hashes, and the words put before and after the output (named,
\* as the provers do not know that a literal is in STRING).
Data == Nat \cup STRING \cup {"header", "trailer"}

TInv ==
    /\ TypeOK
    /\ buffer \in Seq(Data) /\ file \in Seq(Data)
    /\ hasher \in Seq(Data) /\ salt \in Seq(Data)

Inv == TInv /\ WriterInv

LEMMA SaltsAreData == Salts \subseteq Seq(Data)
<1>1. STRING \subseteq Data
  BY DEF Data
<1>2. ASSUME NEW s \in Salts
      PROVE  s \in Seq(Data)
  <2>1. s \in Seq(STRING)
    BY WriterAssumption
  <2>2. \A i \in 1 .. Len(s) : s[i] \in Data
    BY <1>1, <2>1, ElementOfSeq
  <2>3. s = [i \in 1 .. Len(s) |-> s[i]] /\ Len(s) \in Nat
    BY <2>1, LenProperties
  <2>4. QED
    BY <2>2, <2>3
<1>3. QED
  BY <1>2

\* The prefix a write that fails has put into the file.
LEMMA PartsAreData ==
    ASSUME NEW d \in Seq(Data), NEW n \in 0 .. Len(d) - 1
    PROVE  SubSeq(d, 1, n) \in Seq(Data)
<1>1. n \in Nat /\ \A i \in 1 .. n : d[i] \in Data
  BY ElementOfSeq, LenProperties
<1>2. QED
  BY <1>1, SubSeqProperties

LEMMA Regroup ==
    ASSUME NEW p \in Seq(Data), NEW q \in Seq(Data), NEW d \in Seq(Data)
    PROVE  (p \o q) \o d = p \o (q \o d)
BY ConcatAssociative

\* MultiWriter: the hasher follows the file unless a write fails.
LEMMA OutProperties ==
    ASSUME file \in Seq(Data), hasher \in Seq(Data), salt \in Seq(Data), copied \in BOOLEAN,
           NEW d \in Seq(Data), Out(d)
    PROVE  /\ file' \in Seq(Data) /\ hasher' \in Seq(Data) /\ copied' \in BOOLEAN
           /\ copied' => copied /\ open
           /\ copied' /\ hasher = salt \o file => hasher' = salt \o file'
           /\ ~open => UNCHANGED file
<1>1. CASE open /\ file' = file \o d /\ hasher' = hasher \o d /\ UNCHANGED copied
  <2>1. file \o d \in Seq(Data) /\ hasher \o d \in Seq(Data)
    BY ConcatProperties
  <2>2. (salt \o file) \o d = salt \o (file \o d)
    BY Regroup
  <2>3. QED
    BY <1>1, <2>1, <2>2
<1>2. CASE /\ \E n \in 0 .. Len(d) - 1 :
                file' = IF open THEN file \o SubSeq(d, 1, n) ELSE file
           /\ copied' = FALSE
           /\ UNCHANGED hasher
  <2>1. PICK n \in 0 .. Len(d) - 1 : file' = IF open THEN file \o SubSeq(d, 1, n) ELSE file
    BY <1>2
  <2>2. file \o SubSeq(d, 1, n) \in Seq(Data)
    BY PartsAreData, ConcatProperties
  <2>3. QED
    BY <1>2, <2>1, <2>2
<1>3. QED
  BY <1>1, <1>2 DEF Out

LEMMA HeaderIsData == Header \in Seq(Data) /\ <<"trailer">> \in Seq(Data) /\ <<>> \in Seq(Data)
<1>1. "header" \in Data /\ "trailer" \in Data
  BY DEF Data
<1>2. <<>> \in Seq(Data) /\ <<"header">> \in Seq(Data) /\ <<"trailer">> \in Seq(Data)
  BY <1>1
<1>3. CASE started
  BY <1>2, <1>3 DEF Header
<1>4. CASE ~started
  BY <1>2, <1>4 DEF Header
<1>5. QED
  BY <1>2, <1>3, <1>4

LEMMA InitInv == Init => Inv
<1> SUFFICES ASSUME Init PROVE Inv
  OBVIOUS
<1>1. <<>> \in Seq(Data) /\ Len(<<>>) = 0 /\ <<>> \o <<>> = <<>>
  BY EmptySeq, ConcatEmptySeq
<1>2. Len(buffer) < Block /\ produced \in 0 .. MaxChunks
  BY <1>1, WriterAssumption DEF Init
<1>3. TInv
  BY <1>1, <1>2 DEF Init, TInv, TypeOK
<1>4. WriterInv
  BY <1>1 DEF Init, WriterInv
<1>5. QED
  BY <1>3, <1>4 DEF Inv

\* One step per action.
LEMMA InvStep ==
    ASSUME Inv, [Next]_vars
    PROVE  Inv'
<1> USE WriterAssumption DEF Inv, TInv, TypeOK
<1>1. CASE Open
  <2>1. CASE /\ salt' \in Salts /\ hasher' = salt'
             /\ open' = TRUE /\ exists' = TRUE /\ pc' = "stream"
    <3>1. salt' \in Seq(Data)
      BY <2>1, SaltsAreData
    <3>2. salt' \o <<>> = salt'
      BY <3>1, ConcatEmptySeq
    <3>3. TInv'
      BY <1>1, <2>1, <3>1 DEF Open
    <3>4. WriterInv'
      BY <1>1, <2>1, <3>2 DEF Open, WriterInv
    <3>5. QED
      BY <3>3, <3>4
  <2>2. CASE pc' = "done" /\ UNCHANGED <<salt, hasher, open, exists>>
    BY <1>1, <2>2 DEF Open, WriterInv
  <2>3. QED
    BY <1>1, <2>1, <2>2 DEF Open
<1>2. CASE Stream
  <2> DEFINE held == Append(buffer, produced + 1)
             data == Header \o IF Full(held) THEN held ELSE <<>>
  <2>1. held \in Seq(Data) /\ Len(held) = Len(buffer) + 1 /\ Len(buffer) \in Nat
    <3>1. produced + 1 \in Data
      BY DEF Data
    <3>2. QED
      BY <3>1, AppendProperties, LenProperties
  <2>2. /\ pc = "stream" /\ copied /\ produced < MaxChunks
        /\ produced' = produced + 1 /\ started' = TRUE
        /\ Out(data)
        /\ buffer' = IF Full(held) THEN <<>> ELSE held
        /\ UNCHANGED <<pc, open, exists, salt, code, saved, result>>
    BY <1>2 DEF Stream
  <2> HIDE DEF held
  <2>3. data \in Seq(Data)
    BY <2>1, HeaderIsData, ConcatProperties
  <2> HIDE DEF data
  <2>4. /\ file' \in Seq(Data) /\ hasher' \in Seq(Data) /\ copied' \in BOOLEAN
        /\ copied' /\ hasher = salt \o file => hasher' = salt \o file'
    BY <2>2, <2>3, OutProperties
  <2>5. buffer' \in Seq(Data) /\ Len(buffer') < Block
    BY <2>1, <2>2, HeaderIsData DEF Full
  <2>6. TInv'
    BY <2>2, <2>4, <2>5
  <2>7. WriterInv'
    BY <2>2, <2>4 DEF WriterInv
  <2>8. QED
    BY <2>6, <2>7
<1>3. CASE CommandEnds
  <2>1. PICK c \in Codes : code' = IF c = "0" /\ ~copied THEN "broken" ELSE c
    BY <1>3 DEF CommandEnds
  <2>2. QED
    BY <1>3, <2>1 DEF CommandEnds, WriterInv
<1>4. CASE SaveHash
  <2>1. saved' = saved \/ (code = "0" /\ saved' = {hasher})
    BY <1>4 DEF SaveHash
  <2>2. TInv'
    BY <1>4 DEF SaveHash
  <2>3. WriterInv'
    BY <1>4, <2>1 DEF SaveHash, WriterInv
  <2>4. QED
    BY <2>2, <2>3
<1>5. CASE Record
  BY <1>5 DEF Record, WriterInv
<1>6. CASE CloseGzip
  <2> DEFINE data == Header \o buffer \o <<"trailer">>
  <2>1. data \in Seq(Data)
    BY HeaderIsData, ConcatProperties
  <2>2. /\ pc = "recorded" /\ pc' = "done" /\ buffer' = <<>>
        /\ IF copied THEN Out(data) ELSE UNCHANGED <<file, hasher, copied>>
        /\ UNCHANGED <<produced, started, open, exists, salt, code, saved, result>>
    BY <1>6 DEF CloseGzip
  <2> HIDE DEF data
  <2>3. ~open
    BY <2>2 DEF WriterInv
  <2>4. /\ file' = file /\ hasher' \in Seq(Data) /\ copied' \in BOOLEAN
        /\ copied' => UNCHANGED hasher /\ copied
    <3>1. CASE copied
      BY <2>1, <2>2, <2>3, <3>1, OutProperties
    <3>2. CASE ~copied
      BY <2>2, <3>2
    <3>3. QED
      BY <3>1, <3>2
  <2>5. Len(<<>>) = 0
    OBVIOUS
  <2>6. TInv'
    BY <2>2, <2>4, <2>5, HeaderIsData
  <2>7. WriterInv'
    BY <2>2, <2>4 DEF WriterInv
  <2>8. QED
    BY <2>6, <2>7
<1>7. CASE UNCHANGED vars
  BY <1>7 DEF vars, WriterInv
<1>8. QED
  BY <1>1, <1>2, <1>3, <1>4, <1>5, <1>6, <1>7 DEF Next

LEMMA Invariance == Spec => []Inv
<1>1. Inv /\ [Next]_vars => Inv'
  BY InvStep
<1>2. QED
  BY <1>1, InitInv, PTL DEF Spec

\* Each stage of executeBackupCommand leaves its values in range, and the compressor
\* never holds a whole block, whatever the length of the output and of a block.
THEOREM TypeCorrect == Spec => []TypeOK
<1>1. Inv => TypeOK
  BY DEF Inv, TInv
<1>2. QED
  BY <1>1, Invariance, PTL

\* A registered hash is that of the salt and the file as it is left, for any output
\* and wherever a write fails: neither MultiWriter nor the deferred close of the gzip
\* writer lets the two differ.
THEOREM HashMatchesFile == Spec => []HashIsOfFile
<1>1. Inv => HashIsOfFile
  BY DEF Inv, WriterInv, HashIsOfFile
<1>2. QED
  BY <1>1, Invariance, PTL

\* An archive whose hash is registered is kept.
THEOREM HashedArchivesStay == Spec => []HashedIsKept
<1>1. Inv => HashedIsKept
  BY DEF Inv, WriterInv, HashedIsKept
<1>2. QED
  BY <1>1, Invariance, PTL
===============================================================================
