--------------------------- MODULE HashRegistryProofs ---------------------------
(***************************************************************************)
(* Theorems about HashRegistry, for any number of archives and concurrent  *)
(* sweeps.                                                                 *)
(***************************************************************************)
EXTENDS HashRegistry, WellFoundedInduction, TLAPS

Inv == TypeOK /\ RegistryInv

\* A set of natural numbers that is not empty has a least element.
LEMMA LeastExists ==
    ASSUME NEW T, T \subseteq Nat, T # {}
    PROVE  \E m \in T : \A x \in T : m <= x
<1> DEFINE R == OpToRel(<, Nat)
<1>1. R = {p \in Nat \X Nat : p[1] < p[2]}
  BY DEF OpToRel
<1>2. IsWellFoundedOn(R, Nat)
  BY NatLessThanWellFounded
<1> HIDE DEF R
<1>3. PICK m \in T : \A x \in T : <<x, m>> \notin R
  BY <1>2, WFMin
<1>4. \A x \in T : ~(x < m)
  BY <1>1, <1>3
<1>5. QED
  BY <1>4

LEMMA GreatestExists ==
    ASSUME NEW n \in Nat, NEW T, T \subseteq 1 .. n, T # {}
    PROVE  \E m \in T : \A x \in T : x <= m
<1> DEFINE U == {n - x : x \in T}
<1>1. U \subseteq Nat /\ U # {}
  OBVIOUS
<1> HIDE DEF U
<1>2. PICK u \in U : \A y \in U : u <= y
  BY <1>1, LeastExists
<1>3. PICK m \in T : u = n - m
  BY <1>2 DEF U
<1>4. \A x \in T : n - m <= n - x
  BY <1>2, <1>3 DEF U
<1>5. QED
  BY <1>3, <1>4

\* The order of the names is total: a directory that is not empty has a first and
\* a last archive.
LEMMA LatestIsAFile ==
    ASSUME NEW n \in Nat, NEW k \in [1 .. n -> {"FULL", "INC"}],
           NEW fs, fs \subseteq 1 .. n, fs # {}
    PROVE  Latest(k, fs) \in fs
<1> DEFINE incs == {a \in fs : k[a] = "INC"}
<1>1. \E a \in fs : \A b \in fs \ {a} : Before(k, b, a)
  <2>1. CASE incs # {}
    <3>1. PICK a \in incs : \A b \in incs : b <= a
      <4>1. incs \subseteq 1 .. n
        OBVIOUS
      <4> HIDE DEF incs
      <4>2. QED
        BY <2>1, <4>1, GreatestExists
    <3>2. \A b \in fs \ {a} : Before(k, b, a)
      BY <3>1 DEF Before
    <3>3. QED
      BY <3>1, <3>2
  <2>2. CASE incs = {}
    <3>1. PICK a \in fs : \A b \in fs : b <= a
      BY GreatestExists
    <3>2. \A b \in fs \ {a} : Before(k, b, a)
      BY <2>2, <3>1 DEF Before
    <3>3. QED
      BY <3>1, <3>2
  <2>3. QED
    BY <2>1, <2>2
<1>2. QED
  BY <1>1 DEF Latest

LEMMA FirstIsAFile ==
    ASSUME NEW n \in Nat, NEW k \in [1 .. n -> {"FULL", "INC"}],
           NEW fs, fs \subseteq 1 .. n, fs # {}
    PROVE  First(k, fs) \in fs
<1> DEFINE fulls == {a \in fs : k[a] = "FULL"}
<1>1. \E a \in fs : \A b \in fs \ {a} : Before(k, a, b)
  <2>1. CASE fulls # {}
    <3>1. PICK a \in fulls : \A b \in fulls : a <= b
      <4>1. \A a \in fulls : a \in Nat
        OBVIOUS
      <4> HIDE DEF fulls
      <4>2. QED
        BY <2>1, <4>1, LeastExists
    <3>2. \A b \in fs \ {a} : Before(k, a, b)
      BY <3>1 DEF Before
    <3>3. QED
      BY <3>1, <3>2
  <2>2. CASE fulls = {}
    <3>1. fs \subseteq Nat
      OBVIOUS
    <3>2. PICK a \in fs : \A b \in fs : a <= b
      BY <3>1, LeastExists
    <3>3. \A b \in fs \ {a} : Before(k, a, b)
      BY <2>2, <3>2 DEF Before
    <3>4. QED
      BY <3>2, <3>3
  <2>3. QED
    BY <2>1, <2>2
<1>2. QED
  BY <1>1 DEF First

LEMMA InitInv == Init => Inv
<1> SUFFICES ASSUME Init PROVE Inv
  OBVIOUS
<1> USE RegistryAssumption DEF Init, Ids
<1>1. TypeOK
  <2>1. NoSweep \in SweepState
    BY DEF NoSweep, SweepState
  <2>2. sweep \in [Sweeps -> SweepState]
    BY <2>1
  <2>3. /\ kind \in [Ids -> {"FULL", "INC"}]
        /\ salt \in [Ids -> 0 .. MaxArchives]
        /\ row \in [Ids -> {"none", "VALID", "COMPROMISED"}]
    OBVIOUS
  <2>4. streaming \in BOOLEAN /\ files \subseteq 1 .. made /\ altered \subseteq 1 .. made
    OBVIOUS
  <2>5. made \in 0 .. MaxArchives
    OBVIOUS
  <2>6. QED
    BY <2>2, <2>3, <2>4, <2>5 DEF TypeOK
<1>2. RegistryInv
  BY DEF RegistryInv, UnfinishedHasNoRow, RowsStay, SweepsProgress, MarkedForAReason, NoSweep
<1>3. QED
  BY <1>1, <1>2 DEF Inv

\* A new archive has no row yet.
LEMMA CreateStep ==
    ASSUME Inv, NEW t \in {"FULL", "INC"}, Create(t)
    PROVE  Inv'
<1> USE RegistryAssumption DEF Inv, TypeOK, Ids
<1> DEFINE new == made + 1
           last == Latest(kind', files')
<1>1. /\ ~streaming /\ made < MaxArchives
      /\ streaming' = TRUE /\ made' = new
      /\ kind' = [kind EXCEPT ![new] = t]
      /\ files' = files \cup {new}
      /\ salt' = [salt EXCEPT ![new] = SaltOf(last)]
      /\ UNCHANGED <<altered, row, sweep>>
  BY DEF Create
<1>2. new \in 1 .. MaxArchives /\ kind' \in [1 .. MaxArchives -> {"FULL", "INC"}]
  BY <1>1
<1>3. last \in files \cup {new}
  <2>1. files' \subseteq 1 .. MaxArchives /\ files' # {}
    BY <1>1, <1>2
  <2>2. \A k, fs : /\ k \in [1 .. MaxArchives -> {"FULL", "INC"}]
                   /\ fs \subseteq 1 .. MaxArchives /\ fs # {}
                   => Latest(k, fs) \in fs
    BY LatestIsAFile
  <2>3. QED
    BY <1>1, <1>2, <2>1, <2>2
<1> HIDE DEF last
<1>4. row[new] = "none"
  BY <1>1, <1>2 DEF RegistryInv, UnfinishedHasNoRow
<1>5. SaltOf(last) \in 0 .. MaxArchives
  BY <1>2, <1>3 DEF SaltOf
<1>6. TypeOK'
  BY <1>1, <1>2, <1>5
<1>7. UnfinishedHasNoRow'
  BY <1>1, <1>4 DEF RegistryInv, UnfinishedHasNoRow
<1>8. RowsStay'
  BY <1>1, <1>2 DEF RegistryInv, RowsStay
<1>9. SweepsProgress'
  BY <1>1 DEF RegistryInv, SweepsProgress
<1>10. MarkedForAReason'
  <2>1. salt[new] = 0
    BY <1>1, <1>2 DEF RegistryInv, RowsStay
  <2>2. \A a \in 1 .. MaxArchives : salt[a] # 0 => salt'[a] # 0
    BY <1>1, <2>1
  <2>3. QED
    BY <1>1, <2>2 DEF RegistryInv, MarkedForAReason
<1>11. QED
  BY <1>6, <1>7, <1>8, <1>9, <1>10 DEF RegistryInv

LEMMA FinishStep ==
    ASSUME Inv, Finish
    PROVE  Inv'
<1> USE RegistryAssumption DEF Inv, TypeOK, Ids
<1>1. /\ streaming /\ streaming' = FALSE
      /\ files' \subseteq files
      /\ row' = row \/ row' = [row EXCEPT ![made] = "VALID"]
      /\ UNCHANGED <<made, kind, altered, salt, sweep>>
  BY DEF Finish
<1>2. made \in 1 .. MaxArchives /\ row[made] = "none"
  BY <1>1 DEF RegistryInv, UnfinishedHasNoRow
<1>3. row' \in [1 .. MaxArchives -> {"none", "VALID", "COMPROMISED"}]
  BY <1>1
<1>4. \A a \in 1 .. MaxArchives : \/ row'[a] = row[a]
                                  \/ a = made /\ row'[a] = "VALID" /\ row[a] = "none"
  BY <1>1, <1>2
<1>5. TypeOK'
  BY <1>1, <1>3
<1>6. UnfinishedHasNoRow'
  BY <1>1, <1>4 DEF RegistryInv, UnfinishedHasNoRow
<1>7. RowsStay'
  BY <1>1, <1>4 DEF RegistryInv, RowsStay, SweepState
<1>8. SweepsProgress'
  BY <1>1, <1>4 DEF RegistryInv, SweepsProgress, SweepState
<1>9. MarkedForAReason'
  BY <1>1, <1>4 DEF RegistryInv, MarkedForAReason
<1>10. QED
  BY <1>5, <1>6, <1>7, <1>8, <1>9 DEF RegistryInv

LEMMA FilesStep ==
    ASSUME Inv, NEW a \in Ids, Remove(a) \/ Alter(a)
    PROVE  Inv'
<1> USE RegistryAssumption DEF Inv, TypeOK, Ids, RegistryInv
<1>1. CASE Remove(a)
  BY <1>1 DEF Remove, UnfinishedHasNoRow, RowsStay, SweepsProgress, MarkedForAReason
<1>2. CASE Alter(a)
  BY <1>2 DEF Alter, UnfinishedHasNoRow, RowsStay, SweepsProgress, MarkedForAReason
<1>3. QED
  BY <1>1, <1>2

\* The steps of a sweep that change only what the sweep remembers.
LEMMA SweepStep ==
    ASSUME Inv, NEW s \in Sweeps, List(s) \/ ReadRow(s) \/ Done(s)
    PROVE  Inv'
<1> USE RegistryAssumption DEF Inv, TypeOK, Ids
<1>1. UNCHANGED <<streaming, made, kind, files, altered, salt, row>>
  BY DEF List, ReadRow, Done
<1>2. /\ sweep' \in [Sweeps -> SweepState]
      /\ \A q \in Sweeps : q # s => sweep'[q] = sweep[q]
      /\ sweep'[s].reading # 0 => row[sweep'[s].reading] # "none"
      /\ sweep'[s].todo \subseteq 1 .. made
      /\ sweep'[s].before \subseteq altered
      /\ sweep'[s].on => \A b \in sweep'[s].before \cap files :
            b \in sweep'[s].todo \/ b = sweep'[s].reading \/ row[b] = "COMPROMISED"
  <2>1. CASE List(s)
    <3> DEFINE rec == [on |-> TRUE, todo |-> files, reading |-> 0, before |-> altered]
    <3>1. sweep' = [sweep EXCEPT ![s] = rec] /\ rec \in SweepState
      BY <2>1 DEF List, SweepState
    <3>2. sweep'[s] = rec
      BY <3>1
    <3>3. QED
      BY <3>1, <3>2 DEF SweepState
  <2>2. CASE ReadRow(s)
    <3> DEFINE a == First(kind, sweep[s].todo)
               rec == [on |-> sweep[s].on, todo |-> sweep[s].todo \ {a},
                       reading |-> IF row[a] = "none" THEN 0 ELSE a,
                       before |-> sweep[s].before]
    <3>1. /\ sweep[s].on /\ sweep[s].reading = 0 /\ sweep[s].todo # {}
          /\ sweep' = [sweep EXCEPT ![s].todo = @ \ {a},
                                    ![s].reading = IF row[a] = "none" THEN 0 ELSE a]
      BY <2>2 DEF ReadRow
    <3>2. sweep[s] \in SweepState
      BY DEF SweepState
    <3>3. a \in sweep[s].todo
      <4>1. sweep[s].todo \subseteq 1 .. MaxArchives
        BY <3>2 DEF SweepState
      <4>2. QED
        BY <3>1, <4>1, FirstIsAFile
    <3> HIDE DEF a
    <3>4. rec \in SweepState
      BY <3>2, <3>3 DEF SweepState
    <3>5. /\ DOMAIN sweep' = Sweeps
          /\ \A q \in Sweeps : q # s => sweep'[q] = sweep[q]
          /\ sweep'[s] = rec
      BY <3>1, <3>2 DEF SweepState
    <3>6. sweep' \in [Sweeps -> SweepState]
      <4>1. sweep' = [q \in Sweeps |-> sweep'[q]]
        BY <3>1
      <4>2. \A q \in Sweeps : sweep'[q] \in SweepState
        BY <3>4, <3>5 DEF SweepState
      <4>3. QED
        BY <4>1, <4>2
    <3>7. /\ rec.reading # 0 => row[rec.reading] # "none"
          /\ rec.todo \subseteq 1 .. made /\ rec.before \subseteq altered
      BY DEF RegistryInv, SweepsProgress
    <3>8. ASSUME NEW b \in sweep[s].before \cap files
          PROVE  b \in rec.todo \/ b = rec.reading \/ row[b] = "COMPROMISED"
      <4>1. b \in sweep[s].todo \/ row[b] = "COMPROMISED"
        BY <3>1, <3>8 DEF RegistryInv, SweepsProgress
      <4>2. row[b] # "none"
        BY <3>8 DEF RegistryInv, RowsStay, SweepsProgress
      <4>3. QED
        BY <4>1, <4>2
    <3>9. rec.before = sweep[s].before
      OBVIOUS
    <3> HIDE DEF rec
    <3>10. QED
      BY <3>5, <3>6, <3>7, <3>8, <3>9
  <2>3. CASE Done(s)
    <3>1. sweep' = [sweep EXCEPT ![s] = NoSweep] /\ NoSweep \in SweepState
      BY <2>3 DEF Done, NoSweep, SweepState
    <3>2. QED
      BY <3>1 DEF NoSweep, SweepState
  <2>4. QED
    BY <2>1, <2>2, <2>3
<1>3. TypeOK'
  BY <1>1, <1>2
<1>4. UnfinishedHasNoRow' /\ MarkedForAReason'
  BY <1>1 DEF RegistryInv, UnfinishedHasNoRow, MarkedForAReason
<1>5. RowsStay'
  BY <1>1, <1>2 DEF RegistryInv, RowsStay
<1>6. SweepsProgress'
  BY <1>1, <1>2 DEF RegistryInv, SweepsProgress
<1>7. QED
  BY <1>3, <1>4, <1>5, <1>6 DEF RegistryInv

\* The step that marks: what it reads has a row and so is complete.
LEMMA ReadFileStep ==
    ASSUME Inv, NEW s \in Sweeps, ReadFile(s)
    PROVE  Inv'
<1> USE RegistryAssumption DEF Inv, TypeOK, Ids
<1> DEFINE a == sweep[s].reading
<1>1. /\ sweep[s].on /\ a # 0
      /\ row' = IF a \in files THEN Marked(a, Differs(a)) ELSE row
      /\ sweep' = [sweep EXCEPT ![s].reading = 0]
      /\ UNCHANGED <<streaming, made, kind, files, altered, salt>>
  BY DEF ReadFile
<1>2. a \in 1 .. MaxArchives /\ row[a] # "none"
  BY <1>1 DEF RegistryInv, RowsStay, SweepState
<1>3. Differs(a) => a \in altered \/ salt[a] # 0
  BY <1>2 DEF Differs, RegistryInv, UnfinishedHasNoRow
<1>4. /\ row' \in [1 .. MaxArchives -> {"none", "VALID", "COMPROMISED"}]
      /\ \A b \in 1 .. MaxArchives :
            \/ row'[b] = row[b]
            \/ b = a /\ row'[b] = "COMPROMISED" /\ Differs(a)
      /\ a \in files /\ Differs(a) => row'[a] = "COMPROMISED"
  BY <1>1, <1>2 DEF Marked
<1>5. \A q \in Sweeps : /\ sweep'[q].on = sweep[q].on
                        /\ sweep'[q].todo = sweep[q].todo
                        /\ sweep'[q].before = sweep[q].before
                        /\ sweep'[q].reading = IF q = s THEN 0 ELSE sweep[q].reading
  BY <1>1
<1> HIDE DEF a
<1>6. TypeOK'
  <2>1. \A q \in Sweeps : sweep'[q] \in SweepState
    <3>1. \A q \in Sweeps : q # s => sweep'[q] = sweep[q]
      BY <1>1
    <3>2. /\ sweep[s] \in SweepState
          /\ sweep'[s] = [on |-> sweep[s].on, todo |-> sweep[s].todo, reading |-> 0,
                          before |-> sweep[s].before]
      BY <1>1 DEF SweepState
    <3>3. sweep'[s] \in SweepState
      BY <3>2 DEF SweepState
    <3>4. QED
      BY <3>1, <3>3
  <2>2. sweep' = [q \in Sweeps |-> sweep'[q]]
    BY <1>1
  <2>3. sweep' \in [Sweeps -> SweepState]
    BY <2>1, <2>2
  <2>4. QED
    BY <1>1, <1>4, <2>3
<1>7. UnfinishedHasNoRow'
  BY <1>1, <1>2, <1>4 DEF RegistryInv, UnfinishedHasNoRow
<1>8. RowsStay'
  BY <1>1, <1>4, <1>5 DEF RegistryInv, RowsStay, SweepState
<1>9. SweepsProgress'
  <2>1. ASSUME NEW q \in Sweeps, sweep[q].on, NEW b \in sweep[q].before \cap files
        PROVE  b \in sweep'[q].todo \/ b = sweep'[q].reading \/ row'[b] = "COMPROMISED"
    <3>1. b \in sweep[q].todo \/ b = sweep[q].reading \/ row[b] = "COMPROMISED"
      BY <2>1 DEF RegistryInv, SweepsProgress
    <3>2. CASE q = s /\ b = a
      <4>1. a \in files /\ Differs(a)
        BY <2>1, <3>2 DEF RegistryInv, SweepsProgress, Differs
      <4>2. QED
        BY <1>4, <3>2, <4>1
    <3>3. CASE q # s \/ b # a
      <4>1. b \in 1 .. MaxArchives
        <5>1. b \in 1 .. made
          BY <2>1
        <5>2. made \in 0 .. MaxArchives
          OBVIOUS
        <5>3. QED
          BY <5>1, <5>2
      <4>2. row[b] = "COMPROMISED" => row'[b] = "COMPROMISED"
        BY <1>4, <4>1
      <4>3. b = sweep[q].reading => b = sweep'[q].reading
        BY <1>5, <3>3 DEF a
      <4>4. QED
        BY <1>5, <3>1, <4>2, <4>3
    <3>4. QED
      BY <3>2, <3>3
  <2>2. QED
    BY <1>1, <1>5, <2>1 DEF RegistryInv, SweepsProgress
<1>10. MarkedForAReason'
  BY <1>1, <1>3, <1>4 DEF RegistryInv, MarkedForAReason
<1>11. QED
  BY <1>6, <1>7, <1>8, <1>9, <1>10 DEF RegistryInv

LEMMA InvStep ==
    ASSUME Inv, [Next]_vars
    PROVE  Inv'
<1>1. CASE UNCHANGED vars
  BY <1>1 DEF vars, Inv, TypeOK, RegistryInv, UnfinishedHasNoRow, RowsStay, SweepsProgress,
              MarkedForAReason
<1>2. QED
  BY <1>1, CreateStep, FinishStep, FilesStep, SweepStep, ReadFileStep DEF Next

LEMMA Invariance == Spec => []Inv
<1>1. Inv /\ [Next]_vars => Inv'
  BY InvStep
<1>2. QED
  BY <1>1, InitInv, PTL DEF Spec

\* The rows, the files and the sweeps keep their types, for any number of archives.
THEOREM TypeCorrect == Spec => []TypeOK
<1>1. Inv => TypeOK
  BY DEF Inv
<1>2. QED
  BY <1>1, Invariance, PTL

\* However many sweeps interleave with a run, none takes an unfinished archive for an
\* altered one: a mark means an alteration, or the salt ValidateHashes leaves out.
THEOREM MarksHaveReasons == Spec => []MarkedForAReason
<1>1. Inv => MarkedForAReason
  BY DEF Inv, RegistryInv
<1>2. QED
  BY <1>1, Invariance, PTL

\* No alteration made before a sweep began escapes it, whatever runs, removals and
\* other sweeps do meanwhile.
THEOREM SweepsFindAlterations == Spec => []SweepFindsAltered
<1>1. Inv => SweepFindsAltered
  <2> SUFFICES ASSUME Inv, NEW s \in Sweeps, Swept(s), NEW a \in sweep[s].before \cap files
               PROVE  row[a] = "COMPROMISED"
    BY DEF SweepFindsAltered
  <2>1. a # 0
    BY DEF Inv, TypeOK
  <2>2. QED
    BY <2>1 DEF Inv, RegistryInv, SweepsProgress, Swept
<1>2. QED
  BY <1>1, Invariance, PTL

===============================================================================
