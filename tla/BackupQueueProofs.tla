--------------------------- MODULE BackupQueueProofs ---------------------------
(***************************************************************************)
(* Theorems about BackupQueue, for any runs, jobs and queue keys, and that *)
(* it implements BatchLedger.                                              *)
(***************************************************************************)
EXTENDS BackupQueue, SequenceLemmas

\* What typing needs to be inductive: a run that has started has a job, and a
\* run that streams has an archive left to count down.
Started ==
    \A r \in Runs : /\ pc[r] # "idle" => job[r] \in Jobs
                    /\ pc[r] \in {"fresh", "stream"} => left[r] > 0

TInv == TypeOK /\ Started

LEMMA InitTyped == Init => TInv
<1> SUFFICES ASSUME Init PROVE TInv
  OBVIOUS
<1>1. /\ QueuedJobs \in Seq(Hosts) /\ BatchEnqueuedJobs \in Seq(Hosts)
      /\ BatchResults \in Seq(Result) /\ digests \in Seq(Digest)
      /\ NoAlert \in Alert
  BY EmptySeq DEF Init, NoAlert, Alert
<1>2. /\ pc \in [Runs -> PCs]
      /\ job \in [Runs -> Jobs \cup {None}]
      /\ left \in [Runs -> Nat]
      /\ debouncer \in [Runs -> {"none", "sleep", "send", "done"}]
      /\ alert \in [Runs -> Alert]
  BY <1>1 DEF Init, PCs
<1>3. IsBatchActive \in BOOLEAN /\ mount \in Mounts \cup {"ok"} /\ criticals \subseteq Runs
  BY DEF Init
<1>4. /\ queueLock \in Runs \cup {None} /\ stateLock \in Runs \cup Clients \cup {None}
      /\ ActiveJob \in Hosts \cup Labels \cup {None} /\ ActiveJobPercent \in 0 .. 100
      /\ opener \in Runs \cup {None}
  BY DEF Init
<1>5. Started
  BY DEF Init, Started
<1>6. QED
  BY <1>1, <1>2, <1>3, <1>4, <1>5 DEF TInv, TypeOK

\* The two ways in which a run starts.
LEMMA StartTyped ==
    ASSUME TInv, NEW T \in Targets, StartBackup(T)
    PROVE  TInv'
<1>1. PICK f \in Injection(T, {r \in Runs : pc[r] = "idle"}) :
        LET started == {f[j] : j \in T}
            jobOf(r) == CHOOSE j \in T : f[j] = r
        IN  /\ pc'   = [r \in Runs |-> IF r \in started THEN "check" ELSE pc[r]]
            /\ job'  = [r \in Runs |-> IF r \in started THEN jobOf(r) ELSE job[r]]
            /\ left' = [r \in Runs |-> IF r \in started THEN ArchivesOf[jobOf(r)]
                                                        ELSE left[r]]
  BY DEF StartBackup
<1> DEFINE started == {f[j] : j \in T}
           jobOf(r) == CHOOSE j \in T : f[j] = r
<1>2. \A r \in started : jobOf(r) \in T
  OBVIOUS
<1>3. T \subseteq Jobs
  BY ConstantsAssumption
<1>4. /\ pc'   = [r \in Runs |-> IF r \in started THEN "check" ELSE pc[r]]
      /\ job'  = [r \in Runs |-> IF r \in started THEN jobOf(r) ELSE job[r]]
      /\ left' = [r \in Runs |-> IF r \in started THEN ArchivesOf[jobOf(r)] ELSE left[r]]
  BY <1>1
<1> HIDE DEF started, jobOf
<1>5. /\ pc' \in [Runs -> PCs]
      /\ job' \in [Runs -> Jobs \cup {None}]
      /\ left' \in [Runs -> Nat]
  BY <1>2, <1>3, <1>4, ConstantsAssumption DEF TInv, TypeOK, PCs
<1>6. Started'
  BY <1>2, <1>3, <1>4 DEF TInv, TypeOK, Started
<1>7. UNCHANGED <<lockVars, queueVars, batchVars, alertVars, mount, noticeVars>>
  BY DEF StartBackup
<1>8. QED
  BY <1>5, <1>6, <1>7
     DEF TInv, TypeOK, lockVars, queueVars, batchVars, alertVars, noticeVars

LEMMA CronTyped ==
    ASSUME TInv, NEW r \in Runs, NEW j \in Scheduled, CronFire(r, j)
    PROVE  TInv'
BY ConstantsAssumption
   DEF TInv, TypeOK, Started, PCs, CronFire, Goto,
       lockVars, queueVars, batchVars, alertVars, noticeVars

\* The steps of a run up to the lock, and the ones that only move it.
LEMMA MoveTyped ==
    ASSUME TInv, NEW r \in Runs,
           \/ CheckStorage(r) \/ LockQueue(r) \/ MakeDirs(r) \/ CreateArchive(r)
           \/ CleanupOldBackups(r) \/ ClearActive(r) \/ UnlockQueue(r)
    PROVE  TInv'
<1> USE ConstantsAssumption
    DEF TInv, TypeOK, Started, PCs, Goto,
        runVars, lockVars, queueVars, batchVars, alertVars, noticeVars
<1>1. CASE CheckStorage(r)
  <2>1. PICK l \in {"done", "enqueue"} : Goto(r, l)
    BY <1>1 DEF CheckStorage
  <2>2. criticals' \subseteq Runs
    BY <1>1 DEF CheckStorage
  <2>3. pc' = [pc EXCEPT ![r] = l] /\ pc[r] = "check"
    BY <1>1, <2>1 DEF CheckStorage
  <2>4. UNCHANGED <<job, left, lockVars, queueVars, batchVars, alertVars, mount, digests>>
    BY <1>1 DEF CheckStorage
  <2>5. QED
    BY <2>2, <2>3, <2>4
<1>2. CASE LockQueue(r)
  BY <1>2 DEF LockQueue
<1>3. CASE MakeDirs(r)
  <2>1. PICK l \in {"archive", "clear"} : Goto(r, l)
    BY <1>3 DEF MakeDirs
  <2>2. QED
    BY <1>3, <2>1 DEF MakeDirs
<1>4. CASE CreateArchive(r)
  <2>1. CASE Goto(r, "fresh") /\ UNCHANGED left
    BY <1>4, <2>1 DEF CreateArchive
  <2>2. CASE left' = [left EXCEPT ![r] = @ - 1] /\ UNCHANGED pc
    <3>1. left[r] - 1 \in Nat /\ pc[r] = "archive"
      BY <1>4 DEF CreateArchive
    <3>2. left' \in [Runs -> Nat] /\ Started'
      BY <1>4, <2>2, <3>1 DEF CreateArchive
    <3>3. QED
      BY <1>4, <2>2, <3>2 DEF CreateArchive
  <2>3. QED
    BY <1>4, <2>1, <2>2 DEF CreateArchive
<1>5. CASE CleanupOldBackups(r)
  BY <1>5 DEF CleanupOldBackups
<1>6. CASE ClearActive(r)
  <2>1. PICK l \in {"stats", "unlock"} : Goto(r, l)
    BY <1>6 DEF ClearActive
  <2>2. stateLock' \in Runs \cup Clients \cup {None}
    BY <1>6 DEF ClearActive
  <2>3. IsBatchActive' = FALSE \/ IsBatchActive' = IsBatchActive
    BY <1>6 DEF ClearActive
  <2>4. IsBatchActive' \in BOOLEAN
    BY <2>3
  <2>5. QED
    BY <1>6, <2>1, <2>2, <2>4 DEF ClearActive
<1>7. CASE UnlockQueue(r)
  BY <1>7 DEF UnlockQueue
<1>8. QED
  BY <1>1, <1>2, <1>3, <1>4, <1>5, <1>6, <1>7

LEMMA QueueTyped ==
    ASSUME TInv, NEW r \in Runs, pc[r] # "idle"
    PROVE  /\ Host(r) \in Hosts
           /\ WithHost(QueuedJobs, Host(r)) \in Seq(Hosts)
           /\ Append(BatchEnqueuedJobs, Host(r)) \in Seq(Hosts)
           /\ <<Host(r)>> \in Seq(Hosts)
<1>1. Host(r) \in Hosts
  BY ConstantsAssumption DEF TInv, Started, Host
<1>2. /\ Append(QueuedJobs, Host(r)) \in Seq(Hosts)
      /\ Append(BatchEnqueuedJobs, Host(r)) \in Seq(Hosts)
  BY <1>1, AppendProperties DEF TInv, TypeOK
<1>3. <<Host(r)>> \in Seq(Hosts)
  BY <1>1
<1>4. QED
  BY <1>1, <1>2, <1>3 DEF WithHost, TInv, TypeOK

LEMMA EnqueueTyped ==
    ASSUME TInv, NEW r \in Runs, Enqueue(r)
    PROVE  TInv'
<1>1. /\ Host(r) \in Hosts
      /\ WithHost(QueuedJobs, Host(r)) \in Seq(Hosts)
      /\ Append(BatchEnqueuedJobs, Host(r)) \in Seq(Hosts)
      /\ <<Host(r)>> \in Seq(Hosts)
  BY QueueTyped DEF Enqueue
<1>2. <<>> \in Seq(Result)
  BY EmptySeq
<1> USE DEF TInv, TypeOK, Started, PCs, Goto, Enqueue, lockVars, noticeVars
<1>3. /\ IsBatchActive' \in BOOLEAN
      /\ BatchResults' \in Seq(Result)
      /\ BatchEnqueuedJobs' \in Seq(Hosts)
      /\ opener' \in Runs \cup {None}
      /\ debouncer' \in [Runs -> {"none", "sleep", "send", "done"}]
  <2>1. CASE JoinBatch(Host(r))
    BY <1>1, <2>1 DEF JoinBatch
  <2>2. CASE OpenBatch(r)
    BY <1>1, <1>2, <2>2 DEF OpenBatch
  <2>3. QED
    BY <2>1, <2>2
<1>4. QED
  BY <1>1, <1>3

LEMMA DequeueTyped ==
    ASSUME TInv, NEW r \in Runs, DequeueAndSetActive(r), IsInjective(QueuedJobs)
    PROVE  TInv'
<1>1. Host(r) \in Hosts
  BY QueueTyped DEF DequeueAndSetActive
<1>2. WithoutHost(QueuedJobs, Host(r)) \in Seq(Hosts)
  BY RemoveFirstProperties DEF WithoutHost, TInv, TypeOK
<1>3. QED
  BY <1>1, <1>2
     DEF TInv, TypeOK, Started, PCs, Goto, DequeueAndSetActive,
         lockVars, batchVars, alertVars, noticeVars

LEMMA StreamTyped ==
    ASSUME TInv, NEW r \in Runs
    PROVE  /\ \A p \in Percents : Progress(r, p) => TInv'
           /\ \A s \in Outcomes : FinishArchive(r, s) => TInv'
<1> USE ConstantsAssumption
    DEF TInv, TypeOK, Started, PCs, Goto,
        lockVars, queueVars, batchVars, alertVars, noticeVars
<1>1. ASSUME NEW p \in Percents, Progress(r, p)
      PROVE  TInv'
  <2>1. Capped(p) \in 0 .. 100
    BY DEF Capped
  <2>2. LabelOf[job[r]] \in Labels
    BY <1>1 DEF Progress
  <2>3. QED
    BY <1>1, <2>1, <2>2 DEF Progress
<1>2. ASSUME NEW s \in Outcomes, FinishArchive(r, s)
      PROVE  TInv'
  <2>1. [run |-> r, status |-> s] \in Result
    BY DEF Result, Statuses
  <2>2. Append(BatchResults, [run |-> r, status |-> s]) \in Seq(Result)
    BY <2>1, AppendProperties
  <2>3. left'[r] \in Nat
    BY <1>2 DEF FinishArchive
  <2>4. QED
    BY <1>2, <2>2, <2>3 DEF FinishArchive
<1>3. QED
  BY <1>1, <1>2

LEMMA DigestTyped ==
    ASSUME TInv, NEW r \in Runs, SendDigest(r)
    PROVE  TInv'
<1> USE DEF TInv, TypeOK
<1>1. DigestTitle(BatchResults) \in Statuses
  BY DEF DigestTitle, Statuses
<1>2. DigestColor(BatchResults) \in Statuses
  BY DEF DigestColor, Statuses
<1> DEFINE d == [batch |-> opener, results |-> BatchResults,
                 title |-> DigestTitle(BatchResults), color |-> DigestColor(BatchResults)]
<1>3. d \in Digest
  BY <1>1, <1>2 DEF Digest
<1>4. Append(digests, d) \in Seq(Digest)
  BY <1>3, AppendProperties
<1>5. digests' = Append(digests, d)
  BY DEF SendDigest
<1> HIDE DEF d
<1>6. QED
  BY <1>4, <1>5
     DEF SendDigest, Started, PCs, Goto, queueVars, batchVars, alertVars

LEMMA DebouncerTyped ==
    ASSUME TInv, NEW b \in Runs, DebouncerStep(b)
    PROVE  TInv'
<1> USE DEF TInv, TypeOK, Started, runVars, lockVars, queueVars, batchVars, noticeVars
<1>1. CASE DebouncerWake(b)
  <2> DEFINE a == [batch |-> opener, jobs |-> BatchEnqueuedJobs,
                   running |-> {i \in DOMAIN BatchEnqueuedJobs :
                                  BatchEnqueuedJobs[i] = ActiveJob}]
  <2>1. DOMAIN BatchEnqueuedJobs \subseteq Nat
    BY LenProperties
  <2>2. a \in Alert
    BY <2>1 DEF Alert
  <2>3. alert' = alert \/ alert' = [alert EXCEPT ![b] = a]
    BY <1>1 DEF DebouncerWake
  <2> HIDE DEF a
  <2>4. alert' \in [Runs -> Alert]
    BY <2>2, <2>3
  <2>5. debouncer' \in [Runs -> {"none", "sleep", "send", "done"}]
    BY <1>1 DEF DebouncerWake
  <2>6. UNCHANGED <<runVars, lockVars, queueVars, batchVars, mount, noticeVars>>
    BY <1>1 DEF DebouncerWake
  <2>7. QED
    BY <2>4, <2>5, <2>6
<1>2. CASE DebouncerSend(b)
  <2>1. NoAlert \in Alert
    BY EmptySeq DEF NoAlert, Alert
  <2>2. QED
    BY <1>2, <2>1 DEF DebouncerSend
<1>3. QED
  BY <1>1, <1>2 DEF DebouncerStep

LEMMA OthersTyped ==
    ASSUME TInv,
           \/ \E c \in Clients : StatusBegin(c) \/ StatusEnd(c)
           \/ \E m \in Mounts : MountChange(m)
           \/ UNCHANGED vars
    PROVE  TInv'
BY DEF TInv, TypeOK, Started, StatusBegin, StatusEnd, MountChange, vars,
       runVars, lockVars, queueVars, batchVars, alertVars, noticeVars

-------------------------------------------------------------------------------
(* Who owns the mutexes.                                                    *)

\* A run that starts was idle and is at its first step: nobody else moves.
LEMMA StartMoves ==
    ASSUME TInv, \/ \E T \in Targets : StartBackup(T)
                 \/ \E r \in Runs, j \in Scheduled : CronFire(r, j)
    PROVE  /\ \A r \in Runs : \/ pc'[r] = pc[r] /\ job'[r] = job[r]
                              \/ pc[r] = "idle" /\ pc'[r] = "check"
           /\ UNCHANGED <<lockVars, queueVars, batchVars, alertVars, mount, noticeVars>>
<1>1. ASSUME NEW T \in Targets, StartBackup(T)
      PROVE  \A r \in Runs : \/ pc'[r] = pc[r] /\ job'[r] = job[r]
                             \/ pc[r] = "idle" /\ pc'[r] = "check"
  <2>1. PICK f \in Injection(T, {r \in Runs : pc[r] = "idle"}) :
          LET started == {f[j] : j \in T}
              jobOf(r) == CHOOSE j \in T : f[j] = r
          IN  /\ pc'   = [r \in Runs |-> IF r \in started THEN "check" ELSE pc[r]]
              /\ job'  = [r \in Runs |-> IF r \in started THEN jobOf(r) ELSE job[r]]
    BY <1>1 DEF StartBackup
  <2>2. \A j \in T : f[j] \in {r \in Runs : pc[r] = "idle"}
    BY <2>1 DEF Injection
  <2>3. QED
    BY <2>1, <2>2
<1>2. ASSUME NEW r \in Runs, NEW j \in Scheduled, CronFire(r, j)
      PROVE  \A s \in Runs : \/ pc'[s] = pc[s] /\ job'[s] = job[s]
                             \/ pc[s] = "idle" /\ pc'[s] = "check"
  BY <1>2 DEF CronFire, Goto, TInv, TypeOK
<1>3. UNCHANGED <<lockVars, queueVars, batchVars, alertVars, mount, noticeVars>>
  BY DEF StartBackup, CronFire
<1>4. QED
  BY <1>1, <1>2, <1>3

LEMMA LockOwnersStep ==
    ASSUME TInv, LockOwners, [Next]_vars
    PROVE  LockOwners'
<1> USE ConstantsAssumption
    DEF TInv, TypeOK, LockOwners, Waiting, Active, Goto,
        runVars, lockVars
<1>1. CASE \/ \E T \in Targets : StartBackup(T)
           \/ \E r \in Runs, j \in Scheduled : CronFire(r, j)
  BY <1>1, StartMoves
<1>2. ASSUME NEW r \in Runs, RunStep(r)
      PROVE  LockOwners'
  <2>1. CASE CheckStorage(r)
    BY <2>1 DEF CheckStorage
  <2>2. CASE Enqueue(r)
    BY <2>2 DEF Enqueue
  <2>3. CASE LockQueue(r)
    BY <2>3 DEF LockQueue
  <2>4. CASE DequeueAndSetActive(r)
    BY <2>4 DEF DequeueAndSetActive
  <2>5. CASE MakeDirs(r)
    BY <2>5 DEF MakeDirs
  <2>6. CASE CreateArchive(r)
    BY <2>6 DEF CreateArchive
  <2>7. CASE \E p \in Percents : Progress(r, p)
    BY <2>7 DEF Progress
  <2>8. CASE \E s \in Outcomes : FinishArchive(r, s)
    BY <2>8 DEF FinishArchive
  <2>9. CASE CleanupOldBackups(r)
    BY <2>9 DEF CleanupOldBackups
  <2>10. CASE ClearActive(r)
    BY <2>10 DEF ClearActive
  <2>11. CASE SendDigest(r)
    BY <2>11 DEF SendDigest
  <2>12. CASE UnlockQueue(r)
    BY <2>12 DEF UnlockQueue
  <2>13. QED
    BY <1>2, <2>1, <2>2, <2>3, <2>4, <2>5, <2>6, <2>7, <2>8, <2>9, <2>10, <2>11, <2>12
       DEF RunStep
<1>3. CASE \E b \in Runs : DebouncerStep(b)
  BY <1>3 DEF DebouncerStep, DebouncerWake, DebouncerSend
<1>4. CASE \/ \E c \in Clients : StatusBegin(c) \/ StatusEnd(c)
           \/ \E m \in Mounts : MountChange(m)
           \/ UNCHANGED vars
  BY <1>4 DEF StatusBegin, StatusEnd, MountChange, vars
<1>5. QED
  BY <1>1, <1>2, <1>3, <1>4 DEF Next, Environment

\* ActiveJob follows the owner of the queue: by LockOwners no other run is active.
LEMMA ActiveJobStep ==
    ASSUME TInv, LockOwners, ActiveJobIsRunning, [Next]_vars
    PROVE  ActiveJobIsRunning'
<1> USE ConstantsAssumption
    DEF TInv, TypeOK, Started, LockOwners, ActiveJobIsRunning, Waiting, Active, Host, Goto,
        runVars, lockVars, queueVars
<1>1. CASE \/ \E T \in Targets : StartBackup(T)
           \/ \E r \in Runs, j \in Scheduled : CronFire(r, j)
  <2>1. UNCHANGED <<lockVars, queueVars>>
    BY <1>1, StartMoves
  <2>2. \A q \in Runs : \/ pc'[q] = pc[q] /\ job'[q] = job[q]
                        \/ pc[q] = "idle" /\ pc'[q] = "check"
    BY <1>1, StartMoves
  <2>3. \A q \in Runs : Active(q)' => Active(q) /\ job'[q] = job[q]
    BY <2>2
  <2>4. \A q \in Runs : Active(q) => Active(q)' /\ job'[q] = job[q]
    BY <2>2
  <2>5. QED
    BY <2>1, <2>3, <2>4
<1>2. ASSUME NEW r \in Runs, RunStep(r)
      PROVE  ActiveJobIsRunning'
  <2>1. CASE CheckStorage(r)
    <3>1. PICK l \in {"done", "enqueue"} : pc' = [pc EXCEPT ![r] = l]
      BY <2>1 DEF CheckStorage
    <3>2. QED
      BY <2>1, <3>1 DEF CheckStorage
  <2>2. CASE Enqueue(r)
    BY <2>2 DEF Enqueue
  <2>3. CASE LockQueue(r)
    BY <2>3 DEF LockQueue
  <2>4. CASE DequeueAndSetActive(r)
    BY <2>4 DEF DequeueAndSetActive
  <2>5. CASE MakeDirs(r)
    <3>1. PICK l \in {"archive", "clear"} : pc' = [pc EXCEPT ![r] = l]
      BY <2>5 DEF MakeDirs
    <3>2. QED
      BY <2>5, <3>1 DEF MakeDirs
  <2>6. CASE CreateArchive(r)
    <3>1. \A q \in Runs : Active(q)' <=> Active(q)
      BY <2>6 DEF CreateArchive
    <3>2. UNCHANGED <<job, ActiveJob>>
      BY <2>6 DEF CreateArchive
    <3>3. QED
      BY <3>1, <3>2
  <2>7. CASE \E p \in Percents : Progress(r, p)
    BY <2>7 DEF Progress
  <2>8. CASE \E s \in Outcomes : FinishArchive(r, s)
    BY <2>8 DEF FinishArchive
  <2>9. CASE CleanupOldBackups(r)
    BY <2>9 DEF CleanupOldBackups
  <2>10. CASE ClearActive(r)
    <3>1. \A q \in Runs : ~Active(q)'
      <4>1. \A q \in Runs : q # r => ~Active(q)
        BY <2>10 DEF ClearActive
      <4>2. PICK l \in {"stats", "unlock"} : pc' = [pc EXCEPT ![r] = l]
        BY <2>10 DEF ClearActive
      <4>3. QED
        BY <4>1, <4>2
    <3>2. ActiveJob' = None
      BY <2>10 DEF ClearActive
    <3>3. QED
      BY <3>1, <3>2
  <2>11. CASE SendDigest(r)
    BY <2>11 DEF SendDigest
  <2>12. CASE UnlockQueue(r)
    BY <2>12 DEF UnlockQueue
  <2>13. QED
    BY <1>2, <2>1, <2>2, <2>3, <2>4, <2>5, <2>6, <2>7, <2>8, <2>9, <2>10, <2>11, <2>12
       DEF RunStep
<1>3. CASE \E b \in Runs : DebouncerStep(b)
  BY <1>3 DEF DebouncerStep, DebouncerWake, DebouncerSend
<1>4. CASE \/ \E c \in Clients : StatusBegin(c) \/ StatusEnd(c)
           \/ \E m \in Mounts : MountChange(m)
           \/ UNCHANGED vars
  BY <1>4 DEF StatusBegin, StatusEnd, MountChange, vars
<1>5. QED
  BY <1>1, <1>2, <1>3, <1>4 DEF Next, Environment

-------------------------------------------------------------------------------
(* The queue.                                                               *)

\* What EnqueueJob makes of the queue.
LEMMA WithHostProperties ==
    ASSUME TInv, NEW r \in Runs, pc[r] # "idle", IsInjective(QueuedJobs)
    PROVE  /\ IsInjective(WithHost(QueuedJobs, Host(r)))
           /\ Range(WithHost(QueuedJobs, Host(r))) = Range(QueuedJobs) \cup {Host(r)}
           /\ Contains(QueuedJobs, Host(r)) <=> Host(r) \in Range(QueuedJobs)
<1>1. Host(r) \in Hosts
  BY QueueTyped
<1>2. QueuedJobs \in Seq(Hosts)
  BY DEF TInv, TypeOK
<1> DEFINE q == QueuedJobs
           e == Host(r)
           t == WithHost(q, e)
<1>3. t = IF Contains(q, e) THEN q ELSE Append(q, e)
  BY DEF WithHost
<1> HIDE DEF q, e, t
<1>4. q \in Seq(Hosts) /\ e \in Hosts /\ IsInjective(q)
  BY <1>1, <1>2 DEF q, e
<1>5. /\ IsInjective(t)
      /\ Range(t) = Range(q) \cup {e}
      /\ Contains(q, e) <=> e \in Range(q)
  <2>1. \A S : \A x \in Seq(S), f \in S : \A u :
          IsInjective(x) /\ u = (IF Contains(x, f) THEN x ELSE Append(x, f)) =>
            /\ IsInjective(u)
            /\ Range(u) = Range(x) \cup {f}
            /\ Contains(x, f) <=> f \in Range(x)
    BY AppendIfAbsent
  <2>2. QED
    BY <1>3, <1>4, <2>1, Zenon
<1>6. QED
  BY <1>5 DEF q, e, t

\* A key enters with a run that waits, and leaves with the run that stops waiting;
\* another run of the same key keeps no claim on it.
LEMMA QueuedStep ==
    ASSUME TInv, QueuedAreWaiting, [Next]_vars
    PROVE  QueuedAreWaiting'
<1> USE DEF TInv, TypeOK, QueuedAreWaiting, Waiting, Host, Goto, runVars, queueVars
<1>1. CASE \/ \E T \in Targets : StartBackup(T)
           \/ \E r \in Runs, j \in Scheduled : CronFire(r, j)
  <2>1. \A q \in Runs : Waiting(q) => Waiting(q)' /\ UNCHANGED job[q]
    BY <1>1, StartMoves
  <2>2. UNCHANGED QueuedJobs
    BY <1>1, StartMoves
  <2>3. ASSUME NEW h \in Range(QueuedJobs)
        PROVE  \E q \in Runs : Waiting(q)' /\ Host(q)' = h
    <3>1. PICK q \in Runs : Waiting(q) /\ Host(q) = h
      BY <2>3
    <3>2. QED
      BY <2>1, <3>1
  <2>4. QED
    BY <2>2, <2>3
<1>2. ASSUME NEW r \in Runs, RunStep(r)
      PROVE  QueuedAreWaiting'
  <2>1. CASE CheckStorage(r)
    <3>1. PICK l \in {"done", "enqueue"} : pc' = [pc EXCEPT ![r] = l]
      BY <2>1 DEF CheckStorage
    <3>2. QED
      BY <2>1, <3>1 DEF CheckStorage
  <2>2. CASE Enqueue(r)
    <3>1. /\ IsInjective(QueuedJobs')
          /\ Range(QueuedJobs') = Range(QueuedJobs) \cup {Host(r)}
      BY <2>2, WithHostProperties DEF Enqueue
    <3>2. /\ pc' = [pc EXCEPT ![r] = "lock"] /\ pc[r] = "enqueue"
          /\ UNCHANGED job
      BY <2>2 DEF Enqueue
    <3>3. ASSUME NEW h \in Range(QueuedJobs')
          PROVE  \E q \in Runs : Waiting(q)' /\ Host(q)' = h
      <4>1. CASE h = Host(r)
        BY <3>2, <4>1
      <4>2. CASE h \in Range(QueuedJobs)
        BY <3>2, <4>2
      <4>3. QED
        BY <3>1, <3>3, <4>1, <4>2
    <3>4. QED
      BY <3>1, <3>3
  <2>3. CASE LockQueue(r)
    BY <2>3 DEF LockQueue
  <2>4. CASE DequeueAndSetActive(r)
    <3>1. QueuedJobs \in Seq(Hosts)
      BY DEF TypeOK
    <3>2. /\ IsInjective(QueuedJobs')
          /\ Range(QueuedJobs') = Range(QueuedJobs) \ {Host(r)}
      BY <2>4, <3>1, RemoveFirstProperties DEF DequeueAndSetActive, WithoutHost
    <3>3. pc' = [pc EXCEPT ![r] = "mkdir"] /\ UNCHANGED job
      BY <2>4 DEF DequeueAndSetActive
    <3>4. ASSUME NEW h \in Range(QueuedJobs')
          PROVE  \E q \in Runs : Waiting(q)' /\ Host(q)' = h
      <4>1. PICK q \in Runs : Waiting(q) /\ Host(q) = h
        BY <3>2, <3>4
      <4>2. q # r
        BY <3>2, <3>4, <4>1
      <4>3. QED
        BY <3>3, <4>1, <4>2
    <3>5. QED
      BY <3>2, <3>4
  <2>5. CASE MakeDirs(r)
    <3>1. \A q \in Runs : Waiting(q) => Waiting(q)'
      BY <2>5 DEF MakeDirs
    <3>2. UNCHANGED <<job, QueuedJobs>>
      BY <2>5 DEF MakeDirs
    <3>3. QED
      BY <3>1, <3>2
  <2>6. CASE CreateArchive(r)
    <3>1. \A q \in Runs : Waiting(q) => Waiting(q)'
      BY <2>6 DEF CreateArchive
    <3>2. UNCHANGED <<job, QueuedJobs>>
      BY <2>6 DEF CreateArchive
    <3>3. QED
      BY <3>1, <3>2
  <2>7. CASE \E p \in Percents : Progress(r, p)
    <3>1. \A q \in Runs : Waiting(q) => Waiting(q)'
      BY <2>7 DEF Progress
    <3>2. UNCHANGED <<job, QueuedJobs>>
      BY <2>7 DEF Progress
    <3>3. QED
      BY <3>1, <3>2
  <2>8. CASE \E s \in Outcomes : FinishArchive(r, s)
    <3>1. \A q \in Runs : Waiting(q) => Waiting(q)'
      BY <2>8 DEF FinishArchive
    <3>2. UNCHANGED <<job, QueuedJobs>>
      BY <2>8 DEF FinishArchive
    <3>3. QED
      BY <3>1, <3>2
  <2>9. CASE CleanupOldBackups(r)
    BY <2>9 DEF CleanupOldBackups
  <2>10. CASE ClearActive(r)
    <3>1. \A q \in Runs : Waiting(q) => Waiting(q)'
      BY <2>10 DEF ClearActive
    <3>2. UNCHANGED <<job, QueuedJobs>>
      BY <2>10 DEF ClearActive
    <3>3. QED
      BY <3>1, <3>2
  <2>11. CASE SendDigest(r)
    BY <2>11 DEF SendDigest
  <2>12. CASE UnlockQueue(r)
    BY <2>12 DEF UnlockQueue
  <2>13. QED
    BY <1>2, <2>1, <2>2, <2>3, <2>4, <2>5, <2>6, <2>7, <2>8, <2>9, <2>10, <2>11, <2>12
       DEF RunStep
<1>3. CASE \E b \in Runs : DebouncerStep(b)
  <2>1. UNCHANGED <<pc, job, QueuedJobs>>
    BY <1>3 DEF DebouncerStep, DebouncerWake, DebouncerSend
  <2>2. QED
    BY <2>1
<1>4. CASE \/ \E c \in Clients : StatusBegin(c) \/ StatusEnd(c)
           \/ \E m \in Mounts : MountChange(m)
           \/ UNCHANGED vars
  BY <1>4 DEF StatusBegin, StatusEnd, MountChange, vars
<1>5. QED
  BY <1>1, <1>2, <1>3, <1>4 DEF Next, Environment

\* A key enters the queue and the batch's list together; the batch closes on an
\* empty queue only.
LEMMA QueueOfBatchStep ==
    ASSUME TInv, QueuedAreWaiting, QueueBelongsToBatch, [Next]_vars
    PROVE  QueueBelongsToBatch'
<1> USE DEF QueuedAreWaiting, QueueBelongsToBatch, queueVars, batchVars
<1>1. CASE \/ \E T \in Targets : StartBackup(T)
           \/ \E r \in Runs, j \in Scheduled : CronFire(r, j)
  BY <1>1, StartMoves
<1>2. ASSUME NEW r \in Runs, RunStep(r)
      PROVE  QueueBelongsToBatch'
  <2>1. CASE CheckStorage(r)
    <3>1. UNCHANGED <<QueuedJobs, IsBatchActive, BatchEnqueuedJobs>>
      BY <2>1 DEF CheckStorage
    <3>2. QED
      BY <3>1
  <2>2. CASE Enqueue(r)
    <3> DEFINE h == Host(r)
    <3>1. /\ pc[r] = "enqueue" /\ QueuedJobs' = WithHost(QueuedJobs, h)
          /\ JoinBatch(h) \/ OpenBatch(r)
      BY <2>2 DEF Enqueue
    <3>2. /\ Range(QueuedJobs') = Range(QueuedJobs) \cup {h}
          /\ Contains(QueuedJobs, h) <=> h \in Range(QueuedJobs)
      BY <3>1, WithHostProperties
    <3>3. h \in Hosts /\ BatchEnqueuedJobs \in Seq(Hosts)
      BY <3>1, QueueTyped DEF TInv, TypeOK
    <3>4. /\ h \in Range(QueuedJobs) => QueuedJobs # <<>>
          /\ Range(<<>>) = {} /\ Range(<<h>>) = {h}
      BY <3>3, RangeSingleton
    <3> HIDE DEF h
    <3>5. CASE JoinBatch(h)
      <4>1. IsBatchActive /\ IsBatchActive' = TRUE
        BY <3>5 DEF JoinBatch
      <4>2. CASE h \in Range(QueuedJobs)
        <5>1. BatchEnqueuedJobs' = BatchEnqueuedJobs
          BY <3>2, <3>5, <4>2 DEF JoinBatch
        <5>2. QED
          BY <3>2, <3>4, <4>1, <4>2, <5>1
      <4>3. CASE h \notin Range(QueuedJobs)
        <5>1. BatchEnqueuedJobs' = Append(BatchEnqueuedJobs, h)
          BY <3>2, <3>5, <4>3 DEF JoinBatch
        <5>2. Range(BatchEnqueuedJobs') = Range(BatchEnqueuedJobs) \cup {h}
          BY <3>3, <5>1, RangeAppend
        <5>3. Range(QueuedJobs) \subseteq Range(BatchEnqueuedJobs)
          BY <3>4
        <5>4. QED
          BY <3>2, <4>1, <5>2, <5>3
      <4>4. QED
        BY <4>2, <4>3
    <3>6. CASE OpenBatch(r)
      <4>1. QueuedJobs = <<>> /\ IsBatchActive' = TRUE /\ BatchEnqueuedJobs' = <<h>>
        BY <3>6 DEF OpenBatch, h
      <4>2. QED
        BY <3>2, <3>4, <4>1
    <3>7. QED
      BY <3>1, <3>5, <3>6
  <2>3. CASE LockQueue(r)
    <3>1. UNCHANGED <<QueuedJobs, IsBatchActive, BatchEnqueuedJobs>>
      BY <2>3 DEF LockQueue
    <3>2. QED
      BY <3>1
  <2>4. CASE DequeueAndSetActive(r)
    <3>1. /\ QueuedJobs' = WithoutHost(QueuedJobs, Host(r))
          /\ UNCHANGED <<IsBatchActive, BatchEnqueuedJobs>>
      BY <2>4 DEF DequeueAndSetActive
    <3>2. QueuedJobs' # <<>> => QueuedJobs # <<>>
      BY <3>1, RemoveFirstFromEmpty DEF WithoutHost
    <3>3. QueuedJobs \in Seq(Hosts)
      BY DEF TInv, TypeOK
    <3>4. Range(QueuedJobs') \subseteq Range(QueuedJobs)
      BY <3>1, <3>3, RemoveFirstProperties DEF WithoutHost
    <3>5. QED
      BY <3>1, <3>2, <3>4
  <2>5. CASE MakeDirs(r)
    <3>1. UNCHANGED <<QueuedJobs, IsBatchActive, BatchEnqueuedJobs>>
      BY <2>5 DEF MakeDirs
    <3>2. QED
      BY <3>1
  <2>6. CASE CreateArchive(r)
    <3>1. UNCHANGED <<QueuedJobs, IsBatchActive, BatchEnqueuedJobs>>
      BY <2>6 DEF CreateArchive
    <3>2. QED
      BY <3>1
  <2>7. CASE \E p \in Percents : Progress(r, p)
    <3>1. UNCHANGED <<QueuedJobs, IsBatchActive, BatchEnqueuedJobs>>
      BY <2>7 DEF Progress
    <3>2. QED
      BY <3>1
  <2>8. CASE \E s \in Outcomes : FinishArchive(r, s)
    <3>1. UNCHANGED <<QueuedJobs, IsBatchActive, BatchEnqueuedJobs>>
      BY <2>8 DEF FinishArchive
    <3>2. QED
      BY <3>1
  <2>9. CASE CleanupOldBackups(r)
    <3>1. UNCHANGED <<QueuedJobs, IsBatchActive, BatchEnqueuedJobs>>
      BY <2>9 DEF CleanupOldBackups
    <3>2. QED
      BY <3>1
  <2>10. CASE ClearActive(r)
    <3>1. CASE BatchEnds
      BY <2>10, <3>1 DEF ClearActive, BatchEnds
    <3>2. CASE ~BatchEnds
      BY <2>10, <3>2 DEF ClearActive
    <3>3. QED
      BY <3>1, <3>2
  <2>11. CASE SendDigest(r)
    <3>1. UNCHANGED <<QueuedJobs, IsBatchActive, BatchEnqueuedJobs>>
      BY <2>11 DEF SendDigest
    <3>2. QED
      BY <3>1
  <2>12. CASE UnlockQueue(r)
    <3>1. UNCHANGED <<QueuedJobs, IsBatchActive, BatchEnqueuedJobs>>
      BY <2>12 DEF UnlockQueue
    <3>2. QED
      BY <3>1
  <2>13. QED
    BY <1>2, <2>1, <2>2, <2>3, <2>4, <2>5, <2>6, <2>7, <2>8, <2>9, <2>10, <2>11, <2>12
       DEF RunStep
<1>3. CASE \E b \in Runs : DebouncerStep(b)
  <2>1. UNCHANGED <<QueuedJobs, IsBatchActive, BatchEnqueuedJobs>>
    BY <1>3 DEF DebouncerStep, DebouncerWake, DebouncerSend
  <2>2. QED
    BY <2>1
<1>4. CASE \/ \E c \in Clients : StatusBegin(c) \/ StatusEnd(c)
           \/ \E m \in Mounts : MountChange(m)
           \/ UNCHANGED vars
  BY <1>4 DEF StatusBegin, StatusEnd, MountChange, vars
<1>5. QED
  BY <1>1, <1>2, <1>3, <1>4 DEF Next, Environment


-------------------------------------------------------------------------------
(* Batches and digests.                                                     *)

\* A run does not return to EnqueueJob.
LEMMA QueuedStays ==
    ASSUME TInv, [Next]_vars
    PROVE  \A q \in Runs : Queued(q) => Queued(q)'
<1> USE DEF TInv, TypeOK, PCs, Queued, Goto, runVars
<1>1. CASE \/ \E T \in Targets : StartBackup(T)
           \/ \E r \in Runs, j \in Scheduled : CronFire(r, j)
  BY <1>1, StartMoves
<1>2. ASSUME NEW r \in Runs, RunStep(r)
      PROVE  \A q \in Runs : Queued(q) => Queued(q)'
  <2>1. CASE CheckStorage(r)
    <3>1. pc[r] = "check" /\ \E l \in PCs : pc' = [pc EXCEPT ![r] = l]
      BY <2>1 DEF CheckStorage
    <3>2. QED
      BY <3>1
  <2>2. CASE Enqueue(r)
    BY <2>2 DEF Enqueue
  <2>3. CASE LockQueue(r)
    BY <2>3 DEF LockQueue
  <2>4. CASE DequeueAndSetActive(r)
    BY <2>4 DEF DequeueAndSetActive
  <2>5. CASE MakeDirs(r)
    <3>1. \E l \in {"archive", "clear"} : pc' = [pc EXCEPT ![r] = l]
      BY <2>5 DEF MakeDirs
    <3>2. QED
      BY <3>1
  <2>6. CASE CreateArchive(r)
    <3>1. pc' = pc \/ pc' = [pc EXCEPT ![r] = "fresh"]
      BY <2>6 DEF CreateArchive
    <3>2. QED
      BY <3>1
  <2>7. CASE \E p \in Percents : Progress(r, p)
    BY <2>7 DEF Progress
  <2>8. CASE \E s \in Outcomes : FinishArchive(r, s)
    BY <2>8 DEF FinishArchive
  <2>9. CASE CleanupOldBackups(r)
    BY <2>9 DEF CleanupOldBackups
  <2>10. CASE ClearActive(r)
    <3>1. \E l \in {"stats", "unlock"} : pc' = [pc EXCEPT ![r] = l]
      BY <2>10 DEF ClearActive
    <3>2. QED
      BY <3>1
  <2>11. CASE SendDigest(r)
    BY <2>11 DEF SendDigest
  <2>12. CASE UnlockQueue(r)
    BY <2>12 DEF UnlockQueue
  <2>13. QED
    BY <1>2, <2>1, <2>2, <2>3, <2>4, <2>5, <2>6, <2>7, <2>8, <2>9, <2>10, <2>11, <2>12
       DEF RunStep
<1>3. CASE \E b \in Runs : DebouncerStep(b)
  BY <1>3 DEF DebouncerStep, DebouncerWake, DebouncerSend
<1>4. CASE \/ \E c \in Clients : StatusBegin(c) \/ StatusEnd(c)
           \/ \E m \in Mounts : MountChange(m)
           \/ UNCHANGED vars
  BY <1>4 DEF StatusBegin, StatusEnd, MountChange, vars
<1>5. QED
  BY <1>1, <1>2, <1>3, <1>4 DEF Next, Environment

\* Steps that neither open a batch nor send a digest.
LEMMA QuietStep ==
    ASSUME BatchOpeners, OneDigestPerBatch,
           \A q \in Runs : Queued(q) => Queued(q)',
           UNCHANGED <<opener, digests>>,
           BatchOpen' => BatchOpen,
           \A q \in Runs : (pc[q] = "stats")' => ~IsBatchActive'
    PROVE  BatchOpeners' /\ OneDigestPerBatch'
<1>1. OneDigestPerBatch'
  BY DEF OneDigestPerBatch
<1>2. opener' \in Runs => Queued(opener)'
  BY DEF BatchOpeners
<1>3. ASSUME NEW i \in DOMAIN digests'
      PROVE  digests'[i].batch \in Runs /\ Queued(digests[i].batch)'
  BY <1>3 DEF BatchOpeners
<1>4. BatchOpen' => opener' \in Runs /\ \A i \in DOMAIN digests' : digests'[i].batch # opener'
  BY DEF BatchOpeners
<1>5. QED
  BY <1>1, <1>2, <1>3, <1>4 DEF BatchOpeners

\* A batch is opened by a run that never opened one, and only the run that owns
\* StateMutex sends the digest of the batch it closed.
LEMMA BatchesStep ==
    ASSUME TInv, LockOwners, BatchOpeners, OneDigestPerBatch, [Next]_vars
    PROVE  BatchOpeners' /\ OneDigestPerBatch'
<1> USE DEF TInv, TypeOK, Goto, batchVars, noticeVars
<1>0. \A q \in Runs : Queued(q) => Queued(q)'
  BY QueuedStays
<1>1. CASE \/ \E T \in Targets : StartBackup(T)
           \/ \E r \in Runs, j \in Scheduled : CronFire(r, j)
  <2>1. UNCHANGED <<opener, digests, IsBatchActive>>
    BY <1>1, StartMoves
  <2>2. \A q \in Runs : (pc[q] = "stats")' => pc[q] = "stats"
    BY <1>1, StartMoves
  <2>3. BatchOpen' => BatchOpen
    BY <2>1, <2>2 DEF BatchOpen
  <2>4. QED
    BY <1>0, <2>1, <2>2, <2>3, QuietStep DEF BatchOpeners
<1>2. ASSUME NEW r \in Runs, RunStep(r)
      PROVE  BatchOpeners' /\ OneDigestPerBatch'
  <2>1. CASE CheckStorage(r)
    <3>1. UNCHANGED <<opener, digests, IsBatchActive>>
      BY <2>1 DEF CheckStorage
    <3>2. \E l \in {"done", "enqueue"} : pc' = [pc EXCEPT ![r] = l]
      BY <2>1 DEF CheckStorage
    <3>3. \A q \in Runs : (pc[q] = "stats")' => pc[q] = "stats"
      BY <3>2
    <3>4. BatchOpen' => BatchOpen
      BY <3>1, <3>3 DEF BatchOpen
    <3>5. QED
      BY <1>0, <3>1, <3>3, <3>4, QuietStep DEF BatchOpeners
  <2>2. CASE Enqueue(r)
    <3>1. CASE JoinBatch(Host(r))
      <4>1. UNCHANGED <<opener, digests, IsBatchActive>>
        BY <2>2, <3>1 DEF Enqueue, JoinBatch
      <4>2. \A q \in Runs : (pc[q] = "stats")' => pc[q] = "stats"
        BY <2>2 DEF Enqueue
      <4>3. BatchOpen' => BatchOpen
        BY <4>1, <4>2 DEF BatchOpen
      <4>4. QED
        BY <1>0, <4>1, <4>2, <4>3, QuietStep DEF BatchOpeners
    <3>2. CASE OpenBatch(r)
      <4>1. opener' = r /\ UNCHANGED digests
        BY <2>2, <3>2 DEF Enqueue, OpenBatch
      <4>2. pc' = [pc EXCEPT ![r] = "lock"] /\ pc[r] = "enqueue" /\ stateLock = None
        BY <2>2 DEF Enqueue
      <4>3. Queued(r)' /\ ~Queued(r)
        BY <4>2 DEF Queued
      <4>4. \A q \in Runs : (pc[q] # "stats")'
        BY <4>2, ConstantsAssumption DEF LockOwners
      <4>5. \A i \in DOMAIN digests : /\ digests[i].batch \in Runs /\ Queued(digests[i].batch)
                                      /\ digests[i].batch # r
        BY <4>3 DEF BatchOpeners
      <4>6. \A i \in DOMAIN digests' : digests'[i].batch \in Runs /\ Queued(digests[i].batch)'
        BY <1>0, <4>1, <4>5
      <4>7. BatchOpeners'
        BY <4>1, <4>3, <4>4, <4>5, <4>6 DEF BatchOpeners
      <4>8. OneDigestPerBatch'
        BY <4>1 DEF OneDigestPerBatch
      <4>9. QED
        BY <4>7, <4>8
    <3>3. QED
      BY <2>2, <3>1, <3>2 DEF Enqueue
  <2>3. CASE LockQueue(r)
    <3>1. UNCHANGED <<opener, digests, IsBatchActive>>
      BY <2>3 DEF LockQueue
    <3>2. \A q \in Runs : (pc[q] = "stats")' => pc[q] = "stats"
      BY <2>3 DEF LockQueue
    <3>3. BatchOpen' => BatchOpen
      BY <3>1, <3>2 DEF BatchOpen
    <3>4. QED
      BY <1>0, <3>1, <3>2, <3>3, QuietStep DEF BatchOpeners
  <2>4. CASE DequeueAndSetActive(r)
    <3>1. UNCHANGED <<opener, digests, IsBatchActive>>
      BY <2>4 DEF DequeueAndSetActive
    <3>2. \A q \in Runs : (pc[q] = "stats")' => pc[q] = "stats"
      BY <2>4 DEF DequeueAndSetActive
    <3>3. BatchOpen' => BatchOpen
      BY <3>1, <3>2 DEF BatchOpen
    <3>4. QED
      BY <1>0, <3>1, <3>2, <3>3, QuietStep DEF BatchOpeners
  <2>5. CASE MakeDirs(r)
    <3>1. UNCHANGED <<opener, digests, IsBatchActive>>
      BY <2>5 DEF MakeDirs
    <3>2. \E l \in {"archive", "clear"} : pc' = [pc EXCEPT ![r] = l]
      BY <2>5 DEF MakeDirs
    <3>3. \A q \in Runs : (pc[q] = "stats")' => pc[q] = "stats"
      BY <3>2
    <3>4. BatchOpen' => BatchOpen
      BY <3>1, <3>3 DEF BatchOpen
    <3>5. QED
      BY <1>0, <3>1, <3>3, <3>4, QuietStep DEF BatchOpeners
  <2>6. CASE CreateArchive(r)
    <3>1. UNCHANGED <<opener, digests, IsBatchActive>>
      BY <2>6 DEF CreateArchive
    <3>2. \A q \in Runs : (pc[q] = "stats")' => pc[q] = "stats"
      BY <2>6 DEF CreateArchive
    <3>3. BatchOpen' => BatchOpen
      BY <3>1, <3>2 DEF BatchOpen
    <3>4. QED
      BY <1>0, <3>1, <3>2, <3>3, QuietStep DEF BatchOpeners
  <2>7. CASE \E p \in Percents : Progress(r, p)
    <3>1. UNCHANGED <<opener, digests, IsBatchActive>>
      BY <2>7 DEF Progress
    <3>2. \A q \in Runs : (pc[q] = "stats")' => pc[q] = "stats"
      BY <2>7 DEF Progress
    <3>3. BatchOpen' => BatchOpen
      BY <3>1, <3>2 DEF BatchOpen
    <3>4. QED
      BY <1>0, <3>1, <3>2, <3>3, QuietStep DEF BatchOpeners
  <2>8. CASE \E s \in Outcomes : FinishArchive(r, s)
    <3>1. UNCHANGED <<opener, digests, IsBatchActive>>
      BY <2>8 DEF FinishArchive
    <3>2. \A q \in Runs : (pc[q] = "stats")' => pc[q] = "stats"
      BY <2>8 DEF FinishArchive
    <3>3. BatchOpen' => BatchOpen
      BY <3>1, <3>2 DEF BatchOpen
    <3>4. QED
      BY <1>0, <3>1, <3>2, <3>3, QuietStep DEF BatchOpeners
  <2>9. CASE CleanupOldBackups(r)
    <3>1. UNCHANGED <<opener, digests, IsBatchActive>>
      BY <2>9 DEF CleanupOldBackups
    <3>2. \A q \in Runs : (pc[q] = "stats")' => pc[q] = "stats"
      BY <2>9 DEF CleanupOldBackups
    <3>3. BatchOpen' => BatchOpen
      BY <3>1, <3>2 DEF BatchOpen
    <3>4. QED
      BY <1>0, <3>1, <3>2, <3>3, QuietStep DEF BatchOpeners
  <2>10. CASE ClearActive(r)
    <3>1. CASE BatchEnds
      <4>1. UNCHANGED <<opener, digests>> /\ IsBatchActive /\ IsBatchActive' = FALSE
        BY <2>10, <3>1 DEF ClearActive, BatchEnds
      <4>2. QED
        BY <1>0, <4>1, QuietStep DEF BatchOpen
    <3>2. CASE ~BatchEnds
      <4>1. UNCHANGED <<opener, digests, IsBatchActive>> /\ pc' = [pc EXCEPT ![r] = "unlock"]
        BY <2>10, <3>2 DEF ClearActive
      <4>2. \A q \in Runs : (pc[q] = "stats")' => pc[q] = "stats"
        BY <4>1
      <4>3. BatchOpen' => BatchOpen
        BY <4>1, <4>2 DEF BatchOpen
      <4>4. QED
        BY <1>0, <4>1, <4>2, <4>3, QuietStep DEF BatchOpeners
    <3>3. QED
      BY <3>1, <3>2
  <2>11. CASE SendDigest(r)
    <3> DEFINE d == [batch |-> opener, results |-> BatchResults,
                     title |-> DigestTitle(BatchResults), color |-> DigestColor(BatchResults)]
    <3>1. /\ pc[r] = "stats" /\ pc' = [pc EXCEPT ![r] = "unlock"]
          /\ UNCHANGED <<opener, IsBatchActive>>
          /\ digests' = Append(digests, d) /\ d.batch = opener
      BY <2>11 DEF SendDigest
    <3> HIDE DEF d
    <3>2. stateLock = r /\ ~IsBatchActive /\ \A q \in Runs : pc[q] = "stats" => q = r
      BY <3>1 DEF LockOwners, BatchOpeners
    <3>3. opener \in Runs /\ \A i \in DOMAIN digests : digests[i].batch # opener
      BY <3>1 DEF BatchOpeners, BatchOpen
    <3>4. ~BatchOpen' /\ \A q \in Runs : (pc[q] # "stats")'
      BY <3>1, <3>2 DEF BatchOpen
    <3>5. /\ DOMAIN digests = 1 .. Len(digests) /\ Len(digests) \in Nat
          /\ DOMAIN digests' = 1 .. (Len(digests) + 1)
          /\ \A i \in 1 .. Len(digests) : digests'[i] = digests[i]
          /\ digests'[Len(digests) + 1] = d
      <4>1. digests \in Seq(Digest)
        OBVIOUS
      <4>2. QED
        BY <3>1, <4>1
    <3>6. \A i \in DOMAIN digests' : digests'[i].batch \in Runs /\ Queued(digests'[i].batch)
      <4>1. \A i \in 1 .. Len(digests) : digests[i].batch \in Runs /\ Queued(digests[i].batch)
        BY <3>5 DEF BatchOpeners
      <4>2. Queued(opener)
        BY <3>3 DEF BatchOpeners
      <4>3. QED
        BY <3>1, <3>3, <3>5, <4>1, <4>2
    <3>7. BatchOpeners'
      <4>1. opener' \in Runs => Queued(opener)'
        BY <1>0, <3>1 DEF BatchOpeners
      <4>2. \A i \in DOMAIN digests' : digests'[i].batch \in Runs /\ Queued(digests[i].batch)'
        BY <1>0, <3>6
      <4>3. QED
        BY <3>4, <4>1, <4>2 DEF BatchOpeners
    <3>8. OneDigestPerBatch'
      <4>1. \A i, j \in 1 .. Len(digests) : digests[i].batch = digests[j].batch => i = j
        BY <3>5 DEF OneDigestPerBatch
      <4>2. \A i \in 1 .. Len(digests) : digests[i].batch # opener
        BY <3>3, <3>5
      <4>3. QED
        BY <3>1, <3>5, <4>1, <4>2 DEF OneDigestPerBatch
    <3>9. QED
      BY <3>7, <3>8
  <2>12. CASE UnlockQueue(r)
    <3>1. UNCHANGED <<opener, digests, IsBatchActive>>
      BY <2>12 DEF UnlockQueue
    <3>2. \A q \in Runs : (pc[q] = "stats")' => pc[q] = "stats"
      BY <2>12 DEF UnlockQueue
    <3>3. BatchOpen' => BatchOpen
      BY <3>1, <3>2 DEF BatchOpen
    <3>4. QED
      BY <1>0, <3>1, <3>2, <3>3, QuietStep DEF BatchOpeners
  <2>13. QED
    BY <1>2, <2>1, <2>2, <2>3, <2>4, <2>5, <2>6, <2>7, <2>8, <2>9, <2>10, <2>11, <2>12
       DEF RunStep
<1>3. CASE \E b \in Runs : DebouncerStep(b)
  <2>1. UNCHANGED <<pc, opener, digests, IsBatchActive>>
    BY <1>3 DEF DebouncerStep, DebouncerWake, DebouncerSend, runVars
  <2>2. BatchOpen' => BatchOpen
    BY <2>1 DEF BatchOpen
  <2>3. QED
    BY <1>0, <2>1, <2>2, QuietStep DEF BatchOpeners
<1>4. CASE \/ \E c \in Clients : StatusBegin(c) \/ StatusEnd(c)
           \/ \E m \in Mounts : MountChange(m)
           \/ UNCHANGED vars
  <2>1. UNCHANGED <<pc, opener, digests, IsBatchActive>>
    BY <1>4 DEF StatusBegin, StatusEnd, MountChange, vars, runVars
  <2>2. BatchOpen' => BatchOpen
    BY <2>1 DEF BatchOpen
  <2>3. QED
    BY <1>0, <2>1, <2>2, QuietStep DEF BatchOpeners
<1>5. QED
  BY <1>1, <1>2, <1>3, <1>4 DEF Next, Environment


-------------------------------------------------------------------------------
(* The theorems.                                                            *)

LEMMA InitSafe == Init => SafetyInv
<1> SUFFICES ASSUME Init PROVE SafetyInv
  OBVIOUS
<1> USE ConstantsAssumption DEF Init
<1>1. LockOwners
  BY DEF LockOwners, Active
<1>2. ActiveJobIsRunning
  BY DEF ActiveJobIsRunning, Active
<1>3. Range(QueuedJobs) = {} /\ IsInjective(QueuedJobs)
  BY RangeOfEmpty
<1>4. QueuedAreWaiting /\ QueueBelongsToBatch
  BY <1>3 DEF QueuedAreWaiting, QueueBelongsToBatch
<1>5. BatchOpeners /\ OneDigestPerBatch
  BY DEF BatchOpeners, OneDigestPerBatch, BatchOpen
<1>6. QED
  BY <1>1, <1>2, <1>4, <1>5 DEF SafetyInv

LEMMA TypeStep ==
    ASSUME TInv, QueuedAreWaiting, [Next]_vars
    PROVE  TInv'
<1>1. ASSUME NEW r \in Runs, RunStep(r)
      PROVE  TInv'
  BY <1>1, MoveTyped, EnqueueTyped, DequeueTyped, StreamTyped, DigestTyped
     DEF RunStep, QueuedAreWaiting
<1>2. QED
  BY <1>1, StartTyped, CronTyped, DebouncerTyped, OthersTyped DEF Next, Environment

LEMMA SafetyStep ==
    ASSUME TInv, SafetyInv, [Next]_vars
    PROVE  SafetyInv'
BY LockOwnersStep, ActiveJobStep, QueuedStep, QueueOfBatchStep, BatchesStep DEF SafetyInv

\* The variables keep their types, whatever the number of runs, jobs and queue
\* keys: the queue never holds anything but keys, and the percentage of the
\* active job stays within 0..100.
THEOREM TypeCorrect == Spec => []TypeOK
<1>1. Init => TInv /\ SafetyInv
  BY InitTyped, InitSafe
<1>2. TInv /\ SafetyInv /\ [Next]_vars => TInv' /\ SafetyInv'
  BY TypeStep, SafetyStep DEF SafetyInv
<1>3. TInv => TypeOK
  BY DEF TInv
<1>4. QED
  BY <1>1, <1>2, <1>3, PTL DEF Spec

\* The invariant of the queue holds for any number of runs: the two mutexes are
\* owned where the code says, and the six conjuncts support each other.
THEOREM Safety == Spec => []SafetyInv
<1>1. Init => TInv /\ SafetyInv
  BY InitTyped, InitSafe
<1>2. TInv /\ SafetyInv /\ [Next]_vars => TInv' /\ SafetyInv'
  BY TypeStep, SafetyStep DEF SafetyInv
<1>3. QED
  BY <1>1, <1>2, PTL DEF Spec

\* GlobalBackupQueue serialises the executions, and what GetStatus shows as
\* active is the execution under way.
THEOREM ActiveJobCorrect == Spec => []ActiveJobIsRunning
<1>1. SafetyInv => ActiveJobIsRunning
  BY DEF SafetyInv
<1>2. QED
  BY <1>1, Safety, PTL

\* QueuedJobs has no duplicate and no phantom entry: every key in it will be
\* removed by a run that waits, also when runs of one key overlap.
THEOREM NoPhantomEntries == Spec => []QueuedAreWaiting
<1>1. SafetyInv => QueuedAreWaiting
  BY DEF SafetyInv
<1>2. QED
  BY <1>1, Safety, PTL

\* No batch closes while a run it announced is queued.
THEOREM QueueIsOfOpenBatch == Spec => []QueueBelongsToBatch
<1>1. SafetyInv => QueueBelongsToBatch
  BY DEF SafetyInv
<1>2. QED
  BY <1>1, Safety, PTL

\* No batch is digested twice.
THEOREM DigestedOnce == Spec => []OneDigestPerBatch
<1>1. SafetyInv => OneDigestPerBatch
  BY DEF SafetyInv
<1>2. QED
  BY <1>1, Safety, PTL

-------------------------------------------------------------------------------
(* The refinement of BatchLedger: as long as the environment starts no run  *)
(* while another of its queue key is in flight.                             *)

Inv == TInv /\ SafetyInv /\ LedgerInv

\* A step of a run moves that run only, which is in flight, and keeps its job.
LEMMA RunMoves ==
    ASSUME TInv, NEW r \in Runs, RunStep(r)
    PROVE  /\ UNCHANGED job
           /\ InFlight(r)
           /\ \E l \in PCs \ {"idle"} : pc' = [pc EXCEPT ![r] = l]
<1> USE DEF TInv, TypeOK, PCs, InFlight, Goto
<1>1. CASE CheckStorage(r)
  <2>1. \E l \in {"done", "enqueue"} : pc' = [pc EXCEPT ![r] = l]
    BY <1>1 DEF CheckStorage
  <2>2. QED
    BY <1>1, <2>1 DEF CheckStorage
<1>2. CASE MakeDirs(r)
  <2>1. \E l \in {"archive", "clear"} : pc' = [pc EXCEPT ![r] = l]
    BY <1>2 DEF MakeDirs
  <2>2. QED
    BY <1>2, <2>1 DEF MakeDirs
<1>3. CASE CreateArchive(r)
  <2>1. \E l \in {"archive", "fresh"} : pc' = [pc EXCEPT ![r] = l]
    BY <1>3 DEF CreateArchive
  <2>2. QED
    BY <1>3, <2>1 DEF CreateArchive
<1>4. CASE ClearActive(r)
  <2>1. \E l \in {"stats", "unlock"} : pc' = [pc EXCEPT ![r] = l]
    BY <1>4 DEF ClearActive
  <2>2. QED
    BY <1>4, <2>1 DEF ClearActive
<1>5. CASE Enqueue(r)
  BY <1>5 DEF Enqueue
<1>6. CASE LockQueue(r) \/ DequeueAndSetActive(r) \/ CleanupOldBackups(r) \/ UnlockQueue(r)
  BY <1>6 DEF LockQueue, DequeueAndSetActive, CleanupOldBackups, UnlockQueue
<1>7. CASE \E p \in Percents : Progress(r, p)
  BY <1>7 DEF Progress
<1>8. CASE \E s \in Outcomes : FinishArchive(r, s)
  BY <1>8 DEF FinishArchive
<1>9. CASE SendDigest(r)
  BY <1>9 DEF SendDigest
<1>10. QED
  BY <1>1, <1>2, <1>3, <1>4, <1>5, <1>6, <1>7, <1>8, <1>9 DEF RunStep

-------------------------------------------------------------------------------
(* The invariant.                                                           *)

\* The runs a request starts have keys of their own.
LEMMA StartKeys ==
    ASSUME TInv, OneRunPerHost, MayOverlap = FALSE, NEW T \in Targets, StartBackup(T)
    PROVE  OneRunPerHost'
<1>1. PICK f \in Injection(T, {r \in Runs : pc[r] = "idle"}) :
        LET started == {f[j] : j \in T}
            jobOf(r) == CHOOSE j \in T : f[j] = r
        IN  /\ pc'   = [r \in Runs |-> IF r \in started THEN "check" ELSE pc[r]]
            /\ job'  = [r \in Runs |-> IF r \in started THEN jobOf(r) ELSE job[r]]
  BY DEF StartBackup
<1> DEFINE started == {f[j] : j \in T}
           jobOf(r) == CHOOSE j \in T : f[j] = r
<1>2. \A r \in started : jobOf(r) \in T /\ f[jobOf(r)] = r
  OBVIOUS
<1>3. /\ pc'   = [r \in Runs |-> IF r \in started THEN "check" ELSE pc[r]]
      /\ job'  = [r \in Runs |-> IF r \in started THEN jobOf(r) ELSE job[r]]
  BY <1>1
<1> HIDE DEF started, jobOf
<1>4. /\ \A j \in T, r \in Runs : InFlight(r) => Host(r) # HostOf[j]
      /\ \A i, j \in T : HostOf[i] = HostOf[j] => i = j
  BY DEF StartBackup, MayStart
<1>5. SUFFICES ASSUME NEW r \in Runs, NEW s \in Runs,
                      InFlight(r)', InFlight(s)', Host(r)' = Host(s)'
               PROVE  r = s
  BY DEF OneRunPerHost
<1>6. CASE r \in started /\ s \in started
  <2>1. jobOf(r) = jobOf(s)
    BY <1>2, <1>3, <1>4, <1>5, <1>6 DEF Host
  <2>2. QED
    BY <1>2, <1>6, <2>1
<1>7. CASE r \in started /\ s \notin started
  BY <1>2, <1>3, <1>4, <1>5, <1>7 DEF Host, InFlight
<1>8. CASE r \notin started /\ s \in started
  BY <1>2, <1>3, <1>4, <1>5, <1>8 DEF Host, InFlight
<1>9. CASE r \notin started /\ s \notin started
  BY <1>3, <1>5, <1>9 DEF Host, InFlight, OneRunPerHost
<1>10. QED
  BY <1>6, <1>7, <1>8, <1>9

\* Only a run that starts brings a key, and the environment has checked it.
LEMMA OneRunPerHostStep ==
    ASSUME TInv, OneRunPerHost, MayOverlap = FALSE, [Next]_vars
    PROVE  OneRunPerHost'
<1>1. CASE \E T \in Targets : StartBackup(T)
  BY <1>1, StartKeys
<1>2. CASE \E r \in Runs, j \in Scheduled : CronFire(r, j)
  <2>1. PICK r \in Runs, j \in Scheduled : CronFire(r, j)
    BY <1>2
  <2>2. \A q \in Runs : InFlight(q) => Host(q) # HostOf[j]
    BY <2>1 DEF CronFire, MayStart
  <2>3. pc' = [pc EXCEPT ![r] = "check"] /\ job' = [job EXCEPT ![r] = j]
    BY <2>1 DEF CronFire, Goto
  <2>4. QED
    BY <2>2, <2>3 DEF OneRunPerHost, InFlight, Host, TInv, TypeOK
<1>3. ASSUME NEW r \in Runs, RunStep(r)
      PROVE  OneRunPerHost'
  <2>1. /\ UNCHANGED job /\ InFlight(r)
        /\ \E l \in PCs : pc' = [pc EXCEPT ![r] = l]
    BY <1>3, RunMoves
  <2>2. \A q \in Runs : InFlight(q)' => InFlight(q)
    BY <2>1 DEF InFlight, TInv, TypeOK
  <2>3. QED
    BY <2>1, <2>2 DEF OneRunPerHost, Host
<1>4. CASE \/ \E b \in Runs : DebouncerStep(b)
           \/ \E c \in Clients : StatusBegin(c) \/ StatusEnd(c)
           \/ \E m \in Mounts : MountChange(m)
           \/ UNCHANGED vars
  <2>1. UNCHANGED <<pc, job>>
    BY <1>4 DEF DebouncerStep, DebouncerWake, DebouncerSend, StatusBegin, StatusEnd,
                MountChange, vars, runVars
  <2>2. QED
    BY <2>1 DEF OneRunPerHost, Host, InFlight
<1>5. QED
  BY <1>1, <1>2, <1>3, <1>4 DEF Next, Environment

\* Steps that neither add a run to the queue or the execution nor touch the lists.
LEMMA KeysKept ==
    ASSUME WaitingAreQueued, BatchCoversRuns,
           UNCHANGED <<QueuedJobs, IsBatchActive, BatchEnqueuedJobs>>,
           \A q \in Runs : Waiting(q)' => Waiting(q),
           \A q \in Runs : (Waiting(q) \/ Active(q))' =>
                              (Waiting(q) \/ Active(q)) /\ job'[q] = job[q]
    PROVE  WaitingAreQueued' /\ BatchCoversRuns'
<1>1. WaitingAreQueued'
  BY DEF WaitingAreQueued, Host
<1>2. BatchCoversRuns'
  BY DEF BatchCoversRuns, Host
<1>3. QED
  BY <1>1, <1>2

LEMMA EnqueueKeys ==
    ASSUME TInv, SafetyInv, WaitingAreQueued, BatchCoversRuns, NEW r \in Runs, Enqueue(r)
    PROVE  WaitingAreQueued' /\ BatchCoversRuns'
<1> USE DEF TInv, TypeOK
<1>1. /\ pc' = [pc EXCEPT ![r] = "lock"] /\ pc[r] = "enqueue"
      /\ UNCHANGED job
      /\ JoinBatch(Host(r)) \/ OpenBatch(r)
  BY DEF Enqueue, Goto
<1>2. /\ Range(QueuedJobs') = Range(QueuedJobs) \cup {Host(r)}
      /\ Contains(QueuedJobs, Host(r)) <=> Host(r) \in Range(QueuedJobs)
  BY <1>1, WithHostProperties DEF Enqueue, SafetyInv, QueuedAreWaiting
<1>3. WaitingAreQueued'
  BY <1>1, <1>2 DEF WaitingAreQueued, Waiting, Host
<1>4. CASE JoinBatch(Host(r))
  <2>1. /\ IsBatchActive /\ UNCHANGED IsBatchActive
        /\ BatchEnqueuedJobs' = IF Contains(QueuedJobs, Host(r)) THEN BatchEnqueuedJobs
                                ELSE Append(BatchEnqueuedJobs, Host(r))
    BY <1>4 DEF JoinBatch
  <2>2. Range(BatchEnqueuedJobs) \cup {Host(r)} \subseteq Range(BatchEnqueuedJobs')
    <3>1. CASE Contains(QueuedJobs, Host(r))
      <4>1. Host(r) \in Range(QueuedJobs) /\ QueuedJobs # <<>>
        BY <1>2, <3>1, RangeOfEmpty
      <4>2. QED
        BY <2>1, <3>1, <4>1 DEF SafetyInv, QueueBelongsToBatch
    <3>2. CASE ~Contains(QueuedJobs, Host(r))
      <4>1. Host(r) \in Hosts /\ BatchEnqueuedJobs \in Seq(Hosts)
        BY <1>1, QueueTyped
      <4>2. QED
        BY <2>1, <3>2, <4>1, RangeAppend
    <3>3. QED
      BY <3>1, <3>2
  <2>3. QED
    BY <1>1, <1>3, <2>1, <2>2 DEF BatchCoversRuns, Waiting, Active, Host
<1>5. CASE OpenBatch(r)
  <2>1. ~IsBatchActive /\ IsBatchActive' /\ BatchEnqueuedJobs' = <<Host(r)>>
    BY <1>5 DEF OpenBatch
  <2>2. Range(BatchEnqueuedJobs') = {Host(r)}
    BY <2>1, <1>1, QueueTyped, RangeSingleton
  <2>3. \A q \in Runs : (Waiting(q) \/ Active(q))' => q = r
    BY <1>1, <2>1 DEF BatchCoversRuns, Waiting, Active
  <2>4. QED
    BY <1>1, <1>3, <2>1, <2>2, <2>3 DEF BatchCoversRuns, Host
<1>6. QED
  BY <1>1, <1>4, <1>5

\* The run that dequeues removes its own key, which no other waiting run has.
LEMMA DequeueKeys ==
    ASSUME TInv, SafetyInv, OneRunPerHost, WaitingAreQueued, BatchCoversRuns,
           NEW r \in Runs, DequeueAndSetActive(r)
    PROVE  WaitingAreQueued' /\ BatchCoversRuns'
<1> USE DEF TInv, TypeOK
<1>1. /\ pc' = [pc EXCEPT ![r] = "mkdir"] /\ pc[r] = "dequeue"
      /\ UNCHANGED <<job, IsBatchActive, BatchEnqueuedJobs>>
  BY DEF DequeueAndSetActive, Goto, batchVars
<1>2. QueuedJobs \in Seq(Hosts) /\ IsInjective(QueuedJobs)
  BY DEF SafetyInv, QueuedAreWaiting
<1>3. Range(QueuedJobs') = Range(QueuedJobs) \ {Host(r)}
  BY <1>2, RemoveFirstProperties DEF DequeueAndSetActive, WithoutHost
<1>4. \A q \in Runs : Waiting(q)' => Waiting(q) /\ q # r /\ Host(q) # Host(r)
  BY <1>1 DEF Waiting, OneRunPerHost, InFlight
<1>5. WaitingAreQueued'
  BY <1>1, <1>3, <1>4 DEF WaitingAreQueued, Host
<1>6. \A q \in Runs : (Waiting(q) \/ Active(q))' => Waiting(q) \/ Active(q)
  BY <1>1 DEF Waiting, Active
<1>7. QED
  BY <1>1, <1>5, <1>6 DEF BatchCoversRuns, Host

\* The run that leaves an empty queue behind is the only one the batch has left.
LEMMA ClearKeys ==
    ASSUME TInv, SafetyInv, WaitingAreQueued, BatchCoversRuns,
           NEW r \in Runs, ClearActive(r)
    PROVE  WaitingAreQueued' /\ BatchCoversRuns'
<1> USE DEF TInv, TypeOK
<1>1. PICK l \in {"stats", "unlock"} : pc' = [pc EXCEPT ![r] = l]
  BY DEF ClearActive, Goto
<1>2. pc[r] = "clear" /\ UNCHANGED <<job, QueuedJobs, BatchEnqueuedJobs>>
  BY DEF ClearActive
<1>3. \A q \in Runs : /\ Waiting(q)' => Waiting(q)
                      /\ (Waiting(q) \/ Active(q))' => (Waiting(q) \/ Active(q)) /\ q # r
  BY <1>1, <1>2 DEF Waiting, Active
<1>4. CASE BatchEnds
  <2>1. \A q \in Runs : ~Waiting(q)
    BY <1>4, RangeOfEmpty DEF BatchEnds, WaitingAreQueued
  <2>2. \A q \in Runs : Active(q) => q = r
    BY <1>2 DEF SafetyInv, ActiveJobIsRunning, Active
  <2>3. \A q \in Runs : ~(Waiting(q) \/ Active(q))'
    BY <1>3, <2>1, <2>2
  <2>4. QED
    BY <2>3 DEF WaitingAreQueued, BatchCoversRuns
<1>5. CASE ~BatchEnds
  <2>1. UNCHANGED IsBatchActive
    BY <1>5 DEF ClearActive
  <2>2. QED
    BY <1>2, <1>3, <2>1, KeysKept
<1>6. QED
  BY <1>4, <1>5

LEMMA KeysStep ==
    ASSUME TInv, SafetyInv, OneRunPerHost, WaitingAreQueued, BatchCoversRuns, [Next]_vars
    PROVE  WaitingAreQueued' /\ BatchCoversRuns'
<1> USE DEF TInv, TypeOK
<1>1. CASE \/ \E T \in Targets : StartBackup(T)
           \/ \E r \in Runs, j \in Scheduled : CronFire(r, j)
  <2>1. UNCHANGED <<QueuedJobs, IsBatchActive, BatchEnqueuedJobs>>
    BY <1>1, StartMoves DEF queueVars, batchVars
  <2>2. \A q \in Runs : Waiting(q)' \/ Active(q)' => pc'[q] = pc[q] /\ job'[q] = job[q]
    BY <1>1, StartMoves DEF Waiting, Active
  <2>3. QED
    BY <2>1, <2>2, KeysKept DEF Waiting, Active
<1>2. ASSUME NEW r \in Runs, RunStep(r)
      PROVE  WaitingAreQueued' /\ BatchCoversRuns'
  <2>1. CASE Enqueue(r)
    BY <2>1, EnqueueKeys
  <2>2. CASE DequeueAndSetActive(r)
    BY <2>2, DequeueKeys
  <2>3. CASE ClearActive(r)
    BY <2>3, ClearKeys
  <2>4. CASE CheckStorage(r)
    <3>1. PICK l \in {"done", "enqueue"} : pc' = [pc EXCEPT ![r] = l]
      BY <2>4 DEF CheckStorage, Goto
    <3>2. UNCHANGED <<job, QueuedJobs, IsBatchActive, BatchEnqueuedJobs>>
      BY <2>4 DEF CheckStorage, queueVars, batchVars
    <3>3. QED
      BY <3>1, <3>2, KeysKept DEF Waiting, Active
  <2>5. CASE LockQueue(r)
    <3>1. pc[r] = "lock" /\ pc' = [pc EXCEPT ![r] = "dequeue"]
      BY <2>5 DEF LockQueue, Goto
    <3>2. UNCHANGED <<job, QueuedJobs, IsBatchActive, BatchEnqueuedJobs>>
      BY <2>5 DEF LockQueue, queueVars, batchVars
    <3>3. QED
      BY <3>1, <3>2, KeysKept DEF Waiting, Active
  <2>6. CASE MakeDirs(r)
    <3>1. PICK l \in {"archive", "clear"} : pc' = [pc EXCEPT ![r] = l]
      BY <2>6 DEF MakeDirs, Goto
    <3>2. pc[r] = "mkdir" /\ UNCHANGED <<job, QueuedJobs, IsBatchActive, BatchEnqueuedJobs>>
      BY <2>6 DEF MakeDirs, queueVars, batchVars
    <3>3. QED
      BY <3>1, <3>2, KeysKept DEF Waiting, Active
  <2>7. CASE CreateArchive(r)
    <3>1. PICK l \in {"archive", "fresh"} : pc' = [pc EXCEPT ![r] = l]
      BY <2>7 DEF CreateArchive, Goto
    <3>2. pc[r] = "archive" /\ UNCHANGED <<job, QueuedJobs, IsBatchActive, BatchEnqueuedJobs>>
      BY <2>7 DEF CreateArchive, queueVars, batchVars
    <3>3. QED
      BY <3>1, <3>2, KeysKept DEF Waiting, Active
  <2>8. CASE \E p \in Percents : Progress(r, p)
    <3>1. pc[r] \in {"fresh", "stream"} /\ pc' = [pc EXCEPT ![r] = "stream"]
      BY <2>8 DEF Progress, Goto
    <3>2. UNCHANGED <<job, QueuedJobs, IsBatchActive, BatchEnqueuedJobs>>
      BY <2>8 DEF Progress, batchVars
    <3>3. QED
      BY <3>1, <3>2, KeysKept DEF Waiting, Active
  <2>9. CASE \E s \in Outcomes : FinishArchive(r, s)
    <3>1. pc[r] \in {"fresh", "stream"} /\ pc' = [pc EXCEPT ![r] = "archive"]
      BY <2>9 DEF FinishArchive, Goto
    <3>2. UNCHANGED <<job, QueuedJobs, IsBatchActive, BatchEnqueuedJobs>>
      BY <2>9 DEF FinishArchive, queueVars
    <3>3. QED
      BY <3>1, <3>2, KeysKept DEF Waiting, Active
  <2>10. CASE CleanupOldBackups(r)
    <3>1. pc[r] = "archive" /\ pc' = [pc EXCEPT ![r] = "clear"]
      BY <2>10 DEF CleanupOldBackups, Goto
    <3>2. UNCHANGED <<job, QueuedJobs, IsBatchActive, BatchEnqueuedJobs>>
      BY <2>10 DEF CleanupOldBackups, queueVars, batchVars
    <3>3. QED
      BY <3>1, <3>2, KeysKept DEF Waiting, Active
  <2>11. CASE SendDigest(r) \/ UnlockQueue(r)
    <3>1. PICK l \in {"unlock", "done"} : pc' = [pc EXCEPT ![r] = l]
      BY <2>11 DEF SendDigest, UnlockQueue, Goto
    <3>2. UNCHANGED <<job, QueuedJobs, IsBatchActive, BatchEnqueuedJobs>>
      BY <2>11 DEF SendDigest, UnlockQueue, queueVars, batchVars
    <3>3. QED
      BY <3>1, <3>2, KeysKept DEF Waiting, Active
  <2>12. QED
    BY <1>2, <2>1, <2>2, <2>3, <2>4, <2>5, <2>6, <2>7, <2>8, <2>9, <2>10, <2>11 DEF RunStep
<1>3. CASE \/ \E b \in Runs : DebouncerStep(b)
           \/ \E c \in Clients : StatusBegin(c) \/ StatusEnd(c)
           \/ \E m \in Mounts : MountChange(m)
           \/ UNCHANGED vars
  <2>1. UNCHANGED <<pc, job, QueuedJobs, IsBatchActive, BatchEnqueuedJobs>>
    BY <1>3 DEF DebouncerStep, DebouncerWake, DebouncerSend, StatusBegin, StatusEnd,
                MountChange, vars, runVars, queueVars, batchVars
  <2>2. QED
    BY <2>1, KeysKept DEF Waiting, Active
<1>4. QED
  BY <1>1, <1>2, <1>3 DEF Next, Environment

\* The step that hands a digest over is the only one to end a batch.
LEMMA DigestHandsOver ==
    ASSUME TInv, NEW r \in Runs, SendDigest(r)
    PROVE  \E i \in DOMAIN digests' : digests'[i].results = BatchResults'
<1> DEFINE d == [batch |-> opener, results |-> BatchResults,
                 title |-> DigestTitle(BatchResults), color |-> DigestColor(BatchResults)]
<1>1. digests' = Append(digests, d) /\ d.results = BatchResults /\ UNCHANGED BatchResults
  BY DEF SendDigest, batchVars
<1>2. digests \in Seq(Digest)
  BY DEF TInv, TypeOK
<1> HIDE DEF d
<1>3. Len(digests) + 1 \in DOMAIN digests' /\ digests'[Len(digests) + 1] = d
  BY <1>1, <1>2
<1>4. QED
  BY <1>1, <1>3

\* What a step does to the batch: its results and digests, and whether it is open.
LEMMA BatchMoves ==
    ASSUME TInv, SafetyInv, BatchCoversRuns, [Next]_vars
    PROVE  \/ UNCHANGED <<BatchResults, digests, BatchOpen>>
           \/ /\ ~BatchOpen /\ BatchOpen'
              /\ BatchResults' = <<>> /\ UNCHANGED digests
           \/ /\ BatchOpen /\ BatchOpen'
              /\ BatchResults' # <<>> /\ UNCHANGED digests
           \/ /\ ~BatchOpen' /\ UNCHANGED BatchResults
              /\ \E i \in DOMAIN digests' : digests'[i].results = BatchResults'
<1> USE DEF TInv, TypeOK
<1>1. CASE \/ \E T \in Targets : StartBackup(T)
           \/ \E r \in Runs, j \in Scheduled : CronFire(r, j)
  <2>1. UNCHANGED <<BatchResults, digests, IsBatchActive>>
    BY <1>1, StartMoves DEF batchVars, noticeVars
  <2>2. \A q \in Runs : (pc[q] = "stats") = (pc'[q] = "stats")
    BY <1>1, StartMoves
  <2>3. QED
    BY <2>1, <2>2 DEF BatchOpen
<1>2. ASSUME NEW r \in Runs, RunStep(r), ~Enqueue(r),
             ~ClearActive(r), ~SendDigest(r),
             ~ \E s \in Outcomes : FinishArchive(r, s)
      PROVE  UNCHANGED <<BatchResults, digests, BatchOpen>>
  <2>1. UNCHANGED <<BatchResults, digests, IsBatchActive>>
    BY <1>2 DEF RunStep, CheckStorage, LockQueue, DequeueAndSetActive, MakeDirs, CreateArchive,
                Progress, CleanupOldBackups, UnlockQueue, batchVars, noticeVars
  <2>2. pc[r] # "stats"
    BY <1>2 DEF RunStep, CheckStorage, LockQueue, DequeueAndSetActive, MakeDirs, CreateArchive,
                Progress, CleanupOldBackups, UnlockQueue
  <2>3. \E l \in PCs \ {"stats"} : pc' = [pc EXCEPT ![r] = l]
    <3>1. CASE CheckStorage(r)
      <4>1. \E l \in {"done", "enqueue"} : pc' = [pc EXCEPT ![r] = l]
        BY <3>1 DEF CheckStorage, Goto
      <4>2. QED
        BY <4>1 DEF PCs
    <3>2. CASE MakeDirs(r)
      <4>1. \E l \in {"archive", "clear"} : pc' = [pc EXCEPT ![r] = l]
        BY <3>2 DEF MakeDirs, Goto
      <4>2. QED
        BY <4>1 DEF PCs
    <3>3. CASE CreateArchive(r)
      <4>1. \E l \in {"archive", "fresh"} : pc' = [pc EXCEPT ![r] = l]
        BY <3>3 DEF CreateArchive, Goto
      <4>2. QED
        BY <4>1 DEF PCs
    <3>4. QED
      BY <1>2, <3>1, <3>2, <3>3
         DEF RunStep, LockQueue, DequeueAndSetActive, Progress, CleanupOldBackups, UnlockQueue,
             Goto, PCs
  <2>4. \A q \in Runs : (pc[q] = "stats") = (pc'[q] = "stats")
    BY <2>2, <2>3
  <2>5. QED
    BY <2>1, <2>4 DEF BatchOpen
<1>3. ASSUME NEW r \in Runs, Enqueue(r)
      PROVE  \/ UNCHANGED <<BatchResults, digests, BatchOpen>>
             \/ ~BatchOpen /\ BatchOpen' /\ BatchResults' = <<>> /\ UNCHANGED digests
  <2>1. /\ stateLock = None /\ pc[r] = "enqueue" /\ pc' = [pc EXCEPT ![r] = "lock"]
        /\ UNCHANGED digests
    BY <1>3 DEF Enqueue, Goto, noticeVars
  <2>2. \A q \in Runs : pc[q] # "stats" /\ pc'[q] # "stats"
    BY <2>1, ConstantsAssumption DEF SafetyInv, LockOwners
  <2>3. CASE JoinBatch(Host(r))
    BY <2>1, <2>2, <2>3 DEF JoinBatch, BatchOpen
  <2>4. CASE OpenBatch(r)
    BY <2>1, <2>2, <2>4 DEF OpenBatch, BatchOpen
  <2>5. QED
    BY <1>3, <2>3, <2>4 DEF Enqueue
<1>4. ASSUME NEW r \in Runs, NEW s \in Outcomes, FinishArchive(r, s)
      PROVE  BatchOpen /\ BatchOpen' /\ BatchResults' # <<>> /\ UNCHANGED digests
  <2>1. Active(r) /\ UNCHANGED <<IsBatchActive, digests>>
    BY <1>4 DEF FinishArchive, Active, noticeVars
  <2>2. IsBatchActive
    BY <2>1 DEF BatchCoversRuns
  <2>3. BatchResults' # <<>>
    <3>1. BatchResults' = Append(BatchResults, [run |-> r, status |-> s])
      BY <1>4 DEF FinishArchive
    <3>2. [run |-> r, status |-> s] \in Result
      BY ConstantsAssumption DEF Result, Statuses
    <3>3. QED
      BY <3>1, <3>2, RangeAppend
  <2>4. QED
    BY <2>1, <2>2, <2>3 DEF BatchOpen
<1>5. ASSUME NEW r \in Runs, ClearActive(r)
      PROVE  UNCHANGED <<BatchResults, digests, BatchOpen>>
  <2>1. pc[r] = "clear" /\ UNCHANGED <<BatchResults, digests>>
    BY <1>5 DEF ClearActive, noticeVars
  <2>2. CASE BatchEnds
    <3>1. IsBatchActive /\ pc' = [pc EXCEPT ![r] = "stats"]
      BY <1>5, <2>2 DEF ClearActive, BatchEnds, Goto
    <3>2. BatchOpen /\ BatchOpen'
      BY <3>1 DEF BatchOpen
    <3>3. QED
      BY <2>1, <3>2
  <2>3. CASE ~BatchEnds
    <3>1. UNCHANGED IsBatchActive /\ pc' = [pc EXCEPT ![r] = "unlock"]
      BY <1>5, <2>3 DEF ClearActive, Goto
    <3>2. \A q \in Runs : (pc[q] = "stats") = (pc'[q] = "stats")
      BY <2>1, <3>1
    <3>3. QED
      BY <2>1, <3>1, <3>2 DEF BatchOpen
  <2>4. QED
    BY <2>2, <2>3
<1>6. ASSUME NEW r \in Runs, SendDigest(r)
      PROVE  /\ ~BatchOpen' /\ UNCHANGED BatchResults
             /\ \E i \in DOMAIN digests' : digests'[i].results = BatchResults'
  <2>1. /\ pc[r] = "stats" /\ pc' = [pc EXCEPT ![r] = "unlock"]
        /\ UNCHANGED <<IsBatchActive, BatchResults>>
    BY <1>6 DEF SendDigest, Goto, batchVars
  <2>2. ~IsBatchActive /\ \A q \in Runs : pc[q] = "stats" => q = r
    BY <2>1 DEF SafetyInv, LockOwners, BatchOpeners
  <2>3. ~BatchOpen'
    BY <2>1, <2>2 DEF BatchOpen
  <2>4. QED
    BY <1>6, <2>1, <2>3, DigestHandsOver
<1>7. CASE \/ \E b \in Runs : DebouncerStep(b)
           \/ \E c \in Clients : StatusBegin(c) \/ StatusEnd(c)
           \/ \E m \in Mounts : MountChange(m)
           \/ UNCHANGED vars
  <2>1. UNCHANGED <<pc, BatchResults, digests, IsBatchActive>>
    BY <1>7 DEF DebouncerStep, DebouncerWake, DebouncerSend, StatusBegin, StatusEnd,
                MountChange, vars, runVars, batchVars, noticeVars
  <2>2. QED
    BY <2>1 DEF BatchOpen
<1>8. QED
  BY <1>1, <1>2, <1>3, <1>4, <1>5, <1>6, <1>7 DEF Next, Environment

LEMMA LedgerInvStep ==
    ASSUME Inv, MayOverlap = FALSE, [Next]_vars
    PROVE  Inv'
<1>1. TInv' /\ SafetyInv'
  BY TypeStep, SafetyStep DEF Inv, SafetyInv
<1>2. OneRunPerHost' /\ WaitingAreQueued' /\ BatchCoversRuns'
  BY OneRunPerHostStep, KeysStep DEF Inv, LedgerInv
<1>3. LeftoversAreDigested'
  BY BatchMoves DEF Inv, LedgerInv, LeftoversAreDigested
<1>4. QED
  BY <1>1, <1>2, <1>3 DEF Inv, LedgerInv

LEMMA LedgerInvInit == Init => Inv
<1> SUFFICES ASSUME Init PROVE Inv
  OBVIOUS
<1>1. OneRunPerHost /\ WaitingAreQueued /\ BatchCoversRuns /\ LeftoversAreDigested
  BY DEF Init, OneRunPerHost, InFlight, WaitingAreQueued, Waiting, BatchCoversRuns, Active,
         LeftoversAreDigested
<1>2. QED
  BY <1>1, InitTyped, InitSafe DEF Inv, LedgerInv

\* The only step that empties BatchResults opens a batch, when none is open.
LEMMA DiscardStep ==
    ASSUME Inv, [Next]_vars, BatchResults # <<>>, BatchResults' = <<>>
    PROVE  \E i \in DOMAIN digests : digests[i].results = BatchResults
<1>1. ~BatchOpen
  BY BatchMoves DEF Inv, LedgerInv
<1>2. QED
  BY <1>1 DEF Inv, LedgerInv, LeftoversAreDigested

-------------------------------------------------------------------------------
(* The refinement: every step of the queue is one of the ledger or none.    *)

PhaseBar   == [r \in Runs |-> Phase(r)]
TallyBar   == IF BatchOpen THEN BatchResults ELSE <<>>
ReportsBar == [i \in DOMAIN digests |-> digests[i].results]

\* A step that changes no phase, no result of an open batch and no digest.
LEMMA LedgerStutters ==
    ASSUME \A q \in Runs : Phase(q)' = Phase(q),
           UNCHANGED <<BatchResults, digests, BatchOpen>>
    PROVE  UNCHANGED <<PhaseBar, TallyBar, ReportsBar>>
<1>1. PhaseBar' = PhaseBar
  BY DEF PhaseBar
<1>2. TallyBar' = TallyBar /\ ReportsBar' = ReportsBar
  BY DEF TallyBar, ReportsBar
<1>3. QED
  BY <1>1, <1>2

\* A step that moves one run to another phase.
LEMMA PhaseMoves ==
    ASSUME TInv, NEW r \in Runs, NEW l, pc' = [pc EXCEPT ![r] = l]
    PROVE  /\ \A q \in Runs : q # r => Phase(q)' = Phase(q)
           /\ PhaseBar' = [PhaseBar EXCEPT ![r] = Phase(r)']
           /\ PhaseBar[r] = Phase(r)
<1>1. \A q \in Runs : q # r => Phase(q)' = Phase(q)
  BY DEF Phase, Waiting, Active, TInv, TypeOK
<1>2. PhaseBar' = [q \in Runs |-> Phase(q)'] /\ PhaseBar = [q \in Runs |-> Phase(q)]
  BY DEF PhaseBar
<1>3. QED
  BY <1>1, <1>2

\* A step that moves one run within its phase.
LEMMA PhaseStays ==
    ASSUME TInv, NEW r \in Runs, NEW l, pc' = [pc EXCEPT ![r] = l], Phase(r)' = Phase(r)
    PROVE  UNCHANGED PhaseBar
<1>1. \A q \in Runs : Phase(q)' = Phase(q)
  BY PhaseMoves
<1>2. PhaseBar' = [q \in Runs |-> Phase(q)'] /\ PhaseBar = [q \in Runs |-> Phase(q)]
  BY DEF PhaseBar
<1>3. QED
  BY <1>1, <1>2

\* The digest a run sends is the tally.
LEMMA ReportsGrow ==
    ASSUME TInv, NEW r \in Runs, SendDigest(r)
    PROVE  ReportsBar' = Append(ReportsBar, BatchResults)
<1> DEFINE d == [batch |-> opener, results |-> BatchResults,
                 title |-> DigestTitle(BatchResults), color |-> DigestColor(BatchResults)]
           n == Len(digests)
<1>1. digests' = Append(digests, d) /\ d.results = BatchResults
  BY DEF SendDigest
<1>2. digests \in Seq(Digest)
  BY DEF TInv, TypeOK
<1> HIDE DEF d
<1>3. /\ n \in Nat /\ DOMAIN digests = 1 .. n
      /\ DOMAIN digests' = 1 .. (n + 1)
      /\ \A i \in 1 .. n : digests'[i] = digests[i]
      /\ digests'[n + 1] = d
  BY <1>1, <1>2
<1> HIDE DEF n
<1> DEFINE old == [i \in 1 .. n |-> digests[i].results]
           new == [i \in 1 .. (n + 1) |-> digests'[i].results]
           x == BatchResults
<1>4. ReportsBar = old /\ ReportsBar' = new
  BY <1>3 DEF ReportsBar
<1>5. old \in Seq(Seq(Result)) /\ Len(old) = n /\ x \in Seq(Result)
  <2>1. \A i \in 1 .. n : digests[i].results \in Seq(Result)
    <3>1. \A i \in 1 .. n : digests[i] \in Digest
      BY <1>2, <1>3
    <3>2. QED
      BY <3>1 DEF Digest
  <2>2. QED
    BY <1>3, <2>1 DEF TInv, TypeOK
<1>6. new = [i \in 1 .. (n + 1) |-> IF i <= n THEN old[i] ELSE x]
  BY <1>1, <1>3
<1> HIDE DEF old, new, x
<1>7. Append(old, x) = [i \in 1 .. (n + 1) |-> IF i <= n THEN old[i] ELSE x]
  <2>1. Append(old, x) = [i \in 1 .. (Len(old) + 1) |-> IF i <= Len(old) THEN old[i] ELSE x]
    BY <1>5, AppendIsFunction
  <2>2. QED
    BY <1>5, <2>1
<1>8. QED
  BY <1>4, <1>6, <1>7 DEF x

LEMMA LedgerInit == Init => Ledger!Init
<1> SUFFICES ASSUME Init PROVE Ledger!Init
  OBVIOUS
<1>1. [r \in Runs |-> Phase(r)] = [r \in Runs |-> "away"]
  BY DEF Init, Phase
<1>2. ~BatchOpen
  BY DEF Init, BatchOpen
<1>3. [i \in DOMAIN digests |-> digests[i].results] = <<>>
  BY DEF Init
<1>4. QED
  BY <1>1, <1>2, <1>3 DEF Ledger!Init

\* A run that moves from one phase to another, as the ledger sees it.
LEMMA LedgerMoves ==
    ASSUME TInv, NEW r \in Runs, NEW l, pc' = [pc EXCEPT ![r] = l]
    PROVE  Ledger!Move(r, Phase(r), Phase(r)')
BY PhaseMoves DEF Ledger!Move, PhaseBar

LEMMA RefusedStep ==
    ASSUME Inv, NEW r \in Runs, CheckStorage(r)
    PROVE  Ledger!Refuse(r) \/ UNCHANGED <<PhaseBar, TallyBar, ReportsBar>>
<1> USE DEF Inv, TInv, TypeOK
<1>1. PICK l \in {"done", "enqueue"} : pc' = [pc EXCEPT ![r] = l]
  BY DEF CheckStorage, Goto
<1>2. pc[r] = "check" /\ UNCHANGED <<BatchResults, IsBatchActive, digests>>
  BY DEF CheckStorage, batchVars
<1>3. UNCHANGED BatchOpen
  BY <1>1, <1>2 DEF BatchOpen
<1>4. UNCHANGED <<TallyBar, ReportsBar>>
  BY <1>2, <1>3 DEF TallyBar, ReportsBar
<1>5. CASE l = "enqueue"
  BY <1>1, <1>2, <1>3, <1>5, LedgerStutters DEF Phase, Waiting, Active
<1>6. CASE l = "done"
  <2>1. Phase(r) = "away" /\ Phase(r)' = "over"
    BY <1>1, <1>2, <1>6 DEF Phase, Waiting, Active
  <2>2. Ledger!Move(r, "away", "over")
    BY <1>1, <2>1, LedgerMoves
  <2>3. QED
    BY <1>4, <2>2 DEF Ledger!Refuse, TallyBar, ReportsBar
<1>7. QED
  BY <1>5, <1>6

\* The tally of a batch that opens is empty before and after.
LEMMA JoinedStep ==
    ASSUME Inv, [Next]_vars, NEW r \in Runs, Enqueue(r)
    PROVE  Ledger!Join(r)
<1> USE DEF Inv, TInv, TypeOK
<1>1. pc[r] = "enqueue" /\ pc' = [pc EXCEPT ![r] = "lock"]
  BY DEF Enqueue, Goto
<1>2. Phase(r) = "away" /\ Phase(r)' = "waiting"
  BY <1>1 DEF Phase, Waiting, Active
<1>3. Ledger!Move(r, "away", "waiting")
  BY <1>1, <1>2, LedgerMoves
<1>4. UNCHANGED <<TallyBar, ReportsBar>>
  <2>1. stateLock = None /\ UNCHANGED digests
    BY DEF Enqueue, noticeVars
  <2>2. \A q \in Runs : pc[q] # "stats" /\ pc'[q] # "stats"
    BY <1>1, <2>1, ConstantsAssumption DEF SafetyInv, LockOwners
  <2>3. CASE JoinBatch(Host(r))
    BY <2>1, <2>2, <2>3 DEF JoinBatch, BatchOpen, TallyBar, ReportsBar
  <2>4. CASE OpenBatch(r)
    BY <2>1, <2>2, <2>4 DEF OpenBatch, BatchOpen, TallyBar, ReportsBar
  <2>5. QED
    BY <2>3, <2>4 DEF Enqueue
<1>5. QED
  BY <1>3, <1>4 DEF Ledger!Join, TallyBar, ReportsBar

\* Executions are serial: whoever dequeues owns GlobalBackupQueue.
LEMMA BegunStep ==
    ASSUME Inv, NEW r \in Runs, DequeueAndSetActive(r)
    PROVE  Ledger!Begin(r)
<1> USE DEF Inv, TInv, TypeOK
<1>1. /\ pc[r] = "dequeue" /\ pc' = [pc EXCEPT ![r] = "mkdir"]
      /\ UNCHANGED <<BatchResults, IsBatchActive, digests>>
  BY DEF DequeueAndSetActive, Goto, batchVars, noticeVars
<1>2. Phase(r) = "waiting" /\ Phase(r)' = "running"
  BY <1>1 DEF Phase, Waiting, Active
<1>3. \A q \in Runs : Phase(q) # "running"
  <2>1. \A q \in Runs : Active(q) \/ pc[q] = "stats" => q = r
    BY <1>1 DEF SafetyInv, LockOwners
  <2>2. \A q \in Runs : ~(Active(q) \/ pc[q] = "stats")
    BY <1>1, <2>1 DEF Active
  <2>3. QED
    BY <2>2 DEF Phase, Active, Waiting
<1>4. Ledger!In("running") = {}
  BY <1>3 DEF Ledger!In
<1>5. Ledger!Move(r, "waiting", "running")
  BY <1>1, <1>2, LedgerMoves
<1>6. UNCHANGED BatchOpen
  BY <1>1 DEF BatchOpen
<1>7. UNCHANGED <<TallyBar, ReportsBar>>
  BY <1>1, <1>6 DEF TallyBar, ReportsBar
<1>8. QED
  BY <1>4, <1>5, <1>7 DEF Ledger!Begin, TallyBar, ReportsBar

LEMMA RecordedStep ==
    ASSUME Inv, NEW r \in Runs, NEW s \in Outcomes, FinishArchive(r, s)
    PROVE  Ledger!Record(r, s)
<1> USE DEF Inv, TInv, TypeOK
<1>1. /\ pc[r] \in {"fresh", "stream"} /\ pc' = [pc EXCEPT ![r] = "archive"]
      /\ BatchResults' = Append(BatchResults, [run |-> r, status |-> s])
      /\ UNCHANGED <<IsBatchActive, digests>>
  BY DEF FinishArchive, Goto, noticeVars
<1>2. Phase(r) = "running" /\ Phase(r)' = "running"
  BY <1>1 DEF Phase, Waiting, Active
<1>3. UNCHANGED PhaseBar /\ PhaseBar[r] = "running"
  <2>1. TInv
    OBVIOUS
  <2> HIDE DEF Inv, TInv, TypeOK
  <2>2. UNCHANGED PhaseBar
    BY <1>1, <1>2, <2>1, PhaseStays
  <2>3. PhaseBar[r] = "running"
    BY <1>2 DEF PhaseBar
  <2>4. QED
    BY <2>2, <2>3
<1>4. IsBatchActive
  BY <1>1 DEF LedgerInv, BatchCoversRuns, Active
<1>5. TallyBar = BatchResults /\ TallyBar' = BatchResults' /\ UNCHANGED ReportsBar
  BY <1>1, <1>4 DEF TallyBar, ReportsBar, BatchOpen
<1>6. QED
  BY <1>1, <1>3, <1>5 DEF Ledger!Record, PhaseBar, TallyBar, ReportsBar

\* Whoever leaves a queue that is not empty leaves a waiting run behind.
LEMMA LeftStep ==
    ASSUME Inv, NEW r \in Runs, ClearActive(r)
    PROVE  Ledger!Leave(r) \/ UNCHANGED <<PhaseBar, TallyBar, ReportsBar>>
<1> USE DEF Inv, TInv, TypeOK
<1>1. pc[r] = "clear" /\ UNCHANGED <<BatchResults, digests>>
  BY DEF ClearActive, noticeVars
<1>2. CASE BatchEnds
  <2>1. IsBatchActive /\ pc' = [pc EXCEPT ![r] = "stats"]
    BY <1>2 DEF ClearActive, BatchEnds, Goto
  <2>2. BatchOpen /\ BatchOpen'
    BY <2>1 DEF BatchOpen
  <2>3. \A q \in Runs : Phase(q)' = Phase(q)
    BY <1>1, <2>1 DEF Phase, Waiting, Active
  <2>4. QED
    BY <1>1, <2>2, <2>3, LedgerStutters
<1>3. CASE ~BatchEnds
  <2>1. UNCHANGED IsBatchActive /\ pc' = [pc EXCEPT ![r] = "unlock"]
    BY <1>3 DEF ClearActive, Goto
  <2>2. Phase(r) = "running" /\ Phase(r)' = "over"
    BY <1>1, <2>1 DEF Phase, Waiting, Active
  <2>3. \E q \in Runs : Phase(q) = "waiting"
    <3>1. IsBatchActive
      BY <1>1 DEF LedgerInv, BatchCoversRuns, Active
    <3>2. QueuedJobs # <<>> /\ QueuedJobs \in Seq(Hosts)
      BY <1>3, <3>1 DEF BatchEnds
    <3>3. \E h \in Range(QueuedJobs) : TRUE
      BY <3>2, NonEmptyRange
    <3>4. PICK q \in Runs : Waiting(q)
      BY <3>3 DEF SafetyInv, QueuedAreWaiting
    <3>5. Phase(q) = "waiting"
      BY <3>4 DEF Phase, Waiting, Active
    <3>6. QED
      BY <3>5
  <2>4. Ledger!Move(r, "running", "over")
    BY <2>1, <2>2, LedgerMoves
  <2>5. Ledger!In("waiting") # {}
    BY <2>3 DEF Ledger!In
  <2>6. UNCHANGED BatchOpen
    BY <1>1, <2>1 DEF BatchOpen
  <2>7. UNCHANGED <<TallyBar, ReportsBar>>
    BY <1>1, <2>6 DEF TallyBar, ReportsBar
  <2>8. QED
    BY <2>4, <2>5, <2>7 DEF Ledger!Leave, TallyBar, ReportsBar
<1>4. QED
  BY <1>2, <1>3

\* The run that sends the digest is the last one, and sends the tally.
LEMMA ClosedStep ==
    ASSUME Inv, NEW r \in Runs, SendDigest(r)
    PROVE  Ledger!Close(r)
<1> USE DEF Inv, TInv, TypeOK
<1>1. /\ pc[r] = "stats" /\ pc' = [pc EXCEPT ![r] = "unlock"]
      /\ UNCHANGED <<IsBatchActive, BatchResults>>
  BY DEF SendDigest, Goto, batchVars
<1>2. Phase(r) = "running" /\ Phase(r)' = "over"
  BY <1>1 DEF Phase, Waiting, Active
<1>3. ~IsBatchActive /\ \A q \in Runs : pc[q] = "stats" => q = r
  BY <1>1 DEF SafetyInv, LockOwners, BatchOpeners
<1>4. \A q \in Runs : Phase(q) # "waiting"
  BY <1>3 DEF LedgerInv, BatchCoversRuns, Phase, Waiting, Active
<1>5. Ledger!Move(r, "running", "over")
  BY <1>1, <1>2, LedgerMoves
<1>6. Ledger!In("waiting") = {}
  BY <1>4 DEF Ledger!In
<1>7. TallyBar = BatchResults /\ TallyBar' = <<>>
  BY <1>1, <1>3 DEF TallyBar, BatchOpen
<1>8. ReportsBar' = Append(ReportsBar, TallyBar)
  BY <1>7, ReportsGrow
<1>9. QED
  BY <1>5, <1>6, <1>7, <1>8 DEF Ledger!Close, TallyBar, ReportsBar

\* The other steps: the ledger does not see them.
LEMMA UnseenStep ==
    ASSUME Inv,
           \/ \E T \in Targets : StartBackup(T)
           \/ \E r \in Runs, j \in Scheduled : CronFire(r, j)
           \/ \E c \in Clients : StatusBegin(c) \/ StatusEnd(c)
           \/ \E m \in Mounts : MountChange(m)
           \/ \E b \in Runs : DebouncerStep(b)
           \/ UNCHANGED vars
           \/ \E r \in Runs : \/ LockQueue(r) \/ MakeDirs(r) \/ CreateArchive(r)
                              \/ CleanupOldBackups(r) \/ UnlockQueue(r)
                              \/ \E p \in Percents : Progress(r, p)
    PROVE  UNCHANGED <<PhaseBar, TallyBar, ReportsBar>>
<1> USE DEF Inv, TInv, TypeOK
<1>1. CASE \/ \E T \in Targets : StartBackup(T)
           \/ \E r \in Runs, j \in Scheduled : CronFire(r, j)
  <2>1. UNCHANGED <<BatchResults, digests, IsBatchActive>>
    BY <1>1, StartMoves DEF batchVars, noticeVars
  <2>2. \A q \in Runs : (pc[q] = "stats") = (pc'[q] = "stats")
    BY <1>1, StartMoves
  <2>3. \A q \in Runs : Phase(q)' = Phase(q)
    BY <1>1, StartMoves DEF Phase, Waiting, Active
  <2>4. UNCHANGED BatchOpen
    BY <2>1, <2>2 DEF BatchOpen
  <2>5. QED
    BY <2>1, <2>3, <2>4, LedgerStutters
<1>2. CASE \/ \E c \in Clients : StatusBegin(c) \/ StatusEnd(c)
           \/ \E m \in Mounts : MountChange(m)
           \/ \E b \in Runs : DebouncerStep(b)
           \/ UNCHANGED vars
  <2>1. UNCHANGED <<pc, BatchResults, digests, IsBatchActive>>
    BY <1>2 DEF DebouncerStep, DebouncerWake, DebouncerSend, StatusBegin, StatusEnd,
                MountChange, vars, runVars, batchVars, noticeVars
  <2>2. QED
    BY <2>1, LedgerStutters DEF Phase, Waiting, Active, BatchOpen
<1>3. ASSUME NEW r \in Runs, MakeDirs(r) \/ CreateArchive(r)
      PROVE  UNCHANGED <<PhaseBar, TallyBar, ReportsBar>>
  <2>1. pc[r] \in {"mkdir", "archive"} /\ UNCHANGED <<BatchResults, digests, IsBatchActive>>
    BY <1>3 DEF MakeDirs, CreateArchive, batchVars, noticeVars
  <2>2. PICK l \in {"archive", "clear", "fresh"} : pc' = [pc EXCEPT ![r] = l]
    <3>1. CASE MakeDirs(r)
      BY <3>1 DEF MakeDirs, Goto
    <3>2. CASE CreateArchive(r)
      <4>1. pc[r] = "archive" /\ (pc' = pc \/ pc' = [pc EXCEPT ![r] = "fresh"])
        BY <3>2 DEF CreateArchive, Goto
      <4>2. QED
        BY <4>1
    <3>3. QED
      BY <1>3, <3>1, <3>2
  <2>3. \A q \in Runs : Phase(q)' = Phase(q)
    BY <2>1, <2>2 DEF Phase, Waiting, Active
  <2>4. UNCHANGED BatchOpen
    BY <2>1, <2>2 DEF BatchOpen
  <2>5. QED
    BY <2>1, <2>3, <2>4, LedgerStutters
<1>4. ASSUME NEW r \in Runs,
             \/ LockQueue(r) \/ CleanupOldBackups(r) \/ UnlockQueue(r)
             \/ \E p \in Percents : Progress(r, p)
      PROVE  UNCHANGED <<PhaseBar, TallyBar, ReportsBar>>
  <2>1. /\ UNCHANGED <<BatchResults, digests, IsBatchActive>>
        /\ \/ pc[r] = "lock" /\ pc' = [pc EXCEPT ![r] = "dequeue"]
           \/ pc[r] = "archive" /\ pc' = [pc EXCEPT ![r] = "clear"]
           \/ pc[r] = "unlock" /\ pc' = [pc EXCEPT ![r] = "done"]
           \/ pc[r] \in {"fresh", "stream"} /\ pc' = [pc EXCEPT ![r] = "stream"]
    BY <1>4 DEF LockQueue, CleanupOldBackups, UnlockQueue, Progress, Goto, batchVars, noticeVars
  <2>2. \A q \in Runs : Phase(q)' = Phase(q)
    BY <2>1 DEF Phase, Waiting, Active
  <2>3. UNCHANGED BatchOpen
    BY <2>1 DEF BatchOpen
  <2>4. QED
    BY <2>1, <2>2, <2>3, LedgerStutters
<1>5. QED
  BY <1>1, <1>2, <1>3, <1>4

LEMMA LedgerStep ==
    ASSUME Inv, [Next]_vars
    PROVE  [Ledger!Next]_(Ledger!vars)
<1>1. UNCHANGED <<PhaseBar, TallyBar, ReportsBar>> => UNCHANGED Ledger!vars
  BY DEF Ledger!vars, PhaseBar, TallyBar, ReportsBar
<1>2. ASSUME NEW r \in Runs, CheckStorage(r)
      PROVE  [Ledger!Next]_(Ledger!vars)
  BY <1>1, <1>2, RefusedStep DEF Ledger!Next
<1>3. ASSUME NEW r \in Runs, Enqueue(r)
      PROVE  Ledger!Next
  BY <1>3, JoinedStep DEF Ledger!Next
<1>4. ASSUME NEW r \in Runs, DequeueAndSetActive(r)
      PROVE  Ledger!Next
  BY <1>4, BegunStep DEF Ledger!Next
<1>5. ASSUME NEW r \in Runs, NEW s \in Outcomes, FinishArchive(r, s)
      PROVE  Ledger!Next
  BY <1>5, RecordedStep DEF Ledger!Next
<1>6. ASSUME NEW r \in Runs, ClearActive(r)
      PROVE  [Ledger!Next]_(Ledger!vars)
  BY <1>1, <1>6, LeftStep DEF Ledger!Next
<1>7. ASSUME NEW r \in Runs, SendDigest(r)
      PROVE  Ledger!Next
  BY <1>7, ClosedStep DEF Ledger!Next
<1>8. ASSUME \/ Environment
             \/ \E c \in Clients : StatusEnd(c)
             \/ \E b \in Runs : DebouncerStep(b)
             \/ UNCHANGED vars
             \/ \E r \in Runs : \/ LockQueue(r) \/ MakeDirs(r) \/ CreateArchive(r)
                                \/ CleanupOldBackups(r) \/ UnlockQueue(r)
                                \/ \E p \in Percents : Progress(r, p)
      PROVE  UNCHANGED Ledger!vars
  BY <1>1, <1>8, UnseenStep DEF Environment
<1>9. QED
  BY <1>2, <1>3, <1>4, <1>5, <1>6, <1>7, <1>8 DEF Next, RunStep

-------------------------------------------------------------------------------
(* The theorems.                                                            *)

LEMMA Invariance ==
    ASSUME MayOverlap = FALSE
    PROVE  Spec => []Inv
<1>1. Init => Inv
  BY LedgerInvInit
<1>2. Inv /\ [Next]_vars => Inv'
  BY LedgerInvStep
<1>3. QED
  BY <1>1, <1>2, PTL DEF Spec

\* While no two runs of one key overlap, every run past EnqueueJob and before
\* ClearActive is in the list of an open batch, for any number of runs: the
\* batch cannot close under it, and its results fall in that batch.
THEOREM RunsAreCovered ==
    ASSUME MayOverlap = FALSE
    PROVE  Spec => []BatchCoversRuns
<1>1. Inv => BatchCoversRuns
  BY DEF Inv, LedgerInv
<1>2. QED
  BY <1>1, Invariance, PTL

\* While no two runs of one key overlap, EnqueueJob's reset of BatchResults
\* discards only results that a digest has carried.
THEOREM ResultsAreKept ==
    ASSUME MayOverlap = FALSE
    PROVE  Spec => NoResultDiscarded
<1>1. Inv /\ [Next]_vars =>
        [BatchResults # <<>> /\ BatchResults' = <<>> =>
           \E i \in DOMAIN digests : digests[i].results = BatchResults]_vars
  BY DiscardStep
<1>2. QED
  BY <1>1, Invariance, PTL DEF Spec, NoResultDiscarded

\* While no two runs of one key overlap, the queue, its two locks and its flag
\* implement the ledger: serial executions, and one digest per batch, sent by
\* its last run, with the results of its runs and no others.
THEOREM ImplementsLedger ==
    ASSUME MayOverlap = FALSE
    PROVE  Spec => LedgerSpec
<1>1. Init => Ledger!Init
  BY LedgerInit
<1>2. Inv /\ [Next]_vars => [Ledger!Next]_(Ledger!vars)
  BY LedgerStep
<1>3. QED
  BY <1>1, <1>2, Invariance, PTL DEF Spec, LedgerSpec, Ledger!Spec
===============================================================================
