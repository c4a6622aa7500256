------------------------------ MODULE BackupQueue ------------------------------
(***************************************************************************)
(* The job queue and the batch of gobackupd (internal/engine/backup.go).   *)
(*                                                                         *)
(* Every cron entry and every StartBackup request starts one goroutine     *)
(* ("run") that checks its storage mount, enters QueuedJobs, waits for     *)
(* GlobalBackupQueue, streams its archives one after the other, prunes and *)
(* leaves.  The first run of an idle daemon opens a batch and starts a     *)
(* debouncer goroutine that announces it two seconds later; the run that   *)
(* leaves an empty queue behind closes the batch and sends its digest.     *)
(*                                                                         *)
(* StateMutex protects the globals.  A critical section is one action,     *)
(* except the two that do disk I/O under the mutex (ClearActive and        *)
(* GetStatus, both through GetStorageStats): there stateLock is held       *)
(* between two actions.                                                    *)
(***************************************************************************)
EXTENDS Integers, SequencesExt

CONSTANTS
    Runs,        \* goroutines that may execute RunSingleBackup, each one once
    Jobs,        \* the configured jobs (cfg.Jobs)
    Hosts,       \* queue keys, job.Server + "_" + job.Name
    Labels,      \* progress texts "server/job ... (x% Complete ...)"
    HostOf,      \* the queue key of a job: two jobs may share one
    LabelOf,     \* the progress text of a job
    ArchivesOf,  \* archives a job makes: its paths (0 or 1) and docker volumes
    Orphaned,    \* jobs whose server is not in cfg.Servers
    Scheduled,   \* jobs with a cron entry
    Targets,     \* the sets of jobs a StartBackup request can select
    Percents,    \* bytes processed over bytes counted by du, in percent
    Outcomes,    \* exit codes a backup command may end with, by their status
    Mounts,      \* states the storage mount may take
    MayOverlap,  \* FALSE: the environment starts a job only when no run with
                 \* its queue key is in flight
    Clients,     \* concurrent GetStatus handlers
    None

ASSUME ConstantsAssumption ==
    /\ HostOf \in [Jobs -> Hosts]
    /\ LabelOf \in [Jobs -> Labels]
    /\ ArchivesOf \in [Jobs -> Nat]
    /\ Orphaned \subseteq Jobs
    /\ Scheduled \subseteq Jobs
    /\ Targets \subseteq SUBSET Jobs
    /\ Percents \subseteq Nat \ {0}
    /\ Outcomes \subseteq {"SUCCESS", "WARNING", "FAILED"}
    /\ Mounts \subseteq {"ok", "missing", "stale"}
    /\ MayOverlap \in BOOLEAN
    /\ Hosts \cap Labels = {}
    /\ None \notin Runs \cup Jobs \cup Hosts \cup Labels \cup Clients
    /\ Clients \cap Runs = {}

VARIABLES
    pc,                \* where each run is
    job,               \* the job each run executes
    left,              \* the archives each run still has to make
    queueLock,         \* owner of GlobalBackupQueue
    stateLock,         \* owner of StateMutex between two actions
    QueuedJobs,
    ActiveJob,
    ActiveJobPercent,
    IsBatchActive,
    BatchResults,
    BatchEnqueuedJobs,
    debouncer,         \* the debouncer goroutine each run may have started
    alert,             \* the start alert a debouncer has prepared
    mount,             \* the storage mount
    opener,            \* ghost: the run that opened the latest batch
    digests,           \* batch digests handed to the dispatcher, in order
    criticals          \* runs whose abortion has been notified

runVars   == <<pc, job, left>>
lockVars  == <<queueLock, stateLock>>
queueVars == <<QueuedJobs, ActiveJob, ActiveJobPercent>>
batchVars == <<IsBatchActive, BatchResults, BatchEnqueuedJobs, opener>>
alertVars == <<debouncer, alert>>
noticeVars == <<digests, criticals>>
vars == <<runVars, lockVars, queueVars, batchVars, alertVars, mount, noticeVars>>

Statuses == {"SUCCESS", "WARNING", "FAILED"}

PCs == {"idle", "check", "enqueue", "lock", "dequeue", "mkdir", "archive",
        "fresh", "stream", "clear", "stats", "unlock", "done"}

Host(r) == HostOf[job[r]]

InFlight(r) == pc[r] \notin {"idle", "done"}

Waiting(r) == pc[r] \in {"lock", "dequeue"}

\* Between DequeueAndSetActive and ClearActive.
Active(r) == pc[r] \in {"mkdir", "archive", "fresh", "stream", "clear"}

Result == [run : Runs, status : Statuses]
Alert  == [batch : Runs \cup {None}, jobs : Seq(Hosts), running : SUBSET Nat]
Digest == [batch : Runs \cup {None}, results : Seq(Result), title : Statuses, color : Statuses]

NoAlert == [batch |-> None, jobs |-> <<>>, running |-> {}]

\* The type invariant; the percentage never leaves 0 .. 100 (progressWriter.Write).
TypeOK ==
    /\ pc \in [Runs -> PCs]
    /\ job \in [Runs -> Jobs \cup {None}]
    /\ left \in [Runs -> Nat]
    /\ queueLock \in Runs \cup {None}
    /\ stateLock \in Runs \cup Clients \cup {None}
    /\ QueuedJobs \in Seq(Hosts)
    /\ ActiveJob \in Hosts \cup Labels \cup {None}
    /\ ActiveJobPercent \in 0..100
    /\ IsBatchActive \in BOOLEAN
    /\ BatchResults \in Seq(Result)
    /\ BatchEnqueuedJobs \in Seq(Hosts)
    /\ debouncer \in [Runs -> {"none", "sleep", "send", "done"}]
    /\ alert \in [Runs -> Alert]
    /\ mount \in Mounts \cup {"ok"}
    /\ opener \in Runs \cup {None}
    /\ digests \in Seq(Digest)
    /\ criticals \subseteq Runs

Init ==
    /\ pc = [r \in Runs |-> "idle"]
    /\ job = [r \in Runs |-> None]
    /\ left = [r \in Runs |-> 0]
    /\ queueLock = None /\ stateLock = None
    /\ QueuedJobs = <<>>
    /\ ActiveJob = None /\ ActiveJobPercent = 0
    /\ IsBatchActive = FALSE
    /\ BatchResults = <<>> /\ BatchEnqueuedJobs = <<>>
    /\ debouncer = [r \in Runs |-> "none"]
    /\ alert = [r \in Runs |-> NoAlert]
    /\ mount = "ok"
    /\ opener = None
    /\ digests = <<>> /\ criticals = {}

Goto(r, label) == pc' = [pc EXCEPT ![r] = label]

-------------------------------------------------------------------------------
(* Starting runs: the gRPC handler and cron.                                *)

\* The environment's restriction when MayOverlap is FALSE.
MayStart(T) ==
    \/ MayOverlap
    \/ /\ \A j \in T, r \in Runs : InFlight(r) => Host(r) # HostOf[j]
       /\ \A i, j \in T : HostOf[i] = HostOf[j] => i = j

\* One goroutine per job of the configuration that the request selects; a
\* request that selects none is refused.
StartBackup(T) ==
    /\ T # {} /\ MayStart(T)
    /\ \E f \in Injection(T, {r \in Runs : pc[r] = "idle"}) :
         LET started == {f[j] : j \in T}
             jobOf(r) == CHOOSE j \in T : f[j] = r
         IN  /\ pc'   = [r \in Runs |-> IF r \in started THEN "check" ELSE pc[r]]
             /\ job'  = [r \in Runs |-> IF r \in started THEN jobOf(r) ELSE job[r]]
             /\ left' = [r \in Runs |-> IF r \in started THEN ArchivesOf[jobOf(r)]
                                                         ELSE left[r]]
    /\ UNCHANGED <<lockVars, queueVars, batchVars, alertVars, mount, noticeVars>>

\* cron runs every entry in a goroutine of its own, whether or not the entry's
\* previous run has finished.
CronFire(r, j) ==
    /\ pc[r] = "idle" /\ MayStart({j})
    /\ Goto(r, "check")
    /\ job'  = [job EXCEPT ![r] = j]
    /\ left' = [left EXCEPT ![r] = ArchivesOf[j]]
    /\ UNCHANGED <<lockVars, queueVars, batchVars, alertVars, mount, noticeVars>>

-------------------------------------------------------------------------------
(* RunSingleBackup, up to the queue.                                        *)

\* verifyNFSMount answers within three seconds whatever the mount does; then
\* the job's server is looked up.
CheckStorage(r) ==
    /\ pc[r] = "check"
    /\ \/ /\ mount # "ok"
          /\ Goto(r, "done")
          /\ criticals' = criticals \cup {r}
       \/ /\ mount = "ok"
          /\ Goto(r, IF job[r] \in Orphaned THEN "done" ELSE "enqueue")
          /\ UNCHANGED criticals
    /\ UNCHANGED <<job, left, lockVars, queueVars, batchVars, alertVars, mount, digests>>

\* Seeded bug: the duplicate check is dropped.
WithHostTwice(q, h) == Append(q, h)

WithHost(q, h) == IF Contains(q, h) THEN q ELSE Append(q, h)

\* Seeded bug: the batch's list is not extended.
JoinBatchUnlisted(h) ==
    /\ IsBatchActive
    /\ UNCHANGED <<batchVars, debouncer>>

JoinBatch(h) ==
    /\ IsBatchActive
    /\ BatchEnqueuedJobs' = IF Contains(QueuedJobs, h) THEN BatchEnqueuedJobs
                                                       ELSE Append(BatchEnqueuedJobs, h)
    /\ UNCHANGED <<IsBatchActive, BatchResults, opener, debouncer>>

OpenBatch(r) ==
    /\ ~IsBatchActive
    /\ IsBatchActive' = TRUE
    /\ BatchResults' = <<>>
    /\ BatchEnqueuedJobs' = <<Host(r)>>
    /\ opener' = r
    /\ debouncer' = [debouncer EXCEPT ![r] = "sleep"]

\* EnqueueJob: the key enters the queue unless it is there already.
Enqueue(r) ==
    /\ pc[r] = "enqueue" /\ stateLock = None
    /\ Goto(r, "lock")
    /\ QueuedJobs' = WithHost(QueuedJobs, Host(r))
    /\ JoinBatch(Host(r)) \/ OpenBatch(r)
    /\ UNCHANGED <<job, left, lockVars, ActiveJob, ActiveJobPercent, alert, mount, noticeVars>>

\* Seeded bug: the run does not wait for the queue.
LockQueueAtOnce(r) ==
    /\ pc[r] = "lock"
    /\ queueLock' = r
    /\ Goto(r, "dequeue")
    /\ UNCHANGED <<job, left, stateLock, queueVars, batchVars, alertVars, mount, noticeVars>>

LockQueue(r) ==
    /\ pc[r] = "lock" /\ queueLock = None
    /\ queueLock' = r
    /\ Goto(r, "dequeue")
    /\ UNCHANGED <<job, left, stateLock, queueVars, batchVars, alertVars, mount, noticeVars>>

-------------------------------------------------------------------------------
(* RunSingleBackup, under GlobalBackupQueue.                                *)

\* A file operation on a stale mount does not return.
MountAnswers == mount # "stale"

\* Seeded bug: the key stays in the queue.
WithoutHostNever(q, h) == q

WithoutHost(q, h) == RemoveFirst(q, h)

DequeueAndSetActive(r) ==
    /\ pc[r] = "dequeue" /\ stateLock = None
    /\ QueuedJobs' = WithoutHost(QueuedJobs, Host(r))
    /\ ActiveJob' = Host(r)
    /\ ActiveJobPercent' = 0
    /\ Goto(r, "mkdir")
    /\ UNCHANGED <<job, left, lockVars, batchVars, alertVars, mount, noticeVars>>

\* Seeded bug: the early return precedes the deferred ClearActive and Unlock.
MakeDirsNoDefer(r) ==
    /\ pc[r] = "mkdir" /\ MountAnswers
    /\ Goto(r, "archive") \/ Goto(r, "done")
    /\ UNCHANGED <<job, left, lockVars, queueVars, batchVars, alertVars, mount, noticeVars>>

\* Creating the storage directories; a failure ends the run with no result.
MakeDirs(r) ==
    /\ pc[r] = "mkdir" /\ MountAnswers
    /\ Goto(r, "archive") \/ Goto(r, "clear")
    /\ UNCHANGED <<job, left, lockVars, queueVars, batchVars, alertVars, mount, noticeVars>>

\* executeBackupCommand creates the target file: it starts the command, or
\* skips this archive with no result.
CreateArchive(r) ==
    /\ pc[r] = "archive" /\ left[r] > 0 /\ MountAnswers
    /\ \/ Goto(r, "fresh") /\ UNCHANGED left
       \/ left' = [left EXCEPT ![r] = @ - 1] /\ UNCHANGED pc
    /\ UNCHANGED <<job, lockVars, queueVars, batchVars, alertVars, mount, noticeVars>>

\* Seeded bug: more bytes than du counted give more than 100 percent.
CappedNever(p) == p

Capped(p) == IF p > 100 THEN 100 ELSE p

\* progressWriter.Write replaces the active job's key by its progress text.
Progress(r, p) ==
    /\ pc[r] \in {"fresh", "stream"} /\ MountAnswers /\ stateLock = None
    /\ pc[r] = "stream" => Capped(p) > ActiveJobPercent
    /\ Goto(r, "stream")
    /\ ActiveJob' = LabelOf[job[r]]
    /\ ActiveJobPercent' = Capped(p)
    /\ UNCHANGED <<job, left, lockVars, QueuedJobs, batchVars, alertVars, mount, noticeVars>>

\* The command ends and pushJobResult records its exit code: 0, 1 or other.
FinishArchive(r, status) ==
    /\ pc[r] \in {"fresh", "stream"} /\ MountAnswers /\ stateLock = None
    /\ BatchResults' = Append(BatchResults, [run |-> r, status |-> status])
    /\ left' = [left EXCEPT ![r] = @ - 1]
    /\ Goto(r, "archive")
    /\ UNCHANGED <<job, lockVars, queueVars, IsBatchActive, BatchEnqueuedJobs, opener,
                   alertVars, mount, noticeVars>>

\* CleanupOldBackups checks the mount again and gives up on a stale one.  Its
\* effect on the archives is not part of this module.
CleanupOldBackups(r) ==
    /\ pc[r] = "archive" /\ left[r] = 0
    /\ Goto(r, "clear")
    /\ UNCHANGED <<job, left, lockVars, queueVars, batchVars, alertVars, mount, noticeVars>>

\* Seeded bugs: the batch closes although runs are queued; it closes again when
\* it is closed already; its statistics are gathered without StateMutex.
BatchEndsEarly == IsBatchActive

BatchEndsAgain == QueuedJobs = <<>>

ClearActiveUnlocked(r) ==
    /\ pc[r] = "clear" /\ stateLock = None
    /\ ActiveJob' = None /\ ActiveJobPercent' = 0
    /\ \/ /\ IsBatchActive /\ QueuedJobs = <<>>
          /\ IsBatchActive' = FALSE
          /\ Goto(r, "stats")
       \/ /\ ~(IsBatchActive /\ QueuedJobs = <<>>)
          /\ Goto(r, "unlock")
          /\ UNCHANGED IsBatchActive
    /\ UNCHANGED <<job, left, lockVars, QueuedJobs, BatchResults, BatchEnqueuedJobs, opener,
                   alertVars, mount, noticeVars>>

BatchEnds == IsBatchActive /\ QueuedJobs = <<>>

\* The deferred ClearActive: the run that leaves the queue empty closes the
\* batch and keeps StateMutex while it gathers the storage statistics.
ClearActive(r) ==
    /\ pc[r] = "clear" /\ stateLock = None
    /\ ActiveJob' = None
    /\ ActiveJobPercent' = 0
    /\ \/ /\ BatchEnds
          /\ IsBatchActive' = FALSE
          /\ stateLock' = r
          /\ Goto(r, "stats")
       \/ /\ ~BatchEnds
          /\ Goto(r, "unlock")
          /\ UNCHANGED <<IsBatchActive, stateLock>>
    /\ UNCHANGED <<job, left, queueLock, QueuedJobs, BatchResults, BatchEnqueuedJobs, opener,
                   alertVars, mount, noticeVars>>

HasStatus(results, s) == \E i \in DOMAIN results : results[i].status = s

\* The worst status, by the counts.
DigestTitle(results) ==
    IF HasStatus(results, "FAILED") THEN "FAILED"
    ELSE IF HasStatus(results, "WARNING") THEN "WARNING" ELSE "SUCCESS"

\* The loop overwrites the colour at every result that is not a success: the
\* last one of these decides.
LastBadIs(results, s) ==
    \E i \in DOMAIN results :
        /\ results[i].status = s
        /\ \A k \in DOMAIN results : k > i => results[k].status = "SUCCESS"

DigestColor(results) ==
    IF LastBadIs(results, "FAILED") THEN "FAILED"
    ELSE IF LastBadIs(results, "WARNING") THEN "WARNING" ELSE "SUCCESS"

SendDigest(r) ==
    /\ pc[r] = "stats" /\ MountAnswers
    /\ digests' = Append(digests,
         [batch |-> opener, results |-> BatchResults,
          title |-> DigestTitle(BatchResults), color |-> DigestColor(BatchResults)])
    /\ stateLock' = None
    /\ Goto(r, "unlock")
    /\ UNCHANGED <<job, left, queueLock, queueVars, batchVars, alertVars, mount, criticals>>

UnlockQueue(r) ==
    /\ pc[r] = "unlock"
    /\ queueLock' = None
    /\ Goto(r, "done")
    /\ UNCHANGED <<job, left, stateLock, queueVars, batchVars, alertVars, mount, noticeVars>>

-------------------------------------------------------------------------------
(* The debouncer started by run b, the status handler and the mount.        *)

\* After its sleep: nothing to announce, or a copy of the batch's job list in
\* which the entries equal to ActiveJob are highlighted.
DebouncerWake(b) ==
    /\ debouncer[b] = "sleep" /\ stateLock = None
    /\ \/ /\ ~IsBatchActive
          /\ debouncer' = [debouncer EXCEPT ![b] = "done"]
          /\ UNCHANGED alert
       \/ /\ IsBatchActive
          /\ debouncer' = [debouncer EXCEPT ![b] = "send"]
          /\ alert' = [alert EXCEPT ![b] =
               [batch |-> opener, jobs |-> BatchEnqueuedJobs,
                running |-> {i \in DOMAIN BatchEnqueuedJobs :
                               BatchEnqueuedJobs[i] = ActiveJob}]]
    /\ UNCHANGED <<runVars, lockVars, queueVars, batchVars, mount, noticeVars>>

\* The alert is sent after StateMutex has been released.
DebouncerSend(b) ==
    /\ debouncer[b] = "send"
    /\ debouncer' = [debouncer EXCEPT ![b] = "done"]
    /\ alert' = [alert EXCEPT ![b] = NoAlert]
    /\ UNCHANGED <<runVars, lockVars, queueVars, batchVars, mount, noticeVars>>

\* GetStatus holds StateMutex while it gathers the storage statistics.
StatusBegin(c) ==
    /\ stateLock = None
    /\ stateLock' = c
    /\ UNCHANGED <<runVars, queueLock, queueVars, batchVars, alertVars, mount, noticeVars>>

StatusEnd(c) ==
    /\ stateLock = c /\ MountAnswers
    /\ stateLock' = None
    /\ UNCHANGED <<runVars, queueLock, queueVars, batchVars, alertVars, mount, noticeVars>>

\* The percentage a GetStatus that returns now reports for the batch, in
\* hundredths of a percent as the quotient is not an integer.
ReportsProgress == IsBatchActive /\ BatchEnqueuedJobs # <<>>
BatchProgress ==
    (100 * (Len(BatchResults) * 100 + ActiveJobPercent)) \div Len(BatchEnqueuedJobs)

MountChange(m) ==
    /\ m # mount
    /\ mount' = m
    /\ UNCHANGED <<runVars, lockVars, queueVars, batchVars, alertVars, noticeVars>>

-------------------------------------------------------------------------------

RunStep(r) ==
    \/ CheckStorage(r) \/ Enqueue(r) \/ LockQueue(r)
    \/ DequeueAndSetActive(r) \/ MakeDirs(r) \/ CreateArchive(r)
    \/ \E p \in Percents : Progress(r, p)
    \/ \E s \in Outcomes : FinishArchive(r, s)
    \/ CleanupOldBackups(r) \/ ClearActive(r) \/ SendDigest(r) \/ UnlockQueue(r)

DebouncerStep(b) == DebouncerWake(b) \/ DebouncerSend(b)

Environment ==
    \/ \E T \in Targets : StartBackup(T)
    \/ \E r \in Runs, j \in Scheduled : CronFire(r, j)
    \/ \E c \in Clients : StatusBegin(c)
    \/ \E m \in Mounts : MountChange(m)

Next ==
    \/ Environment
    \/ \E c \in Clients : StatusEnd(c)
    \/ \E r \in Runs : RunStep(r) \/ DebouncerStep(r)

Spec == Init /\ [][Next]_vars

(***************************************************************************)
(* A sync.Mutex that a goroutine keeps waiting for is handed over to it     *)
(* (starvation mode), hence strong fairness for the steps that lock.  The   *)
(* commands a run waits for are assumed to end; requests, cron and the      *)
(* mount have no fairness.                                                  *)
(***************************************************************************)
Fairness ==
    /\ \A r \in Runs : SF_vars(RunStep(r)) /\ SF_vars(DebouncerStep(r))
    /\ \A c \in Clients : WF_vars(StatusEnd(c))

FairSpec == Spec /\ Fairness
-------------------------------------------------------------------------------
(* Safety.                                                                  *)

\* GlobalBackupQueue admits one run at a time, and ActiveJob names that run's
\* job, by its key or by its progress text, exactly while it is between
\* DequeueAndSetActive and ClearActive: what GetStatus shows as active is.
ActiveJobIsRunning ==
    /\ \A r, s \in Runs : Active(r) /\ Active(s) => r = s
    /\ \A r \in Runs : Active(r) => ActiveJob \in {Host(r), LabelOf[job[r]]}
    /\ ActiveJob # None => \E r \in Runs : Active(r)

\* No phantom entries: every key in QueuedJobs is there once, and some run that
\* waits for the queue will remove it.  A phantom would keep the batch open
\* for ever (ClearActive closes it only on an empty queue).
QueuedAreWaiting ==
    /\ IsInjective(QueuedJobs)
    /\ \A h \in Range(QueuedJobs) : \E r \in Runs : Waiting(r) /\ Host(r) = h

\* While a key is queued the batch is open and announces it: no run is left
\* behind by a batch that closes under it, in any order of enqueueing,
\* dequeueing and closing.
QueueBelongsToBatch ==
    QueuedJobs # <<>> =>
        IsBatchActive /\ Range(QueuedJobs) \subseteq Range(BatchEnqueuedJobs)

\* A batch is digested once: the run that closes it is the only one to find the
\* batch open and the queue empty.
OneDigestPerBatch ==
    \A i, j \in DOMAIN digests : digests[i].batch = digests[j].batch => i = j

\* Unless runs of one key overlap, every run past EnqueueJob and before
\* ClearActive is in the open batch's list, so its results fall in that batch.
BatchCoversRuns ==
    \A r \in Runs : Waiting(r) \/ Active(r) =>
        IsBatchActive /\ Host(r) \in Range(BatchEnqueuedJobs)

\* Unless runs of one key overlap, the step that resets BatchResults (a run
\* opening the next batch) finds them all in a digest already handed over.
NoResultDiscarded ==
    [][BatchResults # <<>> /\ BatchResults' = <<>> =>
         \E i \in DOMAIN digests : digests[i].results = BatchResults]_vars

-------------------------------------------------------------------------------
(* The abstract specification.  StateMutex is held from the step that clears *)
(* IsBatchActive to the step that hands the digest over: the batch ends      *)
(* with the second.                                                          *)

Phase(r) ==
    IF pc[r] \in {"idle", "check", "enqueue"} THEN "away"
    ELSE IF Waiting(r) THEN "waiting"
    ELSE IF Active(r) \/ pc[r] = "stats" THEN "running"
    ELSE "over"

BatchOpen == IsBatchActive \/ \E r \in Runs : pc[r] = "stats"

Ledger == INSTANCE BatchLedger WITH
    phase   <- [r \in Runs |-> Phase(r)],
    tally   <- IF BatchOpen THEN BatchResults ELSE <<>>,
    reports <- [i \in DOMAIN digests |-> digests[i].results]

\* Unless runs of one key overlap, the queue implements the ledger: however
\* requests, cron entries, locks and failures interleave, executions are
\* serial and each batch is reported once, by its last run, with exactly the
\* results of its runs.
LedgerSpec == Ledger!Spec

-------------------------------------------------------------------------------
(* The inductive invariant: what the safety properties above rest on.       *)

\* Past EnqueueJob.
Queued(r) == pc[r] \notin {"idle", "check", "enqueue"}

\* The program counters say who owns the two mutexes.
LockOwners ==
    /\ \A r \in Runs : (Active(r) \/ pc[r] \in {"dequeue", "stats", "unlock"}) <=> queueLock = r
    /\ \A r \in Runs : pc[r] = "stats" <=> stateLock = r

\* A batch is known by its opener, a run that can open no other one, and is
\* closed before its digest is sent.
BatchOpeners ==
    /\ opener \in Runs => Queued(opener)
    /\ \A i \in DOMAIN digests : digests[i].batch \in Runs /\ Queued(digests[i].batch)
    /\ BatchOpen => opener \in Runs /\ \A i \in DOMAIN digests : digests[i].batch # opener
    /\ \A r \in Runs : pc[r] = "stats" => ~IsBatchActive

SafetyInv ==
    /\ LockOwners
    /\ ActiveJobIsRunning
    /\ QueuedAreWaiting
    /\ QueueBelongsToBatch
    /\ BatchOpeners
    /\ OneDigestPerBatch

\* What BatchCoversRuns and the refinement rest on besides, when MayOverlap is
\* FALSE: runs in flight have different keys, and so a waiting run's key stays
\* in the queue until that run itself removes it.
OneRunPerHost ==
    \A r, s \in Runs : InFlight(r) /\ InFlight(s) /\ Host(r) = Host(s) => r = s

WaitingAreQueued == \A r \in Runs : Waiting(r) => Host(r) \in Range(QueuedJobs)

\* What a closed batch leaves in BatchResults has been handed over.
LeftoversAreDigested ==
    ~BatchOpen /\ BatchResults # <<>> =>
        \E i \in DOMAIN digests : digests[i].results = BatchResults

LedgerInv ==
    /\ OneRunPerHost
    /\ WaitingAreQueued
    /\ BatchCoversRuns
    /\ LeftoversAreDigested

-------------------------------------------------------------------------------
(* Liveness, under FairSpec and a mount that answers.                       *)

\* Every started run leaves RunSingleBackup: no run starves on the two locks.
RunsFinish == \A r \in Runs : pc[r] = "check" ~> pc[r] = "done"

\* Every batch that opens is digested: the flag never sticks.
BatchesDigested ==
    \A b \in Runs : IsBatchActive /\ opener = b ~>
        \E i \in DOMAIN digests : digests[i].batch = b

-------------------------------------------------------------------------------
(* What the documents say of the queue, and the code does not do.           *)

\* CHANGELOG: a "Fluid Batch Progress Tracker" of fractional slices; TODO:
\* ((Completed * 100) + ActiveJob%) / Total.  A percentage is at most 100.
ProgressIsAPercentage == ReportsProgress => BatchProgress <= 10000

\* The debouncer's comment: a batch that has finished before it woke up is not
\* announced.  The alert a debouncer is about to send is about the batch it was
\* started for.
AlertIsOfOwnBatch ==
    \A b \in Runs : debouncer[b] = "send" => alert[b].batch = b

\* "Highlight the active job": while a listed job streams, its entry in the
\* alert's list is highlighted.
ActiveIsHighlighted ==
    [][\A b, r \in Runs :
         /\ debouncer[b] = "sleep" /\ debouncer'[b] = "send"
         /\ pc[r] = "stream" /\ Host(r) \in Range(BatchEnqueuedJobs)
         => alert'[b].running # {}]_vars

\* README: executions are grouped into unified digests.  A result is in a
\* digest, or still in the list of a batch that will be digested.
ResultsAreDigested ==
    ~BatchOpen =>
        \A i \in DOMAIN BatchResults : \E d \in DOMAIN digests :
            BatchResults[i] \in Range(digests[d].results)

\* README: the same, for a run whose directories or files cannot be created: a
\* run that was not aborted by the mount check has a result.
ExecutionsHaveResults ==
    \A r \in Runs :
        pc[r] = "done" /\ r \notin criticals /\ job[r] \notin Orphaned /\ ArchivesOf[job[r]] > 0 =>
            \/ \E i \in DOMAIN BatchResults : BatchResults[i].run = r
            \/ \E d \in DOMAIN digests : \E i \in DOMAIN digests[d].results :
                 digests[d].results[i].run = r

\* The digest's colour ("Red", "Yellow", "Default to green") is the one of its title.
ColorMatchesTitle == \A i \in DOMAIN digests : digests[i].color = digests[i].title

\* CHANGELOG: the sentinel checks abort backups before they can freeze the
\* daemon.  A run that has the queue leaves it.
QueueNeverFreezes == \A r \in Runs : queueLock = r ~> queueLock # r
===============================================================================
