# Verification of gobackup

TLA+ models of `gobackupd`, the backup daemon of this repository, the TLC
configurations that check them on small instances, and TLAPS proofs for any
number of runs, jobs, clients, archives and requests. All line numbers are of the files under `src/`;
`backup.go`, `server.go`, ... are those of `src/internal/engine/`.

## 1. The system

`gobackupd` (src/cmd/gobackupd) is one process. Cron entries (`scheduler.go`)
and gRPC handlers (`server.go`) start a goroutine per backup run; a run streams
`tar` over SSH into a file of hot storage, records its SHA-256 and prunes old
archives. `gbctl` is a thin client. All state lives in package-level globals, in
the backup directories, in an SQLite file and in YAML files.

| Component | State | Operations | Meets |
|---|---|---|---|
| Job queue and batch (`backup.go` 76-250, 315-519) | `QueuedJobs`, `ActiveJob`, `IsBatchActive`, `BatchResults`, `BatchEnqueuedJobs`, `GlobalBackupQueue`, `StateMutex` | `EnqueueJob`, `DequeueAndSetActive`, `progressWriter.Write`, `pushJobResult`, `ClearActive`, the debouncer | runs and `GetStatus` through `StateMutex`; notifications by goroutines |
| Archive chains and tiers (`backup.go` 261-313, 624-810; `server.go` 235-437, 673-769) | the files of hot and cold storage, the remote `.snar` snapshot | FULL/INC decision, `CleanupOldBackups`, `CleanupColdStorage`, `PruneBackups`, `RemoveBackup`, `RestoreBackup` | the directories, with no lock |
| Archive writer (`backup.go` 521-622) | the target file, the gzip buffer, the hash | `executeBackupCommand` | queue, registry |
| Hash registry (`db.go` 92-130, `server.go` 771-804) | table `archive_hashes`, YAML mirror | `SaveHash`, `GetHash`, `MarkCompromised`, `ValidateHashes` | writer, listing |
| Configuration and scheduler (`config.go`, `scheduler.go`, `server.go` 137-201, 640-671) | `Server.cfg`, `Server.scheduler`, YAML files | `AddJob`, `RemoveJob`, `AddServer`, `RemoveServer`, `LoadConfig` | handlers of one process with no lock |
| Log broker (`broker.go`, `server.go` 98-118) | subscriber channels | `Subscribe`, `Unsubscribe`, `Broadcast`, `WatchLogs` | every run logs through it; attached clients read from it |
| Notification channels (`notifications.go`) | none; goroutines | `SendNotifications`, five `Send`s | runs, `ClearActive` and the debouncer send through it |
| Authentication (`auth.go`, `interceptors.go`, `db.go` 24-89) | table `users` | `CreateUser`, `ValidateToken`, interceptors | every TCP request |
| TLS bootstrap and listeners (`tls.go`, `main.go`, `server.go` 41-79) | two PEM files, the port, the socket file | `LoadOrGenerateTLS`, `Server.Start` | start of the daemon |
| Storage statistics (`stats.go`) | none | `GetStorageStats` | `GetStatus`, the digest |
| `gbctl` (`src/cmd/gbctl`) | the saved token (`auth.json`) | one gRPC call per command; `job run --attach`, `backup list`, `backup info` | all services |
| GitOps sync, terminal UI, generated code | none that matters here | I/O and rendering | - |

What is hard in this code:

- **Interleaving.** Two mutexes are taken one after the other by every run, the
  batch is closed by whichever run finds the queue empty, and a debouncer acts
  on globals two seconds later. Pruning, removing and restoring share
  directories with the runs and have no lock at all.
- **Failure.** A command may fail after it has changed remote state; a copy, a
  snapshot reset or a mount may fail; the daemon may stop at any point of a
  stream or of a move.
- **Liveness.** One stale mount inside a critical section stops every run.
- **Slow peers.** A client that stops reading, an SMTP relay that never answers and a
  mount that hangs are all met while a mutex is held or about to be taken.
- **Names as the index.** Server, job, volume and chain of an archive are read from its
  file name, by five pieces of code in five ways.
- **Stale state.** Listings, decisions and the mount check are used long after
  they were made.

`PROJECT.json` lists each hazard with its line and the properties that cover it.

## 2. Modules

| Module | Models | Status |
|---|---|---|
| `BackupQueue` | queue, active job, batch, debouncer, digest, the two mutexes, `GetStatus`, the mount | complete |
| `BatchLedger` | abstract specification of the above: serial executions, one report per batch | complete |
| `SequenceLemmas` | lemmas about the sequence and set operators the proofs share | |
| `BackupQueueProofs` | theorems about `BackupQueue`: six in any interleaving; three where runs of one key do not overlap, the refinement of `BatchLedger` among them | 9 theorems |
| `ArchiveChains` | one job's archives in hot and cold storage, runs, prunes, removals, restores, crashes | complete |
| `ArchiveCatalog` | the archives of all jobs and volumes by name: what prune, restore, removal, listing, statistics and `gbctl` take for whose | complete but for disk sizes |
| `ArchiveWriter` | one archive file: gzip buffer, file, hash, exit code, result | complete |
| `ConfigScheduler` | jobs and servers in memory and on disk, the scheduler and the slices it keeps, requests, restarts | complete |
| `HashRegistry` | archive names, salts, rows of `archive_hashes`, sweeps | complete but for the YAML mirror |
| `LogStream` | the log broker, `WatchLogs`, the attached client | complete |
| `Notifications` | extends `LogStream`: the runs that log and send, the notification channels | complete but for wording |
| `DaemonAccess` | start of the daemon, TLS files, port and socket, tokens, interceptors, `gbctl`'s token | complete |
| `ArchiveChainsProofs` | theorems about `ArchiveChains`: types, order, retention, complete copies, intact chains, restores | 7 theorems |
| `DaemonAccessProofs` | theorems about `DaemonAccess` | 3 theorems |
| `ArchiveWriterProofs` | theorems about `ArchiveWriter` | 3 theorems |
| `HashRegistryProofs` | theorems about `HashRegistry` | 3 theorems |
| `NotificationsProofs` | theorems about `LogStream` and `Notifications` | 4 theorems |
| `ConfigSchedulerProofs` | theorems about `ConfigScheduler`, with any number of handlers | 4 theorems |
| `MCBackupQueue`, `MCArchiveChains`, `MCArchiveCatalog`, `MCArchiveWriter`, `MCConfigScheduler`, `MCHashRegistry`, `MCNotifications`, `MCDaemonAccess` | instances for TLC | |

How they meet: `BackupQueue` keeps what an archive or an alert does to the queue and no
more. Its `FinishArchive` is `ArchiveWriter` as a whole, its `CleanupOldBackups` is
`ArchiveChains`' pruning, its `SendDigest` and `DebouncerSend` are the senders of
`Notifications`. `ArchiveChains` takes one group of files step by step,
`ArchiveCatalog` all groups with each operation as one step.

### BackupQueue

A *run* is a goroutine in `RunSingleBackup`. `pc[r]` names the point it has
reached; each action is one critical section or one blocking operation of the
code:

| Action | Code |
|---|---|
| `StartBackup`, `CronFire` | `server.go` 83-96, `scheduler.go` 26-47 |
| `CheckStorage` | `verifyNFSMount` and the server lookup, `backup.go` 315-334 |
| `Enqueue` (`WithHost`, `JoinBatch` or `OpenBatch`) | `EnqueueJob`, 127-188 |
| `LockQueue`, `UnlockQueue` | `GlobalBackupQueue`, 341-347 |
| `DequeueAndSetActive` (`WithoutHost`) | 190-202 |
| `MakeDirs`, `CreateArchive` | the early returns at 349-360 and 521-526 |
| `Progress` (`Capped`) | `progressWriter.Write`, 46-69 |
| `FinishArchive` | `cmd.Run` returns, `pushJobResult`, 571-622 |
| `CleanupOldBackups` | 517-519; its effect is modelled in `ArchiveChains` |
| `ClearActive`, `SendDigest` | the deferred `ClearActive`, 204-249, in two steps because it does disk I/O under `StateMutex` |
| `DebouncerWake`, `DebouncerSend` | the goroutine of `EnqueueJob`, 151-184 |
| `StatusBegin`, `StatusEnd` | `GetStatus`, which also does disk I/O under `StateMutex` |

Data are abstracted: a queue key (`server_job`) is an element of `Hosts`, a
progress text an element of `Labels`, an exit code its status. A critical
section without I/O is one action, as nothing else can see the globals meanwhile
(every access but the one of `GetStatus`'s returned slice is under
`StateMutex`). `stateLock` is kept as a variable for the sections that do I/O.
The ghost variables `opener` and the `batch` field of digests name a batch by
the run that opened it.

`MayOverlap = FALSE` is an assumption on the environment: no job is started while
a run with its queue key is in flight. The code does not enforce it (cron does
not skip a late entry and `StartBackup` does not look), so the run `overlap`
and the first six theorems of `BackupQueueProofs` do without it; `serial` and the last three
need it, and the configuration `MCBackupQueue_lost` shows what happens otherwise.

### ArchiveChains

The archives of one job (or one of its volumes). A tier is a sequence of archives
ordered by modification time, which is how every handler of the code orders
them. An archive is a number (its name's time stamp) with `kind` (FULL or INC,
from its name) and `base`: the archive whose state the remote snapshot held when
tar started, 0 for a complete dump. `whole` tells complete files from truncated
ones; no handler of the code can tell them apart.

Runs go `Decide` (`isTimeForFullBackup`), `CreateArchive` (`resetSnapshot`, the
target file), `Complete` or `Fail`, and then prune. A *worker* is a handler that
deletes or moves files one by one from a list made beforehand: the prune at the
end of a run, a `PruneBackups` or a `RemoveBackup` request, which is "removing" files of hot
storage or "purging" files of cold storage. It lists hot storage (`ListHot`), takes each
expired file in turn and then lists and prunes cold storage (`ListCold`, `DeleteListed`).
Without cold storage a file is deleted (`DeleteExpired`). With it, `moveFileAcrossPartitions`
is five steps: `OpenExpired` (`os.Open`; from here on the file is read to its end even if it is
removed meanwhile), `CreateCopy` (`os.Create`, which cuts off the copy another worker may be
writing), any number of `WriteCopy` (`io.Copy`, each write renews the modification time, so
that a copy moves to the end of its tier as long as it is written), `EndCopy` and `RemoveCopied`
(`os.Remove` of the source). `copy[w]` is what the copy under way will leave: a whole archive,
a part, or nothing in the directory if somebody has removed the file it writes to. `Removed` is
`os.Remove`, whose error the code drops or logs and so goes on. `SkipPrune` is a mount that does
not answer. `RestoreBackup`, `Extract`, `RestoreEnds` are the restore handler.

`FaultModels` lists the sets of what may go wrong; a behaviour starts with one of them,
`faults`, and keeps it. Two members are no failures but uses, which nothing in the code
prevents: "prunes", two prunes at a time, and "overlap", a `RemoveBackup` while a run, a prune or
a restore goes on. Where "prunes" is absent `ListHot` waits until no other prune is under way.
Where "overlap" is absent the guards of `RemoveBackup`, `Decide` and `RestoreBackup` keep the
request apart from runs and restores, and let it begin only when no prune is under way (a
`PruneBackups` may begin during it). What the extracting `tar` does with a complete file
is external: it succeeds, or fails where "command" is a fault. (The files the
present writer produces lack the gzip trailer, see section 5, so with them it
always fails; `ArchiveChains` is about archives that can be read.)

### ArchiveWriter

`executeBackupCommand` for one archive. The command's output is the sequence of its
chunks, compression keeps it, and a hash is the sequence that was hashed. `Out` is
`io.MultiWriter(outFile, hasher)`: a write may reach the file in part, and the hasher
only when the file has taken all of it. `CommandEnds` is the return of `cmd.Run`, which
reports a failed write only if the command itself has ended with 0, and
`outFile.Close`; `SaveHash`, `Record` and the deferred `CloseGzip` follow in this
order. Runs of other jobs share nothing with it, so the module has one actor.

### ConfigScheduler

`s.cfg.Jobs` and `s.cfg.Servers` are Go slices, and they are modelled as such: `arrays`
holds the backing arrays by capacity, `header` the capacity and length the server
sees. `View` is what any other header sees of the same array, which matters because
`NewScheduler` copies the configuration with its headers, and the handlers then append
to the arrays and shift them. `Loaded` is `LoadConfig`, `Boot` the start of the daemon.

A request is `Update` (the change in memory), `Save` (the file) and, for a job, `Stop`,
`Replace`, `Start` (the entries are added to cron) and `Run` (cron runs) of the scheduler;
nothing is locked, so each is a step of its own, and where "overlap" is among the faults any
number of handlers take turns at them. `schedulers` holds every scheduler since the daemon
started, as one that was replaced may still run or be started; `current` is `s.scheduler`, and a
handler starts whichever it is when it gets there. An update of a list is one step, although two
at once are a data race on the header and its array, with no defined outcome: so what is said of
the lists (`ScheduledAsAcknowledged`, `KnownServersFound`) is said for requests one at a time,
and what is said of the scheduler and the files for any overlap. A file
operation may fail and a write may leave the file torn, that is truncated and empty;
`yaml.Unmarshal` accepts an empty file, so it is loaded as an element with no name. The
ghosts `acked` and `known` say what the clients have been told; a name for which two requests
have overlapped is "disputed" and one whose request failed "unknown", as no answer says which
definition is to hold. Names of jobs stand for
the pair of server and job; what a definition says is a member of `Versions`, those of
`Valid` have a schedule that cron accepts.

### HashRegistry

The archives of one job in the backup directory. A row's hash is abstracted to the
archive whose hash was its salt, the contents of an archive to whether it has been
`altered`. `Create` is the part of `executeBackupCommand` that creates the file and reads
the directory for the salt, `Finish` its end; `Remove` is any removal, `Alter` somebody
at the disk. A sweep (`ValidateHashes`) lists the directory and then takes one file after the
other in the order of the names, the row (`ReadRow`) before the file (`ReadFile`). `Before`
is that order: `FULL` and `INC` come before the time stamp in a name.

Requests for names that do not exist change nothing and are left out.

### ArchiveCatalog

A directory (`root` or its `docker-volume`) is a sequence of archives by modification
time. `Name` is what `strings.Split(name, "_")` returns: server, job and volume are
sequences of parts themselves, date and time are one part, so "six parts or more" in the
code is five here (`IsDockerFile`). `Group` is the grouping of `CleanupOldBackups` and
`CleanupColdStorage`, `RestorePlan` that of `RestoreBackup`, `Removal` that of
`RemoveBackup`; `Entries`, `Before` and `ListBackups` are the listing with its sort
function, `InfoChain` and `ListTarget` what `gbctl backup info` and `backup list` make of
it, `Dirs` and `TotalBackups` the directories and the count of `GetStorageStats` (the
listing builds its directories alike). The variables change by `Archive` (FULL by choice,
INC only where `isTimeForFullBackup` finds a FULL archive of that name), `Prune` and
`RemoveBackup`. An archive carries its `key`, which no operation reads: the properties
compare what is read from the name with it. Prefixes are compared by parts: a name that
merely continues another without an underscore is told apart by the code too.

### LogStream and Notifications

`Broadcast` takes the broker's mutex; `Offer` is one turn of its loop, `TimesOut` the
second a summary or a status waits for a full channel, `Unlock` its return. A watcher is
a `WatchLogs` handler (`handler`), its stream (`wire`, which holds `Window` chunks, as
HTTP/2 flow control does) and the client at the other end. The client stops reading at
the text of a failed or warned archive, of any job, and stays connected until its user
leaves; the handler finds out at the next `Send`. Chunks are numbered, with their kind.

`Notifications` adds who logs and who sends. A logger has a role: a run whose mount does
not answer (`StorageAlert`), one that succeeds or fails, the debouncer. A run is reduced
to its logs, the two mutexes and `ClearActive`, which sends the digest if the batch ends.
A call is one goroutine of `SendNotifications`: `DiscordSend`, `DispatchSend`,
`WebhookSend`, `EmailSend`, `GraphAuth` and `GraphSend` end with the alert delivered or
not and with an error or not (`Ends`); a lost answer is an error although the alert has
arrived. A channel is a type and whether its configuration is complete. `Scenarios` gives
a behaviour its roles, its channels and the clients that may attach.

### DaemonAccess

`Start(d)` is one daemon's way through `main`: `Boot` (configuration, table, scheduler),
`StatPair`, `WriteCert`, `WriteKey` and `LoadPair` (`LoadOrGenerateTLS`), `Listen` and
`TakeSocket` (`Server.Start`). A certificate or key file holds the number of the pair it
belongs to. `Stop` ends a daemon and leaves its socket file; the supervisor starts it again
(`Restart=always`, systemd/gobackupd.service). A call goes `Dial`, `AuthInterceptor` or
`StreamAuthInterceptor`, for `GenerateToken` `CreateUser`, `Reply`. `GenerateToken` comes by
the socket and needs no token, the other methods come by TCP. `issued` is the history
of tokens, `users` the table, which keeps the last one of each user. `Login` saves any token
that a reply has brought.

## 3. What the runs check

`PROJECT.json` lists twelve runs, one for each distinct question. The configurations of
`BackupQueue`, `ArchiveChains`, `ArchiveWriter` and `ConfigScheduler` set `CHECK_DEADLOCK
FALSE`: runs are started once, and archives and requests are bounded, so these models
really stop. The others are checked for deadlock.

`BackupQueue`:

| Run | Instance | Shows |
|---|---|---|
| `serial` | 3 runs, 2 jobs, no overlap, commands that succeed or fail | `BatchCoversRuns`, `NoResultDiscarded`, and `LedgerSpec`: the queue implements `BatchLedger` |
| `overlap` | 2 runs of 2 jobs that may overlap (one on a removed server), unmounted storage, 1 `GetStatus`, fairness | `TypeOK`, `ActiveJobIsRunning`, `QueuedAreWaiting`, `QueueBelongsToBatch`, `OneDigestPerBatch`; `RunsFinish`, `BatchesDigested` |

Three runs are what it takes to have one run active, one waiting and one entering,
hence every order of enqueueing, dequeueing and closing, and two batches in a row
of which the first has two runs: `serial` has them. In `overlap` two runs suffice for
runs that share a key, and the theorems of section 4 cover its safety properties for any number.
Percentages 40 and 150 lie on both sides of the
cap. Jobs with no archive are not configured: the UI does not make them.

`ArchiveChains` (5 archives, retention 2 in hot storage, retention 1 or no cold storage):

| Run | Instance | Shows |
|---|---|---|
| `chains_intact` | nothing fails; `PruneBackups` and a restore at any time. Either prunes take turns and `RemoveBackup` of whole chains comes between runs, prunes and restores: | `ChainsIntact`, `AnchoredRestoreRebuilds`, and the next two |
| | or prunes and removals overlap with everything: | `CopiesComplete`, `RetentionHolds` |
| `chains_keep` | no handler but the run's own prune; failing commands, copies, resets and mounts, or failing commands and mounts and a daemon that stops anywhere, also within a copy | `TypeOK`, `TiersOrdered`, `KeepsRetention` |

`KeepsRetention` counts the FULL archives that a crash has torn, as the code does;
`TiersOrdered` is claimed where no copy or removal of a file fails and prunes take turns;
`ChainsIntact` and `AnchoredRestoreRebuilds` are claimed where prunes take turns. What happens
otherwise is in section 5: two prunes at once can leave cold storage in the wrong order, because
one's copy of an older file may go on after the other has moved a younger one.
Five archives with retention 2 leave room for a chain of two before and after: a chain of
three archives can expire into cold storage, and out of it behind another. Retention 2, and
not 1, is what it takes for `RemoveBackup` to find a chain that is neither the newest nor
expired. The theorems of section 4 cover any number of archives, counts and clients.

`ArchiveCatalog` (5 archives; a job with two volumes in the global directories with cold
storage, and a job with directories of its own and no cold storage):

| Run | Instance | Shows |
|---|---|---|
| `names` | names without underscores | `PruneGroupsAreOwn`, `RestoreIsOwn`, `InfoShowsRemoval`, `CountedOnce` |
| `volumes` | volumes `app` and `app_db` | disagreement, section 5 |

Five archives are two chains of one volume with another volume's or job's archive among
them, in both tiers. The two jobs make paths coincide (hot path and `BackupDir`, cold path and
global cold path) and differ.

`ArchiveWriter` (up to five chunks, blocks of two, with and without a salt):

| Run | Instance | Shows |
|---|---|---|
| `writer` | writes that fail at any byte, every exit code | `HashIsOfFile`, `HashedIsKept` |
| `truncated` | the same | disagreement, section 5 |

Five chunks and blocks of two cover an empty stream, one that ends on a block and one
that ends inside it, before and after a first block.

`ConfigScheduler` (2 jobs, 3 servers, a valid definition and one that cron refuses):

| Run | Instance | Shows |
|---|---|---|
| `config` | files of any of the jobs and servers to start with, failed and torn writes, restarts anywhere; 3 requests one after the other, or 2 that overlap | `DaemonSchedules`, `RestartKeepsAcknowledged`; one at a time, `ScheduledAsAcknowledged`, `KnownServersFound` |

Three servers are what it takes to fill an array of capacity two, to let it grow, and to
remove an element that is not the last; three requests add, change and remove one element
or reload the scheduler between two changes of the servers. Two requests are the least that
overlap (`FewOverlapping`), and then there is one server at most to start with, in all histories one
refused definition (`FewFiles`); the theorems `DaemonAlwaysSchedules` and `RestartsKeepAnswers` are about
any number of them. The handlers are symmetric (`ClientSymmetry`).

`HashRegistry` (3 archives, any runs, removals and alterations):

| Run | Instance | Shows |
|---|---|---|
| `registry` | 2 concurrent sweeps | `MarkedForAReason`, `SweepFindsAltered` |

Three archives give each order of names FULL and INC can have against time, and a sweep
has one archive behind it, one in hand and one before it. The two sweeps are symmetric.

The type invariants of `ArchiveWriter`, `ConfigScheduler` and `HashRegistry` are proved
(section 4) and in no listed run.

`Notifications` (2 loggers, 1 watcher, channel and window of one chunk):

| Run | Instance | Shows |
|---|---|---|
| `outlets` | 7 scenarios: two runs or a run and the debouncer, with an attached client or with up to three notification channels | `TypeOK`, `NeverSendsOnClosed`, `StreamIsFaithful`, `FailuresAreLogged`; `GoneAreDropped`, `RunsEnd` |

A capacity of one makes a channel full after one chunk, and a window of one makes a client
that has stopped reading block its handler at the second; the code's 10000 chunks only delay
this. Each type of channel appears, with a complete configuration and without, and the
debouncer meets a digest of its batch.

`DaemonAccess` (2 daemons, 1 client, 2 users, 2 tokens, 1 stop):

| Run | Instance | Shows |
|---|---|---|
| `access` | first start or a pair on disk, a second daemon at any time once there is a pair, a stop anywhere but between the two file writes | `TypeOK`, `ServerIsReached`; `LastTokenDecides`, `ServiceReturns` |

Two tokens issue one to each user, or a second one to a user who has the first saved, with
either role; one stop is enough to find every file and socket state a restart can meet, as the
files are written once.

### Fairness

`BackupQueue`'s `FairSpec` assumes strong fairness of each run's and each debouncer's steps and
weak fairness of `StatusEnd`. A step that locks a `sync.Mutex` needs strong
fairness: the mutex may be taken by others again and again, but Go hands it over to
a waiter that has waited a millisecond (starvation mode). Commands are assumed to
end: nothing in the code bounds them. Requests, cron and the mount have no
fairness, and `overlap` has no stale mount; the configuration `MCBackupQueue_freeze` shows what one does (section 5).

`Notifications` assumes the same of its runs and handlers, weak fairness of the holder of the
broker's mutex (it waits a second at most) and of a client that reads. HTTP calls end, as their
client has a timeout of ten seconds; an SMTP dialogue has none and no fairness. No client has to
attach, to leave or to be told to stop.

`DaemonAccess` assumes that each daemon goes on through `main`, from where it is, and is started
again when it has ended, which is systemd's `Restart=always`; under the OpenRC script, which has
no supervisor, nobody starts it again. Requests have no fairness.

## 4. What is proved

Every theorem is about `Spec` as TLC checks it, and takes the constants as any that satisfy the
module's named `ASSUME`. Where a theorem has a hypothesis besides, the table says so, and a
configuration of section 5 shows that the statement fails without it. The strengthened
invariants were checked by TLC on the listed runs' instances before they were proved.

### The queue

`BackupQueueProofs` proves, for any sets of runs, jobs, keys, labels, clients and
any configuration that satisfies `ConstantsAssumption`:

| Theorem | States |
|---|---|
| `TypeCorrect` | `Spec => []TypeOK` |
| `Safety` | `Spec => []SafetyInv` |
| `ActiveJobCorrect` | `Spec => []ActiveJobIsRunning` |
| `NoPhantomEntries` | `Spec => []QueuedAreWaiting` |
| `QueueIsOfOpenBatch` | `Spec => []QueueBelongsToBatch` |
| `DigestedOnce` | `Spec => []OneDigestPerBatch` |

The inductive invariant is `TInv /\ SafetyInv`. `TInv` is `TypeOK` and `Started`: a run
that is not idle has a job, and one that streams has an archive left to count
down. `SafetyInv` has six conjuncts:

1. `LockOwners`: `queueLock` and `stateLock` are owned by the runs whose program
   counters say so. `ActiveJobIsRunning` rests on it: only the owner of
   `GlobalBackupQueue` is between `DequeueAndSetActive` and `ClearActive`.
2. `ActiveJobIsRunning`.
3. `QueuedAreWaiting`: keys in the queue are distinct and belong to waiting runs.
   Distinctness is what makes the removal of one occurrence a removal of the key,
   and typing of `DequeueAndSetActive` needs it too.
4. `QueueBelongsToBatch`: a key enters the queue and the batch's list together, and
   the batch closes on an empty queue only.
5. `BatchOpeners`: a batch is named by a run that is past `EnqueueJob` and never
   comes back, no digest bears the name of the open batch, and the flag is down
   while a digest is prepared.
6. `OneDigestPerBatch`, which follows from 5 and 1.

There is one lemma per conjunct and one step per action in it. `SequenceLemmas` proves
what `Append` and the community modules' `RemoveFirst` do to the range and the
injectivity of a sequence; everything else about them is never unfolded.

Where `MayOverlap = FALSE`, it adds:

| Theorem | States |
|---|---|
| `RunsAreCovered` | `Spec => []BatchCoversRuns` |
| `ResultsAreKept` | `Spec => NoResultDiscarded` |
| `ImplementsLedger` | `Spec => LedgerSpec`: every step of the queue is a step of `BatchLedger` or none |

The invariant above says who holds what and nothing of a batch that closes too early.
`LedgerInv` adds that runs in flight have different keys (`OneRunPerHost`), so that a waiting
run's key stays in the queue until that run removes it (`WaitingAreQueued`): only then is an
empty queue the end of the batch, and every run past `EnqueueJob` is in the list of the open
batch (`BatchCoversRuns`). `LeftoversAreDigested` is what makes the reset of `BatchResults`
harmless. In the refinement `FinishArchive` is the ledger's execution, and `SendDigest`, not
`ClearActive`, its report.

### Archives, tiers and restores

`ArchiveChainsProofs`, for any number of archives and clients, any retention counts and any
configuration that satisfies `ChainsAssumption`:

| Theorem | States | Where |
|---|---|---|
| `TypeCorrect` | `Spec => []TypeOK` | always |
| `TiersStayOrdered` | `Spec => []TiersOrdered` | always; the property speaks of histories where no copy or removal fails and prunes take turns |
| `CopiesStayComplete` | `Spec => []CopiesComplete` | always; the property speaks of histories where no copy or removal fails and the daemon does not stop, with any number of prunes at once |
| `RetentionKept` | `Spec => []RetentionHolds` | `FaultModels \subseteq SUBSET {"command", "reset", "overlap"}` |
| `FullsAreKept` | `Spec => KeepsRetention` | `Clients = {}`, every fault but "remove" |
| `ChainsStayIntact` | `Spec => []ChainsIntact` | a history has no fault or has "prunes", of which the property does not speak; `Removes \subseteq {"FULL"}` |
| `RestoresRebuild` | `Spec => []AnchoredRestoreRebuilds` | the same |

A failed copy, a silent mount or a stop leaves expired archives behind until the next prune, which
`RetentionHolds` excludes by what it says (that it holds with two prunes at once is
model-checked, and not proved); `PruneBackups` during a FULL run breaks `KeepsRetention`
(`MCArchiveChains_race`), and so does the file of a failed FULL archive that cannot be removed, as it
counts as a chain. Two prunes at once reverse the order of cold storage, and with it break its chains and the
restores from it (`MCArchiveChains_prunes`): three theorems say "prunes take turns" for this
reason, and nothing in the code makes them. Each single fault in the place of `{}` breaks what
`ChainsIntact` and `AnchoredRestoreRebuilds` say (`Restorable` and `AnchoredRestores`) on the
instance of `chains_intact`, a silent mount with two clients that prune and remove (section 5). A removed INC leaves those that follow it
(`server.go` 720).

The first half of the module is about the operators and no states: `Expired`, `PlanOf` and
`ChainOf` are `SubSeq`s whose ends are the `Max` and `Min` of sets of positions. On a list in
the order of the archives' numbers they come down to sets: `Heads(A)`, the archives that begin
a chain of `A`, `Younger(A, a)`, those of them after `a`, and "at least n of them". A worker's
list is from then on its set `Todo(w)`, a tier `Hot` or `Cold`, and every action of a worker is
one of nine relations (`ListsHot`, `Opens`, `Fills`, `Ends`, `DeletesHot`, `Passes`, `ListsCold`,
`DeletesCold`, `Stops`), shown once to cover `WorkerStep`. There are six inductive
invariants; the last four extend the first two:

1. `TInv`: the types, `FilesMade` (a tier lists archives that have been made, complete ones are
   listed), `Phases` (the run's worker is busy only in its last phase) and `InHand` (no list names
   a file twice, a file that was copied is at its head). `TypeOK` alone is not inductive: `made + 1`
   is an archive only because a run that has decided was allowed to, and `Append` keeps hot
   storage free of repetitions only because what it lists has been made. `CopiesTyped`: a copy that
   writes to a file of cold storage is of the archive in hand.
2. `OrderInv` adds, where no copy or removal fails (`MovesAll`), `Lowest`: what a pruning worker has
   in hand is a beginning of hot storage, for every worker, however old its listing: whatever is
   older than a file in hand is in hand or gone. That alone orders nothing, as a copy under way
   goes to the end of cold storage with each of its writes. `CopyLast`, nothing in cold storage is
   younger than a file that is being copied, needs `OnePrunes`: no other prune moves a younger one
   meanwhile. From both follows `ColdOrdered`.
3. `RetInv` adds, for reliable histories, `HotKept` and `ColdKept`: the chains of what the run
   has *not* in hand are within the count; in cold storage, while nobody moves, either the count
   holds or some worker that is to delete there has the surplus in hand. Any worker's prune may be
   the one that matters.
4. `KeepInv` extends `OrderInv` by `AllWhole` (without a stop, an unfinished file of hot storage is
   the one being written), `Unwritten` (that one is in hot storage and not complete) and `FullsKept`: without the archives in hand the FULL archives are still as
   many as the count. A removal of a file in hand therefore leaves as many.
5. `CopyInv` adds `HotComplete`, `MovingHands`, `OpenedWhole` and `ColdComplete`: who prunes never
   has the archive in hand that a run is writing, so what is opened is complete; and of a file in
   cold storage that is not, some copy is under way that will make it so. With two prunes one may
   cut off the other's copy, but then it is itself that copy.
6. `ChainInv` extends `RetInv` by `ChainParts` and `RestoreSound`. Without failures an INC is made
   relative to the archive numbered before it (`Bases`), so that chains are intervals of
   numbers. `Upward`: what follows an archive of hot storage in its chain is there too.
   `HotHands`, `MovingHands`, `ColdHands`: who deletes has the rest of the chain in hand.
   `CopyHands`: the file that is copied stays in hot storage until then, complete.
   `HotChains`, `ColdChains`: an INC without its predecessor in the tier is in the hand of somebody
   who will delete it, and is the oldest file if that is a prune. `OneRemoves` is where
   retention is needed: while a chain of hot storage is removed, no prune that begins finds
   anything expired. `BetweenTiers`: a chain that is moved in part goes on in cold
   storage without a gap. When all is quiet nobody has anything in hand, and `ChainsIntact`
   follows. `RestoreSound` needs no account of the files: a restore's plan was sound when it was
   made, and `Bases` never changes for archives that exist.

### Start and tokens

`DaemonAccessProofs` proves, for any sets of daemons, clients and users, any bounds and
with either fault, under `AccessAssumption`:

| Theorem | States |
|---|---|
| `TypeCorrect` | `Spec => []TypeOK` |
| `ServerReached` | `Spec => []ServerIsReached` |
| `AnsweredByLastToken` | `Spec => LastTokenDecides` |

All three follow from `AccessInvariant`, the invariance of `DaemonInv /\ TokenInv`. The
start of a daemon leaves the tokens alone and a call leaves the daemons alone, so each half
is shown to be preserved on its own; only `Stop` disturbs both.

- `DaemonInv` is the types and `Listeners`: the port belongs to a daemon from `Listen` until
  it ends, the socket exactly while it serves. `ServerIsReached` alone is not inductive: that
  only the owner of the port removes the socket needs the daemons between the two. `TypeOK`
  needs it as well: a daemon that ends in `LoadPair` or `Listen` must not be a listener.
- `TokenInv` is the types, `CreatedIsIssued` and `Table`: a row holds the last token issued
  for its user, with its role, and the last token of each user is in its row. The first half
  makes an admitted call an allowed one, the second an allowed call an admitted one
  (`AdmitsTheAllowed`); only `CreateUser` changes what they speak of.

### The archive file

`ArchiveWriterProofs`, for any output, block size, salts and exit codes under
`WriterAssumption`:

| Theorem | States |
|---|---|
| `TypeCorrect` | `Spec => []TypeOK` |
| `HashMatchesFile` | `Spec => []HashIsOfFile` |
| `HashedArchivesStay` | `Spec => []HashedIsKept` |

`WriterInv`: as long as no write has failed (`copied`) the hasher has seen what the file has
taken; a hash is saved only after a command that ended with 0, which it cannot with a failed
write; and by then the file no longer grows, because it is closed before the gzip writer. The
property thus rests on the very order that truncates the archives (section 5).

### The hash registry

`HashRegistryProofs`, for any number of archives and sweeps:

| Theorem | States |
|---|---|
| `TypeCorrect` | `Spec => []TypeOK` |
| `MarksHaveReasons` | `Spec => []MarkedForAReason` |
| `SweepsFindAlterations` | `Spec => []SweepFindsAltered` |

`RegistryInv` has the properties and what they rest on: an archive has no row before it is
complete (`UnfinishedHasNoRow`), so a sweep that has found a row reads a finished file; a row
is never taken away (`RowsStay`), even with its file; and what was altered when a sweep began
is still to be read, being read, or marked (`SweepsProgress`). `LeastExists` gives the sweep
its next file: a set of names that is not empty has a first one.

### Logs and notifications

`NotificationsProofs`, for any sets of runs and clients, any scenarios and any capacity and
window under `StreamAssumption` and `ScenarioAssumption`:

| Theorem | States |
|---|---|
| `TypeCorrect` | `Spec => []TypeOK` |
| `ClosedAreLeftAlone` | `Spec => []NeverSendsOnClosed` |
| `StreamsAreFaithful` | `Spec => []StreamIsFaithful` |
| `NoSilentFailure` | `Spec => []FailuresAreLogged` |

A chunk travels from the subscriber's channel through the handler's hand and the stream to the
client. `Way` is the concatenation of the four, and each action of the broker, the handler and
the client either moves the boundary between two of them, which leaves the way as it is, or
appends to it. `Complete` says of a way that its numbers increase and that the missing ones are
those the full channel refused; it is kept client by client (`Faithful`), up to the latest
chunk or the one before for a client the loop of `Broadcast` has yet to reach (`Offered`).
`Placed` ties the handler's place to the subscriber map and to the closing of its channel,
`Mutex` says that the loop only has subscribers left, `Started` that no client waits for a chunk
older than its subscription. The calls of the channels do not touch the streams, so `CallsInv`
is shown apart.

### Configuration and scheduler

`ConfigSchedulerProofs`, for any jobs, servers, versions, faults, number of requests and of handlers
that overlap, under `ConfigAssumption`:

| Theorem | States | Besides |
|---|---|---|
| `TypeCorrect` | `Spec => []TypeOK` | |
| `DaemonAlwaysSchedules` | `Spec => []DaemonSchedules` | |
| `ServersStayInSight` | `Spec => []KnownServersFound` | |
| `RestartsKeepAnswers` | `Spec => []RestartKeepsAcknowledged` | `Base = <<>>`, no fault model with "remove" |

Both hypotheses are needed: a job of `config.yaml` comes back (`MCConfigScheduler_base`), and so
does one whose file could not be removed (`_remove`). That the daemon's scheduler is the *only* one
that runs is not proved, as two handlers at once leave another (`_race`). `ConfigAssumption` bounds
a list by 16 elements at the start of the daemon, because `Capacity` lists the powers of two up to there; requests may go beyond.

`Inductive` has five parts. `ArraysInv`: a list fits its array and every array its capacity.
`RunsInv`, the strengthening of `DaemonSchedules`: if the current scheduler does not run, some
handler is about to replace it, about to start whichever is current, or about to let *this* one
run. It is not enough that a handler is about to let some scheduler run: another handler may have
replaced that one meanwhile, but then it has its own `Start` before it. `SchedulerInv`: the current
scheduler is the last one made, and `SliceOK`, the strengthening of `KnownServersFound`: each known server stands in the slice the scheduler keeps, and *if the
list still has the same array, within the list*. The last half is what is needed for the next
step: an update (`Keeps`) moves an element towards the beginning or not at all, so it stays
inside the slice; and an array the list has outgrown is written no more (`KnownServersFound` is stated for
requests one at a time all the same, since only then a list update is the one step it is here).
`RequestInv` and `FilesInv` are types. `RestartsKeepAnswers` adds `SavedInv`: what a client knows
of is what the file says, a torn file counting as none; from `Update` to the answer nobody knows;
from `Save` on the file has it, unless the name is disputed; and two handlers with one name
have disputed it.

### What is only model-checked

- Liveness: `RunsFinish`, `BatchesDigested`, `GoneAreDropped`, `RunsEnd`, `ServiceReturns`. The
  proof system handles neither fairness nor ENABLED.
- `ScheduledAsAcknowledged`: it compares with `SelectSeq`, which is recursive; that a selection
  contains an element once needs induction over sequences, which is out of reach here.
- `RetentionHolds` with two prunes at once.
- `ArchiveCatalog`: `PruneGroupsAreOwn`, `RestoreIsOwn`, `InfoShowsRemoval`, `CountedOnce`. Its
  operators sort, filter and group sequences, with induction over data throughout.

## 5. Where code and documents disagree

Runs that TLC finds violated; `PROJECT.json` quotes the line each contradicts.

| Run | What happens |
|---|---|
| `truncated` | the file is closed before the gzip writer: every successful archive lacks its last block and trailer |
| `volumes` | a restore of a volume resolves its chain through archives of another whose name shares its first part: only the third part of the name is compared (`server.go` 341) |

Further configurations, for the same modules, under which TLC finds the property they
name violated. They are kept for a reader of the code and are not among the listed runs:

| Configuration | Property | What happens |
|---|---|---|
| `MCBackupQueue_lost` | `ResultsAreDigested` | the second of two overlapping runs of one job is in no digest (`backup.go` 211) |
| `MCBackupQueue_reports` | `AlertIsOfOwnBatch` | a debouncer announces a batch that is not its own (`backup.go` 156) |
| | `ProgressIsAPercentage` | batch progress above 100 percent (`server.go` 597; TODO.md 13) |
| | `ActiveIsHighlighted` | a streaming job is never highlighted in the start alert (`backup.go` 165-167) |
| | `ExecutionsHaveResults` | a run that cannot create its file is in no digest (`backup.go` 524) |
| | `ColorMatchesTitle` | a failed digest in the colour of a warning (`backup.go` 229) |
| `MCBackupQueue_freeze` | `QueueNeverFreezes` | a mount that goes stale after the check holds the queue for ever (CHANGELOG.md 79) |
| `MCArchiveChains_race` | `KeepsRetention` | `PruneBackups` during a FULL run deletes the last complete chain (`server.go` 238) |
| `MCArchiveChains_broken` | `ChainsIntact` | a failed INC leaves a gap in its chain (`backup.go` 611) |
| | `ChainsIntact` | a snapshot that could not be deleted makes a FULL archive incremental (`backup.go` 312) |
| | `TiersOrderedAlways` | a failed copy leaves a chain in two tiers (`backup.go` 729) |
| `MCArchiveChains_partial` | `KeepsComplete` | a FULL archive truncated by a crash displaces complete ones |
| `MCArchiveChains_prunes` | `AnchoredRestores` | two prunes at once, no failure: one opens an INC and copies it while the other copies and removes the same INC and moves the next; the first copy's last write renews the older one's modification time, cold storage lists 1, 3, 2, and a restore of 3 extracts 1 and 3 and reports DONE (`backup.go` 634). `Restorable` and `TiersOrderedAlways` in its place are violated too |
| `MCArchiveChains_cut` | `ChainsIntact` | an INC made while its chain is removed (`server.go` 720) |
| | `AnchoredRestoreRebuilds` | `RemoveBackup` deletes the FULL archive first: if the daemon stops then, or a restore is asked for, its INCs join the previous chain (`server.go` 757) |
| `MCArchiveChains_intact` with `FaultModels = {{"mount"}}` | `RetentionHolds` | a run whose mount does not answer before its prune leaves the expired archives to the next one (`backup.go` 642) |
| | `ChainsIntact`, `AnchoredRestoreRebuilds` | also with `MaxArchives = 4`, `RetentionCount = 1`, `Clients = {"c1", "c2"}`: a prune that makes up for a skipped one, while `RemoveBackup` takes the same chain from hot storage, moves the INC on without its FULL archive |
| `MCArchiveChains_orphan` | `RestoreRebuilds` | a restore without a FULL archive reports DONE (`server.go` 368) |
| `MCArchiveCatalog_prune` | `PruneGroupsAreOwn` | pruning volume `app` takes the archives of `app_db` for its own (`backup.go` 674); with `Jobs <- Underscore`, a job whose name has an underscore is never pruned and its archives are taken for another's volume |
| `MCArchiveCatalog_target` | `ListFindsJob` | `gbctl backup list server job` asks for `server_job_`, which equals no server and no job: it lists nothing (`gbctl/backup.go` 51, `server.go` 502) |
| `MCConfigScheduler_race` | `OneScheduler` | two requests at once leave a scheduler that nobody can stop, or start one scheduler twice, which then holds each job twice (`server.go` 196) |
| `MCConfigScheduler_base` | `RestartKeepsAcknowledged` | a job of `config.yaml` that was removed comes back, one that was changed is loaded in its old form (`config.go` 112) |
| `MCConfigScheduler_remove` | `RestartKeepsAcknowledged` | a file that could not be removed brings its job back (`server.go` 664) |
| `MCConfigScheduler_unseen` | `ServersUpToDate` | a server that was added is not found by scheduled runs until some job is changed (`scheduler.go` 35) |
| `MCHashRegistry_alarm` | `NoFalseAlarm` | `ValidateHashes` leaves the salt out and marks a salted archive that nobody has touched (`server.go` 788) |
| `MCHashRegistry_salts` | `IncsAreSalted` | no INC archive is salted with its predecessor's hash: the new file is already there and is the greatest name (`backup.go` 547; CHANGELOG.md 15) |
| `MCNotifications_reports` | `AnnouncedBeforeDigest` | the start alert of a batch is sent after its digest: the debouncer has released `StateMutex` (`backup.go` 171) |
| | `AllProvidersCalled` | a channel of an unknown type is passed over without a word (`notifications.go` 293; docs/NOTIFICATIONS.md 3) |
| `MCDaemonAccess_window` | `ServiceReturns` | a stop or a failed write between certificate and key leaves a pair that never loads: both files exist, and every later start ends (`tls.go` 18-21, 51); with two daemons and `Faults = {"twice"}`, two first starts at once mix their pairs |
| `MCDaemonAccess_schedules` | `OneSchedules` | a second daemon has started its scheduler before it ends at the port (`main.go` 33) |

`MCBackupQueue_reports` lists five properties, `MCArchiveChains_broken`,
`MCArchiveChains_cut` and `MCNotifications_reports` two each; run them with `-continue -workers 1` to see each violated.

Read in the code and not yet modelled: `ValidateHashes` looks at the root of hot storage
only; `RestoreBackup` never asks whether an archive is marked COMPROMISED and
`CleanupOldBackups` does not sweep (CHANGELOG.md 18-20); the salt of one job may be that of
another whose name continues its own; `GetStatus` returns the live `QueuedJobs` slice.

## 6. Plan

Written: all modules of section 2, and the proofs of section 4. Next, in this order:

1. `QueueSlice`: the backing array of `QueuedJobs` under `GetStatus`.
2. `ChainsIntact` where a mount may not answer and there is no `RemoveBackup`, and
   `KeepsRetention` with a `PruneBackups` between runs.
3. `RetentionHolds` with any number of prunes at once.
4. A formulation of `ScheduledAsAcknowledged` without `SelectSeq`, to be proved like the rest of
   `ConfigScheduler`.

The listed runs stay at twelve, so that the whole set is quick to repeat; configurations that
repeat a known disagreement are kept in section 5.

## 7. Not modelled

- The terminal UI's spinner and lists, the wording and layout of messages (`buildFancyHTML`,
  `FormatStorageStatsMarkdown`), disk sizes, command-line parsing and the tables `gbctl` prints:
  no property is about them. The thin handlers that only read the configuration
  (`ListServers`, `ListJobs`) keep no state.
- Generated gRPC code, but for the names of the services' methods.
- `GitOpsSync` and `RunBackups` have no caller. Job pre-backup pauses are parsed and never used.
- The YAML mirror of the hashes, which is written and never read.
- Several daemons that share one socket file though their ports differ: the path is fixed
  (`server.go` 48), the port is a flag.
- What `tar`, `ssh`, SQLite and the TLS library do inside.
