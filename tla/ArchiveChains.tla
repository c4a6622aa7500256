----------------------------- MODULE ArchiveChains -----------------------------
(***************************************************************************)
(* The archives of one job (or one of its volumes) in hot and cold storage *)
(* (internal/engine/backup.go and server.go).                              *)
(*                                                                         *)
(* A run decides between a FULL and an INC archive, streams tar's output   *)
(* into a file of hot storage and prunes.  Pruning groups the files of a   *)
(* directory into chains (a FULL and the INCs after it), moves the chains  *)
(* beyond the retention count to cold storage or deletes them, then does   *)
(* the same in cold storage.  PruneBackups, RemoveBackup and RestoreBackup *)
(* work on the same directories with no lock.                              *)
(*                                                                         *)
(* What a directory lists is a sequence of archives ordered by their       *)
(* modification times.  The contents of an archive are abstracted to its   *)
(* base: the archive whose state the remote tar snapshot (.snar) held when *)
(* tar started, 0 for a complete dump.                                     *)
(***************************************************************************)
EXTENDS Integers, SequencesExt, FiniteSetsExt

CONSTANTS
    MaxArchives,     \* bound on the archives the runs create
    Incremental,     \* job.Incremental
    RetentionCount,  \* job.RetentionCount, 0: hot storage is not pruned
    ColdRetentions,  \* what job.ColdStorage.RetentionCount may be, 0: no cold storage
    Clients,         \* concurrent PruneBackups and RemoveBackup handlers
    MayRestore,      \* whether RestoreBackup is called
    Removes,         \* what RemoveBackup is asked for: kinds of archives
    FaultModels      \* what may go wrong in a history: subsets of AllFaults

\* A backup or restore command that fails, a snapshot that cannot be deleted,
\* RemoveBackup while a run, a prune or a restore goes on, two prunes at a time, a copy
\* to cold storage that fails, a file that cannot be removed, a mount that does not
\* answer, a daemon that stops.
AllFaults == {"command", "reset", "overlap", "prunes", "copy", "remove", "mount", "crash"}

ASSUME ChainsAssumption ==
    /\ MaxArchives \in Nat /\ RetentionCount \in Nat /\ ColdRetentions \subseteq Nat
    /\ Incremental \in BOOLEAN /\ MayRestore \in BOOLEAN
    /\ Removes \subseteq {"FULL", "INC"}
    /\ FaultModels \subseteq SUBSET AllFaults
    /\ "run" \notin Clients

Ids     == 1 .. MaxArchives
Tiers   == {"HOT", "COLD"}
Workers == Clients \cup {"run"}

VARIABLES
    faults,    \* what may go wrong in this history
    pc,        \* the run: idle, decided, writing or pruning
    kind,      \* the archives' names: FULL or INC
    made,      \* the number of archives created
    base,      \* what each archive is relative to
    snapshot,  \* the archive whose state the remote .snar holds, 0: no file
    cold,      \* job.ColdStorage.RetentionCount
    recent,    \* the FULL archive younger than FullInterval, 0: none
    files,     \* the archives in each tier, oldest modification first
    whole,     \* the archives whose file in the tier is complete
    worker,    \* what each pruning or removing handler is doing
    todo,      \* the archives it still has to handle
    copy,      \* what the copy under way leaves: a whole archive, a part of it, no file
    restore    \* the RestoreBackup handler

runVars    == <<faults, pc, kind, made, base, cold, snapshot, recent>>
workerVars == <<worker, todo, copy>>
vars       == <<runVars, files, whole, workerVars, restore>>

NoRestore == [pc |-> "idle", tier |-> "HOT", plan |-> <<>>, applied |-> <<>>]

\* The type invariant: no file is listed twice in a tier, whatever two workers move
\* or delete at once.
TypeOK ==
    /\ faults \in FaultModels
    /\ pc \in {"idle", "decided", "writing", "pruning"}
    /\ kind \in [Ids -> {"FULL", "INC"}]
    /\ made \in 0 .. MaxArchives
    /\ base \in [Ids -> 0 .. MaxArchives]
    /\ cold \in ColdRetentions
    /\ snapshot \in 0 .. MaxArchives /\ recent \in 0 .. MaxArchives
    /\ files \in [Tiers -> Seq(Ids)]
    /\ \A t \in Tiers : IsInjective(files[t])
    /\ whole \in [Tiers -> SUBSET Ids]
    /\ worker \in [Workers -> {"idle", "hot", "opened", "copying", "moved", "cold",
                              "removing", "purging"}]
    /\ todo \in [Workers -> Seq(Ids)]
    /\ copy \in [Workers -> {"none", "part", "whole"}]
    /\ restore \in [pc : {"idle", "extract", "DONE", "ERROR"}, tier : Tiers,
                    plan : Seq(Ids), applied : Seq(Ids)]

Init ==
    /\ faults \in FaultModels
    /\ pc = "idle" /\ made = 0
    /\ kind = [a \in Ids |-> "FULL"]
    /\ base = [a \in Ids |-> 0]
    /\ cold \in ColdRetentions
    /\ snapshot = 0 /\ recent = 0
    /\ files = [t \in Tiers |-> <<>>]
    /\ whole = [t \in Tiers |-> {}]
    /\ worker = [w \in Workers |-> "idle"]
    /\ todo = [w \in Workers |-> <<>>]
    /\ copy = [w \in Workers |-> "none"]
    /\ restore = NoRestore

\* A tier holds a file once.
Without(q, a) == RemoveFirst(q, a)

\* A worker is writing the copy of a.
Copying(v, a) == worker[v] = "copying" /\ Head(todo[v]) = a

\* os.Remove: an error is dropped, or logged, and a file that is gone is none.  A copy
\* that is still being written to the file is in no directory any more.
Removed(t, a) ==
    \/ /\ files' = [files EXCEPT ![t] = Without(@, a)]
       /\ whole' = [whole EXCEPT ![t] = @ \ {a}]
       /\ copy' = [v \in Workers |-> IF t = "COLD" /\ Copying(v, a) THEN "none" ELSE copy[v]]
    \/ "remove" \in faults /\ UNCHANGED <<files, whole, copy>>

-------------------------------------------------------------------------------
(* A run: decide, create, stream.                                           *)

\* isTimeForFullBackup looks for a FULL archive of hot storage that is younger
\* than the interval.
Decide ==
    /\ pc = "idle" /\ made < MaxArchives
    /\ "overlap" \in faults \/ \A w \in Workers : worker[w] # "removing"
    /\ pc' = "decided"
    /\ kind' = [kind EXCEPT ![made + 1] =
                  IF Incremental /\ recent \in Range(files["HOT"]) THEN "INC" ELSE "FULL"]
    /\ UNCHANGED <<faults, cold, made, base, snapshot, recent, files, whole, workerVars, restore>>

\* The interval of the newest FULL elapses.
Elapse ==
    /\ recent # 0 /\ Incremental
    /\ recent' = 0
    /\ UNCHANGED <<faults, cold, pc, kind, made, base, snapshot, files, whole, workerVars, restore>>

\* resetSnapshot, before a FULL archive: the error of its command is dropped.
ResetSnapshot(k) ==
    IF ~Incremental \/ k = "INC" THEN {snapshot}
    ELSE IF "reset" \in faults THEN {0, snapshot} ELSE {0}

\* The file is created, with the current time, and tar starts from the snapshot;
\* if the file cannot be created the run goes on to prune.
CreateArchive ==
    /\ pc = "decided"
    /\ snapshot' \in ResetSnapshot(kind[made + 1])
    /\ \/ /\ pc' = "writing"
          /\ made' = made + 1
          /\ base' = [base EXCEPT ![made + 1] = IF Incremental THEN snapshot' ELSE 0]
          /\ recent' = IF kind[made + 1] = "FULL" THEN made + 1 ELSE recent
          /\ files' = [files EXCEPT !["HOT"] = Append(@, made + 1)]
       \/ /\ "command" \in faults
          /\ pc' = "pruning"
          /\ UNCHANGED <<made, base, recent, files>>
    /\ UNCHANGED <<faults, cold, kind, whole, workerVars, restore>>

\* The command ends with exit code 0 or 1.  The file may have been removed since.
Complete ==
    /\ pc = "writing"
    /\ pc' = "pruning"
    /\ whole' = [whole EXCEPT !["HOT"] = @ \cup ({made} \cap Range(files["HOT"]))]
    /\ snapshot' = IF Incremental THEN made ELSE snapshot
    /\ UNCHANGED <<faults, cold, kind, made, base, recent, files, workerVars, restore>>

\* Seeded bug: the file of a failed command stays.
FailAndKeep ==
    /\ pc = "writing" /\ "command" \in faults
    /\ pc' = "pruning"
    /\ snapshot' \in {snapshot, IF Incremental THEN made ELSE snapshot}
    /\ UNCHANGED <<faults, cold, kind, made, base, recent, files, whole, workerVars, restore>>

\* The command fails: the file is removed.  The remote tar may have got to its
\* end, and then it has written the snapshot (a connection that breaks).
Fail ==
    /\ pc = "writing" /\ "command" \in faults
    /\ pc' = "pruning"
    /\ Removed("HOT", made)
    /\ snapshot' \in {snapshot, IF Incremental THEN made ELSE snapshot}
    /\ UNCHANGED <<faults, cold, kind, made, base, recent, worker, todo, restore>>

-------------------------------------------------------------------------------
(* Pruning: CleanupOldBackups and CleanupColdStorage.                       *)

\* A file starts a chain if it is a FULL archive, or the first one.
Starts(q) == {i \in DOMAIN q : i = 1 \/ kind[q[i]] = "FULL"}

\* Seeded bug: the newest of the expired files is handled first.
ExpiredNewestFirst(q, n) ==
    Reverse(SubSeq(q, 1, Max({0} \cup {i \in DOMAIN q : Cardinality({k \in Starts(q) : k > i}) >= n})))

\* The files, oldest first, of the chains before the last n.
Expired(q, n) ==
    LET old == {i \in DOMAIN q : Cardinality({k \in Starts(q) : k > i}) >= n}
    IN  SubSeq(q, 1, Max(old \cup {0}))

UsesCold == cold > 0

MayPrune(w) == worker[w] = "idle" /\ (w = "run" => pc = "pruning")

Finished(w) ==
    /\ worker' = [worker EXCEPT ![w] = "idle"]
    /\ pc' = IF w = "run" THEN "idle" ELSE pc
    /\ UNCHANGED <<faults, cold, kind, made, base, snapshot, recent>>

\* verifyNFSMount fails: nothing is pruned.
SkipPrune(w) ==
    /\ MayPrune(w) /\ "mount" \in faults
    /\ Finished(w)
    /\ UNCHANGED <<files, whole, todo, copy, restore>>

Prunes(w) == worker[w] \in {"hot", "opened", "copying", "moved", "cold"}

\* The directory is listed once and the expired files are handled one by one.
ListHot(w) ==
    /\ MayPrune(w)
    /\ "prunes" \in faults \/ \A v \in Workers : ~Prunes(v)
    /\ worker' = [worker EXCEPT ![w] = "hot"]
    /\ todo' = [todo EXCEPT ![w] = IF RetentionCount = 0 THEN <<>>
                                   ELSE Expired(files["HOT"], RetentionCount)]
    /\ UNCHANGED <<runVars, files, whole, copy, restore>>

DeleteExpired(w) ==
    /\ worker[w] = "hot" /\ todo[w] # <<>> /\ ~UsesCold
    /\ Removed("HOT", Head(todo[w]))
    /\ todo' = [todo EXCEPT ![w] = Tail(@)]
    /\ UNCHANGED <<runVars, worker, restore>>

\* Seeded bug: a copy does not replace the one an interrupted move has left.
WithCopyAgain(q, a) == Append(q, a)

\* A copy has the current modification time.
WithCopy(q, a) == Append(Without(q, a), a)

\* Seeded bug: the copy is created before the file is opened, which may be gone.
CreateThenOpen(w) ==
    /\ worker[w] = "hot" /\ todo[w] # <<>> /\ UsesCold
    /\ LET a == Head(todo[w])
       IN  /\ files' = [files EXCEPT !["COLD"] = WithCopy(@, a)]
           /\ whole' = [whole EXCEPT !["COLD"] = @ \ {a}]
           /\ IF a \in Range(files["HOT"])
              THEN /\ worker' = [worker EXCEPT ![w] = "copying"]
                   /\ copy' = [copy EXCEPT ![w] = IF a \in whole["HOT"] THEN "whole" ELSE "part"]
                   /\ UNCHANGED todo
              ELSE /\ todo' = [todo EXCEPT ![w] = Tail(@)]
                   /\ UNCHANGED <<worker, copy>>
    /\ UNCHANGED <<runVars, restore>>

\* moveFileAcrossPartitions opens the file, which may be gone; an error is logged and
\* the file passed over.  What is opened is read to its end, wherever the file goes.
OpenExpired(w) ==
    /\ worker[w] = "hot" /\ todo[w] # <<>> /\ UsesCold
    /\ LET a == Head(todo[w])
       IN  \/ /\ a \in Range(files["HOT"])
              /\ worker' = [worker EXCEPT ![w] = "opened"]
              /\ copy' = [copy EXCEPT ![w] = IF a \in whole["HOT"] THEN "whole" ELSE "part"]
              /\ UNCHANGED todo
           \/ /\ a \notin Range(files["HOT"]) \/ "copy" \in faults
              /\ todo' = [todo EXCEPT ![w] = Tail(@)]
              /\ UNCHANGED <<worker, copy>>
    /\ UNCHANGED <<runVars, files, whole, restore>>

\* os.Create cuts off what another copy of the file has written so far.
CreateCopy(w) ==
    /\ worker[w] = "opened"
    /\ LET a == Head(todo[w])
       IN  \/ /\ files' = [files EXCEPT !["COLD"] = WithCopy(@, a)]
              /\ whole' = [whole EXCEPT !["COLD"] = @ \ {a}]
              /\ worker' = [worker EXCEPT ![w] = "copying"]
              /\ copy' = [v \in Workers |->
                            IF Copying(v, a) /\ copy[v] = "whole" THEN "part" ELSE copy[v]]
              /\ UNCHANGED todo
           \/ /\ "copy" \in faults
              /\ worker' = [worker EXCEPT ![w] = "hot"]
              /\ todo' = [todo EXCEPT ![w] = Tail(@)]
              /\ copy' = [copy EXCEPT ![w] = "none"]
              /\ UNCHANGED <<files, whole>>
    /\ UNCHANGED <<runVars, restore>>

\* io.Copy renews the modification time as long as it writes.
WriteCopy(w) ==
    /\ worker[w] = "copying" /\ copy[w] # "none"
    /\ files' = [files EXCEPT !["COLD"] = WithCopy(@, Head(todo[w]))]
    /\ UNCHANGED <<runVars, whole, workerVars, restore>>

\* The copy is complete, or it fails and the file stays in hot storage; an error of
\* out.Close, where a network mount may report a refused write, is dropped.
EndCopy(w) ==
    /\ worker[w] = "copying"
    /\ \/ /\ worker' = [worker EXCEPT ![w] = "moved"]
          /\ whole' = IF copy[w] = "whole"
                      THEN [whole EXCEPT !["COLD"] = @ \cup {Head(todo[w])}] ELSE whole
          /\ UNCHANGED todo
       \/ /\ "copy" \in faults
          /\ worker' = [worker EXCEPT ![w] = "moved"]
          /\ UNCHANGED <<whole, todo>>
       \/ /\ "copy" \in faults
          /\ worker' = [worker EXCEPT ![w] = "hot"]
          /\ todo' = [todo EXCEPT ![w] = Tail(@)]
          /\ UNCHANGED whole
    /\ copy' = [copy EXCEPT ![w] = "none"]
    /\ UNCHANGED <<runVars, files, restore>>

\* Seeded bug: the copied file stays in hot storage.
RemoveCopiedNever(w) ==
    /\ worker[w] = "moved"
    /\ worker' = [worker EXCEPT ![w] = "hot"]
    /\ todo' = [todo EXCEPT ![w] = Tail(@)]
    /\ UNCHANGED <<runVars, files, whole, copy, restore>>

RemoveCopied(w) ==
    /\ worker[w] = "moved"
    /\ Removed("HOT", Head(todo[w]))
    /\ worker' = [worker EXCEPT ![w] = "hot"]
    /\ todo' = [todo EXCEPT ![w] = Tail(@)]
    /\ UNCHANGED <<runVars, restore>>

\* CleanupColdStorage, if the job has cold storage and its mount answers.
ListCold(w) ==
    /\ worker[w] = "hot" /\ todo[w] = <<>>
    /\ \/ /\ UsesCold
          /\ worker' = [worker EXCEPT ![w] = "cold"]
          /\ todo' = [todo EXCEPT ![w] = Expired(files["COLD"], cold)]
          /\ UNCHANGED runVars
       \/ /\ ~UsesCold \/ "mount" \in faults
          /\ Finished(w)
          /\ UNCHANGED todo
    /\ UNCHANGED <<files, whole, copy, restore>>

\* Deletes the listed files of cold storage, or the ones RemoveBackup found: it is
\* "removing" those of hot storage and "purging" those of cold storage.
DeleteListed(w) ==
    /\ worker[w] \in {"cold", "removing", "purging"}
    /\ \/ /\ todo[w] # <<>>
          /\ Removed(IF worker[w] = "removing" THEN "HOT" ELSE "COLD", Head(todo[w]))
          /\ todo' = [todo EXCEPT ![w] = Tail(@)]
          /\ UNCHANGED <<runVars, worker>>
       \/ /\ todo[w] = <<>>
          /\ Finished(w)
          /\ UNCHANGED <<files, whole, todo, copy>>
    /\ UNCHANGED restore

-------------------------------------------------------------------------------
(* RemoveBackup and RestoreBackup.                                          *)

\* The tiers are searched in this order.
TierOf(a) == IF a \in Range(files["HOT"]) THEN "HOT" ELSE "COLD"

\* Seeded bug: removing a FULL archive leaves its increments.
ChainOfOnly(q, a) == <<a>>

\* A FULL archive and the files after it, up to the next FULL.
ChainOf(q, a) ==
    LET i == CHOOSE k \in DOMAIN q : q[k] = a
        ends == {k \in DOMAIN q : k > i /\ kind[q[k]] = "FULL"} \cup {Len(q) + 1}
    IN  SubSeq(q, i, Min(ends) - 1)

RemoveBackup(c, a) ==
    /\ worker[c] = "idle" /\ kind[a] \in Removes
    /\ \/ "overlap" \in faults
       \/ pc = "idle" /\ restore.pc # "extract" /\ \A w \in Workers : worker[w] = "idle"
    /\ a \in Range(files["HOT"]) \cup Range(files["COLD"])
    /\ worker' = [worker EXCEPT ![c] = IF TierOf(a) = "HOT" THEN "removing" ELSE "purging"]
    /\ todo' = [todo EXCEPT ![c] = IF kind[a] = "FULL" THEN ChainOf(files[TierOf(a)], a)
                                                       ELSE <<a>>]
    /\ UNCHANGED <<runVars, files, whole, copy, restore>>

\* Seeded bug: only the FULL archive and the requested one are restored.
PlanOfPair(q, a) ==
    LET i == CHOOSE k \in DOMAIN q : q[k] = a
        fulls == {k \in DOMAIN q : k <= i /\ kind[q[k]] = "FULL"} \cup {1}
    IN  IF Max(fulls) = i THEN <<a>> ELSE <<q[Max(fulls)], a>>

\* The files from the last FULL archive up to a; all of them if there is none.
PlanOf(q, a) ==
    LET i == CHOOSE k \in DOMAIN q : q[k] = a
        fulls == {k \in DOMAIN q : k <= i /\ kind[q[k]] = "FULL"} \cup {1}
    IN  SubSeq(q, Max(fulls), i)

RestoreBackup(a) ==
    /\ MayRestore /\ restore.pc = "idle"
    /\ "overlap" \in faults \/ \A w \in Workers : worker[w] \notin {"removing", "purging"}
    /\ a \in Range(files["HOT"]) \cup Range(files["COLD"])
    /\ restore' = [pc |-> "extract", tier |-> TierOf(a),
                   plan |-> PlanOf(files[TierOf(a)], a), applied |-> <<>>]
    /\ UNCHANGED <<runVars, files, whole, workerVars>>

\* One archive is opened and extracted by a tar on the target machine.
Extract ==
    /\ restore.pc = "extract" /\ restore.plan # <<>>
    /\ LET a == Head(restore.plan)
       IN  \/ /\ a \in whole[restore.tier]
              /\ restore' = [restore EXCEPT !.plan = Tail(@), !.applied = Append(@, a)]
           \/ /\ a \notin whole[restore.tier] \/ "command" \in faults
              /\ restore' = [restore EXCEPT !.pc = "ERROR"]
    /\ UNCHANGED <<runVars, files, whole, workerVars>>

RestoreEnds ==
    /\ restore.pc = "extract" /\ restore.plan = <<>>
    /\ restore' = [restore EXCEPT !.pc = "DONE"]
    /\ UNCHANGED <<runVars, files, whole, workerVars>>

-------------------------------------------------------------------------------

\* The daemon stops and is started, perhaps with another configuration.  A file
\* that was being written or copied stays as it is, the run's snapshot may have been
\* written; every handler is gone.
Crash ==
    /\ "crash" \in faults
    /\ pc' = "idle"
    /\ cold' \in ColdRetentions
    /\ snapshot' \in {snapshot, IF Incremental /\ pc = "writing" THEN made ELSE snapshot}
    /\ worker' = [w \in Workers |-> "idle"]
    /\ todo' = [w \in Workers |-> <<>>]
    /\ copy' = [w \in Workers |-> "none"]
    /\ restore' = NoRestore
    /\ UNCHANGED <<faults, kind, made, base, recent, files, whole>>

RunStep == Decide \/ CreateArchive \/ Complete \/ Fail

WorkerStep(w) ==
    \/ SkipPrune(w) \/ ListHot(w) \/ DeleteExpired(w)
    \/ OpenExpired(w) \/ CreateCopy(w) \/ WriteCopy(w) \/ EndCopy(w) \/ RemoveCopied(w)
    \/ ListCold(w) \/ DeleteListed(w)

Next ==
    \/ RunStep \/ Elapse \/ Crash
    \/ \E w \in Workers : WorkerStep(w)
    \/ \E c \in Clients, a \in Ids : RemoveBackup(c, a)
    \/ \E a \in Ids : RestoreBackup(a)
    \/ Extract \/ RestoreEnds

Spec == Init /\ [][Next]_vars

-------------------------------------------------------------------------------
(* Safety.                                                                  *)

Quiet == pc = "idle" /\ \A w \in Workers : worker[w] = "idle"

\* Extracting the plan in order ends in the state its last archive was made of:
\* each archive after a complete dump was made relative to the one before it.
Rebuilds(plan) ==
    \E k \in DOMAIN plan :
        /\ base[plan[k]] = 0
        /\ \A m \in DOMAIN plan : m > k => base[plan[m]] = plan[m - 1]

\* Every archive that is left can be restored from its own tier.
Restorable ==
    Quiet => \A t \in Tiers : \A a \in Range(files[t]) :
                 a \in whole[t] /\ Rebuilds(PlanOf(files[t], a))

\* Whatever runs, prunes of several callers and removals of whole chains have done,
\* every archive that is left can be restored from its own tier, as long as no two
\* prunes were at work at a time.
ChainsIntact == "prunes" \notin faults => Restorable

\* Two prunes that copy and remove the same files leave no torn one in cold storage,
\* although one of them cuts off or unlinks the file the other is writing, and removes
\* the file that the other is reading.
CopiesComplete ==
    Quiet /\ {"copy", "remove", "crash"} \cap faults = {}
        => Range(files["COLD"]) \subseteq whole["COLD"]

\* After pruning, each tier holds no more chains than its retention count, also when
\* several prunes have worked on outdated listings.
RetentionHolds ==
    Quiet => /\ RetentionCount > 0 => Cardinality(Starts(files["HOT"])) <= RetentionCount
             /\ UsesCold => Cardinality(Starts(files["COLD"])) <= cold

Anchors == {a \in whole["HOT"] : kind[a] = "FULL"}

\* The FULL archives that the daemon was writing when it stopped.
TornAnchors ==
    {a \in Range(files["HOT"]) \ whole["HOT"] :
        kind[a] = "FULL" /\ "crash" \in faults /\ ~(pc = "writing" /\ a = made)}

\* "Keep RetentionCount chains": no step brings the complete FULL archives of hot
\* storage below the retention count, those set aside that a stop of the daemon has
\* torn and that pruning counts as well.
KeepsRetention ==
    [][Cardinality(Anchors') < Cardinality(Anchors) =>
         Cardinality(Anchors' \cup TornAnchors') >= RetentionCount]_vars

\* The same of the complete archives alone.
KeepsComplete ==
    [][Cardinality(Anchors') < Cardinality(Anchors) =>
         Cardinality(Anchors') >= RetentionCount]_vars

\* Every chain is ordered by modification times, which a copy renews.
TiersOrderedAlways ==
    /\ \A t \in Tiers : \A i, k \in DOMAIN files[t] : i < k => files[t][i] < files[t][k]
    /\ \A a \in Range(files["COLD"]), b \in Range(files["HOT"]) : a <= b

\* Archives reach cold storage in the order they were made, and none overtakes an older
\* one that stays in hot storage, also when the daemon stops within a copy or before
\* the source is removed: unless a copy or a removal fails, or two prunes work at once.
TiersOrdered == {"copy", "remove", "prunes"} \cap faults = {} => TiersOrderedAlways

\* A restore that has found a FULL archive to begin with and reports DONE has rebuilt
\* the archive's state.
AnchoredRestores ==
    restore.pc = "DONE" /\ kind[restore.applied[1]] = "FULL" => Rebuilds(restore.applied)

\* The same although runs and prunes went on meanwhile and whole chains were removed
\* before, as long as no two prunes were at work at a time.
AnchoredRestoreRebuilds == "prunes" \notin faults => AnchoredRestores

\* README: a restore traces "the chain back to the anchor `[FULL]` backup" to
\* "perfectly rebuild the filesystem state".
RestoreRebuilds == restore.pc = "DONE" => Rebuilds(restore.applied)
===============================================================================
