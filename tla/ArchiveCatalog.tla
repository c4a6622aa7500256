----------------------------- MODULE ArchiveCatalog -----------------------------
(***************************************************************************)
(* How archives are found again.  The engine keeps no index: pruning,      *)
(* RestoreBackup, RemoveBackup, ListBackups, GetStorageStats and gbctl     *)
(* read the directories and take server, job, volume and chain from the    *)
(* file names                                                              *)
(*      server_job_FULL_date_time.tar.gz                                   *)
(*      server_job_volume_INC_date_time.tar.gz                             *)
(* each in its own way.  A name is the sequence of its parts, which        *)
(* strings.Split(name, "_") returns; date and time are one part here, a    *)
(* number.  Servers, jobs and volumes are sequences of parts themselves:   *)
(* theirs may contain underscores.                                         *)
(*                                                                         *)
(* The archives of a directory are ordered by modification time.  What one *)
(* pruning or removal does to a chain step by step is ArchiveChains'       *)
(* matter; here each is one step.                                          *)
(***************************************************************************)
EXTENDS Integers, SequencesExt, FiniteSetsExt

CONSTANTS
    Jobs,         \* cfg.Jobs: [server, name, volumes, hot, cold, keep, keepCold]
    BackupDir,    \* cfg.BackupDir
    ColdDir,      \* cfg.ColdStoragePath
    Rank,         \* the order of the parts as strings
    MaxArchives   \* bound on the archives made

ASSUME CatalogAssumption ==
    /\ MaxArchives \in Nat /\ BackupDir # ColdDir
    /\ \A j \in ToSet(Jobs) :
        /\ j.keep \in Nat \ {0} /\ j.keepCold \in Nat /\ j.hot # j.cold
        /\ \A p \in ToSet(j.server \o j.name) \cup UNION {ToSet(v) : v \in j.volumes} : Rank[p] \in Nat

Kinds == {"SYSTEM", "DOCKER"}
Roots == {BackupDir, ColdDir} \cup {j.hot : j \in ToSet(Jobs)} \cup {j.cold : j \in ToSet(Jobs)}

VARIABLES
    dir,     \* [root, kind] -> the archives of root or root/docker-volume
    clock    \* the number of archives made

vars == <<dir, clock>>

Places == [root : Roots, kind : Kinds]

\* job.DockerVolumes and "" for the system archives.
Volumes(j) == j.volumes \cup {<<>>}
Key(j, v) == [server |-> j.server, job |-> j.name, volume |-> v]
KindOf(v) == IF v = <<>> THEN "SYSTEM" ELSE "DOCKER"

Name(a) == a.key.server \o a.key.job \o a.key.volume \o <<a.type, a.time>>

Init ==
    /\ dir = [p \in Places |-> <<>>]
    /\ clock = 0

-----------------------------------------------------------------------------
(* What the code reads from a name *)

\* Seeded bug: an archive of six parts is one of a system job.
IsDockerFileNever(n) == FALSE

\* Six parts when date and time are apart.
IsDockerFile(n) == Len(n) >= 5

\* strings.Contains(name, "_FULL_")
IsFull(n) == "FULL" \in ToSet(Tail(Front(n)))
IsInc(n) == "INC" \in ToSet(Tail(Front(n)))

\* A job's archives, or its volume's, among the files of a directory.
Group(files, j, v) ==
    SelectSeq(files, LAMBDA a :
        /\ IsPrefix(j.server \o j.name \o v, Name(a))
        /\ IsDockerFile(Name(a)) <=> v # <<>>)

\* The archives of the chains that are followed by "keep" chains.
Expired(g, keep) ==
    LET starts == {i \in DOMAIN g : ~IsInc(Name(g[i])) \/ i = 1}
    IN  {g[i] : i \in {i \in DOMAIN g : Cardinality({s \in starts : s > i}) >= keep}}

ExpiredOf(files, j, keep) == UNION {Expired(Group(files, j, v), keep) : v \in Volumes(j)}

Except(files, gone) == SelectSeq(files, LAMBDA a : a \notin gone)

\* From the i-th of q up to the next FULL archive.
ChainFrom(q, i) ==
    {q[k] : k \in {k \in i .. Len(q) : \A m \in i + 1 .. k : ~IsFull(Name(q[m]))}}

\* From the i-th of q back to a FULL archive.
ChainBack(q, i) ==
    {q[k] : k \in {k \in 1 .. i : \A m \in k + 1 .. i : ~IsFull(Name(q[m]))}}

IndexOf(q, a) == CHOOSE i \in DOMAIN q : q[i] = a

\* The part of a FULL archive's name before "_FULL_".
Stem(n) == SubSeq(n, 1, SelectInSeq(Front(n), LAMBDA p : p = "FULL") - 1)

\* Seeded bug: RemoveBackup does not stop at the next FULL archive.
RemovalToTheEnd(files, a) ==
    LET own == SelectSeq(files, LAMBDA b : IsPrefix(Stem(Name(a)), Name(b)))
    IN  IF IsFull(Name(a)) THEN ToSet(SubSeq(own, IndexOf(own, a), Len(own))) ELSE {a}

\* RemoveBackup deletes a FULL archive with what follows it, or one INC archive.
Removal(files, a) ==
    LET own == SelectSeq(files, LAMBDA b : IsPrefix(Stem(Name(a)), Name(b)))
    IN  IF IsFull(Name(a)) THEN ChainFrom(own, IndexOf(own, a)) ELSE {a}

\* Seeded bug: the volume is not compared.
RestorePlanAnyVolume(files, kind, a) ==
    LET n == Name(a)
        own == SelectSeq(files, LAMBDA b :
            IsPrefix(SubSeq(n, 1, 2), Name(b)) /\ (IsDockerFile(Name(b)) <=> kind = "DOCKER"))
    IN  ChainBack(own, IndexOf(own, a))

\* RestoreBackup takes server and job for the first two parts, and compares the
\* third of a docker archive.
RestorePlan(files, kind, a) ==
    LET n == Name(a)
        own == SelectSeq(files, LAMBDA b :
            /\ IsPrefix(SubSeq(n, 1, 2), Name(b))
            /\ IsDockerFile(Name(b)) <=> kind = "DOCKER"
            /\ kind = "DOCKER" => Name(b)[3] = n[3])
    IN  ChainBack(own, IndexOf(own, a))

-----------------------------------------------------------------------------
(* Listing and statistics *)

\* Seeded bug: a cold path is added without a look at the paths already added.
AddedTwice(dirs, root, tier) == Append(dirs, [root |-> root, tier |-> tier])

Added(dirs, root, tier) ==
    IF \E d \in ToSet(dirs) : d.root = root THEN dirs ELSE Append(dirs, [root |-> root, tier |-> tier])

\* The directories, each once: the first entry decides the tier.
Dirs == FoldLeft(LAMBDA ds, j : Added(Added(ds, j.hot, "HOT"), j.cold, "COLD"),
                 Added(<<[root |-> BackupDir, tier |-> "HOT"]>>, ColdDir, "COLD"), Jobs)

\* ListBackups' entries, before they are sorted: one per directory that has the file,
\* if its server or its job is the target or there is no target.
Entries(target) ==
    UNION {{[at |-> i, kind |-> k, archive |-> a] :
                a \in {a \in ToSet(dir[[root |-> Dirs[i].root, kind |-> k]]) :
                        target # <<>> => target \in {<<Name(a)[1]>>, <<Name(a)[2]>>}}}
           : i \in DOMAIN Dirs, k \in Kinds}

TypeIndex(n) == SelectInSeq(Front(n), LAMBDA p : p \in {"FULL", "INC"})

LexLess(p, q) ==
    \E i \in 1 .. Len(q) :
        /\ i <= Len(p) + 1 /\ SubSeq(p, 1, i - 1) = SubSeq(q, 1, i - 1)
        /\ i <= Len(p) => Rank[p[i]] < Rank[q[i]]

\* The listing's order: what precedes the type, then what follows it.
Before(x, y) ==
    LET n == Name(x.archive)
        o == Name(y.archive)
        stemN == SubSeq(n, 1, TypeIndex(n) - 1)
        stemO == SubSeq(o, 1, TypeIndex(o) - 1)
    IN  IF stemN # stemO THEN LexLess(stemN, stemO) ELSE Last(n) < Last(o)

ListBackups(target) ==
    LET sorted == SetToSortSeq(Entries(target), Before)
    IN  [i \in DOMAIN sorted |-> sorted[i].archive]

\* gbctl backup info: the server's listing from the archive up to the next FULL one.
InfoChain(a) ==
    LET q == ListBackups(<<Name(a)[1]>>) IN ChainFrom(q, IndexOf(q, a))

\* gbctl backup list with a server and a job asks for the target "server_job_".
ListTarget(server, job) == server \o job \o <<"">>

\* GetStorageStats counts the archives of each directory and of its docker-volume.
TotalBackups ==
    FoldLeft(LAMBDA n, d : n + Len(dir[[root |-> d.root, kind |-> "SYSTEM"]])
                             + Len(dir[[root |-> d.root, kind |-> "DOCKER"]]), 0, Dirs)

-----------------------------------------------------------------------------
(* The changes *)

\* A run writes the job's system archive or one of a volume: FULL when it chooses to, or
\* when its directory has no FULL archive of that name (isTimeForFullBackup).
Archive(j, v, type) ==
    /\ clock < MaxArchives
    /\ type = "INC" =>
        \E a \in ToSet(dir[[root |-> j.hot, kind |-> KindOf(v)]]) :
            IsPrefix(j.server \o j.name \o v \o <<"FULL">>, Name(a))
    /\ clock' = clock + 1
    /\ dir' = [dir EXCEPT ![[root |-> j.hot, kind |-> KindOf(v)]] =
                  Append(@, [key |-> Key(j, v), type |-> type, time |-> clock + 1])]

\* One job's turn in CleanupOldBackups (of the job's directory after its run, of
\* BackupDir in PruneBackups) and in CleanupColdStorage.
Prune(j, root) ==
    /\ root \in {j.hot, BackupDir}
    /\ LET expired(k) == ExpiredOf(dir[[root |-> root, kind |-> k]], j, j.keep)
           moved(k) == SelectSeq(dir[[root |-> root, kind |-> k]], LAMBDA a : a \in expired(k))
           colder(k) == dir[[root |-> j.cold, kind |-> k]] \o moved(k)
       IN  dir' = [p \in Places |->
                CASE p.root = root -> Except(dir[p], expired(p.kind))
                  [] p.root = j.cold /\ j.keepCold > 0 ->
                        Except(colder(p.kind), ExpiredOf(colder(p.kind), j, j.keepCold))
                  [] OTHER -> dir[p]]
    /\ UNCHANGED clock

RemoveBackup(p, a) ==
    /\ a \in ToSet(dir[p])
    /\ dir' = [dir EXCEPT ![p] = Except(@, Removal(@, a))]
    /\ UNCHANGED clock

Next ==
    \/ \E j \in ToSet(Jobs), type \in {"FULL", "INC"} : \E v \in Volumes(j) : Archive(j, v, type)
    \/ \E j \in ToSet(Jobs), root \in Roots : Prune(j, root)
    \/ \E p \in Places : \E a \in ToSet(dir[p]) : RemoveBackup(p, a)

Spec == Init /\ [][Next]_vars

-----------------------------------------------------------------------------
(* Properties *)

OwnArchives(files, key) == SelectSeq(files, LAMBDA a : a.key = key)

\* What pruning groups from names is exactly what the job wrote for that volume: it
\* neither ages another's archives nor leaves one of its own out for ever.
PruneGroupsAreOwn ==
    \A p \in Places, j \in ToSet(Jobs) : p.root \in {j.hot, j.cold, BackupDir} =>
        \A v \in Volumes(j) :
            Group(dir[p], j, v) = IF KindOf(v) = p.kind THEN OwnArchives(dir[p], Key(j, v)) ELSE <<>>

\* A restore replays the archive's own chain: from its volume's last FULL archive of
\* that directory, and nothing of another volume or job.
RestoreIsOwn ==
    \A p \in Places : \A a \in ToSet(dir[p]) :
        LET own == OwnArchives(dir[p], a.key)
        IN  RestorePlan(dir[p], p.kind, a) = ChainBack(own, IndexOf(own, a))

\* What gbctl info shows as the chain of a FULL archive, from the listing of all
\* directories by name, is what RemoveBackup would delete, from one directory by
\* modification time.
InfoShowsRemoval ==
    \A p \in Places : \A a \in ToSet(dir[p]) :
        IsFull(Name(a)) => InfoChain(a) = Removal(dir[p], a)

\* The status' total, the digest's statistics and the listing each count every archive
\* once, however the jobs' paths coincide with each other's and with the global ones.
CountedOnce ==
    LET archives == FoldSet(LAMBDA p, n : n + Len(dir[p]), 0, Places)
    IN  TotalBackups = archives /\ Cardinality(Entries(<<>>)) = archives

\* "list [host] [job]" lists the job's archives.
ListFindsJob ==
    \A p \in Places : \A a \in ToSet(dir[p]) :
        a \in ToSet(ListBackups(ListTarget(a.key.server, a.key.job)))
===============================================================================
