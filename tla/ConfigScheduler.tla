---------------------------- MODULE ConfigScheduler ----------------------------
(***************************************************************************)
(* The daemon's configuration and its cron scheduler (config.go,           *)
(* scheduler.go, server.go, gobackupd/main.go): jobs and servers in        *)
(* memory, their YAML files, and the scheduler that AddJob and RemoveJob   *)
(* replace.  No lock protects any of them.                                 *)
(*                                                                         *)
(* The two lists are Go slices.  The scheduler copies the jobs, but of the *)
(* servers it keeps the slice it was created with, whose backing array the *)
(* handlers go on to change.                                               *)
(*                                                                         *)
(* Requests come one at a time, unless "overlap" is among the faults.      *)
(* Handlers that overlap take turns at each step below; a list is updated  *)
(* in one step, although two updates at once are a data race in the code.  *)
(* What is said of the lists is therefore said without "overlap" only.     *)
(***************************************************************************)
EXTENDS Integers, SequencesExt, FiniteSetsExt

CONSTANTS
    Jobs, Servers,  \* names
    Versions,       \* what a definition may be
    Valid,          \* the versions whose schedule cron accepts
    Base,           \* the jobs of config.yaml
    Clients,        \* concurrent handlers
    MaxOps,         \* bound on the requests
    FaultModels     \* the sets of faults to choose from: "write", "remove": a file
                    \* operation fails; "crash"; "overlap": requests overlap

ASSUME ConfigAssumption ==
    /\ MaxOps \in Nat /\ Valid \subseteq Versions
    /\ Base \in Seq([name : Jobs, version : Versions])
    /\ FaultModels \subseteq SUBSET {"write", "remove", "crash", "overlap"}
    /\ {"none", "unknown", "disputed", "torn"} \cap Versions = {}
    /\ IsFiniteSet(Jobs) /\ IsFiniteSet(Servers) /\ Jobs \cap Servers = {}
    /\ Len(Base) + Cardinality(Jobs) <= 16 /\ Cardinality(Servers) <= 16  \* Capacity's bound

Names == Jobs \cup Servers
Kinds == {"jobs", "servers"}
NamesOf(k) == IF k = "jobs" THEN Jobs ELSE Servers
VersionsOf(k) == IF k = "jobs" THEN Versions ELSE Valid

VARIABLES
    arrays,      \* the backing arrays of each list, by capacity
    header,      \* the capacity and length of s.cfg.Jobs and s.cfg.Servers
    disk,        \* the version in each name's YAML file, "none": no file, "torn":
                 \* one that a write has truncated and not filled
    schedulers,  \* entries, whether its cron runs, its slices, in the order of creation
    current,     \* s.scheduler
    pc,          \* what each handler does next
    request,     \* the name and version it was asked for, and the scheduler it starts
    ops,         \* the number of requests so far
    acked,       \* per name the version the clients know of, "disputed" after requests
                 \* for it have overlapped
    known,       \* the servers configured ever since current was created
    faults       \* the faults that happen

handlerVars == <<pc, request, ops>>
vars == <<arrays, header, disk, schedulers, current, handlerVars, acked, known, faults>>

-------------------------------------------------------------------------------
(* Slices.                                                                  *)

View(k, h) == SubSeq(arrays[k][h.cap], 1, h.len)
Memory(k)  == View(k, header[k])

\* Seeded bug: a new element is put first.
WithFirst(q, x) == <<x>> \o q

\* append(q, x)
With(q, x) == Append(q, x)

Grown(cap) == IF cap = 0 THEN 1 ELSE 2 * cap

\* An array of the same capacity keeps what is beyond the new elements.
Stored(k, q) ==
    LET h == [cap |-> IF Len(q) > header[k].cap THEN Grown(header[k].cap) ELSE header[k].cap,
              len |-> Len(q)]
        old == IF h.cap = header[k].cap THEN arrays[k][h.cap] ELSE <<>>
    IN  /\ header' = [header EXCEPT ![k] = h]
        /\ arrays' = [arrays EXCEPT ![k] =
              [c \in DOMAIN @ \cup {h.cap} |->
                  IF c = h.cap THEN q \o SubSeq(old, Len(q) + 1, Len(old)) ELSE @[c]]]

-------------------------------------------------------------------------------
(* The scheduler.                                                           *)

NoScheduler ==
    [entries |-> <<>>, runs |-> FALSE, slices |-> [k \in Kinds |-> [cap |-> 0, len |-> 0]]]

\* A job with no schedule, or one that cron refuses, is left out.
Entries(q) == SelectSeq(q, LAMBDA x : x.version \in Valid)

\* The lists that LoadConfig makes of config.yaml and the files, in some order.  A torn
\* file becomes an element with no name and no schedule, which nobody finds.
Loaded(k, files) ==
    LET there == SetToSeq({n \in NamesOf(k) : files[n] # "none"})
    IN  (IF k = "jobs" THEN Base ELSE <<>>) \o
        [i \in DOMAIN there |-> [name |-> there[i], version |-> files[there[i]]]]

Named(q, n) == SelectInSeq(q, LAMBDA x : x.name = n /\ x.version # "torn")

ServersIn(q) == {s \in Servers : Named(q, s) # 0}

\* The version of a name that the handlers see: the first one.
VersionIn(q, n) == IF Named(q, n) = 0 THEN "none" ELSE q[Named(q, n)].version

\* append, element by element, leaves the smallest power of two as capacity; here no
\* more than 16 elements are loaded.
Capacity(n) == Min({c \in {0, 1, 2, 4, 8, 16} : c >= n})

\* main: LoadConfig, NewScheduler and Start.
Boot(files) ==
    LET q == [k \in Kinds |-> Loaded(k, files)]
        h == [k \in Kinds |-> [cap |-> Capacity(Len(q[k])), len |-> Len(q[k])]]
    IN  [arrays  |-> [k \in Kinds |-> [c \in {0, h[k].cap} |-> IF c = 0 THEN <<>> ELSE q[k]]],
         header  |-> h,
         started |-> [entries |-> Entries(q["jobs"]), runs |-> TRUE, slices |-> h],
         servers |-> ServersIn(q["servers"])]

\* The type invariant; a list never holds more than its array.
TypeOK ==
    /\ \A k \in Kinds :
        /\ header[k].len \in 0 .. header[k].cap /\ header[k].cap \in DOMAIN arrays[k]
        /\ \A c \in DOMAIN arrays[k] : Len(arrays[k][c]) <= c
    /\ disk \in [Names -> Versions \cup {"none", "torn"}]
    /\ current \in DOMAIN schedulers
    /\ pc \in [Clients -> {"idle", "save", "stop", "replace", "start", "run"}]
    /\ ops \in 0 .. MaxOps
    /\ acked \in [Names -> Versions \cup {"none", "unknown", "disputed"}]
    /\ known \subseteq Servers /\ faults \in FaultModels

Init ==
    /\ disk \in [Names -> Versions \cup {"none"}]
    /\ \A s \in Servers : disk[s] \in Valid \cup {"none"}
    /\ LET b == Boot(disk)
       IN  /\ arrays = b.arrays /\ header = b.header /\ known = b.servers
           /\ schedulers = <<b.started>>
    /\ current = 1
    /\ pc = [c \in Clients |-> "idle"]
    /\ request = [c \in Clients |-> <<>>]
    /\ ops = 0
    /\ acked = [n \in Names |-> IF n \in Jobs THEN VersionIn(Loaded("jobs", disk), n) ELSE disk[n]]
    /\ faults \in FaultModels

-------------------------------------------------------------------------------
(* AddServer, AddJob, RemoveServer, RemoveJob.                              *)

\* Seeded bug: an element that is there is added again.
AddedAgain(q, x) == With(q, x)

Added(q, x) ==
    IF Named(q, x.name) = 0 THEN With(q, x) ELSE [q EXCEPT ![Named(q, x.name)] = x]

Quiet == \A c \in Clients : pc[c] = "idle"

\* Some handler has a request for n under way.
Asked(n) == \E c \in Clients : pc[c] # "idle" /\ request[c][1] = n

\* A request for a name that is not there ends with an error.
Update(c, k, n, v) ==
    /\ pc[c] = "idle" /\ ops < MaxOps
    /\ Quiet \/ "overlap" \in faults
    /\ IF v = "none"
       THEN /\ Named(Memory(k), n) # 0
            /\ Stored(k, RemoveAt(Memory(k), Named(Memory(k), n)))
       ELSE Stored(k, Added(Memory(k), [name |-> n, version |-> v]))
    /\ pc' = [pc EXCEPT ![c] = "save"]
    /\ request' = [request EXCEPT ![c] = <<n, v>>]
    /\ ops' = ops + 1
    /\ acked' = [acked EXCEPT ![n] = IF Asked(n) THEN "disputed" ELSE "unknown"]
    /\ known' = IF v = "none" THEN known \ {n} ELSE known
    /\ UNCHANGED <<disk, schedulers, current, faults>>

\* The handler returns.
Return(c) ==
    /\ pc' = [pc EXCEPT ![c] = "idle"]
    /\ request' = [request EXCEPT ![c] = <<>>]

Reply(c) ==
    /\ Return(c)
    /\ acked' = [acked EXCEPT ![request[c][1]] = IF @ = "disputed" THEN @ ELSE request[c][2]]

\* Seeded bug: the file of a removed element stays.
SavedAlways(n, v) == disk' = IF v = "none" THEN disk ELSE [disk EXCEPT ![n] = v]

\* The YAML file is written or removed; a failed removal is not noticed.
Saved(n, v) ==
    disk' \in {[disk EXCEPT ![n] = v]} \cup
             (IF v = "none" /\ "remove" \in faults THEN {disk} ELSE {})

\* The files after these handlers have opened theirs and written nothing.
Torn(cs) ==
    [n \in Names |->
        IF \E c \in cs : pc[c] = "save" /\ request[c][1] = n /\ request[c][2] # "none"
        THEN "torn" ELSE disk[n]]

\* A server's request ends here, a job's goes on to the scheduler.
Written(c) ==
    LET n == request[c][1]
    IN  /\ Saved(n, request[c][2])
        /\ IF n \in Servers THEN Reply(c)
           ELSE pc' = [pc EXCEPT ![c] = "stop"] /\ UNCHANGED <<request, acked>>

\* Only the writing of a file may fail, and the handler return for it.
Unwritten(c) ==
    /\ request[c][2] # "none" /\ "write" \in faults
    /\ disk' \in {disk, Torn({c})}
    /\ Return(c)
    /\ UNCHANGED acked

\* Seeded bug: a job's handler has stopped the scheduler before it saves.
SaveStopped(c) ==
    /\ pc[c] = "save"
    /\ Written(c) \/ Unwritten(c)
    /\ schedulers' = IF request[c][1] \in Servers THEN schedulers
                     ELSE [schedulers EXCEPT ![current].runs = FALSE]
    /\ UNCHANGED <<arrays, header, current, ops, known, faults>>

Save(c) ==
    /\ pc[c] = "save"
    /\ Written(c) \/ Unwritten(c)
    /\ UNCHANGED <<arrays, header, schedulers, current, ops, known, faults>>

Stop(c) ==
    /\ pc[c] = "stop"
    /\ schedulers' = [schedulers EXCEPT ![current].runs = FALSE]
    /\ pc' = [pc EXCEPT ![c] = "replace"]
    /\ UNCHANGED <<arrays, header, disk, current, request, ops, acked, known, faults>>

\* NewScheduler copies s.cfg, and with it the slices.
Replace(c) ==
    /\ pc[c] = "replace"
    /\ schedulers' = Append(schedulers, [NoScheduler EXCEPT !.slices = header])
    /\ current' = Len(schedulers')
    /\ known' = ServersIn(Memory("servers"))
    /\ pc' = [pc EXCEPT ![c] = "start"]
    /\ UNCHANGED <<arrays, header, disk, request, ops, acked, faults>>

\* The handler starts whichever scheduler is s.scheduler now; it adds the entries and
\* then lets cron run.
Start(c) ==
    /\ pc[c] = "start"
    /\ LET mine == View("jobs", schedulers[current].slices["jobs"])
       IN  schedulers' = [schedulers EXCEPT ![current].entries = @ \o Entries(mine)]
    /\ pc' = [pc EXCEPT ![c] = "run"]
    /\ request' = [request EXCEPT ![c] = <<@[1], @[2], current>>]
    /\ UNCHANGED <<arrays, header, disk, current, ops, acked, known, faults>>

Run(c) ==
    /\ pc[c] = "run"
    /\ schedulers' = [schedulers EXCEPT ![request[c][3]].runs = TRUE]
    /\ Reply(c)
    /\ UNCHANGED <<arrays, header, disk, current, ops, known, faults>>

\* The daemon stops and is started again.
Restart ==
    /\ "crash" \in faults
    /\ \E files \in {Torn(cs) : cs \in SUBSET Clients} :
          \E b \in {Boot(files)} :
              /\ disk' = files
              /\ arrays' = b.arrays /\ header' = b.header /\ known' = b.servers
              /\ schedulers' = <<b.started>>
    /\ current' = 1
    /\ pc' = [c \in Clients |-> "idle"]
    /\ request' = [c \in Clients |-> <<>>]
    /\ UNCHANGED <<ops, acked, faults>>

Next ==
    \/ \E c \in Clients, k \in Kinds :
          \E n \in NamesOf(k), v \in VersionsOf(k) \cup {"none"} : Update(c, k, n, v)
    \/ \E c \in Clients : Save(c) \/ Stop(c) \/ Replace(c) \/ Start(c) \/ Run(c)
    \/ Restart

Spec == Init /\ [][Next]_vars

-------------------------------------------------------------------------------

\* However many handlers stop, replace and start the scheduler in whatever order, and
\* although one may fail before, between requests the daemon's scheduler runs: the
\* one that is s.scheduler, and so the one whose jobs are the latest.
DaemonSchedules == Quiet => schedulers[current].runs

\* "Job added and scheduler reloaded": no scheduler runs that no handler could stop
\* any more.
OneScheduler == \A i \in DOMAIN schedulers : schedulers[i].runs => i = current

\* Requests that come one at a time: between them no scheduler runs but the daemon's,
\* and its cron holds each job just once, as the last successful request has defined
\* it, and no other; a definition that could not be saved makes no difference to the
\* other jobs.
ScheduledAsAcknowledged ==
    Quiet /\ "overlap" \notin faults =>
        /\ OneScheduler
        /\ \A j \in Jobs : acked[j] \notin {"unknown", "disputed"} =>
            SelectSeq(schedulers[current].entries, LAMBDA x : x.name = j) =
                IF acked[j] \in Valid THEN <<[name |-> j, version |-> acked[j]]>> ELSE <<>>

\* Whatever a restart may interrupt, and whichever handlers overlap, it brings back
\* each job and server as the last successful request for it has left it, but those
\* whose requests overlapped.
RestartKeepsAcknowledged ==
    \A k \in Kinds :
        LET loaded == Loaded(k, disk)
        IN  \A n \in NamesOf(k) :
                acked[n] \notin {"unknown", "disputed"} => VersionIn(loaded, n) = acked[n]

\* A server that is configured as long as the scheduler exists is found by the
\* scheduled runs, although other servers come and go, one request at a time, in the
\* array it keeps a slice of.
KnownServersFound ==
    "overlap" \notin faults =>
        known \subseteq ServersIn(View("servers", schedulers[current].slices["servers"]))

\* "Server added successfully": a scheduled run finds each server that is configured.
ServersUpToDate ==
    Quiet => ToSet(Memory("servers")) \subseteq
                 ToSet(View("servers", schedulers[current].slices["servers"]))
===============================================================================
