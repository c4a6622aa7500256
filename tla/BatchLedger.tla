------------------------------ MODULE BatchLedger ------------------------------
(***************************************************************************)
(* What the queue and batch of gobackupd promise, without locks, mutexes,  *)
(* queue or flags.  Runs execute one at a time; runs that overlap in the   *)
(* queue form one batch; the batch is reported once, when its last run     *)
(* leaves, with the results of all its runs and nothing else.              *)
(***************************************************************************)
EXTENDS Sequences

CONSTANTS Runs, Outcomes

VARIABLES
    phase,      \* where each run is
    tally,      \* results of the open batch
    reports     \* the reports sent, each a sequence of results

vars == <<phase, tally, reports>>

Init ==
    /\ phase = [r \in Runs |-> "away"]
    /\ tally = <<>>
    /\ reports = <<>>

In(p) == {r \in Runs : phase[r] = p}

Move(r, from, to) ==
    /\ phase[r] = from
    /\ phase' = [phase EXCEPT ![r] = to]

\* The run is refused before it enters the queue.
Refuse(r) ==
    /\ Move(r, "away", "over")
    /\ UNCHANGED <<tally, reports>>

Join(r) ==
    /\ Move(r, "away", "waiting")
    /\ UNCHANGED <<tally, reports>>

Begin(r) ==
    /\ In("running") = {}
    /\ Move(r, "waiting", "running")
    /\ UNCHANGED <<tally, reports>>

Record(r, s) ==
    /\ phase[r] = "running"
    /\ tally' = Append(tally, [run |-> r, status |-> s])
    /\ UNCHANGED <<phase, reports>>

\* Some run still waits: the batch stays open.
Leave(r) ==
    /\ In("waiting") # {}
    /\ Move(r, "running", "over")
    /\ UNCHANGED <<tally, reports>>

\* The last run leaves and reports the batch.
Close(r) ==
    /\ In("waiting") = {}
    /\ Move(r, "running", "over")
    /\ reports' = Append(reports, tally)
    /\ tally' = <<>>

Next ==
    \E r \in Runs :
        \/ Refuse(r) \/ Join(r) \/ Begin(r) \/ Leave(r) \/ Close(r)
        \/ \E s \in Outcomes : Record(r, s)

Spec == Init /\ [][Next]_vars
===============================================================================
