----------------------------- MODULE Notifications -----------------------------
(***************************************************************************)
(* What backup runs tell the outside: log chunks through the broker        *)
(* (LogStream) and alerts through the notification channels                *)
(* (notifications.go).  A run logs, takes GlobalBackupQueue, logs its      *)
(* result and ends in ClearActive, which sends the batch's digest under    *)
(* StateMutex; a run whose storage is not mounted sends an alert of its    *)
(* own, and the debouncer announces the batch.  Every channel of an alert  *)
(* is called in a goroutine of its own: HTTP calls end within ten seconds, *)
(* an SMTP dialogue has no timeout.                                        *)
(*                                                                         *)
(* Which run ends the batch is BackupQueue's matter; here any may.         *)
(***************************************************************************)
EXTENDS LogStream

CONSTANT
    Scenarios   \* who logs and sends, the configured channels, who may attach

Roles == {"unmounted", "saved", "failed", "debouncer", "absent"}
ScenarioAssumption ==
    \A s \in Scenarios :
        /\ s.role \in [Loggers -> Roles] /\ s.watched \subseteq Watchers
        /\ \A c \in s.channels : c.complete \in BOOLEAN
ASSUME ScenarioAssumption

Channels == UNION {s.channels : s \in Scenarios}

VARIABLES
    role,       \* a run's ending, or the batch's debouncer
    channels,   \* the notifications of its Config
    said,       \* chunks each has broadcast
    stage,      \* asking, running, cleared, ended; the debouncer's asking, composed, ended
    queueLock,  \* owner of GlobalBackupQueue
    stateLock,  \* owner of StateMutex
    batch,      \* IsBatchActive
    calls,      \* the calls of each sender's alert: none, calling, authorized, ended
    delivered,  \* calls whose alert has arrived
    logged      \* calls whose failure is in the daemon's log

runVars == <<role, channels, said, stage, queueLock, stateLock, batch>>
callVars == <<calls, delivered, logged>>
vars == <<streamVars, runVars, callVars>>

HookTypes == {"discord", "gotcode_dispatch", "webhook", "http"}
MailTypes == {"email", "smtp", "m365", "m365_graph"}

\* A run's chunks: the first is broadcast before it queues.
Script(r) ==
    CASE role[r] = "unmounted" -> <<"log">>
      [] role[r] = "saved" -> <<"status", "log", "summary">>
      [] role[r] = "failed" -> <<"status", "log", "final">>
      [] OTHER -> <<>>

\* The type invariant: the broker's state, one owner per mutex, calls of known channels.
TypeOK ==
    /\ StreamTypeOK
    /\ stage \in [Loggers -> {"asking", "running", "cleared", "composed", "ended"}]
    /\ \A r \in Loggers : said[r] \in 0 .. Len(Script(r))
    /\ queueLock \in Loggers \cup {Free} /\ stateLock \in Loggers \cup {Free}
    /\ calls \in [Loggers -> [Channels -> {"none", "calling", "authorized", "ended"}]]
    /\ delivered \subseteq Loggers \X Channels /\ logged \subseteq Loggers \X Channels

Init ==
    /\ \E s \in Scenarios :
        /\ role = s.role /\ channels = s.channels
        /\ StreamInit(s.watched)
    /\ said = [r \in Loggers |-> 0]
    /\ stage = [r \in Loggers |-> IF role[r] = "absent" THEN "ended" ELSE "asking"]
    /\ queueLock = Free /\ stateLock = Free
    /\ batch = TRUE
    /\ calls = [a \in Loggers |-> [c \in Channels |-> "none"]]
    /\ delivered = {} /\ logged = {}

-----------------------------------------------------------------------------
(* The runs *)

\* ui.Log, ui.SetStatus and ui.Summary of a DaemonLogger.
Say(r) ==
    /\ stage[r] \in {"asking", "running"}
    /\ said[r] < Len(Script(r))
    /\ stage[r] = "asking" => said[r] = 0
    /\ Broadcast(r, Script(r)[said[r] + 1])
    /\ said' = [said EXCEPT ![r] = @ + 1]
    /\ UNCHANGED <<role, channels, stage, queueLock, stateLock, batch>>
    /\ UNCHANGED callVars

\* A run goes on when Broadcast has returned.
Quiet(r, n) == said[r] = n /\ owner # r

\* SendNotifications: the channels of a known type are called, each in a goroutine.
SendNotifications(a) ==
    /\ calls' = [calls EXCEPT ![a] = [c \in Channels |->
            IF c \in channels /\ c.type \in HookTypes \cup MailTypes THEN "calling" ELSE "none"]]
    /\ UNCHANGED <<delivered, logged>>

\* verifyNFSMount has failed: the run sends its alert and returns.
StorageAlert(r) ==
    /\ stage[r] = "asking" /\ role[r] = "unmounted" /\ Quiet(r, 1)
    /\ SendNotifications(r)
    /\ stage' = [stage EXCEPT ![r] = "ended"]
    /\ UNCHANGED <<streamVars, role, channels, said, queueLock, stateLock, batch>>

LockQueue(r) ==
    /\ stage[r] = "asking" /\ role[r] \in {"saved", "failed"} /\ Quiet(r, 1)
    /\ queueLock = Free
    /\ queueLock' = r
    /\ stage' = [stage EXCEPT ![r] = "running"]
    /\ UNCHANGED <<streamVars, role, channels, said, stateLock, batch>>
    /\ UNCHANGED callVars

\* The deferred ClearActive, under both mutexes: when the batch ends it sends the digest.
ClearActive(r) ==
    /\ stage[r] = "running" /\ Quiet(r, Len(Script(r)))
    /\ stateLock = Free
    /\ stateLock' = r
    /\ batch' \in {batch, FALSE}
    /\ IF batch' # batch THEN SendNotifications(r) ELSE UNCHANGED callVars
    /\ stage' = [stage EXCEPT ![r] = "cleared"]
    /\ UNCHANGED <<streamVars, role, channels, said, queueLock>>

\* Seeded bug: the channels are called one after the other, before the return.
ReturnAfterCalls(r) ==
    /\ stage[r] = "cleared"
    /\ \A c \in Channels : calls[r][c] \in {"none", "ended"}
    /\ queueLock' = Free /\ stateLock' = Free
    /\ stage' = [stage EXCEPT ![r] = "ended"]
    /\ UNCHANGED <<streamVars, role, channels, said, batch>>
    /\ UNCHANGED callVars

\* ClearActive and RunSingleBackup return: nothing is waited for.
Return(r) ==
    /\ stage[r] = "cleared"
    /\ queueLock' = Free /\ stateLock' = Free
    /\ stage' = [stage EXCEPT ![r] = "ended"]
    /\ UNCHANGED <<streamVars, role, channels, said, batch>>
    /\ UNCHANGED callVars

\* After its two seconds the debouncer composes its alert if the batch is active,
\* and sends it when it has released StateMutex.
Wake(d) ==
    /\ role[d] = "debouncer" /\ stage[d] = "asking" /\ stateLock = Free
    /\ stage' = [stage EXCEPT ![d] = IF batch THEN "composed" ELSE "ended"]
    /\ UNCHANGED <<streamVars, role, channels, said, queueLock, stateLock, batch>>
    /\ UNCHANGED callVars

Announce(d) ==
    /\ stage[d] = "composed"
    /\ SendNotifications(d)
    /\ stage' = [stage EXCEPT ![d] = "ended"]
    /\ UNCHANGED <<streamVars, role, channels, said, queueLock, stateLock, batch>>

-----------------------------------------------------------------------------
(* The notifiers *)

\* A Send returns; an error is logged.
Ends(a, c, arrives, error) ==
    /\ calls' = [calls EXCEPT ![a][c] = "ended"]
    /\ delivered' = IF arrives THEN delivered \cup {<<a, c>>} ELSE delivered
    /\ logged' = IF error THEN logged \cup {<<a, c>>} ELSE logged
    /\ UNCHANGED <<streamVars, runVars>>

\* Seeded bug: the answer's status is not looked at.
PostUnchecked(a, c) == \E arrives \in BOOLEAN : Ends(a, c, arrives, FALSE)

\* One POST: the peer takes the alert or not; an answer that is refused, an error
\* status or more than ten seconds late makes it an error.
Post(a, c) ==
    \E arrives, answered \in BOOLEAN : Ends(a, c, arrives, ~(arrives /\ answered))

\* A webhook without a URL is skipped without an error.
Hook(a, c) ==
    /\ calls[a][c] = "calling"
    /\ IF c.complete THEN Post(a, c) ELSE Ends(a, c, FALSE, FALSE)

DiscordSend(a, c) == c.type = "discord" /\ Hook(a, c)
DispatchSend(a, c) == c.type = "gotcode_dispatch" /\ Hook(a, c)
WebhookSend(a, c) == c.type \in {"webhook", "http"} /\ Hook(a, c)

EmailSend(a, c) ==
    /\ c.type \in {"email", "smtp"} /\ calls[a][c] = "calling"
    /\ IF c.complete THEN Post(a, c) ELSE Ends(a, c, FALSE, TRUE)

\* M365 asks for a token first.
GraphAuth(a, c) ==
    /\ c.type \in {"m365", "m365_graph"} /\ calls[a][c] = "calling"
    /\ \E token \in BOOLEAN :
        IF c.complete /\ token
        THEN /\ calls' = [calls EXCEPT ![a][c] = "authorized"]
             /\ UNCHANGED <<streamVars, runVars, delivered, logged>>
        ELSE Ends(a, c, FALSE, TRUE)

GraphSend(a, c) == calls[a][c] = "authorized" /\ Post(a, c)

Call(a, c) ==
    \/ DiscordSend(a, c) \/ DispatchSend(a, c) \/ WebhookSend(a, c)
    \/ EmailSend(a, c) \/ GraphAuth(a, c) \/ GraphSend(a, c)

-----------------------------------------------------------------------------

\* Every run has returned.
Over == (\A r \in Loggers : stage[r] = "ended") /\ UNCHANGED vars

Run(r) ==
    \/ Say(r) \/ StorageAlert(r) \/ LockQueue(r) \/ ClearActive(r) \/ Return(r)
    \/ Wake(r) \/ Announce(r)

Next ==
    \/ \E r \in Loggers : Run(r)
    \/ \E a \in Loggers, c \in Channels : Call(a, c)
    \/ StreamNext /\ UNCHANGED <<runVars, callVars>>
    \/ Over

\* Mutexes starve nobody, goroutines run, HTTP calls end: an SMTP dialogue may not.
Fairness ==
    /\ StreamFairness
    /\ \A r \in Loggers : SF_vars(Run(r))
    /\ WF_vars(\E a \in Loggers, c \in Channels : c.type \notin {"email", "smtp"} /\ Call(a, c))

Spec == Init /\ [][Next]_vars /\ Fairness

-----------------------------------------------------------------------------
(* Properties *)

\* Neither a client that has stopped reading nor a channel that never answers keeps a
\* run from ending (the second the broker waits, the goroutine of every channel).
RunsEnd == <>(\A r \in Loggers : stage[r] = "ended")

\* No failure is silent: a call that has ended has delivered its alert or has its
\* error in the log, but for a webhook without a URL.
FailuresAreLogged ==
    \A a \in Loggers, c \in Channels :
        (calls[a][c] = "ended" /\ (c.complete \/ c.type \in MailTypes)) =>
            <<a, c>> \in delivered \cup logged

\* The batch is announced before its digest, never after it ("If the batch completely
\* finished before the 2-second debouncer woke up (a hyper-fast job), abort!").
AnnouncedBeforeDigest ==
    [][\A d \in Loggers : (stage[d] = "composed" /\ stage'[d] = "ended") => batch]_vars

\* Every configured channel hears of every alert ("GoBackup will dispatch alerts to all
\* defined providers"), or the log says why not.
AllProvidersCalled ==
    \A a \in Loggers, c \in channels :
        (calls[a] # [d \in Channels |-> "none"] /\ \A d \in Channels : calls[a][d] \in {"none", "ended"}) =>
            <<a, c>> \in delivered \cup logged
===============================================================================
