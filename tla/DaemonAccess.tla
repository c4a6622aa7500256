------------------------------ MODULE DaemonAccess ------------------------------
(***************************************************************************)
(* How a daemon comes up and whom it answers: gobackupd's main, the TLS    *)
(* bootstrap (tls.go), the TCP port and the Unix socket (Server.Start),    *)
(* the interceptors and the users table (interceptors.go, db.go), and      *)
(* gbctl's saved token.  The supervisor restarts a daemon that has ended;  *)
(* a second daemon of the same host may be started next to it.             *)
(*                                                                         *)
(* A certificate or key file is named by the pair it belongs to.  A token  *)
(* is its place in the history of the tokens issued; the table holds one   *)
(* token per user, as the hash of it.                                      *)
(***************************************************************************)
EXTENDS Integers, SequencesExt, FiniteSets

CONSTANTS
    Daemons,     \* processes of gobackupd on the host
    Clients,     \* gbctl installations, each with its saved token
    Users,       \* names that tokens are issued for
    Nobody,      \* neither a daemon nor a user
    Stale,       \* a socket file nobody listens on
    Faults,      \* "window": a daemon stops between two file writes;
                 \* "twice": two daemons may start without a certificate
    MaxStops,    \* bound on the daemons that are stopped
    MaxTokens    \* bound on the tokens issued

ASSUME AccessAssumption ==
    /\ Nobody \notin Daemons \cup Users \cup {Stale} /\ Stale \notin Daemons
    /\ Faults \subseteq {"window", "twice"}
    /\ MaxStops \in Nat /\ MaxTokens \in Nat

VARIABLES
    pc,         \* where each daemon is in main
    pair,       \* the key pair it has generated
    pairs,      \* number of pairs generated
    cert, key,  \* the files: Absent, Torn, or the pair's number
    port,       \* the daemon that listens on TCP
    socket,     \* the one that listens on /tmp/gobackupd.sock, or Stale, or Nobody
    stops,      \* daemons stopped so far
    users,      \* the table: each user's token and role, token 0: no row
    issued,     \* history of the tokens: [user, role]
    known,      \* tokens that a reply has brought
    saved,      \* the token in each client's auth.json, 0: none
    call        \* each client's call

daemonVars == <<pc, pair, pairs, cert, key, port, socket, stops>>
tokenVars == <<users, issued, known, saved, call>>
vars == <<daemonVars, tokenVars>>

Stages == {"off", "booted", "generated", "certified", "loading", "loaded", "bound", "serving"}
Roles == {"admin", "viewer"}
\* GenerateToken comes by the socket; RestoreBackup (a stream) and RemoveBackup of
\* AdminService, WatchLogs (a stream) and StartBackup of BackupService by TCP.
Streams == {"RestoreBackup", "WatchLogs"}
AdminService == {"GenerateToken", "RestoreBackup", "RemoveBackup"}
Methods == AdminService \cup {"WatchLogs", "StartBackup"}
Idle == [stage |-> "idle", method |-> "StartBackup", token |-> 0]
Absent == 0
Torn == -1

\* The type invariant: the tokens of the table, of the clients and of the calls are
\* issued ones, and a listener is a daemon that runs.
TypeOK ==
    /\ pc \in [Daemons -> Stages]
    /\ cert \in Torn .. pairs /\ key \in Torn .. pairs
    /\ port \in {d \in Daemons : pc[d] # "off"} \cup {Nobody}
    /\ socket \in {d \in Daemons : pc[d] # "off"} \cup {Nobody, Stale}
    /\ users \in [Users -> [token : 0 .. Len(issued), role : Roles]]
    /\ known \subseteq DOMAIN issued
    /\ saved \in [Clients -> known \cup {0}]
    /\ call \in [Clients -> [stage : {"idle", "sent", "admitted", "created"}, method : Methods,
                             token : 0 .. Len(issued)]]

Init ==
    /\ pc = [d \in Daemons |-> "off"]
    /\ pair = [d \in Daemons |-> 0]
    /\ pairs \in {0, 1} /\ cert = pairs /\ key = pairs
    /\ port = Nobody /\ socket = Nobody /\ stops = 0
    /\ users = [u \in Users |-> [token |-> 0, role |-> "viewer"]]
    /\ issued = <<>> /\ known = {}
    /\ saved = [c \in Clients |-> 0]
    /\ call = [c \in Clients |-> Idle]

-----------------------------------------------------------------------------
(* gobackupd *)

Goes(d, stage) == pc' = [pc EXCEPT ![d] = stage]

PairOnDisk == cert # Absent /\ key # Absent

\* InitDB: CREATE TABLE IF NOT EXISTS.
OpenTable == UNCHANGED users

\* LoadConfig, InitDB, and the scheduler starts.
Boot(d) ==
    /\ pc[d] = "off"
    /\ "twice" \in Faults \/ PairOnDisk \/ \A e \in Daemons : pc[e] = "off"
    /\ OpenTable
    /\ Goes(d, "booted")
    /\ UNCHANGED <<pair, pairs, cert, key, port, socket, stops, issued, known, saved, call>>

\* LoadOrGenerateTLS: both files are there, or a new pair is generated.
StatPair(d) ==
    /\ pc[d] = "booted"
    /\ IF PairOnDisk
       THEN Goes(d, "loading") /\ UNCHANGED <<pair, pairs>>
       ELSE /\ Goes(d, "generated")
            /\ pairs' = pairs + 1
            /\ pair' = [pair EXCEPT ![d] = pairs + 1]
    /\ UNCHANGED <<cert, key, port, socket, stops, tokenVars>>

\* What a write leaves: pem.Encode's error is dropped.
Written(d) == {pair[d]} \cup IF "window" \in Faults THEN {Torn} ELSE {}

WriteCert(d) ==
    /\ pc[d] = "generated"
    /\ cert' \in Written(d)
    /\ Goes(d, "certified")
    /\ UNCHANGED <<pair, pairs, key, port, socket, stops, tokenVars>>

WriteKey(d) ==
    /\ pc[d] = "certified"
    /\ key' \in Written(d)
    /\ Goes(d, "loading")
    /\ UNCHANGED <<pair, pairs, cert, port, socket, stops, tokenVars>>

\* NewServerTLSFromFile: the daemon ends unless both files hold the same pair.
LoadPair(d) ==
    /\ pc[d] = "loading"
    /\ Goes(d, IF cert = key /\ cert # Torn THEN "loaded" ELSE "off")
    /\ UNCHANGED <<pair, pairs, cert, key, port, socket, stops, tokenVars>>

\* Seeded bug: the socket is removed before the port is known to be free.
ListenAfterRemoval(d) ==
    /\ pc[d] = "loaded"
    /\ socket' = Nobody
    /\ IF port = Nobody THEN port' = d /\ Goes(d, "bound") ELSE Goes(d, "off") /\ UNCHANGED port
    /\ UNCHANGED <<pair, pairs, cert, key, stops, tokenVars>>

\* Server.Start: the daemon ends if the port is taken.
Listen(d) ==
    /\ pc[d] = "loaded"
    /\ IF port = Nobody THEN port' = d /\ Goes(d, "bound") ELSE Goes(d, "off") /\ UNCHANGED port
    /\ UNCHANGED <<pair, pairs, cert, key, socket, stops, tokenVars>>

\* Seeded bug: a socket file that is left is not removed, and the listener fails on it.
TakeSocketIfFree(d) ==
    /\ pc[d] = "bound"
    /\ IF socket = Nobody
       THEN socket' = d /\ Goes(d, "serving") /\ UNCHANGED port
       ELSE port' = Nobody /\ Goes(d, "off") /\ UNCHANGED socket
    /\ UNCHANGED <<pair, pairs, cert, key, stops, tokenVars>>

\* The old socket file is removed, and both servers serve.
TakeSocket(d) ==
    /\ pc[d] = "bound"
    /\ socket' = d
    /\ Goes(d, "serving")
    /\ UNCHANGED <<pair, pairs, cert, key, port, stops, tokenVars>>

\* The daemon is stopped: its socket file stays, its calls end.
Stop(d) ==
    /\ pc[d] # "off" /\ stops < MaxStops
    /\ "window" \in Faults \/ pc[d] \notin {"generated", "certified"}
    /\ stops' = stops + 1
    /\ Goes(d, "off")
    /\ port' = IF port = d THEN Nobody ELSE port
    /\ socket' = IF socket = d THEN Stale ELSE socket
    /\ call' = IF port = d THEN [c \in Clients |-> Idle] ELSE call
    /\ UNCHANGED <<pair, pairs, cert, key, users, issued, known, saved>>

-----------------------------------------------------------------------------
(* gbctl and the interceptors *)

Serving == \E d \in Daemons : pc[d] = "serving"

Dial(c, method) ==
    /\ call[c].stage = "idle" /\ Serving
    /\ call' = [call EXCEPT ![c] = [stage |-> "sent", method |-> method,
                                    token |-> IF method = "GenerateToken" THEN 0 ELSE saved[c]]]
    /\ UNCHANGED <<daemonVars, users, issued, known, saved>>

\* ValidateToken, and the role that AdminService requires.
Admits(token, method) ==
    \E u \in Users :
        /\ users[u].token = token /\ token # 0
        /\ method \in AdminService => users[u].role = "admin"

Answer(c, admitted) ==
    /\ call' = [call EXCEPT ![c] = IF admitted THEN [@ EXCEPT !.stage = "admitted"] ELSE Idle]
    /\ UNCHANGED <<daemonVars, users, issued, known, saved>>

\* The socket's calls pass without a token.
AuthInterceptor(c) ==
    /\ call[c].stage = "sent" /\ call[c].method \notin Streams
    /\ Answer(c, call[c].method = "GenerateToken" \/ Admits(call[c].token, call[c].method))

StreamAuthInterceptor(c) ==
    /\ call[c].stage = "sent" /\ call[c].method \in Streams
    /\ Answer(c, Admits(call[c].token, call[c].method))

\* Seeded bug: the role of a user who has a row already is kept.
RowWithOldRole(u, role, token) ==
    [token |-> token, role |-> IF users[u].token = 0 THEN role ELSE users[u].role]

Row(u, role, token) == [token |-> token, role |-> role]

\* Seeded bug: a token is returned although its row could not be written.
CreateUserUnchecked(c, u, role) ==
    /\ call[c].stage = "admitted" /\ call[c].method = "GenerateToken"
    /\ call' = [call EXCEPT ![c].stage = "created", ![c].token = Len(issued) + 1]
    /\ UNCHANGED <<daemonVars, users, issued, known, saved>>

\* GenerateToken: the user's row is inserted or updated.
CreateUser(c, u, role) ==
    /\ call[c].stage = "admitted" /\ call[c].method = "GenerateToken"
    /\ Len(issued) < MaxTokens
    /\ issued' = Append(issued, [user |-> u, role |-> role])
    /\ users' = [users EXCEPT ![u] = Row(u, role, Len(issued) + 1)]
    /\ call' = [call EXCEPT ![c].stage = "created", ![c].token = Len(issued) + 1]
    /\ UNCHANGED <<daemonVars, known, saved>>

\* The handler returns; GenerateToken brings the token.
Reply(c) ==
    /\ call[c].stage \in IF call[c].method = "GenerateToken" THEN {"created"} ELSE {"admitted"}
    /\ known' = IF call[c].stage = "created" THEN known \cup {call[c].token} ELSE known
    /\ call' = [call EXCEPT ![c] = Idle]
    /\ UNCHANGED <<daemonVars, users, issued, saved>>

\* gbctl login with a token somebody was given.
Login(c, token) ==
    /\ call[c].stage = "idle" /\ saved[c] # token
    /\ saved' = [saved EXCEPT ![c] = token]
    /\ UNCHANGED <<daemonVars, users, issued, known, call>>

-----------------------------------------------------------------------------

Start(d) ==
    \/ Boot(d) \/ StatPair(d) \/ WriteCert(d) \/ WriteKey(d) \/ LoadPair(d)
    \/ Listen(d) \/ TakeSocket(d)

Request(c) ==
    \/ \E method \in Methods : Dial(c, method)
    \/ AuthInterceptor(c) \/ StreamAuthInterceptor(c)
    \/ \E u \in Users, role \in Roles : CreateUser(c, u, role)
    \/ Reply(c)
    \/ \E token \in known : Login(c, token)

Next ==
    \/ \E d \in Daemons : Start(d) \/ Stop(d)
    \/ \E c \in Clients : Request(c)

\* The supervisor starts a daemon that has ended (Restart=always).
Spec == Init /\ [][Next]_vars /\ \A d \in Daemons : WF_vars(Start(d))

-----------------------------------------------------------------------------
(* Properties *)

\* A daemon that serves is the one its port and its socket lead to, whatever other
\* daemon has been started and has failed since: administration needs the socket.
ServerIsReached == \A d \in Daemons : pc[d] = "serving" => port = d /\ socket = d

\* The service comes back after every stop and then stays: what the bootstrap left on
\* disk can be loaded again ("If both files exist, just load them").
ServiceReturns == <>[]Serving

\* The token decides, by what was issued and not by what the table has become: a call
\* by TCP is admitted exactly if its token is the last one issued for its user, with a
\* role that allows it, across restarts, rotations and lost replies.
Allowed(token, method) ==
    /\ token # 0
    /\ \A t \in token + 1 .. Len(issued) : issued[t].user # issued[token].user
    /\ method \in AdminService => issued[token].role = "admin"

LastTokenDecides ==
    [][\A c \in Clients :
        (call[c].stage = "sent" /\ call[c].method # "GenerateToken" /\ stops' = stops
            /\ call'[c].stage # "sent") =>
                (call'[c].stage = "admitted" <=> Allowed(call[c].token, call[c].method))]_vars

\* Only one process schedules jobs at a time: a second daemon ends at the port that is
\* taken, but its scheduler has been started before.
OneSchedules == Cardinality({d \in Daemons : pc[d] # "off"}) <= 1
===============================================================================
