--------------------------- MODULE DaemonAccessProofs ---------------------------
(***************************************************************************)
(* The types, the listeners and the users table of DaemonAccess, for any   *)
(* number of daemons, clients, users, stops and tokens, with any faults.   *)
(*                                                                         *)
(* The start of a daemon leaves the tokens alone and a call leaves the     *)
(* daemons alone, so the invariant is proved in two halves that meet only  *)
(* in Stop, which ends a daemon and its calls.                             *)
(***************************************************************************)
EXTENDS DaemonAccess, TLAPS

DaemonTypes ==
    /\ pc \in [Daemons -> Stages]
    /\ pairs \in Nat /\ pair \in [Daemons -> 0 .. pairs]
    /\ cert \in Torn .. pairs /\ key \in Torn .. pairs
    /\ port \in Daemons \cup {Nobody}
    /\ socket \in Daemons \cup {Nobody, Stale}
    /\ stops \in Nat

\* A daemon owns the port from Listen until it ends, and the socket while it serves.
Listeners ==
    /\ \A d \in Daemons : pc[d] \in {"bound", "serving"} => port = d
    /\ port \in Daemons => pc[port] \in {"bound", "serving"}
    /\ \A d \in Daemons : pc[d] = "serving" <=> socket = d

TokenTypes ==
    /\ issued \in Seq([user : Users, role : Roles])
    /\ users \in [Users -> [token : 0 .. Len(issued), role : Roles]]
    /\ known \subseteq DOMAIN issued
    /\ saved \in [Clients -> known \cup {0}]
    /\ call \in [Clients -> [stage : {"idle", "sent", "admitted", "created"}, method : Methods,
                             token : 0 .. Len(issued)]]

\* A reply brings a token that has been issued.
CreatedIsIssued ==
    \A c \in Clients : call[c].stage = "created" => call[c].token \in DOMAIN issued

\* No token after t has been issued for t's user.
IsLast(t, history) == \A s \in DOMAIN history : s > t => history[s].user # history[t].user

\* A row holds the last token of its user, and the last token of a user has a row.
Table ==
    /\ \A u \in Users :
           users[u].token # 0 =>
               /\ users[u].token \in DOMAIN issued
               /\ issued[users[u].token] = [user |-> u, role |-> users[u].role]
               /\ IsLast(users[u].token, issued)
    /\ \A t \in DOMAIN issued :
           IsLast(t, issued) => users[issued[t].user] = [token |-> t, role |-> issued[t].role]

DaemonInv == DaemonTypes /\ Listeners
TokenInv == TokenTypes /\ CreatedIsIssued /\ Table

-----------------------------------------------------------------------------
(* The daemons *)

LEMMA InitDaemons == Init => DaemonInv
BY AccessAssumption DEF Init, DaemonInv, DaemonTypes, Listeners, Stages, Torn

\* Each step of main keeps the listeners: only Listen takes the port, of nobody, and
\* only the owner of the port takes the socket.
LEMMA StartKeepsDaemons ==
    ASSUME DaemonInv, NEW d \in Daemons, Start(d)
    PROVE  DaemonInv'
<1> USE AccessAssumption DEF DaemonInv, DaemonTypes, Listeners, Goes, Stages, Torn
<1>1. CASE Boot(d)
  BY <1>1 DEF Boot
<1>2. CASE StatPair(d)
  <2>1. pc' = [pc EXCEPT ![d] = "loading"] \/ pc' = [pc EXCEPT ![d] = "generated"]
    BY <1>2 DEF StatPair
  <2>2. /\ pc[d] = "booted"
        /\ UNCHANGED <<cert, key, port, socket, stops>>
    BY <1>2 DEF StatPair
  <2>3. \/ UNCHANGED <<pair, pairs>>
        \/ pairs' = pairs + 1 /\ pair' = [pair EXCEPT ![d] = pairs + 1]
    BY <1>2 DEF StatPair
  <2>4. /\ pairs' \in Nat /\ pair' \in [Daemons -> 0 .. pairs']
        /\ cert' \in Torn .. pairs' /\ key' \in Torn .. pairs'
    BY <2>2, <2>3
  <2>5. QED
    BY <2>1, <2>2, <2>4
<1>3. CASE WriteCert(d)
  BY <1>3 DEF WriteCert, Written
<1>4. CASE WriteKey(d)
  BY <1>4 DEF WriteKey, Written
<1>5. CASE LoadPair(d)
  BY <1>5 DEF LoadPair
<1>6. CASE Listen(d)
  BY <1>6 DEF Listen
<1>7. CASE TakeSocket(d)
  BY <1>7 DEF TakeSocket
<1>8. QED
  BY <1>1, <1>2, <1>3, <1>4, <1>5, <1>6, <1>7 DEF Start

\* A stop frees the port and leaves the socket's file to nobody.
LEMMA StopKeepsDaemons ==
    ASSUME DaemonInv, NEW d \in Daemons, Stop(d)
    PROVE  DaemonInv'
BY AccessAssumption DEF DaemonInv, DaemonTypes, Listeners, Stop, Goes, Stages, Torn

LEMMA OthersKeepDaemons ==
    ASSUME DaemonInv, UNCHANGED daemonVars
    PROVE  DaemonInv'
BY DEF DaemonInv, DaemonTypes, Listeners, daemonVars

-----------------------------------------------------------------------------
(* The tokens *)

LEMMA InitTokens == Init => TokenInv
<1>1. ASSUME Init PROVE /\ issued = <<>> /\ Len(issued) = 0 /\ DOMAIN issued = {}
                        /\ issued \in Seq([user : Users, role : Roles])
  BY <1>1 DEF Init
<1>2. QED
  BY <1>1 DEF Init, TokenInv, TokenTypes, CreatedIsIssued, Table, IsLast,
              Roles, Idle, Methods, AdminService

LEMMA OthersKeepTokens ==
    ASSUME TokenInv, UNCHANGED tokenVars
    PROVE  TokenInv'
BY DEF TokenInv, TokenTypes, CreatedIsIssued, Table, IsLast, tokenVars

\* What the history holds.
LEMMA IssuedTyped ==
    ASSUME issued \in Seq([user : Users, role : Roles]), NEW t \in DOMAIN issued
    PROVE  issued[t].user \in Users /\ issued[t].role \in Roles
<1> DEFINE Token == [user : Users, role : Roles]
<1>1. issued[t] \in Token
  <2> HIDE DEF Token
  <2>1. issued \in Seq(Token)
    BY DEF Token
  <2>2. QED
    BY <2>1
<1>2. QED
  BY <1>1

\* A token more: the older ones keep their places.
LEMMA IssuedGrows ==
    ASSUME issued \in Seq([user : Users, role : Roles]),
           NEW u \in Users, NEW role \in Roles,
           issued' = Append(issued, [user |-> u, role |-> role])
    PROVE  /\ issued' \in Seq([user : Users, role : Roles])
           /\ Len(issued) \in Nat /\ Len(issued') = Len(issued) + 1
           /\ DOMAIN issued = 1 .. Len(issued) /\ DOMAIN issued' = 1 .. Len(issued) + 1
           /\ \A t \in DOMAIN issued : issued'[t] = issued[t]
           /\ issued'[Len(issued) + 1] = [user |-> u, role |-> role]
OBVIOUS

\* The only step that changes the table: the new token is its user's last, and the last
\* tokens of the others remain theirs.
LEMMA CreateUserKeepsTokens ==
    ASSUME TokenInv, NEW c \in Clients, NEW u \in Users, NEW role \in Roles,
           CreateUser(c, u, role)
    PROVE  TokenInv'
<1> PICK n \in Nat : n = Len(issued) + 1
  BY DEF TokenInv, TokenTypes
<1>1. /\ call[c].stage = "admitted" /\ call[c].method = "GenerateToken"
      /\ issued' = Append(issued, [user |-> u, role |-> role])
      /\ users' = [users EXCEPT ![u] = [token |-> n, role |-> role]]
      /\ call' = [call EXCEPT ![c].stage = "created", ![c].token = n]
      /\ UNCHANGED <<known, saved>>
  BY DEF CreateUser, Row
<1>2. /\ issued' \in Seq([user : Users, role : Roles])
      /\ Len(issued) \in Nat /\ Len(issued') = n
      /\ DOMAIN issued = 1 .. Len(issued) /\ DOMAIN issued' = 1 .. n
      /\ \A t \in DOMAIN issued : issued'[t] = issued[t]
      /\ issued'[n] = [user |-> u, role |-> role]
  BY <1>1, IssuedGrows DEF TokenInv, TokenTypes
<1>3. n \in Nat /\ n = Len(issued) + 1
  OBVIOUS
<1>4. \A t \in DOMAIN issued : issued[t].user \in Users /\ issued[t].role \in Roles
  BY IssuedTyped DEF TokenInv, TokenTypes
<1>5. TokenTypes'
  <2>1. users' \in [Users -> [token : 0 .. Len(issued'), role : Roles]]
    BY <1>1, <1>2, <1>3 DEF TokenInv, TokenTypes
  <2>2. known' \subseteq DOMAIN issued' /\ saved' \in [Clients -> known' \cup {0}]
    BY <1>1, <1>2, <1>3 DEF TokenInv, TokenTypes
  <2>3. call' \in [Clients -> [stage : {"idle", "sent", "admitted", "created"},
                               method : Methods, token : 0 .. Len(issued')]]
    <3> DEFINE CallType == [stage : {"idle", "sent", "admitted", "created"},
                            method : Methods, token : 0 .. n]
               created == [stage |-> "created", method |-> call[c].method, token |-> n]
    <3>1. created \in CallType /\ \A e \in Clients : call[e] \in CallType
      BY <1>2, <1>3 DEF TokenInv, TokenTypes
    <3>2. call' \in [Clients -> {call'[e] : e \in Clients}]
      BY <1>1 DEF TokenInv, TokenTypes
    <3>3. /\ call'[c] = created
          /\ \A e \in Clients : e # c => call'[e] = call[e]
      BY <1>1, <3>1 DEF TokenInv, TokenTypes
    <3> HIDE DEF CallType, created
    <3>4. QED
      BY <1>2, <3>1, <3>2, <3>3 DEF CallType
  <2>4. QED
    BY <1>2, <2>1, <2>2, <2>3 DEF TokenTypes
<1>6. CreatedIsIssued'
  BY <1>1, <1>2, <1>3 DEF TokenInv, TokenTypes, CreatedIsIssued
<1>7. IsLast(n, issued')
  BY <1>2, <1>3 DEF IsLast
<1>8. ASSUME NEW t \in DOMAIN issued
      PROVE  IsLast(t, issued') <=> IsLast(t, issued) /\ issued[t].user # u
  BY <1>2, <1>3, <1>8 DEF IsLast
<1>9. ASSUME NEW v \in Users, users'[v].token # 0
      PROVE  /\ users'[v].token \in DOMAIN issued'
             /\ issued'[users'[v].token] = [user |-> v, role |-> users'[v].role]
             /\ IsLast(users'[v].token, issued')
  <2>1. CASE v = u
    <3>1. users'[v] = [token |-> n, role |-> role]
      BY <1>1, <2>1 DEF TokenInv, TokenTypes
    <3>2. QED
      BY <1>2, <1>3, <1>7, <2>1, <3>1
  <2>2. CASE v # u
    <3>1. users'[v] = users[v]
      BY <1>1, <2>2 DEF TokenInv, TokenTypes
    <3>2. /\ users[v].token \in DOMAIN issued
          /\ issued[users[v].token] = [user |-> v, role |-> users[v].role]
          /\ IsLast(users[v].token, issued)
      BY <1>9, <3>1 DEF TokenInv, Table
    <3>3. IsLast(users[v].token, issued')
      BY <1>8, <2>2, <3>2
    <3>4. QED
      BY <1>2, <1>3, <3>1, <3>2, <3>3
  <2>3. QED
    BY <2>1, <2>2
<1>10. ASSUME NEW t \in DOMAIN issued', IsLast(t, issued')
       PROVE  users'[issued'[t].user] = [token |-> t, role |-> issued'[t].role]
  <2>1. CASE t = n
    BY <1>1, <1>2, <2>1 DEF TokenInv, TokenTypes
  <2>2. CASE t # n
    <3>1. t \in DOMAIN issued /\ issued'[t] = issued[t]
      BY <1>2, <1>3, <2>2
    <3>2. IsLast(t, issued) /\ issued[t].user # u
      BY <1>8, <1>10, <3>1
    <3>3. users[issued[t].user] = [token |-> t, role |-> issued[t].role]
      BY <3>1, <3>2 DEF TokenInv, Table
    <3>4. QED
      BY <1>1, <1>4, <3>1, <3>2, <3>3 DEF TokenInv, TokenTypes
  <2>3. QED
    BY <2>1, <2>2
<1>11. Table'
  BY <1>9, <1>10 DEF Table
<1>12. QED
  BY <1>5, <1>6, <1>11 DEF TokenInv

\* The rest of a call and a login move issued tokens only.
LEMMA CallKeepsTokens ==
    ASSUME TokenInv, NEW c \in Clients,
           \/ \E method \in Methods : Dial(c, method)
           \/ AuthInterceptor(c) \/ StreamAuthInterceptor(c)
           \/ Reply(c)
           \/ \E token \in known : Login(c, token)
    PROVE  TokenInv'
<1> DEFINE CallType == [stage : {"idle", "sent", "admitted", "created"}, method : Methods,
                        token : 0 .. Len(issued)]
<1>1. /\ users' = users /\ issued' = issued
      /\ Len(issued) \in Nat /\ DOMAIN issued = 1 .. Len(issued)
  BY DEF Dial, AuthInterceptor, StreamAuthInterceptor, Answer, Reply, Login,
         TokenInv, TokenTypes
<1>2. Table'
  BY <1>1 DEF TokenInv, Table, IsLast
<1>3. Idle \in CallType
  BY <1>1 DEF Idle, Methods
<1>4. ASSUME NEW method \in Methods, Dial(c, method)
      PROVE  TokenTypes' /\ CreatedIsIssued'
  <2>1. saved[c] \in 0 .. Len(issued)
    BY <1>1 DEF TokenInv, TokenTypes
  <2> DEFINE r == [stage |-> "sent", method |-> method,
                   token |-> IF method = "GenerateToken" THEN 0 ELSE saved[c]]
  <2>2. r \in CallType /\ r.stage # "created" /\ call' = [call EXCEPT ![c] = r]
    BY <1>1, <1>4, <2>1 DEF Dial
  <2> HIDE DEF r
  <2>3. QED
    BY <1>1, <1>4, <2>2 DEF Dial, TokenInv, TokenTypes, CreatedIsIssued
<1>5. ASSUME NEW admitted \in BOOLEAN, Answer(c, admitted)
      PROVE  TokenTypes' /\ CreatedIsIssued'
  <2>1. PICK r \in CallType : r.stage # "created" /\ call' = [call EXCEPT ![c] = r]
    BY <1>1, <1>3, <1>5 DEF Answer, Idle, TokenInv, TokenTypes
  <2>2. QED
    BY <1>1, <1>5, <2>1 DEF Answer, TokenInv, TokenTypes, CreatedIsIssued
<1>6. ASSUME Reply(c)
      PROVE  TokenTypes' /\ CreatedIsIssued'
  <2>1. known \subseteq known' /\ known' \subseteq DOMAIN issued
    BY <1>6 DEF Reply, TokenInv, TokenTypes, CreatedIsIssued
  <2>2. saved' = saved /\ call' = [call EXCEPT ![c] = Idle]
    BY <1>6 DEF Reply
  <2>3. QED
    BY <1>1, <1>3, <2>1, <2>2 DEF Idle, TokenInv, TokenTypes, CreatedIsIssued
<1>7. ASSUME NEW token \in known, Login(c, token)
      PROVE  TokenTypes' /\ CreatedIsIssued'
  BY <1>1, <1>7 DEF Login, TokenInv, TokenTypes, CreatedIsIssued
<1>8. TokenTypes' /\ CreatedIsIssued'
  <2>1. ASSUME AuthInterceptor(c) \/ StreamAuthInterceptor(c)
        PROVE  \E admitted \in BOOLEAN : Answer(c, admitted)
    BY <2>1 DEF AuthInterceptor, StreamAuthInterceptor, Admits
  <2>2. QED
    BY <1>4, <1>5, <1>6, <1>7, <2>1
<1>9. QED
  BY <1>2, <1>8 DEF TokenInv

\* A stop ends the calls and keeps the table.
LEMMA StopKeepsTokens ==
    ASSUME TokenInv, NEW d \in Daemons, Stop(d)
    PROVE  TokenInv'
<1>1. /\ UNCHANGED <<users, issued, known, saved>>
      /\ call' = call \/ call' = [c \in Clients |-> Idle]
  BY DEF Stop
<1>2. QED
  BY <1>1 DEF TokenInv, TokenTypes, CreatedIsIssued, Table, IsLast, Idle, Methods, AdminService

-----------------------------------------------------------------------------
(* The specification *)

LEMMA InvStep ==
    ASSUME DaemonInv, TokenInv, [Next]_vars
    PROVE  DaemonInv' /\ TokenInv'
<1>1. ASSUME NEW d \in Daemons, Start(d)
      PROVE  DaemonInv' /\ TokenInv'
  <2>1. UNCHANGED tokenVars
    BY <1>1 DEF Start, Boot, OpenTable, StatPair, WriteCert, WriteKey, LoadPair, Listen,
                TakeSocket, tokenVars
  <2>2. QED
    BY <1>1, <2>1, StartKeepsDaemons, OthersKeepTokens
<1>2. ASSUME NEW d \in Daemons, Stop(d)
      PROVE  DaemonInv' /\ TokenInv'
  BY <1>2, StopKeepsDaemons, StopKeepsTokens
<1>3. ASSUME NEW c \in Clients, Request(c)
      PROVE  DaemonInv' /\ TokenInv'
  <2>1. UNCHANGED daemonVars
    BY <1>3 DEF Request, Dial, AuthInterceptor, StreamAuthInterceptor, Answer, CreateUser,
                Reply, Login
  <2>2. TokenInv'
    BY <1>3, CreateUserKeepsTokens, CallKeepsTokens DEF Request
  <2>3. QED
    BY <2>1, <2>2, OthersKeepDaemons
<1>4. CASE UNCHANGED vars
  BY <1>4, OthersKeepDaemons, OthersKeepTokens DEF vars
<1>5. QED
  BY <1>1, <1>2, <1>3, <1>4 DEF Next

\* The inductive invariant of the daemons and the tokens, for any number of them.
THEOREM AccessInvariant == Spec => [](DaemonInv /\ TokenInv)
<1>1. Init => DaemonInv /\ TokenInv
  BY InitDaemons, InitTokens
<1>2. DaemonInv /\ TokenInv /\ [Next]_vars => DaemonInv' /\ TokenInv'
  BY InvStep
<1>3. QED
  BY <1>1, <1>2, PTL DEF Spec

\* The variables keep their types; a listener is a daemon that runs because it gives up
\* the port and the socket when it ends (Listeners).
THEOREM TypeCorrect == Spec => []TypeOK
<1>1. DaemonInv /\ TokenInv => TypeOK
  BY DEF DaemonInv, DaemonTypes, Listeners, TokenInv, TokenTypes, TypeOK
<1>2. QED
  BY <1>1, AccessInvariant, PTL

\* A daemon that serves is reached by its port and its socket, however many daemons are
\* started next to it, at whatever point each of them fails or is stopped.
THEOREM ServerReached == Spec => []ServerIsReached
<1>1. DaemonInv => ServerIsReached
  BY DEF DaemonInv, Listeners, ServerIsReached
<1>2. QED
  BY <1>1, AccessInvariant, PTL

\* The table and the history of the tokens agree about every call by TCP.
LEMMA AdmitsTheAllowed ==
    ASSUME TokenInv, NEW token \in 0 .. Len(issued), NEW method \in Methods
    PROVE  Admits(token, method) <=> Allowed(token, method)
<1>1. Len(issued) \in Nat /\ DOMAIN issued = 1 .. Len(issued)
  BY DEF TokenInv, TokenTypes
<1>2. \A t \in DOMAIN issued : issued[t].user \in Users
  BY IssuedTyped DEF TokenInv, TokenTypes
<1>3. ASSUME token # 0
      PROVE  IsLast(token, issued) <=> \A t \in token + 1 .. Len(issued) :
                                   issued[t].user # issued[token].user
  BY <1>1, <1>3 DEF IsLast
<1>4. ASSUME Admits(token, method) PROVE Allowed(token, method)
  <2>1. PICK u \in Users : /\ users[u].token = token /\ token # 0
                           /\ method \in AdminService => users[u].role = "admin"
    BY <1>4 DEF Admits
  <2>2. issued[token] = [user |-> u, role |-> users[u].role] /\ IsLast(token, issued)
    BY <2>1 DEF TokenInv, Table
  <2>3. QED
    BY <1>3, <2>1, <2>2 DEF Allowed
<1>5. ASSUME Allowed(token, method) PROVE Admits(token, method)
  <2>1. token \in DOMAIN issued /\ IsLast(token, issued)
    BY <1>1, <1>3, <1>5 DEF Allowed
  <2>2. users[issued[token].user] = [token |-> token, role |-> issued[token].role]
    BY <2>1 DEF TokenInv, Table
  <2>3. QED
    BY <1>2, <1>5, <2>1, <2>2 DEF Allowed, Admits
<1>6. QED
  BY <1>4, <1>5

\* Every call by TCP is answered as the history of the tokens says: across restarts,
\* rotations and lost replies, only the last token of a user is worth something.
THEOREM AnsweredByLastToken == Spec => LastTokenDecides
<1> DEFINE Answered ==
        \A c \in Clients :
            (call[c].stage = "sent" /\ call[c].method # "GenerateToken" /\ stops' = stops
                /\ call'[c].stage # "sent") =>
                    (call'[c].stage = "admitted" <=> Allowed(call[c].token, call[c].method))
<1>1. ASSUME DaemonInv, TokenInv, [Next]_vars
      PROVE  [Answered]_vars
  <2>1. SUFFICES ASSUME NEW c \in Clients,
                        call[c].stage = "sent", call[c].method # "GenerateToken",
                        stops' = stops, call'[c].stage # "sent"
                 PROVE  call'[c].stage = "admitted" <=> Allowed(call[c].token, call[c].method)
    OBVIOUS
  <2>2. /\ call \in [Clients -> [stage : {"idle", "sent", "admitted", "created"},
                                 method : Methods, token : 0 .. Len(issued)]]
        /\ stops \in Nat
    BY <1>1 DEF DaemonInv, DaemonTypes, TokenInv, TokenTypes
  <2>3. call' = [call EXCEPT ![c] = IF Admits(call[c].token, call[c].method)
                                    THEN [@ EXCEPT !.stage = "admitted"] ELSE Idle]
    <3>1. ASSUME NEW d \in Daemons, Start(d) PROVE call' = call
      BY <3>1 DEF Start, Boot, StatPair, WriteCert, WriteKey, LoadPair, Listen, TakeSocket,
                  tokenVars
    <3>2. ASSUME NEW d \in Daemons, Stop(d) PROVE FALSE
      BY <2>1, <2>2, <3>2 DEF Stop
    <3>3. ASSUME NEW e \in Clients, Request(e), e # c PROVE call'[c] = call[c]
      BY <2>2, <3>3 DEF Request, Dial, AuthInterceptor, StreamAuthInterceptor, Answer,
                        CreateUser, Reply, Login
    <3>4. ASSUME Request(c) PROVE AuthInterceptor(c) \/ StreamAuthInterceptor(c)
      BY <2>1, <3>4 DEF Request, Dial, CreateUser, Reply, Login
    <3>5. AuthInterceptor(c) \/ StreamAuthInterceptor(c)
      BY <1>1, <2>1, <3>1, <3>2, <3>3, <3>4 DEF Next, vars, tokenVars
    <3>6. CASE AuthInterceptor(c)
      <4>1. Answer(c, call[c].method = "GenerateToken" \/ Admits(call[c].token, call[c].method))
        BY <3>6 DEF AuthInterceptor
      <4>2. QED
        BY <2>1, <4>1 DEF Answer
    <3>7. QED
      BY <3>5, <3>6 DEF StreamAuthInterceptor, Answer
  <2>4. call'[c].stage = "admitted" <=> Admits(call[c].token, call[c].method)
    BY <2>2, <2>3 DEF Idle
  <2>5. QED
    BY <1>1, <2>2, <2>4, AdmitsTheAllowed
<1>2. DaemonInv /\ TokenInv /\ [Next]_vars => [Answered]_vars
  BY <1>1
<1>3. LastTokenDecides <=> [][Answered]_vars
  BY DEF LastTokenDecides
<1>4. QED
  BY <1>2, <1>3, AccessInvariant, PTL DEF Spec
===============================================================================
