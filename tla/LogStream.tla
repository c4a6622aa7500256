------------------------------- MODULE LogStream -------------------------------
(***************************************************************************)
(* The log broker (broker.go) between the daemon's loggers and the clients *)
(* attached by `gbctl job run --attach`.  A logger broadcasts under the    *)
(* broker's mutex: it offers its chunk to the bounded channel of each      *)
(* subscriber, waits at most a second for room when the chunk is a summary *)
(* or a status, and drops it otherwise.  Each WatchLogs handler ranges     *)
(* over its channel and sends on a stream with flow control; the client    *)
(* stops reading at the text that ends a job, and leaves when it is told.  *)
(*                                                                         *)
(* The loggers' programs belong to the module that extends this one.       *)
(***************************************************************************)
EXTENDS Integers, SequencesExt, FiniteSets

CONSTANTS
    Loggers,    \* goroutines that log
    Watchers,   \* one attached client and its WatchLogs handler
    Capacity,   \* size of a subscriber's channel (10000 in the code)
    Window,     \* chunks that the stream holds before Send blocks
    Free        \* nobody owns the mutex

ASSUME StreamAssumption ==
    /\ Capacity \in Nat \ {0} /\ Window \in Nat \ {0}
    /\ Free \notin Loggers

VARIABLES
    owner,        \* who holds the broker's mutex
    clock,        \* number of broadcasts: the chunk's number
    chunk,        \* the chunk being broadcast
    todo,         \* subscribers it has not been offered to
    subscribers,  \* the broker's map
    closed,       \* channels that have been closed
    channel,      \* what each channel holds
    handler,      \* where each WatchLogs handler is
    sending,      \* the chunk it has taken, at most one
    wire,         \* what its stream holds
    client,       \* away, reading, stopped, gone
    received,     \* numbers the client has received
    since,        \* the clock when it was subscribed
    dropped       \* numbers it has been refused

streamVars == <<owner, clock, chunk, todo, subscribers, closed, channel, handler,
                sending, wire, client, received, since, dropped>>

\* status and summary are control messages; a final summary holds one of the
\* texts at which a client stops.
Kinds == {"log", "status", "summary", "final"}
Chunks == [n : Nat, kind : Kinds]
Hello == [n |-> 0, kind |-> "log"]
IsControl(c) == c.kind # "log"

StreamTypeOK ==
    /\ owner \in Loggers \cup {Free}
    /\ clock \in Nat /\ chunk \in Chunks
    /\ todo \subseteq Watchers /\ subscribers \subseteq Watchers /\ closed \subseteq Watchers
    /\ \A w \in Watchers :
        /\ Len(channel[w]) <= Capacity /\ Len(sending[w]) <= 1 /\ Len(wire[w]) <= Window
        /\ ToSet(channel[w] \o sending[w] \o wire[w]) \subseteq Chunks
    /\ handler \in [Watchers -> {"idle", "hello", "subscribe", "range", "send", "leave", "done"}]
    /\ client \in [Watchers -> {"away", "reading", "stopped", "gone"}]

\* Nobody is attached yet; those not in "may" will never be.
StreamInit(may) ==
    /\ owner = Free /\ clock = 0 /\ chunk = Hello
    /\ todo = {} /\ subscribers = {} /\ closed = {}
    /\ channel = [w \in Watchers |-> <<>>]
    /\ handler = [w \in Watchers |-> "idle"]
    /\ sending = [w \in Watchers |-> <<>>]
    /\ wire = [w \in Watchers |-> <<>>]
    /\ client = [w \in Watchers |-> IF w \in may THEN "away" ELSE "gone"]
    /\ received = [w \in Watchers |-> <<>>]
    /\ since = [w \in Watchers |-> 0]
    /\ dropped = [w \in Watchers |-> {}]

-----------------------------------------------------------------------------
(* LogBroker.Broadcast *)

brokerVars == <<owner, clock, chunk, todo>>
watchVars == <<subscribers, closed, channel, handler, sending, wire, client, received, since, dropped>>

\* A logger enters Broadcast.
Broadcast(l, kind) ==
    /\ owner = Free
    /\ owner' = l
    /\ clock' = clock + 1
    /\ chunk' = [n |-> clock + 1, kind |-> kind]
    /\ todo' = subscribers
    /\ UNCHANGED watchVars

\* Seeded bug: the bound is off by one.
FullLate(w) == Len(channel[w]) > Capacity

Full(w) == Len(channel[w]) = Capacity

\* Seeded bug: a full channel loses its oldest chunk instead.
OfferNewest(w) ==
    /\ w \in todo
    /\ todo' = todo \ {w}
    /\ channel' = [channel EXCEPT ![w] = Append(IF Full(w) THEN Tail(@) ELSE @, chunk)]
    /\ UNCHANGED <<owner, clock, chunk, subscribers, closed, handler, sending, wire, client, received, since, dropped>>

\* The select statement of one subscriber when its channel has room, or when it has
\* none and the chunk is a standard log.
Offer(w) ==
    /\ w \in todo
    /\ todo' = todo \ {w}
    /\ IF Full(w)
       THEN /\ ~IsControl(chunk)
            /\ dropped' = [dropped EXCEPT ![w] = @ \cup {chunk.n}]
            /\ UNCHANGED channel
       ELSE /\ channel' = [channel EXCEPT ![w] = Append(@, chunk)]
            /\ UNCHANGED dropped
    /\ UNCHANGED <<owner, clock, chunk, subscribers, closed, handler, sending, wire, client, received, since>>

\* A control message has waited a second for room.
TimesOut(w) ==
    /\ w \in todo /\ IsControl(chunk) /\ Full(w)
    /\ todo' = todo \ {w}
    /\ dropped' = [dropped EXCEPT ![w] = @ \cup {chunk.n}]
    /\ UNCHANGED <<owner, clock, chunk, subscribers, closed, channel, handler, sending, wire, client, received, since>>

\* Broadcast returns.
Unlock ==
    /\ owner # Free /\ todo = {}
    /\ owner' = Free
    /\ chunk' = Hello
    /\ UNCHANGED <<clock, todo>>
    /\ UNCHANGED watchVars

-----------------------------------------------------------------------------
(* Server.WatchLogs *)

\* A client calls WatchLogs.
Attach(w) ==
    /\ client[w] = "away"
    /\ client' = [client EXCEPT ![w] = "reading"]
    /\ handler' = [handler EXCEPT ![w] = "hello"]
    /\ UNCHANGED brokerVars
    /\ UNCHANGED <<subscribers, closed, channel, sending, wire, received, since, dropped>>

\* The first Send, whose error is ignored.
SayHello(w) ==
    /\ handler[w] = "hello"
    /\ wire' = [wire EXCEPT ![w] = IF client[w] = "gone" THEN @ ELSE Append(@, Hello)]
    /\ handler' = [handler EXCEPT ![w] = "subscribe"]
    /\ UNCHANGED brokerVars
    /\ UNCHANGED <<subscribers, closed, channel, sending, client, received, since, dropped>>

Subscribe(w) ==
    /\ handler[w] = "subscribe" /\ owner = Free
    /\ subscribers' = subscribers \cup {w}
    /\ since' = [since EXCEPT ![w] = clock]
    /\ handler' = [handler EXCEPT ![w] = "range"]
    /\ UNCHANGED brokerVars
    /\ UNCHANGED <<closed, channel, sending, wire, client, received, dropped>>

\* The range statement takes the next chunk.
Take(w) ==
    /\ handler[w] = "range" /\ channel[w] # <<>>
    /\ sending' = [sending EXCEPT ![w] = <<Head(channel[w])>>]
    /\ channel' = [channel EXCEPT ![w] = Tail(@)]
    /\ handler' = [handler EXCEPT ![w] = "send"]
    /\ UNCHANGED brokerVars
    /\ UNCHANGED <<subscribers, closed, wire, client, received, since, dropped>>

\* Seeded bug: a failed Send is ignored, as the first one is.
AfterSendIgnored(w) == "range"

AfterSend(w) == IF client[w] = "gone" THEN "leave" ELSE "range"

\* stream.Send: it waits while the stream is full, and fails when the client is gone.
Send(w) ==
    /\ handler[w] = "send"
    /\ client[w] # "gone" => Len(wire[w]) < Window
    /\ wire' = [wire EXCEPT ![w] = IF client[w] = "gone" THEN @ ELSE @ \o sending[w]]
    /\ sending' = [sending EXCEPT ![w] = <<>>]
    /\ handler' = [handler EXCEPT ![w] = AfterSend(w)]
    /\ UNCHANGED brokerVars
    /\ UNCHANGED <<subscribers, closed, channel, client, received, since, dropped>>

\* Seeded bug: the channel is closed without the mutex.
UnsubscribeUnlocked(w) ==
    /\ handler[w] = "leave"
    /\ subscribers' = subscribers \ {w}
    /\ closed' = closed \cup {w}
    /\ handler' = [handler EXCEPT ![w] = "done"]
    /\ UNCHANGED brokerVars
    /\ UNCHANGED <<channel, sending, wire, client, received, since, dropped>>

Unsubscribe(w) ==
    /\ handler[w] = "leave" /\ owner = Free
    /\ subscribers' = subscribers \ {w}
    /\ closed' = closed \cup {w}
    /\ handler' = [handler EXCEPT ![w] = "done"]
    /\ UNCHANGED brokerVars
    /\ UNCHANGED <<channel, sending, wire, client, received, since, dropped>>

-----------------------------------------------------------------------------
(* gbctl job run --attach *)

\* stream.Recv and what is done with the chunk: a summary that ends a job, of
\* whichever job, ends the loop.
Recv(w) ==
    /\ client[w] = "reading" /\ wire[w] # <<>>
    /\ wire' = [wire EXCEPT ![w] = Tail(@)]
    /\ received' = [received EXCEPT ![w] = Append(@, Head(wire[w]).n)]
    /\ client' = [client EXCEPT ![w] = IF Head(wire[w]).kind = "final" THEN "stopped" ELSE "reading"]
    /\ UNCHANGED brokerVars
    /\ UNCHANGED <<subscribers, closed, channel, handler, sending, since, dropped>>

\* The user leaves, before or after "Backup finished", or the connection is lost.
Quit(w) ==
    /\ client[w] \in {"reading", "stopped"}
    /\ client' = [client EXCEPT ![w] = "gone"]
    /\ wire' = [wire EXCEPT ![w] = <<>>]
    /\ received' = [received EXCEPT ![w] = <<>>]
    /\ UNCHANGED brokerVars
    /\ UNCHANGED <<subscribers, closed, channel, handler, sending, since, dropped>>

\* The holder of the mutex, a WatchLogs handler and a client are one process each.
Broadcasting == Unlock \/ \E w \in Watchers : Offer(w) \/ TimesOut(w)

WatchLogs(w) ==
    \/ SayHello(w) \/ Subscribe(w) \/ Take(w) \/ Send(w) \/ Unsubscribe(w)

StreamNext == Broadcasting \/ \E w \in Watchers : Attach(w) \/ WatchLogs(w) \/ Recv(w) \/ Quit(w)

\* The mutex starves nobody (sync.Mutex), timers fire, handlers run, and a client
\* that reads goes on reading.  Nobody has to attach or to leave.
StreamFairness ==
    /\ WF_streamVars(Broadcasting)
    /\ \A w \in Watchers : SF_streamVars(WatchLogs(w)) /\ WF_streamVars(Recv(w))

-----------------------------------------------------------------------------
(* Properties *)

\* A channel is never closed while Broadcast may still send on it: the daemon would
\* panic (Broadcast ranges over the map that Unsubscribe deletes from).
NeverSendsOnClosed == todo \cap closed = {}

OnTheWay(w) ==
    received[w] \o [i \in DOMAIN wire[w] |-> wire[w][i].n]
    \o [i \in DOMAIN sending[w] |-> sending[w][i].n]
    \o [i \in DOMAIN channel[w] |-> channel[w][i].n]

\* A client receives what was broadcast since it was subscribed, in that order and
\* once; all that is missing was refused by its full channel.
StreamIsFaithful ==
    \A w \in subscribers : client[w] # "gone" =>
        LET all == OnTheWay(w)
            offered == IF w \in todo THEN clock - 1 ELSE clock
        IN  /\ \A i, j \in DOMAIN all : i < j => all[i] < all[j]
            /\ (ToSet(all) \ {0}) \cup dropped[w] = since[w] + 1 .. offered
            /\ ToSet(all) \cap dropped[w] = {}

\* What the two rest on: the handler's place tells whether its channel is in the map,
\* closed or not yet made, and a broadcast under way is the latest.
Subscriptions ==
    \A w \in Watchers :
        /\ w \in subscribers <=> handler[w] \in {"range", "send", "leave"}
        /\ w \in closed <=> handler[w] = "done"
        /\ client[w] = "away" => handler[w] = "idle"
        /\ handler[w] \in {"idle", "hello", "subscribe"} => channel[w] = <<>> /\ dropped[w] = {}
        /\ handler[w] \in {"idle", "hello"} => wire[w] = <<>> /\ received[w] = <<>>
        /\ handler[w] = "subscribe" => OnTheWay(w) \in {<<>>, <<0>>}
        /\ handler[w] # "send" => sending[w] = <<>>

LatestIsOffered ==
    /\ todo \subseteq subscribers
    /\ owner = Free => todo = {}
    /\ owner # Free => chunk.n = clock
    /\ \A w \in subscribers : since[w] <= clock /\ (w \in todo => since[w] < clock)

StreamInv == Subscriptions /\ LatestIsOffered /\ StreamIsFaithful

\* A handler whose client is gone finds out at the next chunk and leaves the map.
GoneAreDropped ==
    \A w \in Watchers :
        (client[w] = "gone" /\ w \in subscribers /\ channel[w] # <<>>) ~> (w \in closed)
===============================================================================
