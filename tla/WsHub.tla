-------------------------------- MODULE WsHub --------------------------------
(***************************************************************************)
(* The WebSocket hub (web/websocket/hub.go) and the goroutines around it   *)
(* (web/controller/websocket.go): one loop that admits, removes and serves *)
(* the clients, workers it starts for every broadcast and waits for, two   *)
(* pumps per connection, and Stop.  All of them meet on four bounded       *)
(* channels.                                                               *)
(*                                                                         *)
(* A message is its position in the order the loop takes messages in;      *)
(* those still in the channel broadcast are only counted.                  *)
(***************************************************************************)
EXTENDS Integers, Sequences, FiniteSets

CONSTANTS
    Clients,      \* connections, each a Client and its socket
    SendCap,      \* capacity of a client's Send channel (512 in the code)
    BroadcastCap, \* capacity of broadcast (2048)
    RegisterCap,  \* capacity of register (100)
    UnregisterCap,\* capacity of unregister (100)
    PoolSize,     \* workerPoolSize (between 10 and 100)
    MaxCasts      \* bound of the model: calls of Broadcast

ASSUME HubAssumption ==
    /\ SendCap \in Nat \ {0} /\ BroadcastCap \in Nat \ {0}
    /\ RegisterCap \in Nat \ {0} /\ UnregisterCap \in Nat \ {0}
    /\ PoolSize \in Nat \ {0} /\ MaxCasts \in Nat

VARIABLES
    \* the hub
    clients,      \* the map h.clients
    broadcast,    \* how many messages wait in the channel broadcast
    register,     \* the channel register
    unregister,   \* the channel unregister
    cancelled,    \* Stop was called: h.ctx is done
    loop,         \* Run: "select", "waiting" for its workers, or "returned"
    taken,        \* how many messages the loop has taken
    work,         \* deliveries of the current broadcast that are not finished
    stuck,        \* those of them whose worker is inside Unregister
    casts,        \* calls of Broadcast that found somebody connected, and of
                  \* these the ones that have not reached the channel yet
    \* a connection
    stage,        \* HandleWebSocket and then readPump
    writing,      \* writePump runs
    conn,         \* the socket: "up", "gone" (the peer went away), "closed" (by us)
    send,         \* the channel client.Send
    closed,       \* client.Send is closed
    \* history
    written,      \* the last message writePump has written to a client
    admitted,     \* clients that were in the map once
    overtaken,    \* clients whose unregistration was handled before they were in
    lagging       \* clients that missed a message

hub == <<clients, broadcast, register, unregister, cancelled, loop, taken, work, stuck, casts>>
peers == <<stage, writing, conn, send, closed>>
history == <<written, admitted, overtaken, lagging>>
vars == <<hub, peers, history>>

-----------------------------------------------------------------------------

Stages == {"idle", "registering", "reading", "leaving", "left"}

Delivery == [to : Clients, msg : Nat]

Init ==
    /\ clients = {}
    /\ broadcast = 0
    /\ register = <<>>
    /\ unregister = <<>>
    /\ cancelled = FALSE
    /\ loop = "select"
    /\ taken = 0
    /\ work = {}
    /\ stuck = {}
    /\ casts = [called |-> 0, pending |-> 0]
    /\ stage = [c \in Clients |-> "idle"]
    /\ writing = [c \in Clients |-> FALSE]
    /\ conn = [c \in Clients |-> "closed"]
    /\ send = [c \in Clients |-> <<>>]
    /\ closed = [c \in Clients |-> FALSE]
    /\ written = [c \in Clients |-> 0]
    /\ admitted = {}
    /\ overtaken = {}
    /\ lagging = {}

-----------------------------------------------------------------------------
(* Connections.                                                            *)

\* HandleWebSocket up to Register: the request is upgraded.
Connect(c) ==
    /\ stage[c] = "idle"
    /\ stage' = [stage EXCEPT ![c] = "registering"]
    /\ conn' = [conn EXCEPT ![c] = "up"]
    /\ UNCHANGED <<hub, writing, send, closed, history>>

\* Register: into the channel, or nowhere once the context is done.  Then the
\* pumps start in either case.
Register(c) ==
    /\ stage[c] = "registering"
    /\ \/ /\ Len(register) < RegisterCap
          /\ register' = Append(register, c)
       \/ /\ cancelled
          /\ UNCHANGED register
    /\ stage' = [stage EXCEPT ![c] = "reading"]
    /\ writing' = [writing EXCEPT ![c] = TRUE]
    /\ UNCHANGED <<clients, broadcast, unregister, cancelled, loop, taken, work, stuck, casts,
                   conn, send, closed, history>>

\* The browser closes the connection, or is not heard of any more.
PeerGone(c) ==
    /\ conn[c] = "up"
    /\ conn' = [conn EXCEPT ![c] = "gone"]
    /\ UNCHANGED <<hub, stage, writing, send, closed, history>>

\* readPump leaves its loop: a read fails, or no pong arrived within pongWait.
ReadError(c) ==
    /\ stage[c] = "reading"
    /\ conn[c] # "up"
    /\ stage' = [stage EXCEPT ![c] = "leaving"]
    /\ UNCHANGED <<hub, writing, conn, send, closed, history>>

\* Mutant: Unregister without the case of ctx.Done.
UnregisterBlocking(c) ==
    /\ Len(unregister) < UnregisterCap
    /\ unregister' = Append(unregister, c)

\* Unregister: into the channel, or nowhere once the context is done.
Unregister(c) ==
    \/ /\ Len(unregister) < UnregisterCap
       /\ unregister' = Append(unregister, c)
    \/ /\ cancelled
       /\ UNCHANGED unregister

\* Mutant: readPump closes the socket and tells the hub nothing.
LeaveSilently(c) ==
    /\ stage[c] = "leaving"
    /\ stage' = [stage EXCEPT ![c] = "left"]
    /\ conn' = [conn EXCEPT ![c] = "closed"]
    /\ UNCHANGED <<hub, writing, send, closed, history>>

\* readPump's deferred function.
Leave(c) ==
    /\ stage[c] = "leaving"
    /\ Unregister(c)
    /\ stage' = [stage EXCEPT ![c] = "left"]
    /\ conn' = [conn EXCEPT ![c] = "closed"]
    /\ UNCHANGED <<clients, broadcast, register, cancelled, loop, taken, work, stuck, casts,
                   writing, send, closed, history>>

\* writePump writes the next message.
Write(c) ==
    /\ writing[c]
    /\ send[c] # <<>>
    /\ conn[c] # "closed"
    /\ send' = [send EXCEPT ![c] = Tail(@)]
    /\ written' = [written EXCEPT ![c] = Head(send[c])]
    /\ UNCHANGED <<hub, stage, writing, conn, closed, admitted, overtaken, lagging>>

\* writePump ends: Send is closed and drained; a message could not be written
\* (a slow peer fails by writeWait); or a ping failed.
WriterEnds(c) ==
    /\ writing[c]
    /\ \/ closed[c] /\ send[c] = <<>>
       \/ send[c] # <<>>
       \/ conn[c] # "up"
    /\ writing' = [writing EXCEPT ![c] = FALSE]
    /\ conn' = [conn EXCEPT ![c] = "closed"]
    /\ send' = [send EXCEPT ![c] = IF @ = <<>> THEN @ ELSE Tail(@)]
    /\ UNCHANGED <<hub, stage, closed, history>>

-----------------------------------------------------------------------------
(* Broadcast, called by jobs and handlers.                                 *)

\* The test that skips everything when nobody is connected.
Broadcast ==
    /\ clients # {}
    /\ casts.called < MaxCasts
    /\ casts' = [called |-> casts.called + 1, pending |-> casts.pending + 1]
    /\ UNCHANGED <<clients, broadcast, register, unregister, cancelled, loop, taken, work,
                   stuck, peers, history>>

\* Into the channel; or dropped, after 100 ms without room or at shutdown.
CastEnds ==
    /\ casts.pending > 0
    /\ casts' = [casts EXCEPT !.pending = @ - 1]
    /\ \/ broadcast < BroadcastCap /\ broadcast' = broadcast + 1
       \/ (broadcast = BroadcastCap \/ cancelled) /\ UNCHANGED broadcast
    /\ UNCHANGED <<clients, register, unregister, cancelled, loop, taken, work, stuck,
                   peers, history>>

Stop ==
    /\ cancelled' = TRUE
    /\ UNCHANGED <<clients, broadcast, register, unregister, loop, taken, work, stuck, casts,
                   peers, history>>

-----------------------------------------------------------------------------
(* Run: the cases of its select.  The closeOnce of a client keeps a second *)
(* close from happening, so closing is setting a flag.                     *)

LoopStop ==
    /\ loop = "select"
    /\ cancelled
    /\ closed' = [c \in Clients |-> closed[c] \/ c \in clients]
    /\ clients' = {}
    /\ loop' = "returned"
    /\ UNCHANGED <<broadcast, register, unregister, cancelled, taken, work, stuck, casts,
                   stage, writing, conn, send, history>>

LoopRegister ==
    /\ loop = "select"
    /\ register # <<>>
    /\ register' = Tail(register)
    /\ clients' = clients \cup {Head(register)}
    /\ admitted' = admitted \cup {Head(register)}
    /\ UNCHANGED <<broadcast, unregister, cancelled, loop, taken, work, stuck, casts, peers,
                   written, overtaken, lagging>>

\* Mutant: the channel is closed whether or not the client is in the map.
LoopUnregisterAny ==
    /\ loop = "select"
    /\ unregister # <<>>
    /\ unregister' = Tail(unregister)
    /\ LET c == Head(unregister)
       IN  /\ clients' = clients \ {c}
           /\ closed' = [closed EXCEPT ![c] = TRUE]
           /\ overtaken' = IF c \in admitted THEN overtaken ELSE overtaken \cup {c}
    /\ UNCHANGED <<broadcast, register, cancelled, loop, taken, work, stuck, casts,
                   stage, writing, conn, send, written, admitted, lagging>>

LoopUnregister ==
    /\ loop = "select"
    /\ unregister # <<>>
    /\ unregister' = Tail(unregister)
    /\ LET c == Head(unregister)
       IN  /\ clients' = clients \ {c}
           /\ closed' = [closed EXCEPT ![c] = @ \/ c \in clients]
           /\ overtaken' = IF c \in admitted THEN overtaken ELSE overtaken \cup {c}
    /\ UNCHANGED <<broadcast, register, cancelled, loop, taken, work, stuck, casts,
                   stage, writing, conn, send, written, admitted, lagging>>

\* A message is taken and, if anybody is there, handed to workers.
LoopBroadcast ==
    /\ loop = "select"
    /\ broadcast > 0
    /\ broadcast' = broadcast - 1
    /\ taken' = taken + 1
    /\ work' = work \cup {[to |-> c, msg |-> taken + 1] : c \in clients}
    /\ loop' = IF clients = {} THEN "select" ELSE "waiting"
    /\ UNCHANGED <<clients, register, unregister, cancelled, stuck, casts, peers, history>>

\* Mutant: a client without room misses the message and stays.
DeliverOrDrop(d) ==
    /\ d \in work \ stuck
    /\ work' = work \ {d}
    /\ IF ~closed[d.to] /\ Len(send[d.to]) < SendCap
       THEN /\ send' = [send EXCEPT ![d.to] = Append(@, d.msg)]
            /\ UNCHANGED lagging
       ELSE /\ lagging' = lagging \cup {d.to}
            /\ UNCHANGED send
    /\ UNCHANGED <<clients, broadcast, register, unregister, cancelled, loop, taken, stuck,
                   casts, stage, writing, conn, closed, written, admitted, overtaken>>

\* Mutant: a worker that is done is still counted as waiting.
EvictHalf(d) ==
    /\ d \in stuck
    /\ Unregister(d.to)
    /\ work' = work \ {d}
    /\ UNCHANGED <<clients, broadcast, register, cancelled, loop, taken, stuck, casts, peers,
                   history>>

\* One delivery of broadcastParallel.  A goroutine per client when there are
\* fewer than PoolSize of them, PoolSize workers that share them otherwise:
\* either way no more than PoolSize are inside Unregister at a time.  A send on
\* a closed channel panics, which the worker survives; a client whose buffer is
\* full is to be disconnected.
Deliver(d) ==
    /\ d \in work \ stuck
    /\ Cardinality(stuck) < PoolSize
    /\ \/ /\ closed[d.to]
          /\ work' = work \ {d}
          /\ UNCHANGED <<send, stuck, lagging>>
       \/ /\ ~closed[d.to] /\ Len(send[d.to]) < SendCap
          /\ send' = [send EXCEPT ![d.to] = Append(@, d.msg)]
          /\ work' = work \ {d}
          /\ UNCHANGED <<stuck, lagging>>
       \/ /\ ~closed[d.to] /\ Len(send[d.to]) = SendCap
          /\ stuck' = stuck \cup {d}
          /\ lagging' = lagging \cup {d.to}
          /\ UNCHANGED <<send, work>>
    /\ UNCHANGED <<clients, broadcast, register, unregister, cancelled, loop, taken, casts,
                   stage, writing, conn, closed, written, admitted, overtaken>>

\* The worker's call of Unregister returns.
Evict(d) ==
    /\ d \in stuck
    /\ Unregister(d.to)
    /\ work' = work \ {d}
    /\ stuck' = stuck \ {d}
    /\ UNCHANGED <<clients, broadcast, register, cancelled, loop, taken, casts, peers, history>>

\* Mutant: the loop does not wait for its workers.
LoopResumeEarly ==
    /\ loop = "waiting"
    /\ loop' = "select"
    /\ UNCHANGED <<clients, broadcast, register, unregister, cancelled, taken, work, stuck,
                   casts, peers, history>>

\* wg.Wait returns.
LoopResume ==
    /\ loop = "waiting"
    /\ work = {}
    /\ loop' = "select"
    /\ UNCHANGED <<clients, broadcast, register, unregister, cancelled, taken, work, stuck,
                   casts, peers, history>>

-----------------------------------------------------------------------------

Loop == LoopStop \/ LoopRegister \/ LoopUnregister \/ LoopBroadcast \/ LoopResume

Worker == \E d \in work : Deliver(d) \/ Evict(d)

Reader(c) == Register(c) \/ ReadError(c) \/ Leave(c)

Next ==
    \/ \E c \in Clients : Connect(c) \/ PeerGone(c) \/ Reader(c) \/ Write(c) \/ WriterEnds(c)
    \/ Broadcast \/ CastEnds \/ Stop
    \/ Loop
    \/ Worker

Spec == Init /\ [][Next]_vars

\* Goroutines that can go on do.  Nothing makes anybody connect, go away, write,
\* broadcast or stop; and no case of a select is preferred.
Fairness ==
    /\ \A c \in Clients : WF_vars(Reader(c))
    /\ WF_vars(CastEnds)
    /\ WF_vars(Worker)
    /\ WF_vars(Loop)

FairSpec == Spec /\ Fairness

-----------------------------------------------------------------------------
(* Properties.                                                             *)

\* The types, with the capacities of the channels; and whoever is inside Unregister has
\* its delivery unfinished.  (NewHub, broadcastParallel.)
TypeOK ==
    /\ clients \subseteq Clients
    /\ broadcast \in 0 .. BroadcastCap
    /\ register \in Seq(Clients) /\ Len(register) <= RegisterCap
    /\ unregister \in Seq(Clients) /\ Len(unregister) <= UnregisterCap
    /\ cancelled \in BOOLEAN
    /\ loop \in {"select", "waiting", "returned"}
    /\ taken \in Nat
    /\ work \subseteq Delivery /\ stuck \subseteq work
    /\ casts \in [called : 0 .. MaxCasts, pending : 0 .. MaxCasts]
    /\ stage \in [Clients -> Stages]
    /\ writing \in [Clients -> BOOLEAN]
    /\ conn \in [Clients -> {"up", "gone", "closed"}]
    /\ send \in [Clients -> Seq(Nat)]
    /\ closed \in [Clients -> BOOLEAN]
    /\ written \in [Clients -> Nat]
    /\ admitted \subseteq Clients /\ overtaken \subseteq Clients /\ lagging \subseteq Clients

\* The map and the Send channels agree whatever the order in which connections
\* come, leave, lag behind and the hub is stopped: a client that was let in is in
\* the map exactly as long as its channel is open, and no channel is closed of a
\* client that was never in.  (h.clients, closeOnce and the three places of Run
\* that change them.)
OpenIffServed ==
    \A c \in Clients : /\ c \in admitted => (c \in clients <=> ~closed[c])
                       /\ closed[c] => c \in admitted

\* The workers never send on a closed channel: the panic they are prepared to
\* recover from cannot happen, since the loop that closes channels waits for
\* them.  (broadcastParallel and wg.Wait.)
NoSendOnClosed == \A d \in work : ~closed[d.to]

Increasing(s) == \A i \in 1 .. Len(s) - 1 : s[i] < s[i + 1]

\* A browser is shown messages in the order the hub took them, though a goroutine
\* of its own delivers each of them.  (broadcastParallel, writePump.)
InOrder == \A c \in Clients : Increasing(<<written[c]>> \o send[c])

\* The hub's loop waits for a worker that waits for room in unregister, which only
\* the loop could make.  Nothing but Stop ends this.
Wedged ==
    /\ stuck # {}
    /\ Len(unregister) = UnregisterCap
    /\ ~cancelled

\* A client that missed a message is cut off, so that its page notices and
\* reconnects; it does not go on with a gap for ever.  Unless the loop is
\* wedged.  (The default case of the workers' select.)
LaggardsCutOff == \A c \in Clients : c \in lagging ~> (closed[c] \/ Wedged)

\* A connection that has ended leaves the map for good, unless its unregistration
\* overtook its registration (then only a full buffer gets it out), or the loop is
\* wedged.  (readPump's Unregister.)
GoneForgotten ==
    \A c \in Clients :
        stage[c] = "left" ~> [](c \notin clients \/ c \in overtaken \/ Wedged)

\* Stop ends the loop even when it is wedged, and frees every goroutine that waits
\* for one of the hub's channels.  (The ctx.Done cases of the selects.)
ShutdownCompletes ==
    cancelled ~> /\ loop = "returned"
                 /\ work = {}
                 /\ casts.pending = 0
                 /\ \A c \in Clients : stage[c] \notin {"registering", "leaving"}
=============================================================================
