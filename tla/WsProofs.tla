------------------------------ MODULE WsProofs ------------------------------
(***************************************************************************)
(* Theorems about WsHub, for any number of connections, any capacities of  *)
(* the channels and any number of broadcasts.                              *)
(***************************************************************************)
EXTENDS WsHub, TLAPS

-----------------------------------------------------------------------------
(* Types.                                                                  *)

Typed ==
    /\ TypeOK
    /\ casts.pending <= casts.called

\* Sending on a bounded channel.
LEMMA Enqueued ==
  ASSUME NEW S, NEW q \in Seq(S), NEW c \in S, NEW cap \in Nat, Len(q) < cap
  PROVE  Append(q, c) \in Seq(S) /\ Len(Append(q, c)) <= cap
  OBVIOUS

LEMMA UnregisterTypes ==
  ASSUME Typed, NEW c \in Clients, Unregister(c)
  PROVE  unregister' \in Seq(Clients) /\ Len(unregister') <= UnregisterCap
  <1>1. unregister \in Seq(Clients) /\ Len(unregister) <= UnregisterCap /\ UnregisterCap \in Nat
    BY HubAssumption DEF Typed, TypeOK
  <1>. QED
    BY <1>1, Enqueued DEF Unregister

LEMMA PeerTypes ==
  ASSUME Typed, NEW c \in Clients,
         Connect(c) \/ PeerGone(c) \/ Register(c) \/ ReadError(c) \/ Leave(c)
           \/ Write(c) \/ WriterEnds(c)
  PROVE  Typed'
  <1>. USE DEF Typed, TypeOK, Stages, hub, peers, history
  <1>1. CASE Connect(c)
    BY <1>1 DEF Connect
  <1>2. CASE PeerGone(c)
    BY <1>2 DEF PeerGone
  <1>3. CASE Register(c)
    <2>1. register \in Seq(Clients) /\ Len(register) <= RegisterCap /\ RegisterCap \in Nat
      BY HubAssumption
    <2>2. register' \in Seq(Clients) /\ Len(register') <= RegisterCap
      <3>. HIDE DEF Typed, TypeOK
      <3>. QED
        BY <1>3, <2>1, Enqueued DEF Register
    <2>. QED
      BY <1>3, <2>2 DEF Register
  <1>4. CASE ReadError(c)
    BY <1>4 DEF ReadError
  <1>5. CASE Leave(c)
    <2>1. unregister' \in Seq(Clients) /\ Len(unregister') <= UnregisterCap
      BY <1>5, UnregisterTypes DEF Leave
    <2>. QED
      BY <1>5, <2>1 DEF Leave
  <1>6. CASE Write(c)
    <2>1. Head(send[c]) \in Nat /\ Tail(send[c]) \in Seq(Nat)
      BY <1>6 DEF Write
    <2>. QED
      BY <1>6, <2>1 DEF Write
  <1>7. CASE WriterEnds(c)
    <2>1. (IF send[c] = <<>> THEN send[c] ELSE Tail(send[c])) \in Seq(Nat)
      OBVIOUS
    <2>. QED
      BY <1>7, <2>1 DEF WriterEnds
  <1>. QED
    BY <1>1, <1>2, <1>3, <1>4, <1>5, <1>6, <1>7

LEMMA CastTypes ==
  ASSUME Typed, Broadcast \/ CastEnds \/ Stop
  PROVE  Typed'
  <1>. USE DEF Typed, TypeOK, hub, peers, history
  <1>0. /\ MaxCasts \in Nat /\ BroadcastCap \in Nat
        /\ casts = [called |-> casts.called, pending |-> casts.pending]
        /\ casts.called \in 0 .. MaxCasts /\ casts.pending \in 0 .. MaxCasts
    BY HubAssumption
  <1>1. CASE Broadcast
    <2>1. /\ casts' = [called |-> casts.called + 1, pending |-> casts.pending + 1]
          /\ casts.called < MaxCasts
      BY <1>0, <1>1 DEF Broadcast
    <2>2. casts' \in [called : 0 .. MaxCasts, pending : 0 .. MaxCasts]
          /\ casts'.pending <= casts'.called
      BY <1>0, <2>1
    <2>. QED
      BY <1>1, <2>2 DEF Broadcast
  <1>2. CASE CastEnds
    <2>1. /\ casts' = [called |-> casts.called, pending |-> casts.pending - 1]
          /\ casts.pending > 0
      BY <1>0, <1>2 DEF CastEnds
    <2>2. casts' \in [called : 0 .. MaxCasts, pending : 0 .. MaxCasts]
          /\ casts'.pending <= casts'.called
      BY <1>0, <2>1
    <2>3. broadcast' \in 0 .. BroadcastCap
      BY <1>0, <1>2 DEF CastEnds
    <2>. QED
      BY <1>2, <2>2, <2>3 DEF CastEnds
  <1>3. CASE Stop
    BY <1>3 DEF Stop
  <1>. QED
    BY <1>1, <1>2, <1>3

LEMMA LoopTypes ==
  ASSUME Typed, Loop
  PROVE  Typed'
  <1>. USE DEF Typed, TypeOK, hub, peers, history
  <1>1. CASE LoopStop
    BY <1>1 DEF LoopStop
  <1>2. CASE LoopRegister
    <2>1. /\ Head(register) \in Clients
          /\ Tail(register) \in Seq(Clients) /\ Len(Tail(register)) <= RegisterCap
      BY <1>2, HubAssumption DEF LoopRegister
    <2>. QED
      BY <1>2, <2>1 DEF LoopRegister
  <1>3. CASE LoopUnregister
    <2>1. /\ Head(unregister) \in Clients
          /\ Tail(unregister) \in Seq(Clients) /\ Len(Tail(unregister)) <= UnregisterCap
      BY <1>3, HubAssumption DEF LoopUnregister
    <2>. QED
      BY <1>3, <2>1 DEF LoopUnregister
  <1>4. CASE LoopBroadcast
    <2>1. {[to |-> c, msg |-> taken + 1] : c \in clients} \subseteq Delivery
      BY DEF Delivery
    <2>2. broadcast' \in 0 .. BroadcastCap
      BY <1>4, HubAssumption DEF LoopBroadcast
    <2>. QED
      BY <1>4, <2>1, <2>2 DEF LoopBroadcast
  <1>5. CASE LoopResume
    BY <1>5 DEF LoopResume
  <1>. QED
    BY <1>1, <1>2, <1>3, <1>4, <1>5 DEF Loop

LEMMA WorkerTypes ==
  ASSUME Typed, Worker
  PROVE  Typed'
  <1>. USE DEF Typed, TypeOK, hub, peers, history
  <1>1. PICK d \in work : Deliver(d) \/ Evict(d)
    BY DEF Worker
  <1>2. d.to \in Clients /\ d.msg \in Nat
    BY <1>1 DEF Delivery
  <1>3. CASE Deliver(d)
    <2>1. Append(send[d.to], d.msg) \in Seq(Nat)
      BY <1>2
    <2>2. send' \in [Clients -> Seq(Nat)]
      BY <1>3, <2>1 DEF Deliver
    <2>3. work' \subseteq Delivery /\ stuck' \subseteq work' /\ lagging' \subseteq Clients
      BY <1>2, <1>3 DEF Deliver
    <2>. QED
      BY <1>3, <2>2, <2>3 DEF Deliver
  <1>4. CASE Evict(d)
    <2>1. unregister' \in Seq(Clients) /\ Len(unregister') <= UnregisterCap
      BY <1>2, <1>4, UnregisterTypes DEF Evict
    <2>. QED
      BY <1>4, <2>1 DEF Evict
  <1>. QED
    BY <1>1, <1>3, <1>4

LEMMA TypeInduction ==
  /\ Init => Typed
  /\ Typed /\ [Next]_vars => Typed'
  <1>1. Init => Typed
    <2>1. /\ RegisterCap \in Nat /\ UnregisterCap \in Nat
          /\ 0 \in 0 .. BroadcastCap /\ 0 \in 0 .. MaxCasts
      BY HubAssumption
    <2>2. <<>> \in Seq(Clients) /\ <<>> \in Seq(Nat) /\ Len(<<>>) = 0
      OBVIOUS
    <2>3. Len(<<>>) <= RegisterCap /\ Len(<<>>) <= UnregisterCap
      BY <2>1, <2>2
    <2>4. ASSUME Init PROVE Typed
      <3>1. /\ casts \in [called : 0 .. MaxCasts, pending : 0 .. MaxCasts]
            /\ casts.pending <= casts.called
        BY <2>1, <2>4 DEF Init
      <3>2. /\ stage \in [Clients -> Stages]
            /\ writing \in [Clients -> BOOLEAN]
            /\ conn \in [Clients -> {"up", "gone", "closed"}]
            /\ send \in [Clients -> Seq(Nat)]
            /\ closed \in [Clients -> BOOLEAN]
            /\ written \in [Clients -> Nat]
        BY <2>2, <2>4 DEF Init, Stages
      <3>3. /\ register \in Seq(Clients) /\ Len(register) <= RegisterCap
            /\ unregister \in Seq(Clients) /\ Len(unregister) <= UnregisterCap
        BY <2>2, <2>3, <2>4 DEF Init
      <3>. QED
        BY <2>1, <2>4, <3>1, <3>2, <3>3 DEF Init, Typed, TypeOK
    <2>. QED
      BY <2>4
  <1>2. ASSUME Typed, [Next]_vars PROVE Typed'
    <2>1. CASE UNCHANGED vars
      BY <1>2, <2>1 DEF vars, hub, peers, history, Typed, TypeOK
    <2>2. CASE Next
      BY <1>2, <2>2, PeerTypes, CastTypes, LoopTypes, WorkerTypes DEF Next, Reader
    <2>. QED
      BY <1>2, <2>1, <2>2
  <1>. QED
    BY <1>1, <1>2

\* Every variable of the hub has its type.
THEOREM TypeCorrect == Spec => []TypeOK
  <1>1. Typed => TypeOK
    BY DEF Typed
  <1>. QED
    BY <1>1, TypeInduction, PTL DEF Spec

-----------------------------------------------------------------------------
(* The map and the channels.  A client waits in register at most once and  *)
(* before it was ever in the map, and work is left only while the loop     *)
(* waits for it: so a client cannot come back after its channel is closed, *)
(* and no channel is closed that a worker may still send on.               *)

Fresh == {"idle", "registering"}

EntersOnce ==
    /\ \A i \in 1 .. Len(register) :
          register[i] \notin admitted /\ stage[register[i]] \notin Fresh
    /\ \A i, j \in 1 .. Len(register) : register[i] = register[j] => i = j
    /\ \A c \in admitted : stage[c] \notin Fresh
    /\ clients \subseteq admitted

WorkAwaited ==
    /\ loop # "waiting" => work = {}
    /\ \A d \in work : d.to \in clients

ServeInv == Typed /\ EntersOnce /\ WorkAwaited /\ OpenIffServed

LEMMA Arrives ==
  ASSUME NEW S, NEW q \in Seq(S), NEW c \in S
  PROVE  /\ Len(Append(q, c)) = Len(q) + 1
         /\ Append(q, c)[Len(q) + 1] = c
         /\ \A i \in 1 .. Len(q) : Append(q, c)[i] = q[i]
  OBVIOUS

LEMMA Leaves ==
  ASSUME NEW S, NEW q \in Seq(S), q # <<>>
  PROVE  /\ Len(q) \in Nat /\ Len(q) >= 1 /\ Len(Tail(q)) = Len(q) - 1
         /\ Head(q) = q[1] /\ Head(q) \in S
         /\ \A i \in 1 .. Len(q) - 1 : Tail(q)[i] = q[i + 1]
  OBVIOUS

LEMMA RegisterEntersOnce ==
  ASSUME ServeInv, Typed', NEW c \in Clients, Register(c)
  PROVE  EntersOnce'
  <1>1. /\ stage \in [Clients -> Stages] /\ stage[c] = "registering"
        /\ stage' = [stage EXCEPT ![c] = "reading"]
        /\ UNCHANGED <<admitted, clients>> /\ admitted \subseteq Clients
    BY DEF Register, history, ServeInv, Typed, TypeOK
  <1>2. /\ stage'[c] \notin Fresh /\ c \notin admitted
        /\ \A x \in Clients : stage[x] \notin Fresh => stage'[x] \notin Fresh
    BY <1>1 DEF ServeInv, EntersOnce, Fresh
  <1>3. register \in Seq(Clients) /\ Len(register) \in Nat
    BY DEF ServeInv, Typed, TypeOK
  <1>4. \A i \in 1 .. Len(register) : register[i] \in Clients /\ register[i] # c
    BY <1>1, <1>3 DEF ServeInv, EntersOnce, Fresh
  <1>5. CASE UNCHANGED register
    BY <1>1, <1>2, <1>4, <1>5 DEF ServeInv, EntersOnce
  <1>6. CASE register' = Append(register, c)
    <2>1. /\ Len(register') = Len(register) + 1 /\ register'[Len(register) + 1] = c
          /\ \A i \in 1 .. Len(register) : register'[i] = register[i]
      BY <1>3, <1>6, Arrives
    <2>2. \A i \in 1 .. Len(register') : i = Len(register) + 1 \/ i \in 1 .. Len(register)
      BY <1>3, <2>1
    <2>3. \A i \in 1 .. Len(register') :
             register'[i] \notin admitted' /\ stage'[register'[i]] \notin Fresh
      BY <1>1, <1>2, <1>4, <2>1, <2>2 DEF ServeInv, EntersOnce
    <2>4. \A i, j \in 1 .. Len(register') : register'[i] = register'[j] => i = j
      BY <1>4, <2>1, <2>2 DEF ServeInv, EntersOnce
    <2>5. (\A x \in admitted' : stage'[x] \notin Fresh) /\ clients' \subseteq admitted'
      BY <1>1, <1>2 DEF ServeInv, EntersOnce
    <2>. QED
      BY <2>3, <2>4, <2>5 DEF EntersOnce
  <1>. QED
    BY <1>5, <1>6 DEF Register

LEMMA PeersServe ==
  ASSUME ServeInv, Typed', NEW c \in Clients,
         Connect(c) \/ PeerGone(c) \/ Register(c) \/ ReadError(c) \/ Leave(c)
           \/ Write(c) \/ WriterEnds(c)
  PROVE  ServeInv'
  <1>1. UNCHANGED <<clients, loop, work, closed, admitted>>
    BY DEF Connect, PeerGone, Register, ReadError, Leave, Write, WriterEnds, hub, peers, history
  <1>2. WorkAwaited' /\ OpenIffServed'
    BY <1>1 DEF ServeInv, WorkAwaited, OpenIffServed
  <1>3. EntersOnce'
    <2>1. CASE Register(c)
      BY <2>1, RegisterEntersOnce
    <2>2. CASE Connect(c) \/ PeerGone(c) \/ ReadError(c) \/ Leave(c) \/ Write(c) \/ WriterEnds(c)
      <3>1. UNCHANGED register
        BY <2>2 DEF Connect, PeerGone, ReadError, Leave, Write, WriterEnds, hub
      <3>2. /\ stage \in [Clients -> Stages]
            /\ \/ stage' = stage
               \/ stage' = [stage EXCEPT ![c] = "leaving"]
               \/ stage' = [stage EXCEPT ![c] = "left"]
               \/ stage[c] = "idle" /\ stage' = [stage EXCEPT ![c] = "registering"]
        BY <2>2 DEF Connect, PeerGone, ReadError, Leave, Write, WriterEnds, peers,
                    ServeInv, Typed, TypeOK
      <3>3. \A x \in Clients : stage[x] \notin Fresh => stage'[x] \notin Fresh
        BY <3>2 DEF Fresh
      <3>4. (\A i \in 1 .. Len(register) : register[i] \in Clients) /\ admitted \subseteq Clients
        BY DEF ServeInv, Typed, TypeOK
      <3>. QED
        BY <1>1, <3>1, <3>3, <3>4 DEF ServeInv, EntersOnce
    <2>. QED
      BY <2>1, <2>2
  <1>. QED
    BY <1>2, <1>3 DEF ServeInv

LEMMA LoopServes ==
  ASSUME ServeInv, Typed', Loop
  PROVE  ServeInv'
  <1>1. CASE LoopStop
    <2>1. /\ work = {} /\ UNCHANGED <<work, register, stage, admitted>>
          /\ clients' = {} /\ closed' = [c \in Clients |-> closed[c] \/ c \in clients]
      BY <1>1 DEF LoopStop, ServeInv, WorkAwaited, history
    <2>2. EntersOnce' /\ WorkAwaited'
      BY <2>1 DEF ServeInv, EntersOnce, WorkAwaited
    <2>3. OpenIffServed'
      BY <2>1 DEF ServeInv, OpenIffServed, EntersOnce
    <2>. QED
      BY <2>2, <2>3 DEF ServeInv
  <1>2. CASE LoopRegister
    <2>. DEFINE c == Head(register)
    <2>1. /\ loop = "select" /\ work = {} /\ register # <<>> /\ register' = Tail(register)
          /\ clients' = clients \cup {c} /\ admitted' = admitted \cup {c}
          /\ UNCHANGED <<loop, work, stage, closed>>
      BY <1>2 DEF LoopRegister, ServeInv, WorkAwaited, peers
    <2>2. register \in Seq(Clients)
      BY DEF ServeInv, Typed, TypeOK
    <2>3. /\ Len(register) \in Nat /\ Len(register) >= 1 /\ Len(register') = Len(register) - 1
          /\ c = register[1] /\ c \in Clients
          /\ \A i \in 1 .. Len(register) - 1 : register'[i] = register[i + 1]
      BY <2>1, <2>2, Leaves
    <2>. HIDE DEF c
    <2>4. c \notin admitted /\ stage[c] \notin Fresh
      BY <2>3 DEF ServeInv, EntersOnce
    <2>5. ~closed[c]
      BY <2>3, <2>4 DEF ServeInv, OpenIffServed
    <2>6. \A i \in 1 .. Len(register') : i + 1 \in 1 .. Len(register) /\ i + 1 # 1
                                        /\ register'[i] = register[i + 1]
      BY <2>3
    <2>7. EntersOnce'
      <3>1. \A i \in 1 .. Len(register') : register'[i] \notin admitted' /\ stage'[register'[i]] \notin Fresh
        BY <2>1, <2>3, <2>6 DEF ServeInv, EntersOnce
      <3>2. \A i, j \in 1 .. Len(register') : register'[i] = register'[j] => i = j
        <4>. SUFFICES ASSUME NEW i \in 1 .. Len(register'), NEW j \in 1 .. Len(register'),
                             register'[i] = register'[j]
                      PROVE  i = j
          OBVIOUS
        <4>1. i + 1 = j + 1
          BY <2>6 DEF ServeInv, EntersOnce
        <4>. QED
          BY <4>1, <2>3
      <3>3. (\A x \in admitted' : stage'[x] \notin Fresh) /\ clients' \subseteq admitted'
        BY <2>1, <2>4 DEF ServeInv, EntersOnce
      <3>. QED
        BY <3>1, <3>2, <3>3 DEF EntersOnce
    <2>8. WorkAwaited'
      BY <2>1 DEF WorkAwaited
    <2>9. OpenIffServed'
      BY <2>1, <2>5 DEF ServeInv, OpenIffServed
    <2>. QED
      BY <2>7, <2>8, <2>9 DEF ServeInv
  <1>3. CASE LoopUnregister
    <2>. DEFINE c == Head(unregister)
    <2>1. /\ loop = "select" /\ work = {}
          /\ clients' = clients \ {c} /\ closed' = [closed EXCEPT ![c] = @ \/ c \in clients]
          /\ UNCHANGED <<loop, work, stage, register, admitted>>
      BY <1>3 DEF LoopUnregister, ServeInv, WorkAwaited
    <2>2. c \in Clients /\ closed \in [Clients -> BOOLEAN]
      BY <1>3 DEF LoopUnregister, ServeInv, Typed, TypeOK
    <2>. HIDE DEF c
    <2>3. EntersOnce' /\ WorkAwaited'
      BY <2>1 DEF ServeInv, EntersOnce, WorkAwaited
    <2>4. \A x \in Clients : closed'[x] <=> closed[x] \/ (x = c /\ x \in clients)
      BY <2>1, <2>2, Zenon
    <2>5. OpenIffServed'
      BY <2>1, <2>4 DEF ServeInv, OpenIffServed, EntersOnce
    <2>. QED
      BY <2>3, <2>5 DEF ServeInv
  <1>4. CASE LoopBroadcast
    <2>1. /\ loop = "select" /\ work = {}
          /\ work' = {[to |-> c, msg |-> taken + 1] : c \in clients}
          /\ loop' = IF clients = {} THEN "select" ELSE "waiting"
          /\ UNCHANGED <<clients, register, stage, closed, admitted>>
      BY <1>4 DEF LoopBroadcast, ServeInv, WorkAwaited, peers, history
    <2>2. WorkAwaited'
      BY <2>1 DEF WorkAwaited
    <2>. QED
      BY <2>1, <2>2 DEF ServeInv, EntersOnce, OpenIffServed
  <1>5. CASE LoopResume
    BY <1>5 DEF LoopResume, ServeInv, EntersOnce, WorkAwaited, OpenIffServed, peers, history
  <1>. QED
    BY <1>1, <1>2, <1>3, <1>4, <1>5 DEF Loop

LEMMA WorkersServe ==
  ASSUME ServeInv, Typed', Worker
  PROVE  ServeInv'
  <1>1. /\ work' \subseteq work
        /\ UNCHANGED <<clients, register, loop, stage, closed, admitted>>
    BY DEF Worker, Deliver, Evict, peers, history
  <1>. QED
    BY <1>1 DEF ServeInv, EntersOnce, WorkAwaited, OpenIffServed

LEMMA ServeInduction ==
  /\ Init => ServeInv
  /\ ServeInv /\ [Next]_vars => ServeInv'
  <1>1. ASSUME Init PROVE ServeInv
    <2>1. Len(register) = 0 /\ Typed
      BY <1>1, TypeInduction DEF Init
    <2>2. EntersOnce /\ WorkAwaited
      BY <1>1, <2>1 DEF Init, EntersOnce, WorkAwaited
    <2>. QED
      BY <1>1, <2>1, <2>2 DEF Init, ServeInv, OpenIffServed
  <1>2. ASSUME ServeInv, [Next]_vars PROVE ServeInv'
    <2>0. Typed'
      BY <1>2, TypeInduction DEF ServeInv
    <2>1. CASE UNCHANGED vars
      BY <1>2, <2>0, <2>1 DEF vars, hub, peers, history, ServeInv, EntersOnce, WorkAwaited, OpenIffServed
    <2>2. CASE Broadcast \/ CastEnds \/ Stop
      BY <1>2, <2>0, <2>2 DEF Broadcast, CastEnds, Stop, peers, history,
                              ServeInv, EntersOnce, WorkAwaited, OpenIffServed
    <2>. QED
      BY <1>2, <2>0, <2>1, <2>2, PeersServe, LoopServes, WorkersServe DEF Next, Reader
  <1>. QED
    BY <1>1, <1>2

\* The map and the channels agree: see OpenIffServed.
THEOREM MapAgrees == Spec => []OpenIffServed
  <1>1. ServeInv => OpenIffServed
    BY DEF ServeInv
  <1>. QED
    BY <1>1, ServeInduction, PTL DEF Spec

\* No worker sends on a closed channel: see NoSendOnClosed.
THEOREM NeverSentOnClosed == Spec => []NoSendOnClosed
  <1>1. ServeInv => NoSendOnClosed
    BY DEF ServeInv, WorkAwaited, OpenIffServed, EntersOnce, NoSendOnClosed, Typed, TypeOK
  <1>. QED
    BY <1>1, ServeInduction, PTL DEF Spec

-----------------------------------------------------------------------------
(* The order of messages.  What is written and what waits in Send was taken *)
(* by the loop, in this order; while a delivery is not done, the client has *)
(* nothing of the message yet.                                              *)

\* The messages of s come in order, after message a, and up to message b.
Between(s, a, b) ==
    /\ \A i \in 1 .. Len(s) : a < s[i] /\ s[i] <= b
    /\ \A i, j \in 1 .. Len(s) : i < j => s[i] < s[j]

OrderInv ==
    /\ Typed
    /\ loop # "waiting" => work = {}
    /\ \A d \in work : d.msg = taken
    /\ \A c \in Clients : written[c] <= taken /\ Between(send[c], written[c], taken)
    /\ \A d \in work : written[d.to] <= taken - 1 /\ Between(send[d.to], written[d.to], taken - 1)

LEMMA BetweenAppend ==
  ASSUME NEW s \in Seq(Nat), NEW a \in Nat, NEW b \in Nat, a <= b - 1, Between(s, a, b - 1)
  PROVE  Between(Append(s, b), a, b)
  <1>1. /\ Len(s) \in Nat /\ Len(Append(s, b)) = Len(s) + 1
        /\ Append(s, b)[Len(s) + 1] = b
        /\ \A i \in 1 .. Len(s) : Append(s, b)[i] = s[i] /\ s[i] \in Nat
    OBVIOUS
  <1>2. \A i \in 1 .. Len(s) + 1 : i = Len(s) + 1 \/ i \in 1 .. Len(s)
    BY <1>1
  <1>3. \A i \in 1 .. Len(s) : a < s[i] /\ s[i] <= b - 1
    BY DEF Between
  <1>4. \A i \in 1 .. Len(s) + 1 : a < Append(s, b)[i] /\ Append(s, b)[i] <= b
    BY <1>1, <1>2, <1>3
  <1>5. ASSUME NEW i \in 1 .. Len(s) + 1, NEW j \in 1 .. Len(s) + 1, i < j
        PROVE  Append(s, b)[i] < Append(s, b)[j]
    <2>1. i \in 1 .. Len(s)
      BY <1>1, <1>5
    <2>2. CASE j \in 1 .. Len(s)
      BY <1>1, <1>5, <2>1, <2>2 DEF Between
    <2>3. CASE j = Len(s) + 1
      BY <1>1, <1>3, <2>1, <2>3
    <2>. QED
      BY <1>2, <2>2, <2>3
  <1>. QED
    BY <1>1, <1>4, <1>5 DEF Between

LEMMA BetweenTail ==
  ASSUME NEW s \in Seq(Nat), s # <<>>, NEW a \in Nat, NEW b \in Int, Between(s, a, b)
  PROVE  /\ Head(s) \in Nat /\ Head(s) <= b
         /\ Between(Tail(s), Head(s), b) /\ Between(Tail(s), a, b)
  <1>1. /\ Len(s) \in Nat /\ Len(s) >= 1 /\ Len(Tail(s)) = Len(s) - 1
        /\ Head(s) = s[1] /\ Head(s) \in Nat
        /\ \A i \in 1 .. Len(s) - 1 : Tail(s)[i] = s[i + 1]
    BY Leaves
  <1>2. \A i \in 1 .. Len(s) - 1 : i + 1 \in 1 .. Len(s) /\ 1 < i + 1
    BY <1>1
  <1>3. 1 \in 1 .. Len(s)
    BY <1>1
  <1>4. \A i \in 1 .. Len(s) - 1 : s[1] < s[i + 1] /\ a < s[i + 1] /\ s[i + 1] <= b
    BY <1>2, <1>3 DEF Between
  <1>5. \A i, j \in 1 .. Len(s) - 1 : i < j => s[i + 1] < s[j + 1]
    BY <1>1, <1>2 DEF Between
  <1>. QED
    BY <1>1, <1>3, <1>4, <1>5 DEF Between

LEMMA PeersInOrder ==
  ASSUME OrderInv, Typed', NEW c \in Clients,
         Connect(c) \/ PeerGone(c) \/ Register(c) \/ ReadError(c) \/ Leave(c)
           \/ Write(c) \/ WriterEnds(c)
  PROVE  OrderInv'
  <1>1. UNCHANGED <<loop, work, taken>>
    BY DEF Connect, PeerGone, Register, ReadError, Leave, Write, WriterEnds, hub
  <1>2. CASE UNCHANGED <<send, written>>
    BY <1>1, <1>2 DEF OrderInv
  <1>3. CASE send[c] # <<>> /\ send' = [send EXCEPT ![c] = Tail(@)]
             /\ (written' = [written EXCEPT ![c] = Head(send[c])] \/ written' = written)
    <2>1. /\ send \in [Clients -> Seq(Nat)] /\ written \in [Clients -> Nat] /\ taken \in Nat
          /\ work \subseteq Delivery
      BY DEF OrderInv, Typed, TypeOK
    <2>2. ASSUME NEW b \in Int, written[c] <= b, Between(send[c], written[c], b)
          PROVE  written'[c] <= b /\ Between(send'[c], written'[c], b)
      BY <1>3, <2>1, <2>2, BetweenTail
    <2>3. \A x \in Clients \ {c} : send'[x] = send[x] /\ written'[x] = written[x]
      BY <1>3, <2>1
    <2>4. \A x \in Clients : written'[x] <= taken /\ Between(send'[x], written'[x], taken)
      BY <2>1, <2>2, <2>3 DEF OrderInv
    <2>5. \A d \in work : written'[d.to] <= taken - 1 /\ Between(send'[d.to], written'[d.to], taken - 1)
      <3>. SUFFICES ASSUME NEW d \in work
                    PROVE  written'[d.to] <= taken - 1 /\ Between(send'[d.to], written'[d.to], taken - 1)
        OBVIOUS
      <3>1. d.to \in Clients /\ taken - 1 \in Int
        BY <2>1 DEF Delivery
      <3>2. written[d.to] <= taken - 1 /\ Between(send[d.to], written[d.to], taken - 1)
        BY DEF OrderInv
      <3>. QED
        BY <2>2, <2>3, <3>1, <3>2
    <2>. QED
      BY <1>1, <2>4, <2>5 DEF OrderInv
  <1>4. \/ UNCHANGED <<send, written>>
        \/ send[c] # <<>> /\ send' = [send EXCEPT ![c] = Tail(@)]
             /\ (written' = [written EXCEPT ![c] = Head(send[c])] \/ written' = written)
    <2>1. CASE Connect(c) \/ PeerGone(c) \/ Register(c) \/ ReadError(c) \/ Leave(c)
      BY <2>1 DEF Connect, PeerGone, Register, ReadError, Leave, history
    <2>2. CASE Write(c)
      BY <2>2 DEF Write
    <2>3. CASE WriterEnds(c)
      <3>1. /\ written' = written /\ send \in [Clients -> Seq(Nat)]
            /\ send' = [send EXCEPT ![c] = IF @ = <<>> THEN @ ELSE Tail(@)]
        BY <2>3 DEF WriterEnds, history, OrderInv, Typed, TypeOK
      <3>2. CASE send[c] = <<>>
        BY <3>1, <3>2
      <3>3. CASE send[c] # <<>>
        BY <3>1, <3>3
      <3>. QED
        BY <3>2, <3>3
    <2>. QED
      BY <2>1, <2>2, <2>3
  <1>. QED
    BY <1>2, <1>3, <1>4

LEMMA LoopInOrder ==
  ASSUME OrderInv, Typed', Loop
  PROVE  OrderInv'
  <1>1. CASE LoopStop \/ LoopRegister \/ LoopUnregister \/ LoopResume
    <2>1. loop' # "waiting" /\ work = {} /\ UNCHANGED <<work, taken, send, written>>
      BY <1>1 DEF LoopStop, LoopRegister, LoopUnregister, LoopResume, OrderInv, peers, history
    <2>. QED
      BY <2>1 DEF OrderInv
  <1>2. CASE LoopBroadcast
    <2>1. /\ work = {} /\ UNCHANGED <<send, written>> /\ taken' = taken + 1 /\ taken \in Nat
          /\ work' = {[to |-> c, msg |-> taken + 1] : c \in clients}
          /\ clients = {} => work' = {}
          /\ clients # {} => loop' = "waiting"
          /\ clients \subseteq Clients
          /\ send \in [Clients -> Seq(Nat)] /\ written \in [Clients -> Nat]
      BY <1>2 DEF LoopBroadcast, OrderInv, peers, history, Typed, TypeOK
    <2>2. \A c \in Clients : written[c] <= taken' - 1 /\ Between(send[c], written[c], taken' - 1)
      <3>1. taken' - 1 = taken
        BY <2>1
      <3>. QED
        BY <3>1 DEF OrderInv
    <2>3. \A c \in Clients : written[c] <= taken' /\ Between(send[c], written[c], taken')
      BY <2>1, <2>2 DEF Between
    <2>4. \A d \in work' : d.to \in Clients /\ d.msg = taken'
      BY <2>1
    <2>. QED
      BY <2>1, <2>2, <2>3, <2>4 DEF OrderInv
  <1>. QED
    BY <1>1, <1>2 DEF Loop

LEMMA WorkersInOrder ==
  ASSUME OrderInv, Typed', Worker
  PROVE  OrderInv'
  <1>1. PICK d \in work : Deliver(d) \/ Evict(d)
    BY DEF Worker
  <1>2. /\ work' \subseteq work /\ UNCHANGED <<loop, taken, written>>
        /\ send \in [Clients -> Seq(Nat)] /\ written \in [Clients -> Nat] /\ taken \in Nat
        /\ d.to \in Clients /\ d.msg = taken
    BY <1>1 DEF Deliver, Evict, peers, history, OrderInv, Typed, TypeOK, Delivery
  <1>3. CASE UNCHANGED send
    BY <1>2, <1>3 DEF OrderInv
  <1>4. CASE work' = work \ {d} /\ send' = [send EXCEPT ![d.to] = Append(@, d.msg)]
    <2>1. Between(send'[d.to], written[d.to], taken)
      BY <1>2, <1>4, BetweenAppend DEF OrderInv
    <2>2. \A c \in Clients \ {d.to} : send'[c] = send[c]
      BY <1>2, <1>4
    <2>3. \A e \in work' : e.to \in Clients \ {d.to}
      <3>1. \A e \in work : /\ e.to \in Clients /\ e = [to |-> e.to, msg |-> e.msg]
                            /\ e.msg = taken
        BY DEF OrderInv, Typed, TypeOK, Delivery
      <3>2. \A e \in work : e.to = d.to => e = d
        BY <3>1
      <3>. QED
        BY <1>4, <3>1, <3>2
    <2>. QED
      BY <1>2, <2>1, <2>2, <2>3 DEF OrderInv
  <1>. QED
    BY <1>1, <1>3, <1>4 DEF Deliver, Evict, peers

LEMMA OrderInduction ==
  /\ Init => OrderInv
  /\ OrderInv /\ [Next]_vars => OrderInv'
  <1>1. ASSUME Init PROVE OrderInv
    <2>1. Typed
      BY <1>1, TypeInduction
    <2>2. \A c \in Clients : send[c] = <<>> /\ written[c] = 0
      BY <1>1 DEF Init
    <2>3. taken = 0 /\ work = {}
      BY <1>1 DEF Init
    <2>. QED
      BY <2>1, <2>2, <2>3 DEF OrderInv, Between
  <1>2. ASSUME OrderInv, [Next]_vars PROVE OrderInv'
    <2>0. Typed'
      BY <1>2, TypeInduction DEF OrderInv
    <2>1. CASE UNCHANGED vars
      BY <1>2, <2>0, <2>1 DEF vars, hub, peers, history, OrderInv
    <2>2. CASE Broadcast \/ CastEnds \/ Stop
      BY <1>2, <2>0, <2>2 DEF Broadcast, CastEnds, Stop, peers, history, OrderInv
    <2>. QED
      BY <1>2, <2>0, <2>1, <2>2, PeersInOrder, LoopInOrder, WorkersInOrder DEF Next, Reader
  <1>. QED
    BY <1>1, <1>2

\* A browser sees messages in the order the hub took them: see InOrder.
THEOREM MessagesInOrder == Spec => []InOrder
  <1>1. ASSUME OrderInv PROVE InOrder
    <2>. SUFFICES ASSUME NEW c \in Clients,
                         NEW i \in 1 .. Len(<<written[c]>> \o send[c]) - 1
                  PROVE  (<<written[c]>> \o send[c])[i] < (<<written[c]>> \o send[c])[i + 1]
      BY DEF InOrder, Increasing
    <2>1. send[c] \in Seq(Nat) /\ written[c] \in Nat /\ Between(send[c], written[c], taken)
      BY <1>1 DEF OrderInv, Typed, TypeOK
    <2>2. /\ Len(send[c]) \in Nat /\ Len(<<written[c]>> \o send[c]) = Len(send[c]) + 1
          /\ (<<written[c]>> \o send[c])[1] = written[c]
          /\ \A k \in 1 .. Len(send[c]) : (<<written[c]>> \o send[c])[k + 1] = send[c][k]
      BY <2>1
    <2>3. i \in 1 .. Len(send[c]) /\ (i = 1 \/ i - 1 \in 1 .. Len(send[c]))
      BY <2>2
    <2>4. CASE i = 1
      BY <2>1, <2>2, <2>3, <2>4 DEF Between
    <2>5. CASE i - 1 \in 1 .. Len(send[c])
      <3>1. (<<written[c]>> \o send[c])[i] = send[c][i - 1]
        BY <2>2, <2>3, <2>5
      <3>2. send[c][i - 1] < send[c][i]
        BY <2>1, <2>2, <2>3, <2>5 DEF Between
      <3>. QED
        BY <2>2, <2>3, <3>1, <3>2
    <2>. QED
      BY <2>3, <2>4, <2>5
  <1>. QED
    BY <1>1, OrderInduction, PTL DEF Spec
=============================================================================
