--------------------------- MODULE ShopStoreProofs ---------------------------
(***************************************************************************)
(* What the tables of the shop hold: theorems about the types of Shop and  *)
(* about the quota "unlimited", for any number of buyers, workers, plans   *)
(* and orders.  They rest on facts about the operators of InboundStore,    *)
(* the loop of DelInboundClient among them.                                *)
(***************************************************************************)
EXTENDS ShopProofs, WellFoundedInduction, SequenceTheorems

-----------------------------------------------------------------------------
(* Induction.                                                              *)

\* A set of natural numbers that is not empty has a smallest element.
LEMMA NatMin ==
  ASSUME NEW T \in SUBSET Nat, T # {}
  PROVE  \E m \in T : \A k \in T : m <= k
  <1>1. PICK m \in T : \A k \in T : ~(<<k, m>> \in OpToRel(<, Nat))
    BY NatLessThanWellFounded, WFMin, Zenon
  <1>2. ASSUME NEW k \in T, k < m PROVE <<k, m>> \in OpToRel(<, Nat)
    <2>1. <<k, m>> \in Nat \X Nat
      OBVIOUS
    <2>2. <<k, m>>[1] < <<k, m>>[2]
      BY <1>2
    <2>. QED
      BY <2>1, <2>2, Zenon DEF OpToRel
  <1>3. \A k \in T : ~(k < m)
    BY <1>1, <1>2, Zenon
  <1>4. \A k \in T : k \in Int /\ m \in Int
    OBVIOUS
  <1>. QED
    BY <1>3, <1>4, SMT

\* What holds of 0, and of n whenever it holds of n - 1, holds of every number up
\* to a bound: here as a statement about the set of numbers it holds of.
LEMMA UpTo ==
  ASSUME NEW n \in Nat, NEW Good, 0 \in Good,
         \A k \in 1 .. n : k - 1 \in Good => k \in Good
  PROVE  \A k \in 0 .. n : k \in Good
  <1>. DEFINE Bad == (0 .. n) \ Good
  <1>1. ASSUME Bad # {} PROVE FALSE
    <2>1. Bad \in SUBSET Nat
      OBVIOUS
    <2>2. PICK m \in Bad : \A k \in Bad : m <= k
      BY <1>1, <2>1, NatMin
    <2>3. m \in 1 .. n /\ m - 1 \in 0 .. n /\ m - 1 \notin Bad
      BY <2>2
    <2>. QED
      BY <2>2, <2>3
  <1>. QED
    BY <1>1

\* The position of an element is one of its positions.
LEMMA FirstOfIn ==
  ASSUME NEW T \in SUBSET Nat, T # {}
  PROVE  FirstOf(T) \in T
  BY NatMin DEF FirstOf

-----------------------------------------------------------------------------
(* DelInboundClient's loop.                                                *)

Keeps(s, id, k, i) ==
    IF i = 0 THEN << >> ELSE IF s[i].id = id THEN k[i - 1] ELSE Append(k[i - 1], s[i])

LEMMA KeptExists ==
  ASSUME NEW n \in Nat, NEW s, NEW id
  PROVE  \E f : f = [i \in 0 .. n |-> Keeps(s, id, f, i)]
  <1>. DEFINE Good == {k \in 0 .. n : \E f : f = [i \in 0 .. k |-> Keeps(s, id, f, i)]}
  <1>1. 0 \in Good
    <2>. DEFINE f == [i \in 0 .. 0 |-> << >>]
    <2>1. f = [i \in 0 .. 0 |-> Keeps(s, id, f, i)]
      BY DEF Keeps
    <2>. QED
      BY <2>1
  <1>2. ASSUME NEW k \in 1 .. n, k - 1 \in Good PROVE k \in Good
    <2>1. PICK g : g = [i \in 0 .. k - 1 |-> Keeps(s, id, g, i)]
      BY <1>2
    <2>. DEFINE f == [i \in 0 .. k |-> IF i = k THEN Keeps(s, id, g, k) ELSE g[i]]
    <2>2. ASSUME NEW i \in 0 .. k PROVE f[i] = Keeps(s, id, f, i)
      <3>1. i # 0 => f[i - 1] = g[i - 1]
        BY DEF Keeps
      <3>2. f[i] = Keeps(s, id, g, i)
        BY <2>1
      <3>. QED
        BY <3>1, <3>2 DEF Keeps
    <2>3. f = [i \in 0 .. k |-> Keeps(s, id, f, i)]
      <3>. HIDE DEF f
      <3>1. f = [i \in 0 .. k |-> f[i]]
        BY DEF f
      <3>. QED
        BY <2>2, <3>1
    <2>4. \E h : h = [i \in 0 .. k |-> Keeps(s, id, h, i)]
      <3>. HIDE DEF f
      <3>. QED
        BY <2>3
    <2>. QED
      BY <2>4
  <1>. HIDE DEF Good
  <1>3. n \in Good
    BY <1>1, <1>2, UpTo
  <1>. QED
    BY <1>3 DEF Good

\* f is the loop's copy of the array after each element.
Loop(s, id, f) ==
    /\ f[0] = << >>
    /\ \A i \in 1 .. Len(s) :
          f[i] = IF s[i].id = id THEN f[i - 1] ELSE Append(f[i - 1], s[i])

LEMMA KeptSteps ==
  ASSUME NEW s, NEW id, Len(s) \in Nat
  PROVE  \E f : Loop(s, id, f) /\ WithoutClient(s, id) = f[Len(s)]
  <1>. DEFINE f == CHOOSE f : f = [i \in 0 .. Len(s) |-> Keeps(s, id, f, i)]
  <1>1. f = [i \in 0 .. Len(s) |-> Keeps(s, id, f, i)]
    BY KeptExists
  <1>2. WithoutClient(s, id) = f[Len(s)]
    BY DEF WithoutClient, Keeps
  <1>. HIDE DEF f
  <1>3. \A i \in 0 .. Len(s) : f[i] = Keeps(s, id, f, i)
    BY <1>1
  <1>. QED
    BY <1>2, <1>3 DEF Keeps, Loop

\* Where an array has every e-mail once.
OneEach(s) == \A i, k \in DOMAIN s : s[i].email = s[k].email => i = k

\* What the loop has kept of the first i elements: those with another id, nothing
\* else, and no e-mail twice unless the array has it twice.
Left(s, id, i, t) ==
    /\ \A k \in DOMAIN t : \E j \in 1 .. i : t[k] = s[j] /\ s[j].id # id
    /\ \A j \in 1 .. i : s[j].id # id => \E k \in DOMAIN t : t[k] = s[j]
    /\ OneEach(s) => OneEach(t)

LEMMA LeftStep ==
  ASSUME NEW S, NEW s \in Seq(S), NEW id, NEW i \in 1 .. Len(s), NEW t \in Seq(S),
         Left(s, id, i - 1, t), s[i].id # id
  PROVE  Append(t, s[i]) \in Seq(S) /\ Left(s, id, i, Append(t, s[i]))
  <1>. DEFINE u == Append(t, s[i])
  <1>1. Len(t) \in Nat /\ DOMAIN t = 1 .. Len(t) /\ s[i] \in S /\ Len(s) \in Nat
        /\ DOMAIN s = 1 .. Len(s)
    OBVIOUS
  <1>2. u \in Seq(S) /\ DOMAIN u = 1 .. Len(t) + 1
    BY <1>1
  <1>3. u[Len(t) + 1] = s[i] /\ \A k \in 1 .. Len(t) : u[k] = t[k]
    BY <1>1
  <1>. HIDE DEF u
  <1>4. \A k \in DOMAIN u : \E j \in 1 .. i : u[k] = s[j] /\ s[j].id # id
    <2>. TAKE k \in DOMAIN u
    <2>1. CASE k = Len(t) + 1
      BY <1>3, <2>1
    <2>2. CASE k # Len(t) + 1
      <3>1. k \in DOMAIN t /\ u[k] = t[k]
        BY <1>1, <1>2, <1>3, <2>2
      <3>2. PICK j \in 1 .. i - 1 : t[k] = s[j] /\ s[j].id # id
        BY <3>1 DEF Left
      <3>. QED
        BY <3>1, <3>2
    <2>. QED
      BY <2>1, <2>2
  <1>5. \A j \in 1 .. i : s[j].id # id => \E k \in DOMAIN u : u[k] = s[j]
    <2>. SUFFICES ASSUME NEW j \in 1 .. i, s[j].id # id PROVE \E k \in DOMAIN u : u[k] = s[j]
      OBVIOUS
    <2>1. CASE j = i
      BY <1>1, <1>2, <1>3, <2>1
    <2>2. CASE j # i
      <3>1. PICK k \in DOMAIN t : t[k] = s[j]
        BY <2>2 DEF Left
      <3>. QED
        BY <1>1, <1>2, <1>3, <3>1
    <2>. QED
      BY <2>1, <2>2
  <1>6. ASSUME OneEach(s) PROVE OneEach(u)
    <2>1. \A k \in DOMAIN t : t[k].email # s[i].email
      <3>. SUFFICES ASSUME NEW k \in DOMAIN t, t[k].email = s[i].email PROVE FALSE
        OBVIOUS
      <3>1. PICK j \in 1 .. i - 1 : t[k] = s[j]
        BY DEF Left
      <3>2. j \in DOMAIN s /\ i \in DOMAIN s /\ j # i
        BY <1>1
      <3>. QED
        BY <1>6, <3>1, <3>2 DEF OneEach
    <2>2. OneEach(t)
      BY <1>6 DEF Left
    <2>. QED
      BY <1>1, <1>2, <1>3, <2>1, <2>2 DEF OneEach
  <1>. QED
    BY <1>2, <1>4, <1>5, <1>6 DEF Left, u

LEMMA WithoutElements ==
  ASSUME NEW S, NEW s \in Seq(S), NEW id
  PROVE  WithoutClient(s, id) \in Seq(S) /\ Left(s, id, Len(s), WithoutClient(s, id))
  <1>1. Len(s) \in Nat
    OBVIOUS
  <1>2. PICK f : Loop(s, id, f) /\ WithoutClient(s, id) = f[Len(s)]
    BY <1>1, KeptSteps, Zenon
  <1>. DEFINE Good == {i \in 0 .. Len(s) : f[i] \in Seq(S) /\ Left(s, id, i, f[i])}
  <1>3. 0 \in Good
    <2>1. << >> \in Seq(S) /\ DOMAIN << >> = {}
      OBVIOUS
    <2>2. Left(s, id, 0, << >>)
      BY <2>1 DEF Left, OneEach
    <2>3. f[0] = << >> /\ 0 \in 0 .. Len(s)
      BY <1>1, <1>2 DEF Loop
    <2>. QED
      BY <2>1, <2>2, <2>3
  <1>4. ASSUME NEW i \in 1 .. Len(s), i - 1 \in Good PROVE i \in Good
    <2>1. f[i - 1] \in Seq(S) /\ Left(s, id, i - 1, f[i - 1]) /\ i \in 0 .. Len(s)
      BY <1>1, <1>4
    <2>2. CASE s[i].id = id
      <3>1. Left(s, id, i, f[i - 1])
        BY <2>1, <2>2 DEF Left
      <3>. QED
        BY <1>2, <2>1, <2>2, <3>1 DEF Loop
    <2>3. CASE s[i].id # id
      <3>1. f[i] = Append(f[i - 1], s[i])
        BY <1>2, <2>3 DEF Loop
      <3>2. f[i] \in Seq(S) /\ Left(s, id, i, f[i])
        BY <2>1, <2>3, <3>1, LeftStep
      <3>. QED
        BY <2>1, <3>2
    <2>. QED
      BY <2>2, <2>3
  <1>. HIDE DEF Good
  <1>5. Len(s) \in Good
    <2>1. \A k \in 0 .. Len(s) : k \in Good
      BY <1>1, <1>3, <1>4, UpTo, Zenon
    <2>. QED
      BY <1>1, <2>1
  <1>. QED
    BY <1>2, <1>5 DEF Good

-----------------------------------------------------------------------------
(* The inductive invariant.                                                *)

\* Orders and clients that cannot come to mean unlimited traffic.
Sold == {o \in Order : o.gb >= 1}

Sound == {c \in Client : c.email # House => c.total >= 1}

\* Row ids never run ahead of the orders created, so a fresh id exists; and every
\* row, and every copy of one, has a plan with traffic in it.
OrderSide ==
    /\ DOMAIN orders \subseteq 0..born /\ born \in 0..MaxOrders
    /\ orders \in [DOMAIN orders -> Sold]
    /\ oid \in [Procs -> 0..born]
    /\ ord \in [Procs -> Sold \cup {NoOrder}]

\* The array, every copy of it, the client a handler is about to write, and the
\* traffic rows: none of them gives a buyer a total of 0.
ClientSide ==
    /\ settings \in Seq(Sound)
    /\ inb \in [Procs -> Seq(Sound)]
    /\ cli \in [Procs -> Sound \cup {NoClient}]
    /\ \A p \in Procs : pc[p] \in {"copy", "write", "add"} => cli[p] \in Sound
    /\ DOMAIN rows \subseteq Buyers \cup {House}
    /\ \A e \in DOMAIN rows : rows[e] \in TrafficRow /\ (e # House => rows[e].total >= 1)

OutSide ==
    /\ bill \in [Serials -> {"none", "open", "paid"}]
    /\ answer \in [Serials -> {"none", "success", "fail"}]
    /\ ready \in BOOLEAN
    /\ todo \in [Jobs -> SUBSET [id : Nat, aoid : Serials]]
    /\ phase \in [Jobs -> {"reconcile", "expire"}]
    /\ lost \subseteq Serials
    /\ spent \in [clears : Nat, deletes : Nat, errors : Nat, outages : Nat, callbacks : Nat]

StoreInv == GrantInv /\ OrderSide /\ ClientSide /\ OutSide

-----------------------------------------------------------------------------
(* Orders.                                                                 *)

\* The id a new row gets: one more than the largest in the table.
LEMMA NextIdBound ==
  ASSUME NEW n \in Nat, DOMAIN orders \subseteq 0..n, orders \in [DOMAIN orders -> Order]
  PROVE  NextId \in 1..n + 1
  <1>1. CASE orders = << >>
    BY <1>1 DEF NextId
  <1>2. CASE orders # << >>
    <2>1. DOMAIN orders # {}
      BY <1>2
    <2>. DEFINE Down == {n - i : i \in DOMAIN orders}
    <2>2. Down \in SUBSET Nat /\ Down # {}
      BY <2>1
    <2>3. PICK d \in Down : \A k \in Down : d <= k
      <3>. HIDE DEF Down
      <3>. QED
        BY <2>2, NatMin
    <2>4. PICK m \in DOMAIN orders : d = n - m
      BY <2>3
    <2>5. \A j \in DOMAIN orders : j <= m
      <3>. TAKE j \in DOMAIN orders
      <3>1. n - j \in Down
        OBVIOUS
      <3>2. n - m <= n - j
        BY <2>3, <2>4, <3>1
      <3>. QED
        BY <3>2
    <2>6. \E i \in DOMAIN orders : \A j \in DOMAIN orders : j <= i
      BY <2>5
    <2>. DEFINE top == CHOOSE i \in DOMAIN orders : \A j \in DOMAIN orders : j <= i
    <2>7. top \in DOMAIN orders
      BY <2>6
    <2>8. NextId = 1 + top
      BY <1>2 DEF NextId
    <2>. HIDE DEF top
    <2>. QED
      BY <2>7, <2>8
  <1>. QED
    BY <1>1, <1>2

\* A step that leaves the orders alone, of a handler that returns, has read a row,
\* or keeps its copy.
LEMMA OrderKept ==
  ASSUME OrderSide, UNCHANGED <<orders, born>>,
         \/ UNCHANGED <<oid, ord>>
         \/ \E p \in Procs : Return(p)
         \/ \E p \in Procs, id \in DOMAIN orders, h \in Handlers, place \in Places :
               Enter(p, h, id, place)
  PROVE  OrderSide'
  <1>1. CASE UNCHANGED <<oid, ord>>
    BY <1>1 DEF OrderSide
  <1>2. ASSUME NEW p \in Procs, Return(p) PROVE OrderSide'
    <2>1. oid' = [oid EXCEPT ![p] = 0] /\ ord' = [ord EXCEPT ![p] = NoOrder]
      BY <1>2 DEF Return
    <2>2. 0 \in 0..born
      BY DEF OrderSide
    <2>3. oid' \in [Procs -> 0..born]
      BY <2>1, <2>2 DEF OrderSide
    <2>4. ord' \in [Procs -> Sold \cup {NoOrder}]
      BY <2>1 DEF OrderSide
    <2>. QED
      BY <2>3, <2>4 DEF OrderSide
  <1>3. ASSUME NEW p \in Procs, NEW id \in DOMAIN orders, NEW h \in Handlers,
               NEW place \in Places, Enter(p, h, id, place)
        PROVE  OrderSide'
    BY <1>3 DEF OrderSide, Enter
  <1>. QED
    BY <1>1, <1>2, <1>3

\* A copy that is a row of an order has a plan with traffic in it.
LEMMA CopySold ==
  ASSUME OrderSide, NEW p \in Procs, ord[p] \in Order
  PROVE  ord[p] \in Sold
  <1>1. NoOrder \notin Order
    <2>1. "gb" \notin DOMAIN NoOrder
      BY DEF NoOrder
    <2>2. \A o \in Order : "gb" \in DOMAIN o
      BY DEF Order
    <2>. QED
      BY <2>1, <2>2
  <1>. QED
    BY <1>1 DEF OrderSide

LEMMA OrderCreate ==
  ASSUME StoreInv, NEW p \in Workers, NEW b \in Buyers, NEW plan \in Plans, NEW bufpay \in BOOLEAN,
         CreateOrder(p, b, plan, bufpay)
  PROVE  OrderSide'
  <1>. DEFINE row == [sn |-> 0, buyer |-> b, gb |-> plan.gb, days |-> plan.days,
                      status |-> "pending", bufpay |-> bufpay, aoid |-> 0, created |-> now]
  <1>1. row \in Sold
    BY ShopAssumption DEF Sold, Order, Status, StoreInv, GrantInv, Types
  <1>2. ord' = [ord EXCEPT ![p] = row] /\ UNCHANGED <<orders, born, oid>>
    BY DEF CreateOrder, store, history
  <1>. HIDE DEF row
  <1>. QED
    BY <1>1, <1>2 DEF StoreInv, OrderSide

LEMMA OrderInsert ==
  ASSUME StoreInv, NEW p \in Workers, InsertOrder(p)
  PROVE  OrderSide'
  <1>. DEFINE row == [ord[p] EXCEPT !.sn = born + 1]
  <1>. p \in Procs /\ Types /\ Coherent(p)
    BY DEF Procs, StoreInv, GrantInv
  <1>1. /\ MaxOrders \in Nat /\ born \in Nat /\ born < MaxOrders /\ born' = born + 1
        /\ NextId \in 1..born + 1
    BY ShopAssumption, NextIdBound DEF InsertOrder, StoreInv, OrderSide, Types
  <1>2. ord[p] \in Sold
    BY CopySold DEF InsertOrder, Coherent, Routed, Copied, StoreInv
  <1>3. row \in Sold
    BY <1>1, <1>2 DEF Sold, Order
  <1>4. /\ orders' \in [DOMAIN orders' -> Sold]
        /\ DOMAIN orders' = DOMAIN orders \cup {NextId}
    <2>. HIDE DEF row
    <2>1. orders' = Put(NextId, row)
      BY DEF InsertOrder, row
    <2>. QED
      BY <1>3, <2>1 DEF Put, StoreInv, OrderSide
  <1>5. DOMAIN orders' \subseteq 0..born' /\ born' \in 0..MaxOrders
    <2>1. DOMAIN orders \subseteq 0..born
      BY DEF StoreInv, OrderSide
    <2>. QED
      BY <1>1, <1>4, <2>1
  <1>6. oid' \in [Procs -> 0..born'] /\ ord' \in [Procs -> Sold \cup {NoOrder}]
    <2>0. oid \in [Procs -> 0..born'] /\ 0 \in 0..born' /\ NextId \in 0..born'
      BY <1>1 DEF StoreInv, OrderSide
    <2>1. CASE Return(p)
      <3>1. oid' = [oid EXCEPT ![p] = 0] /\ ord' = [ord EXCEPT ![p] = NoOrder]
        BY <2>1 DEF Return
      <3>2. oid' \in [Procs -> 0..born']
        BY <2>0, <3>1
      <3>3. ord' \in [Procs -> Sold \cup {NoOrder}]
        BY <3>1 DEF StoreInv, OrderSide
      <3>. QED
        BY <3>2, <3>3
    <2>2. CASE oid' = [oid EXCEPT ![p] = NextId] /\ ord' = [ord EXCEPT ![p] = row]
      <3>. HIDE DEF row
      <3>. QED
        BY <1>3, <2>0, <2>2 DEF StoreInv, OrderSide
    <2>. QED
      BY <2>1, <2>2 DEF InsertOrder
  <1>. QED
    BY <1>4, <1>5, <1>6 DEF OrderSide

LEMMA OrderAoid ==
  ASSUME StoreInv, NEW p \in Workers, SaveOrderAoid(p)
  PROVE  OrderSide'
  <1>. p \in Procs /\ Types /\ Coherent(p)
    BY DEF Procs, StoreInv, GrantInv
  <1>1. ord[p].sn \in 0..MaxOrders
    BY DEF SaveOrderAoid, Coherent, Routed, Copied, Order
  <1>2. \A i \in DOMAIN orders : [orders[i] EXCEPT !.aoid = ord[p].sn] \in Sold
    BY <1>1 DEF StoreInv, OrderSide, Sold, Order
  <1>3. UNCHANGED <<born, oid, ord>>
    BY DEF SaveOrderAoid, local, history
  <1>4. orders' = [i \in DOMAIN orders |->
                    IF i = oid[p] THEN [orders[i] EXCEPT !.aoid = ord[p].sn] ELSE orders[i]]
    BY DEF SaveOrderAoid
  <1>5. orders' \in [DOMAIN orders -> Sold] /\ DOMAIN orders' = DOMAIN orders
    BY <1>2, <1>4 DEF StoreInv, OrderSide
  <1>. QED
    BY <1>3, <1>5 DEF StoreInv, OrderSide

LEMMA OrderSave ==
  ASSUME StoreInv, NEW p \in Procs, SaveOrder(p)
  PROVE  OrderSide'
  <1>. DEFINE row == Closed(ord[p], op[p])
  <1>. Types /\ Coherent(p)
    BY DEF StoreInv, GrantInv
  <1>1. op[p] \in Settling /\ ord[p] \in Sold
    BY CopySold DEF SaveOrder, Coherent, Routed, Copied, StoreInv
  <1>2. row \in Sold
    BY <1>1 DEF Closed, Settling, Sold, Order, Status
  <1>3. /\ orders' = Put(oid[p], row) /\ UNCHANGED born
        /\ oid' = [oid EXCEPT ![p] = 0] /\ ord' = [ord EXCEPT ![p] = NoOrder]
    BY DEF SaveOrder, Return, history
  <1>. HIDE DEF row
  <1>4. /\ orders' \in [DOMAIN orders' -> Sold]
        /\ DOMAIN orders' = DOMAIN orders \cup {oid[p]}
    BY <1>2, <1>3 DEF Put, StoreInv, OrderSide
  <1>5. oid[p] \in 0..born /\ 0 \in 0..born
    BY DEF StoreInv, OrderSide
  <1>6. oid' \in [Procs -> 0..born]
    BY <1>3, <1>5 DEF StoreInv, OrderSide
  <1>7. ord' \in [Procs -> Sold \cup {NoOrder}]
    BY <1>3 DEF StoreInv, OrderSide
  <1>. QED
    BY <1>3, <1>4, <1>5, <1>6, <1>7 DEF StoreInv, OrderSide

LEMMA OrderExpire ==
  ASSUME StoreInv, NEW j \in Jobs, Expire(j)
  PROVE  OrderSide'
  <1>. j \in Procs
    BY DEF Procs
  <1>1. PICK row : orders' = IF Holds(row.id, "pending")
                             THEN [orders EXCEPT ![row.id].status = "expired"] ELSE orders
    BY DEF Expire
  <1>2. \A i \in DOMAIN orders : [orders[i] EXCEPT !.status = "expired"] \in Sold
    BY DEF StoreInv, OrderSide, Sold, Order, Status
  <1>3. orders' \in [DOMAIN orders -> Sold] /\ DOMAIN orders' = DOMAIN orders
    BY <1>1, <1>2 DEF StoreInv, OrderSide
  <1>4. UNCHANGED born /\ oid' = [oid EXCEPT ![j] = 0] /\ ord' = [ord EXCEPT ![j] = NoOrder]
    BY DEF Expire, Return, history
  <1>5. 0 \in 0..born
    BY DEF StoreInv, OrderSide
  <1>6. oid' \in [Procs -> 0..born]
    BY <1>4, <1>5 DEF StoreInv, OrderSide
  <1>7. ord' \in [Procs -> Sold \cup {NoOrder}]
    BY <1>4 DEF StoreInv, OrderSide
  <1>. QED
    BY <1>3, <1>4, <1>6, <1>7 DEF StoreInv, OrderSide

LEMMA OrderStep ==
  ASSUME StoreInv, [Next]_vars
  PROVE  OrderSide'
  <1>. OrderSide
    BY DEF StoreInv
  <1>. USE DEF store, outside, local, jobs, history
  <1>1. CASE UNCHANGED vars
    BY <1>1, OrderKept DEF vars
  <1>2. ASSUME NEW p \in Workers, Handler(p) PROVE OrderSide'
    <2>. p \in Procs
      BY DEF Procs
    <2>1. CASE CreatePayment(p)
      BY <2>1, OrderKept DEF CreatePayment
    <2>2. CASE ShowQr(p)
      BY <2>2, OrderKept DEF ShowQr
    <2>3. CASE PaymentUnusable(p)
      BY <2>3, OrderKept DEF PaymentUnusable, Holds, Handlers, Places
    <2>4. ASSUME NEW id \in DOMAIN orders,
                 \/ AdminApproves(p, id) \/ AdminRejects(p, id)
                 \/ BuyerCancels(p, id) \/ AdminRevokes(p, id)
          PROVE  OrderSide'
      BY <2>4, OrderKept DEF AdminApproves, AdminRejects, BuyerCancels, AdminRevokes, Handlers, Places
    <2>5. ASSUME NEW id \in DOMAIN orders, BufPayNotify(p, id) PROVE OrderSide'
      BY <2>5, OrderKept DEF BufPayNotify, Handlers, Places
    <2>6. ASSUME NEW b \in Buyers, DeleteClient(p, b) PROVE OrderSide'
      BY <2>6, OrderKept DEF DeleteClient
    <2>7. CASE DropClient(p)
      BY <2>7, OrderKept DEF DropClient
    <2>. QED
      BY <1>2, <2>1, <2>2, <2>3, <2>4, <2>5, <2>6, <2>7, OrderCreate, OrderInsert, OrderAoid DEF Handler
  <1>3. ASSUME NEW p \in Procs, Approval(p) PROVE OrderSide'
    <2>1. CASE LoadClient(p)
      BY <2>1, OrderKept DEF LoadClient
    <2>2. CASE CopyForUpdate(p)
      BY <2>2, OrderKept DEF CopyForUpdate, UpdateFailed
    <2>3. CASE WriteClient(p)
      BY <2>3, OrderKept DEF WriteClient
    <2>4. CASE CheckDuplicate(p)
      BY <2>4, OrderKept DEF CheckDuplicate
    <2>5. CASE CopyForAdd(p)
      BY <2>5, OrderKept DEF CopyForAdd
    <2>6. CASE AddClient(p)
      BY <2>6, OrderKept DEF AddClient
    <2>7. CASE DbFails(p)
      BY <2>7, OrderKept DEF DbFails, UpdateFailed
    <2>8. CASE SaveFails(p)
      BY <2>8, OrderKept DEF SaveFails
    <2>. QED
      BY <1>3, <2>1, <2>2, <2>3, <2>4, <2>5, <2>6, <2>7, <2>8, OrderSave DEF Approval
  <1>4. ASSUME NEW j \in Jobs, Job(j) PROVE OrderSide'
    <2>. j \in Procs
      BY DEF Procs
    <2>1. CASE StartJob(j)
      BY <2>1, OrderKept DEF StartJob
    <2>2. ASSUME NEW id \in 1..MaxOrders, Poll(j, id) PROVE OrderSide'
      BY <2>2, OrderKept DEF Poll, Holds, Handlers, Places
    <2>3. CASE PollFails(j)
      BY <2>3, OrderKept DEF PollFails
    <2>4. CASE EndRound(j)
      BY <2>4, OrderKept DEF EndRound
    <2>. QED
      BY <1>4, <2>1, <2>2, <2>3, <2>4, OrderExpire DEF Job
  <1>5. CASE Environment
    <2>1. UNCHANGED <<born, oid, ord>> /\ (orders' = orders \/ orders' = << >>)
      BY <1>5 DEF Environment, BuyerPays, AddTraffic, ClearOrders, ToggleReady, Tick
    <2>2. CASE orders' = << >>
      <3>1. DOMAIN orders' = {} /\ orders' \in [DOMAIN orders' -> Sold]
        BY <2>2
      <3>. QED
        BY <2>1, <3>1 DEF OrderSide
    <2>. QED
      BY <2>1, <2>2, OrderKept
  <1>. QED
    BY <1>1, <1>2, <1>3, <1>4, <1>5 DEF Next

-----------------------------------------------------------------------------
(* Clients and traffic rows.                                               *)

\* The element ClientByEmail returns, when there is one.
LEMMA FoundClient ==
  ASSUME NEW S, NEW s \in Seq(S), NEW e, PositionsOf(s, e) # {}
  PROVE  /\ FirstOf(PositionsOf(s, e)) \in DOMAIN s
         /\ ClientByEmail(s, e) \in S /\ ClientByEmail(s, e).email = e
  <1>. DEFINE i == FirstOf(PositionsOf(s, e))
  <1>1. PositionsOf(s, e) \in SUBSET Nat
    BY DEF PositionsOf
  <1>2. i \in PositionsOf(s, e)
    BY <1>1, FirstOfIn
  <1>3. i \in DOMAIN s /\ s[i].email = e
    BY <1>2 DEF PositionsOf
  <1>. HIDE DEF i
  <1>4. s[i] \in S
    BY <1>3
  <1>. QED
    BY <1>3, <1>4 DEF ClientByEmail, i

\* The array after an update holds the clients it held before and the new one.
LEMMA UpdatedArray ==
  ASSUME NEW S, NEW s \in Seq(S), NEW c \in S
  PROVE  WithClient(s, c) \in Seq(S)
  <1>. DEFINE i == FirstOf(IndexOfId(s, c.id))
  <1>1. CASE i \in DOMAIN s
    <2>. HIDE DEF i
    <2>1. i \in 1 .. Len(s)
      BY <1>1
    <2>2. [s EXCEPT ![i] = c] \in Seq(S)
      BY <2>1, ExceptSeq
    <2>. QED
      BY <2>2 DEF WithClient, i
  <1>2. CASE i \notin DOMAIN s
    <2>. HIDE DEF i
    <2>1. [s EXCEPT ![i] = c] = s
      BY <1>2
    <2>. QED
      BY <2>1 DEF WithClient, i
  <1>. QED
    BY <1>1, <1>2

\* What a handler makes of a client it may grant or take from.
LEMMA ChangedClient ==
  ASSUME Types, NEW c \in Sound, c.email \in Buyers, NEW o \in Sold, NEW used \in Nat
  PROVE  Extended(c, o) \in Sound /\ Revoked(c, o, used) \in Sound
  <1>1. /\ c \in Client /\ c.total \in Nat /\ c.expiry \in Nat /\ now \in Nat
        /\ o.gb \in Nat /\ o.days \in Nat /\ o.gb >= 1
    BY DEF Sound, Client, Sold, Order, Types
  <1>2. Extended(c, o) \in Sound
    <2>1. c.total + o.gb \in Nat /\ c.total + o.gb >= 1 /\ MaxOf(c.expiry, now) + o.days \in Nat
      BY <1>1 DEF MaxOf
    <2>. QED
      BY <1>1, <2>1 DEF Extended, Sound, Client
  <1>3. Revoked(c, o, used) \in Sound
    <2>. DEFINE total == MaxOf(MaxOf(c.total - o.gb, used), 1)
                expiry == MaxOf(c.expiry - o.days, now)
                enable == ~(total <= used \/ expiry <= now)
    <2>1. total \in Nat /\ total >= 1 /\ expiry \in Nat
      BY <1>1 DEF MaxOf
    <2>2. enable \in BOOLEAN
      OBVIOUS
    <2>3. Revoked(c, o, used) = [c EXCEPT !.total = total, !.expiry = expiry, !.enable = enable]
      BY DEF Revoked
    <2>. HIDE DEF total, expiry, enable
    <2>. QED
      BY <1>1, <2>1, <2>2, <2>3 DEF Sound, Client
  <1>. QED
    BY <1>2, <1>3

\* A step that touches neither table, of a handler that returns or goes on with
\* what it has.
LEMMA ClientKept ==
  ASSUME Types, ClientSide, UNCHANGED <<settings, rows>>,
         \/ \E p \in Procs : Return(p)
         \/ UNCHANGED <<cli, inb, pc>>
         \/ /\ UNCHANGED <<cli, inb>>
            /\ \E p \in Procs : \E place \in Places \ {"copy", "write", "add"} : Goto(p, place)
  PROVE  ClientSide'
  <1>1. ASSUME NEW p \in Procs, Return(p) PROVE ClientSide'
    <2>1. inb' = [inb EXCEPT ![p] = << >>] /\ cli' = [cli EXCEPT ![p] = NoClient]
      BY <1>1 DEF Return
    <2>2. inb' \in [Procs -> Seq(Sound)]
      BY <2>1 DEF ClientSide
    <2>3. cli' \in [Procs -> Sound \cup {NoClient}] /\ (\A q \in Procs \ {p} : cli'[q] = cli[q])
      BY <2>1 DEF ClientSide
    <2>4. pc'[p] \in {"idle", "poll"} /\ (\A q \in Procs \ {p} : pc'[q] = pc[q])
      BY <1>1, ReturnFrame
    <2>. QED
      BY <2>2, <2>3, <2>4 DEF ClientSide
  <1>2. CASE UNCHANGED <<cli, inb, pc>>
    BY <1>2 DEF ClientSide
  <1>3. ASSUME UNCHANGED <<cli, inb>>, NEW p \in Procs,
               NEW place \in Places \ {"copy", "write", "add"}, Goto(p, place)
        PROVE  ClientSide'
    <2>1. pc'[p] = place /\ (\A q \in Procs \ {p} : pc'[q] = pc[q])
      BY <1>3, GotoFrame
    <2>. QED
      BY <1>3, <2>1 DEF ClientSide
  <1>. QED
    BY <1>1, <1>2, <1>3

LEMMA ClientLoad ==
  ASSUME StoreInv, NEW p \in Procs, LoadClient(p)
  PROVE  ClientSide'
  <1>. Types /\ ClientSide /\ Coherent(p)
    BY DEF StoreInv, GrantInv
  <1>. DEFINE e == ord[p].buyer
              c == ClientByEmail(settings, e)
  <1>1. UNCHANGED <<settings, rows, inb>>
    BY DEF LoadClient, store
  <1>2. op[p] \in {"approve", "revoke"} /\ ord[p] \in Sold /\ e \in Buyers
    BY CopySold DEF LoadClient, Coherent, Routed, Copied, Settling, StoreInv, Sold, Order
  <1>3. CASE ClientKnown(settings, rows, e)
    <2>. DEFINE d == IF op[p] = "approve" THEN Extended(c, ord[p])
                     ELSE Revoked(c, ord[p], rows[e].used)
    <2>1. c \in Sound /\ c.email \in Buyers
      <3>1. settings \in Seq(Sound) /\ PositionsOf(settings, e) # {}
        BY <1>3 DEF ClientSide, ClientKnown
      <3>. QED
        BY <1>2, <3>1, FoundClient
    <2>2. rows[e].used \in Nat
      BY <1>3 DEF ClientSide, ClientKnown, TrafficRow
    <2>3. d \in Sound
      <3>. HIDE DEF c, e
      <3>. QED
        BY <1>2, <2>1, <2>2, ChangedClient
    <2>4. cli' = [cli EXCEPT ![p] = d] /\ Goto(p, "copy")
      BY <1>3 DEF LoadClient
    <2>5. pc'[p] = "copy" /\ (\A q \in Procs \ {p} : pc'[q] = pc[q])
      BY <2>4, GotoFrame DEF Places
    <2>. HIDE DEF d
    <2>. QED
      BY <1>1, <2>3, <2>4, <2>5 DEF ClientSide
  <1>4. CASE ~ClientKnown(settings, rows, e)
    <2>1. UNCHANGED cli /\ (Goto(p, "dup") \/ Goto(p, "save"))
      BY <1>4 DEF LoadClient
    <2>. QED
      BY <1>1, <2>1, ClientKept DEF Places
  <1>. QED
    BY <1>3, <1>4

\* The update is given up.
LEMMA ClientGivenUp ==
  ASSUME Types, ClientSide, UNCHANGED <<settings, rows>>, NEW p \in Procs, UpdateFailed(p)
  PROVE  ClientSide'
  <1>1. CASE Return(p)
    BY <1>1, ClientKept
  <1>2. CASE /\ Goto(p, "dup") /\ cli' = [cli EXCEPT ![p] = NoClient]
             /\ inb' = [inb EXCEPT ![p] = << >>]
    <2>1. pc'[p] = "dup" /\ (\A q \in Procs \ {p} : pc'[q] = pc[q])
      BY <1>2, GotoFrame DEF Places
    <2>2. inb' \in [Procs -> Seq(Sound)]
      BY <1>2 DEF ClientSide
    <2>3. cli' \in [Procs -> Sound \cup {NoClient}] /\ (\A q \in Procs \ {p} : cli'[q] = cli[q])
      BY <1>2 DEF ClientSide
    <2>. QED
      BY <2>1, <2>2, <2>3 DEF ClientSide
  <1>. QED
    BY <1>1, <1>2 DEF UpdateFailed

LEMMA ClientCopied ==
  ASSUME StoreInv, NEW p \in Procs, CopyForUpdate(p) \/ CopyForAdd(p)
  PROVE  ClientSide'
  <1>. Types /\ ClientSide /\ Coherent(p)
    BY DEF StoreInv, GrantInv
  <1>1. UNCHANGED <<settings, rows>>
    BY DEF CopyForUpdate, CopyForAdd, store
  <1>2. CASE CopyForUpdate(p) /\ UpdateFailed(p)
    BY <1>1, <1>2, ClientGivenUp
  <1>3. CASE CopyForUpdate(p) /\ inb' = [inb EXCEPT ![p] = settings] /\ Goto(p, "write") /\ UNCHANGED cli
    <2>1. pc'[p] = "write" /\ (\A q \in Procs \ {p} : pc'[q] = pc[q])
      BY <1>3, GotoFrame DEF Places
    <2>2. pc[p] = "copy"
      BY <1>3 DEF CopyForUpdate
    <2>. QED
      BY <1>1, <1>3, <2>1, <2>2 DEF ClientSide
  <1>4. CASE CopyForAdd(p)
    <2>. DEFINE c == BuildShopClient(p, ord[p])
    <2>1. ord[p] \in Sold /\ ord[p].sn \in Serials
      BY <1>4, CopySold DEF CopyForAdd, Coherent, Routed, Copied, Settling, StoreInv
    <2>2. /\ ord[p].buyer \in Buyers /\ ord[p].gb \in Nat /\ ord[p].gb >= 1 /\ ord[p].days \in Nat
          /\ now \in Nat /\ ord[p].sn \in Nat /\ grants[ord[p].sn] \in Nat
      BY <2>1 DEF Sold, Order, Types, Serials
    <2>3. <<p, ord[p].sn, grants[ord[p].sn]>> \in Seq(Procs \cup {House} \cup Nat)
      BY <2>2
    <2>4. c \in Sound
      BY <2>2, <2>3 DEF BuildShopClient, Sound, Client
    <2>5. /\ inb' = [inb EXCEPT ![p] = settings] /\ cli' = [cli EXCEPT ![p] = c]
          /\ Goto(p, "add")
      BY <1>4 DEF CopyForAdd
    <2>6. pc'[p] = "add" /\ (\A q \in Procs \ {p} : pc'[q] = pc[q])
      BY <2>5, GotoFrame DEF Places
    <2>. HIDE DEF c
    <2>. QED
      BY <1>1, <2>4, <2>5, <2>6 DEF ClientSide
  <1>. QED
    BY <1>2, <1>3, <1>4 DEF CopyForUpdate

LEMMA ClientWritten ==
  ASSUME StoreInv, NEW p \in Procs, WriteClient(p) \/ AddClient(p)
  PROVE  ClientSide'
  <1>. Types /\ ClientSide
    BY DEF StoreInv, GrantInv
  <1>1. cli[p] \in Sound /\ inb[p] \in Seq(Sound)
    BY DEF WriteClient, AddClient, ClientSide
  <1>2. settings' \in Seq(Sound)
    <2>1. settings' = WithClient(inb[p], cli[p]) \/ settings' = Append(inb[p], cli[p])
      BY DEF WriteClient, AddClient
    <2>2. WithClient(inb[p], cli[p]) \in Seq(Sound)
      BY <1>1, UpdatedArray
    <2>3. Append(inb[p], cli[p]) \in Seq(Sound)
      BY <1>1
    <2>. QED
      BY <2>1, <2>2, <2>3
  <1>3. /\ DOMAIN rows' \subseteq Buyers \cup {House}
        /\ \A e \in DOMAIN rows' : rows'[e] \in TrafficRow /\ (e # House => rows'[e].total >= 1)
    <2>1. /\ cli[p].email \in Buyers \cup {House} /\ cli[p].total \in Nat
          /\ cli[p].expiry \in Nat /\ cli[p].enable \in BOOLEAN
          /\ cli[p].email # House => cli[p].total >= 1
      BY <1>1 DEF Sound, Client
    <2>2. CASE WriteClient(p)
      <3>1. rows' = UpdateClientStat(rows, cli[p])
        BY <2>2 DEF WriteClient
      <3>2. DOMAIN rows' = DOMAIN rows
        BY <3>1 DEF UpdateClientStat
      <3>3. ASSUME NEW e \in DOMAIN rows
            PROVE  rows'[e] \in TrafficRow /\ (e # House => rows'[e].total >= 1)
        <4>1. rows[e] \in TrafficRow /\ (e # House => rows[e].total >= 1)
          BY DEF ClientSide
        <4>2. rows'[e] = IF e = cli[p].email
                         THEN [rows[e] EXCEPT !.total = cli[p].total, !.expiry = cli[p].expiry,
                                              !.enable = cli[p].enable]
                         ELSE rows[e]
          BY <3>1 DEF UpdateClientStat
        <4>. QED
          BY <2>1, <4>1, <4>2 DEF TrafficRow
      <3>. QED
        BY <3>2, <3>3 DEF ClientSide
    <2>3. CASE AddClient(p)
      <3>1. rows' = AddClientStat(rows, cli[p])
        BY <2>3 DEF AddClient
      <3>2. DOMAIN rows' = DOMAIN rows \cup {cli[p].email}
        BY <3>1 DEF AddClientStat
      <3>3. ASSUME NEW e \in DOMAIN rows'
            PROVE  rows'[e] \in TrafficRow /\ (e # House => rows'[e].total >= 1)
        <4>1. rows'[e] = IF e \in DOMAIN rows THEN rows[e]
                         ELSE [total |-> cli[p].total, expiry |-> cli[p].expiry,
                               enable |-> cli[p].enable, used |-> 0]
          BY <3>1, <3>2 DEF AddClientStat
        <4>. QED
          BY <2>1, <3>2, <4>1 DEF TrafficRow, ClientSide
      <3>. QED
        BY <2>1, <3>2, <3>3 DEF ClientSide
    <2>. QED
      BY <2>2, <2>3
  <1>4. inb' = [inb EXCEPT ![p] = << >>] /\ cli' = [cli EXCEPT ![p] = NoClient]
    BY DEF WriteClient, AddClient
  <1>5. inb' \in [Procs -> Seq(Sound)]
    BY <1>4 DEF ClientSide
  <1>6. cli' \in [Procs -> Sound \cup {NoClient}] /\ (\A q \in Procs \ {p} : cli'[q] = cli[q])
    BY <1>4 DEF ClientSide
  <1>7. pc'[p] = "save" /\ (\A q \in Procs \ {p} : pc'[q] = pc[q])
    <2>1. Goto(p, "save")
      BY DEF WriteClient, AddClient
    <2>. QED
      BY <2>1, GotoFrame DEF Places
  <1>. QED
    BY <1>2, <1>3, <1>5, <1>6, <1>7 DEF ClientSide

LEMMA ClientDeleted ==
  ASSUME StoreInv, NEW p \in Procs, NEW b \in Buyers, DeleteClient(p, b)
  PROVE  ClientSide'
  <1>. Types /\ ClientSide
    BY DEF StoreInv, GrantInv
  <1>1. ClientByEmail(settings, b) \in Sound
    <2>1. settings \in Seq(Sound) /\ PositionsOf(settings, b) # {}
      BY DEF DeleteClient, ClientSide, ClientKnown
    <2>. QED
      BY <2>1, FoundClient
  <1>2. /\ inb' = [inb EXCEPT ![p] = settings] /\ UNCHANGED settings
        /\ cli' = [cli EXCEPT ![p] = ClientByEmail(settings, b)]
        /\ rows' = DelClientStat(rows, b)
    BY DEF DeleteClient
  <1>3. pc'[p] = "drop" /\ (\A q \in Procs \ {p} : pc'[q] = pc[q])
    BY GotoFrame DEF DeleteClient, Places
  <1>4. DOMAIN rows' \subseteq DOMAIN rows /\ (\A e \in DOMAIN rows' : rows'[e] = rows[e])
    BY <1>2 DEF DelClientStat
  <1>5. inb' \in [Procs -> Seq(Sound)]
    BY <1>2 DEF ClientSide
  <1>6. cli' \in [Procs -> Sound \cup {NoClient}] /\ (\A q \in Procs \ {p} : cli'[q] = cli[q])
    BY <1>1, <1>2 DEF ClientSide
  <1>. QED
    BY <1>2, <1>3, <1>4, <1>5, <1>6 DEF ClientSide

LEMMA ClientDropped ==
  ASSUME StoreInv, NEW p \in Procs, DropClient(p)
  PROVE  ClientSide'
  <1>. Types /\ ClientSide
    BY DEF StoreInv, GrantInv
  <1>1. settings' = WithoutClient(inb[p], cli[p].id) /\ UNCHANGED rows /\ Return(p)
    BY DEF DropClient
  <1>2. settings' \in Seq(Sound)
    BY <1>1, WithoutElements DEF ClientSide
  <1>3. inb' = [inb EXCEPT ![p] = << >>] /\ cli' = [cli EXCEPT ![p] = NoClient]
    BY <1>1 DEF Return
  <1>4. inb' \in [Procs -> Seq(Sound)]
    BY <1>3 DEF ClientSide
  <1>5. cli' \in [Procs -> Sound \cup {NoClient}] /\ (\A q \in Procs \ {p} : cli'[q] = cli[q])
    BY <1>3 DEF ClientSide
  <1>6. pc'[p] \in {"idle", "poll"} /\ (\A q \in Procs \ {p} : pc'[q] = pc[q])
    BY <1>1, ReturnFrame
  <1>. QED
    BY <1>1, <1>2, <1>4, <1>5, <1>6 DEF ClientSide

LEMMA ClientTraffic ==
  ASSUME StoreInv, NEW emails, AddTraffic(emails)
  PROVE  ClientSide'
  <1>. ClientSide
    BY DEF StoreInv
  <1>1. UNCHANGED <<settings, inb, cli, pc>>
    BY DEF AddTraffic, local
  <1>2. DOMAIN rows' = DOMAIN rows
    BY DEF AddTraffic
  <1>3. ASSUME NEW e \in DOMAIN rows
        PROVE  rows'[e] \in TrafficRow /\ rows'[e].total = rows[e].total
    <2>. DEFINE row == [rows[e] EXCEPT !.used = IF e \in emails THEN @ + 1 ELSE @]
    <2>1. rows[e] \in TrafficRow
      BY DEF ClientSide
    <2>2. row \in TrafficRow /\ row.total = rows[e].total
      BY <2>1 DEF TrafficRow
    <2>3. rows'[e] = [row EXCEPT !.enable = @ /\ ~Depleted(row, now)]
      BY DEF AddTraffic
    <2>. DEFINE on == row.enable /\ ~Depleted(row, now)
    <2>4. on \in BOOLEAN
      BY <2>2 DEF TrafficRow
    <2>. HIDE DEF row
    <2>5. rows'[e] = [row EXCEPT !.enable = on]
      BY <2>2, <2>3 DEF TrafficRow
    <2>. HIDE DEF on
    <2>. QED
      BY <2>2, <2>4, <2>5 DEF TrafficRow
  <1>. QED
    BY <1>1, <1>2, <1>3 DEF ClientSide

LEMMA ClientStep ==
  ASSUME StoreInv, [Next]_vars
  PROVE  ClientSide'
  <1>. Types /\ ClientSide
    BY DEF StoreInv, GrantInv
  <1>. USE DEF store, outside, local, jobs, history
  <1>1. CASE UNCHANGED vars
    BY <1>1, ClientKept DEF vars
  <1>2. ASSUME NEW p \in Workers, Handler(p) PROVE ClientSide'
    <2>. p \in Procs /\ Coherent(p)
      BY DEF Procs, StoreInv, GrantInv
    <2>1. ASSUME NEW b \in Buyers, NEW plan \in Plans, NEW bufpay \in BOOLEAN,
                 CreateOrder(p, b, plan, bufpay)
          PROVE  ClientSide'
      BY <2>1, ClientKept DEF CreateOrder, Places
    <2>2. CASE InsertOrder(p)
      BY <2>2, ClientKept DEF InsertOrder, Places
    <2>3. CASE CreatePayment(p) \/ SaveOrderAoid(p)
      BY <2>3, ClientKept DEF CreatePayment, SaveOrderAoid, Places
    <2>4. CASE ShowQr(p)
      BY <2>4, ClientKept DEF ShowQr
    <2>5. CASE PaymentUnusable(p)
      BY <2>5, ClientKept DEF PaymentUnusable, Enter, Places
    <2>6. ASSUME NEW id \in DOMAIN orders,
                 \/ AdminApproves(p, id) \/ AdminRejects(p, id)
                 \/ BuyerCancels(p, id) \/ AdminRevokes(p, id)
          PROVE  ClientSide'
      BY <2>6, ClientKept DEF AdminApproves, AdminRejects, BuyerCancels, AdminRevokes, Enter, Places
    <2>7. ASSUME NEW id \in DOMAIN orders, BufPayNotify(p, id) PROVE ClientSide'
      BY <2>7, ClientKept DEF BufPayNotify, Enter, Places
    <2>. QED
      BY <1>2, <2>1, <2>2, <2>3, <2>4, <2>5, <2>6, <2>7, ClientDeleted, ClientDropped DEF Handler
  <1>3. ASSUME NEW p \in Procs, Approval(p) PROVE ClientSide'
    <2>1. CASE CheckDuplicate(p)
      BY <2>1, ClientKept DEF CheckDuplicate, Places
    <2>2. CASE DbFails(p)
      BY <2>2, ClientKept, ClientGivenUp DEF DbFails
    <2>3. CASE SaveOrder(p)
      BY <2>3, ClientKept DEF SaveOrder
    <2>4. CASE SaveFails(p)
      BY <2>4, ClientKept DEF SaveFails
    <2>. QED
      BY <1>3, <2>1, <2>2, <2>3, <2>4, ClientLoad, ClientCopied, ClientWritten DEF Approval
  <1>4. ASSUME NEW j \in Jobs, Job(j) PROVE ClientSide'
    <2>. j \in Procs
      BY DEF Procs
    <2>1. CASE StartJob(j)
      BY <2>1, ClientKept DEF StartJob, Places
    <2>2. ASSUME NEW id \in 1..MaxOrders, Poll(j, id) PROVE ClientSide'
      BY <2>2, ClientKept DEF Poll, Enter, Places
    <2>3. CASE PollFails(j) \/ Expire(j)
      BY <2>3, ClientKept DEF PollFails, Expire
    <2>4. CASE EndRound(j)
      BY <2>4, ClientKept DEF EndRound, Places
    <2>. QED
      BY <1>4, <2>1, <2>2, <2>3, <2>4 DEF Job
  <1>5. CASE Environment
    <2>1. CASE \E sn \in Serials : BuyerPays(sn)
      BY <2>1, ClientKept DEF BuyerPays
    <2>2. CASE \E emails \in SUBSET (DOMAIN rows \ {House}) : emails # {} /\ AddTraffic(emails)
      BY <2>2, ClientTraffic
    <2>3. CASE ClearOrders \/ ToggleReady \/ Tick
      BY <2>3, ClientKept DEF ClearOrders, ToggleReady, Tick
    <2>. QED
      BY <1>5, <2>1, <2>2, <2>3 DEF Environment
  <1>. QED
    BY <1>1, <1>2, <1>3, <1>4, <1>5 DEF Next

-----------------------------------------------------------------------------
(* The rest of the state.                                                  *)

\* The rows a job selects.
LEMMA SelectedType ==
  ASSUME OrderSide, NEW ids \in SUBSET DOMAIN orders, \A i \in ids : orders[i].aoid # 0
  PROVE  Selected(ids) \subseteq [id : Nat, aoid : Serials]
  <1>1. MaxOrders \in Nat
    BY ShopAssumption
  <1>2. \A i \in ids : i \in Nat /\ orders[i].aoid \in Serials
    <2>. TAKE i \in ids
    <2>1. orders[i] \in Order /\ i \in 0..born /\ born \in 0..MaxOrders
      BY DEF OrderSide, Sold
    <2>2. orders[i].aoid \in 0..MaxOrders /\ orders[i].aoid # 0
      BY <2>1 DEF Order
    <2>. QED
      BY <1>1, <2>1, <2>2 DEF Serials
  <1>3. ASSUME NEW r \in Selected(ids) PROVE r \in [id : Nat, aoid : Serials]
    <2>1. PICK i \in ids : r = [id |-> i, aoid |-> orders[i].aoid]
      BY DEF Selected
    <2>. QED
      BY <1>2, <2>1
  <1>. QED
    BY <1>3

LEMMA OutReturn ==
  ASSUME OutSide, NEW p \in Procs, Return(p)
  PROVE  /\ todo' \in [Jobs -> SUBSET [id : Nat, aoid : Serials]]
         /\ UNCHANGED phase
  <1>1. CASE p \in Jobs
    BY <1>1 DEF Return, OutSide
  <1>2. CASE p \notin Jobs
    BY <1>2 DEF Return, OutSide
  <1>. QED
    BY <1>1, <1>2

\* A step that leaves the jobs' lists alone, except for a return.
LEMMA OutKept ==
  ASSUME OutSide, UNCHANGED <<bill, answer, ready, lost, spent>>,
         UNCHANGED <<todo, phase>> \/ \E p \in Procs : Return(p)
  PROVE  OutSide'
  BY OutReturn DEF OutSide

LEMMA OutStep ==
  ASSUME StoreInv, [Next]_vars
  PROVE  OutSide'
  <1>. Types /\ OrderSide /\ OutSide
    BY DEF StoreInv, GrantInv
  <1>. USE DEF store, outside, local, jobs, history
  <1>. DEFINE Kept == UNCHANGED <<todo, phase>> \/ \E p \in Procs : Return(p)
              Spent == [clears : Nat, deletes : Nat, errors : Nat, outages : Nat, callbacks : Nat]
  <1>0. spent \in Spent
    BY DEF OutSide
  <1>1. CASE UNCHANGED vars
    BY <1>1, OutKept DEF vars
  <1>2. ASSUME NEW p \in Workers, Handler(p) PROVE OutSide'
    <2>. p \in Procs /\ Coherent(p)
      BY DEF Procs, StoreInv, GrantInv
    <2>1. ASSUME NEW b \in Buyers, NEW plan \in Plans, NEW bufpay \in BOOLEAN,
                 CreateOrder(p, b, plan, bufpay)
          PROVE  OutSide'
      BY <2>1, OutKept DEF CreateOrder
    <2>2. CASE InsertOrder(p)
      BY <2>2, OutKept DEF InsertOrder
    <2>3. CASE CreatePayment(p) \/ SaveOrderAoid(p)
      BY <2>3, OutKept DEF CreatePayment, SaveOrderAoid
    <2>4. CASE ShowQr(p)
      <3>1. bill' = [bill EXCEPT ![ord[p].sn] = "open"] /\ Return(p)
            /\ UNCHANGED <<answer, ready, lost, spent>>
        BY <2>4 DEF ShowQr
      <3>2. bill' \in [Serials -> {"none", "open", "paid"}]
        BY <3>1 DEF OutSide
      <3>. QED
        BY <3>1, <3>2, OutReturn DEF OutSide
    <2>5. CASE PaymentUnusable(p)
      BY <2>5, OutKept DEF PaymentUnusable
    <2>6. ASSUME NEW id \in DOMAIN orders,
                 \/ AdminApproves(p, id) \/ AdminRejects(p, id)
                 \/ BuyerCancels(p, id) \/ AdminRevokes(p, id)
          PROVE  OutSide'
      BY <2>6, OutKept DEF AdminApproves, AdminRejects, BuyerCancels, AdminRevokes
    <2>7. ASSUME NEW id \in DOMAIN orders, BufPayNotify(p, id) PROVE OutSide'
      <3>1. /\ UNCHANGED <<bill, ready, lost, todo, phase>>
            /\ spent' = [spent EXCEPT !.callbacks = spent.callbacks + 1]
            /\ \E a \in {"fail", "success"} : answer' = [answer EXCEPT ![orders[id].sn] = a]
        BY <2>7 DEF BufPayNotify
      <3>2. spent' \in Spent
        BY <1>0, <3>1
      <3>. QED
        BY <3>1, <3>2 DEF OutSide
    <2>8. ASSUME NEW b \in Buyers, DeleteClient(p, b) PROVE OutSide'
      <3>1. /\ UNCHANGED <<bill, answer, ready, lost, todo, phase>>
            /\ spent' = [spent EXCEPT !.deletes = spent.deletes + 1]
        BY <2>8 DEF DeleteClient
      <3>2. spent' \in Spent
        BY <1>0, <3>1
      <3>. QED
        BY <3>1, <3>2 DEF OutSide
    <2>9. CASE DropClient(p)
      BY <2>9, OutKept DEF DropClient
    <2>. QED
      BY <1>2, <2>1, <2>2, <2>3, <2>4, <2>5, <2>6, <2>7, <2>8, <2>9 DEF Handler
  <1>3. ASSUME NEW p \in Procs, Approval(p) PROVE OutSide'
    <2>. Coherent(p)
      BY DEF StoreInv, GrantInv
    <2>1. CASE LoadClient(p) \/ CopyForUpdate(p)
      BY <2>1, OutKept DEF LoadClient, CopyForUpdate, UpdateFailed
    <2>2. CASE WriteClient(p) \/ AddClient(p)
      BY <2>2, OutKept DEF WriteClient, AddClient
    <2>3. CASE CheckDuplicate(p) \/ CopyForAdd(p)
      BY <2>3, OutKept DEF CheckDuplicate, CopyForAdd
    <2>4. CASE SaveOrder(p)
      BY <2>4, OutKept DEF SaveOrder
    <2>5. CASE DbFails(p) \/ SaveFails(p)
      <3>1. /\ UNCHANGED <<bill, answer, ready>>
            /\ spent' = [spent EXCEPT !.errors = spent.errors + 1]
            /\ Kept
        BY <2>5 DEF DbFails, SaveFails, UpdateFailed
      <3>2. spent' \in Spent
        BY <1>0, <3>1
      <3>3. lost' \subseteq Serials
        BY <2>5 DEF DbFails, SaveFails, Coherent, Copied, Settling, OutSide
      <3>. QED
        BY <3>1, <3>2, <3>3, OutReturn DEF OutSide
    <2>. QED
      BY <1>3, <2>1, <2>2, <2>3, <2>4, <2>5 DEF Approval
  <1>4. ASSUME NEW j \in Jobs, Job(j) PROVE OutSide'
    <2>. j \in Procs
      BY DEF Procs
    <2>1. CASE StartJob(j)
      <3>1. ToReconcile \subseteq [id : Nat, aoid : Serials]
        BY SelectedType DEF ToReconcile
      <3>2. /\ todo' = [todo EXCEPT ![j] = ToReconcile] /\ UNCHANGED phase
            /\ UNCHANGED <<bill, answer, ready, lost, spent>>
        BY <2>1 DEF StartJob
      <3>. QED
        BY <3>1, <3>2 DEF OutSide
    <2>2. ASSUME NEW id \in 1..MaxOrders, Poll(j, id) PROVE OutSide'
      BY <2>2, OutKept DEF Poll
    <2>3. CASE PollFails(j) \/ Expire(j)
      BY <2>3, OutKept DEF PollFails, Expire
    <2>4. CASE EndRound(j)
      <3>1. ToExpire \subseteq [id : Nat, aoid : Serials]
        BY SelectedType DEF ToExpire
      <3>2. /\ todo' = [todo EXCEPT ![j] = ToExpire] \/ UNCHANGED todo
            /\ \E round \in {"reconcile", "expire"} : phase' = [phase EXCEPT ![j] = round]
            /\ UNCHANGED <<bill, answer, ready, lost, spent>>
        BY <2>4 DEF EndRound
      <3>3. todo' \in [Jobs -> SUBSET [id : Nat, aoid : Serials]]
        BY <3>1, <3>2 DEF OutSide
      <3>4. phase' \in [Jobs -> {"reconcile", "expire"}]
        BY <3>2 DEF OutSide
      <3>. QED
        BY <3>2, <3>3, <3>4 DEF OutSide
    <2>. QED
      BY <1>4, <2>1, <2>2, <2>3, <2>4 DEF Job
  <1>5. CASE Environment
    <2>1. ASSUME NEW sn \in Serials, BuyerPays(sn) PROVE OutSide'
      <3>1. bill' = [bill EXCEPT ![sn] = "paid"]
            /\ UNCHANGED <<answer, ready, todo, phase, lost, spent>>
        BY <2>1 DEF BuyerPays
      <3>. QED
        BY <3>1 DEF OutSide
    <2>2. CASE \E emails \in SUBSET (DOMAIN rows \ {House}) : emails # {} /\ AddTraffic(emails)
      BY <2>2, OutKept DEF AddTraffic
    <2>3. CASE ClearOrders
      <3>1. /\ UNCHANGED <<bill, answer, ready, todo, phase, lost>>
            /\ spent' = [spent EXCEPT !.clears = spent.clears + 1]
        BY <2>3 DEF ClearOrders
      <3>2. spent' \in Spent
        BY <1>0, <3>1
      <3>. QED
        BY <3>1, <3>2 DEF OutSide
    <2>4. CASE ToggleReady
      <3>1. /\ UNCHANGED <<bill, answer, todo, phase, lost>> /\ ready' \in BOOLEAN
            /\ spent' = [spent EXCEPT !.outages = spent.outages + 1] \/ UNCHANGED spent
        BY <2>4 DEF ToggleReady, OutSide
      <3>2. spent' \in Spent
        BY <1>0, <3>1
      <3>. QED
        BY <3>1, <3>2 DEF OutSide
    <2>5. CASE Tick
      BY <2>5, OutKept DEF Tick
    <2>. QED
      BY <1>5, <2>1, <2>2, <2>3, <2>4, <2>5 DEF Environment
  <1>. QED
    BY <1>1, <1>2, <1>3, <1>4, <1>5 DEF Next

-----------------------------------------------------------------------------

LEMMA StoreInit == Init => StoreInv
  <1>. SUFFICES ASSUME Init PROVE StoreInv
    OBVIOUS
  <1>0. MaxOrders \in Nat
    BY ShopAssumption
  <1>1. OrderSide
    <2>1. orders \in [DOMAIN orders -> Sold] /\ DOMAIN orders \subseteq 0..born
      BY DEF Init
    <2>2. born \in 0..MaxOrders /\ oid \in [Procs -> 0..born]
      BY <1>0 DEF Init, Fresh
    <2>3. ord \in [Procs -> Sold \cup {NoOrder}]
      <3>. HIDE DEF NoOrder
      <3>. QED
        BY DEF Init, Fresh
    <2>. QED
      BY <2>1, <2>2, <2>3 DEF OrderSide
  <1>2. ClientSide
    <2>1. HouseClient \in Sound
      BY DEF HouseClient, Sound, Client
    <2>2. settings \in Seq(Sound)
      <3>. HIDE DEF HouseClient
      <3>. QED
        BY <2>1 DEF Init, Fresh
    <2>3. inb \in [Procs -> Seq(Sound)] /\ (\A p \in Procs : pc[p] = "idle")
      BY DEF Init, Fresh
    <2>4. cli \in [Procs -> Sound \cup {NoClient}]
      <3>. HIDE DEF NoClient
      <3>. QED
        BY DEF Init, Fresh
    <2>5. DOMAIN rows = {House} /\ rows[House] \in TrafficRow
      BY DEF Init, Fresh, TrafficRow
    <2>. QED
      BY <2>2, <2>3, <2>4, <2>5 DEF ClientSide
  <1>3. OutSide
    BY DEF Init, Fresh, OutSide
  <1>. QED
    BY <1>1, <1>2, <1>3, GrantInit DEF StoreInv

LEMMA StoreAlways == Spec => []StoreInv
  <1>1. StoreInv /\ [Next]_vars => StoreInv'
    BY GrantNext, OrderStep, ClientStep, OutStep DEF StoreInv
  <1>. QED
    BY <1>1, StoreInit, PTL DEF Spec

\* Every variable of the shop keeps its type, the JSON array and its copies
\* included (the handlers of web/service/shop.go and of inbound.go).
THEOREM TypeCorrect == Spec => []TypeOK
  <1>1. StoreInv => TypeOK
    <2>. SUFFICES ASSUME StoreInv PROVE TypeOK
      OBVIOUS
    <2>. USE DEF StoreInv
    <2>1. DOMAIN orders \subseteq Nat /\ (\A i \in DOMAIN orders : orders[i] \in Order)
      BY DEF OrderSide, Sold
    <2>2. oid \in [Procs -> Nat] /\ born \in 0..MaxOrders
      <3>1. born \in Nat /\ 0..born \subseteq Nat
        BY DEF GrantInv, Types
      <3>. QED
        BY <3>1 DEF OrderSide
    <2>3. Sound \subseteq Client
      BY DEF Sound
    <2>4. settings \in Seq(Client) /\ inb \in [Procs -> Seq(Client)]
      <3>1. Seq(Sound) \subseteq Seq(Client)
        BY <2>3, SeqMonotonic
      <3>. QED
        BY <3>1 DEF ClientSide
    <2>5. cli \in [Procs -> Client \cup {NoClient}]
      BY <2>3 DEF ClientSide
    <2>6. DOMAIN rows \subseteq Buyers \cup {House} /\ (\A e \in DOMAIN rows : rows[e] \in TrafficRow)
      BY DEF ClientSide
    <2>. QED
      BY <2>1, <2>2, <2>4, <2>5, <2>6 DEF GrantInv, Types, OutSide, TypeOK
  <1>. QED
    BY <1>1, StoreAlways, PTL

\* However approvals, revocations, deletions, traffic and failures overlap, no
\* buyer's client comes to the total of 0 that means unlimited traffic: an
\* approval adds a plan with traffic in it, a revocation clamps at one byte
\* (revokeAdjustment), and a stale array holds only clients that were sound.
THEOREM NobodyUnlimited == Spec => []NeverUnlimited
  <1>1. StoreInv => NeverUnlimited
    <2>. SUFFICES ASSUME StoreInv PROVE NeverUnlimited
      OBVIOUS
    <2>1. \A i \in DOMAIN settings : settings[i] \in Sound
      BY DEF StoreInv, ClientSide
    <2>. QED
      BY <2>1 DEF StoreInv, ClientSide, NeverUnlimited, Sound
  <1>. QED
    BY <1>1, StoreAlways, PTL
=============================================================================
