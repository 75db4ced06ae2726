----------------------------- MODULE ShopProofs -----------------------------
(***************************************************************************)
(* Theorems about Shop, for any number of buyers, workers, plans and       *)
(* orders, and without a bound on the handlers that overlap.               *)
(***************************************************************************)
EXTENDS Shop, TLAPS, FiniteSetTheorems

-----------------------------------------------------------------------------
(* The inductive invariant: what the stale copy a handler holds says about *)
(* the order, at each of the handler's steps.                              *)

Types ==
    /\ orders \in [DOMAIN orders -> Order]
    /\ now \in Nat /\ born \in Nat
    /\ pc \in [Procs -> Places]
    /\ op \in [Procs -> Handlers]
    /\ ord \in [Procs -> Order \cup {NoOrder}]
    /\ grants \in [Serials -> Nat]

Settling == {"approve", "revoke", "reject", "cancel"}

\* Which handler can be where.
Routed(p) ==
    /\ pc[p] \in {"insert", "pay", "aoid", "show"} => op[p] = "create"
    /\ pc[p] \in {"load", "copy", "write"} => op[p] \in {"approve", "revoke"}
    /\ pc[p] \in {"dup", "copyAdd", "add"} => op[p] = "approve"
    /\ pc[p] = "save" => op[p] \in Settling

\* Its copy of the row is a row of an order.
Copied(p) ==
    /\ op[p] \in Settling => ord[p] \in Order /\ ord[p].sn \in Serials
    /\ op[p] = "create" => ord[p] \in Order
    /\ pc[p] = "insert" => ord[p].status = "pending"

\* A revocation has read "approved"; an approval comes to its Save only through
\* a committed grant.  Both remain true of an order although its row changes.
Paid(p) ==
    op[p] = "revoke" \/ (op[p] = "approve" /\ pc[p] = "save") => grants[ord[p].sn] >= 1

Coherent(p) == Routed(p) /\ Copied(p) /\ Paid(p)

GrantInv ==
    /\ Types
    /\ \A i \in DOMAIN orders : orders[i].sn \in Serials
    /\ ApprovedWasGranted
    /\ \A p \in Procs : Coherent(p)

-----------------------------------------------------------------------------

\* What Goto, Enter and Return do to the handler's own state and leave alone of
\* the others'.
LEMMA GotoFrame ==
  ASSUME Types, NEW p \in Procs, NEW place \in Places, Goto(p, place)
  PROVE  /\ pc' \in [Procs -> Places]
         /\ pc'[p] = place
         /\ \A q \in Procs \ {p} : pc'[q] = pc[q]
  BY DEF Types, Goto

LEMMA EnterFrame ==
  ASSUME Types, NEW p \in Procs, NEW handler \in Handlers, NEW place \in Places,
         NEW id \in DOMAIN orders, Enter(p, handler, id, place)
  PROVE  /\ pc' \in [Procs -> Places] /\ op' \in [Procs -> Handlers]
         /\ ord' \in [Procs -> Order \cup {NoOrder}]
         /\ pc'[p] = place /\ op'[p] = handler /\ ord'[p] = orders[id]
         /\ orders[id] \in Order
         /\ \A q \in Procs \ {p} : pc'[q] = pc[q] /\ op'[q] = op[q] /\ ord'[q] = ord[q]
  BY GotoFrame DEF Types, Enter

LEMMA ReturnFrame ==
  ASSUME Types, NEW p \in Procs, Return(p)
  PROVE  /\ pc' \in [Procs -> Places] /\ op' \in [Procs -> Handlers]
         /\ ord' \in [Procs -> Order \cup {NoOrder}]
         /\ pc'[p] \in {"idle", "poll"} /\ op'[p] = "none"
         /\ \A q \in Procs \ {p} : pc'[q] = pc[q] /\ op'[q] = op[q] /\ ord'[q] = ord[q]
  <1>. DEFINE place == IF p \in Jobs THEN "poll" ELSE "idle"
  <1>1. Goto(p, place) /\ place \in Places
    BY DEF Return, Places
  <1>2. pc' \in [Procs -> Places] /\ pc'[p] = place /\ (\A q \in Procs \ {p} : pc'[q] = pc[q])
    BY <1>1, GotoFrame
  <1>. QED
    BY <1>2 DEF Types, Return, Handlers

\* A handler in the middle of something else.
LEMMA Aside ==
  ASSUME NEW q \in Procs, Coherent(q), Types, grants' \in [Serials -> Nat],
         pc'[q] = pc[q], op'[q] = op[q], ord'[q] = ord[q],
         \A sn \in Serials : grants'[sn] >= grants[sn]
  PROVE  Coherent(q)'
  BY DEF Coherent, Routed, Copied, Paid, Types, Settling

\* A handler that has just returned.
LEMMA Done ==
  ASSUME NEW p \in Procs, pc'[p] \in {"idle", "poll"}, op'[p] = "none"
  PROVE  Coherent(p)'
  BY DEF Coherent, Routed, Copied, Paid, Settling

LEMMA ReturnCoherent ==
  ASSUME GrantInv, NEW p \in Procs, Return(p), UNCHANGED grants
  PROVE  /\ \A q \in Procs : Coherent(q)'
         /\ pc' \in [Procs -> Places] /\ op' \in [Procs -> Handlers]
         /\ ord' \in [Procs -> Order \cup {NoOrder}]
  <1>. Types
    BY DEF GrantInv
  <1>1. Coherent(p)'
    BY ReturnFrame, Done
  <1>2. \A q \in Procs \ {p} : Coherent(q)'
    BY ReturnFrame, Aside DEF GrantInv, Types
  <1>. QED
    BY <1>1, <1>2, ReturnFrame

\* A handler that has read a row in a status it may settle.
LEMMA EnterCoherent ==
  ASSUME GrantInv, NEW p \in Procs, NEW id \in DOMAIN orders, UNCHANGED grants,
         \/ Enter(p, "approve", id, "load")
         \/ Enter(p, "reject", id, "save")
         \/ Enter(p, "cancel", id, "save")
         \/ Enter(p, "revoke", id, "load") /\ orders[id].status = "approved"
  PROVE  /\ \A q \in Procs : Coherent(q)'
         /\ pc' \in [Procs -> Places] /\ op' \in [Procs -> Handlers]
         /\ ord' \in [Procs -> Order \cup {NoOrder}]
  <1>. Types
    BY DEF GrantInv
  <1>1. PICK handler \in Settling, place \in {"load", "save"} :
           /\ Enter(p, handler, id, place)
           /\ place = "load" <=> handler \in {"approve", "revoke"}
           /\ handler = "revoke" => orders[id].status = "approved"
    BY DEF Settling
  <1>2. handler \in Handlers /\ place \in Places
    BY DEF Settling, Handlers, Places
  <1>3. /\ pc'[p] = place /\ op'[p] = handler /\ ord'[p] = orders[id]
        /\ orders[id] \in Order /\ orders[id].sn \in Serials
    BY <1>1, <1>2, EnterFrame DEF GrantInv
  <1>4. handler = "revoke" => grants[orders[id].sn] >= 1
    BY <1>1 DEF GrantInv, ApprovedWasGranted
  <1>5. Coherent(p)'
    <2>1. handler \in Settling /\ (place = "load" \/ place = "save")
      OBVIOUS
    <2>2. Routed(p)'
      BY <1>1, <1>3, <2>1 DEF Routed, Settling
    <2>3. Copied(p)'
      BY <1>3, <2>1 DEF Copied, Settling
    <2>4. Paid(p)'
      BY <1>1, <1>3, <1>4, <2>1 DEF Paid
    <2>. QED
      BY <2>2, <2>3, <2>4 DEF Coherent
  <1>6. \A q \in Procs \ {p} : pc'[q] = pc[q] /\ op'[q] = op[q] /\ ord'[q] = ord[q]
    BY <1>1, <1>2, EnterFrame
  <1>7. grants' \in [Serials -> Nat] /\ (\A sn \in Serials : grants'[sn] >= grants[sn])
    BY DEF GrantInv, Types
  <1>8. \A q \in Procs \ {p} : Coherent(q)'
    BY <1>6, <1>7, Aside DEF GrantInv
  <1>. QED
    BY <1>1, <1>2, <1>5, <1>8, EnterFrame

\* A handler that goes on to another place with the same copy.
LEMMA GoOn ==
  ASSUME GrantInv, NEW p \in Procs, NEW place \in Places, Goto(p, place),
         UNCHANGED <<op, ord, grants>>,
         (Routed(p) /\ place # "insert")',
         op[p] = "approve" => place # "save"
  PROVE  /\ \A q \in Procs : Coherent(q)'
         /\ pc' \in [Procs -> Places] /\ op' \in [Procs -> Handlers]
         /\ ord' \in [Procs -> Order \cup {NoOrder}]
  <1>. Types
    BY DEF GrantInv
  <1>1. Coherent(p)'
    BY GotoFrame DEF GrantInv, Coherent, Copied, Paid
  <1>2. \A q \in Procs \ {p} : Coherent(q)'
    BY GotoFrame, Aside DEF GrantInv, Types
  <1>. QED
    BY <1>1, <1>2, GotoFrame DEF Types

\* No order changes, and no grant is taken back.
LEMMA OrdersKept ==
  ASSUME GrantInv, UNCHANGED <<orders, now, born>>, grants' \in [Serials -> Nat],
         \A sn \in Serials : grants'[sn] >= grants[sn],
         \A q \in Procs : Coherent(q)',
         pc' \in [Procs -> Places], op' \in [Procs -> Handlers],
         ord' \in [Procs -> Order \cup {NoOrder}]
  PROVE  GrantInv'
  BY DEF GrantInv, Types, ApprovedWasGranted

-----------------------------------------------------------------------------
(* The invariant is preserved, first by the steps that place an order.     *)

LEMMA CreateStep ==
  ASSUME GrantInv, NEW p \in Workers, NEW b \in Buyers, NEW plan \in Plans, NEW bufpay \in BOOLEAN,
         CreateOrder(p, b, plan, bufpay)
  PROVE  GrantInv'
  <1>. DEFINE row == [sn |-> 0, buyer |-> b, gb |-> plan.gb, days |-> plan.days,
                      status |-> "pending", bufpay |-> bufpay, aoid |-> 0, created |-> now]
  <1>. p \in Procs /\ Types
    BY DEF Procs, GrantInv
  <1>1. row \in Order
    BY ShopAssumption DEF Order, Status, Types
  <1>2. /\ pc' \in [Procs -> Places] /\ pc'[p] = "insert"
        /\ \A q \in Procs \ {p} : pc'[q] = pc[q]
    BY GotoFrame DEF CreateOrder, Places
  <1>3. /\ op' \in [Procs -> Handlers] /\ op'[p] = "create"
        /\ \A q \in Procs \ {p} : op'[q] = op[q]
    BY DEF CreateOrder, Types, Handlers
  <1>4. /\ ord' \in [Procs -> Order \cup {NoOrder}] /\ ord'[p] = row
        /\ \A q \in Procs \ {p} : ord'[q] = ord[q]
    BY <1>1 DEF CreateOrder, Types
  <1>5. UNCHANGED <<orders, now, born, grants>>
    BY DEF CreateOrder, store, outside, history
  <1>6. grants' \in [Serials -> Nat] /\ (\A sn \in Serials : grants'[sn] >= grants[sn])
    BY <1>5 DEF Types
  <1>7. Coherent(p)'
    BY <1>1, <1>2, <1>3, <1>4 DEF Coherent, Routed, Copied, Paid, Settling
  <1>8. \A q \in Procs \ {p} : Coherent(q)'
    BY <1>2, <1>3, <1>4, <1>6, Aside DEF GrantInv
  <1>. QED
    BY <1>2, <1>3, <1>4, <1>5, <1>6, <1>7, <1>8, OrdersKept

\* One row is replaced or added.
LEMMA PutType ==
  ASSUME Types, NEW id, NEW row \in Order
  PROVE  /\ Put(id, row) \in [DOMAIN Put(id, row) -> Order]
         /\ DOMAIN Put(id, row) = DOMAIN orders \cup {id}
         /\ Put(id, row)[id] = row
         /\ \A i \in DOMAIN orders \ {id} : Put(id, row)[i] = orders[i]
  BY DEF Types, Put

LEMMA InsertStep ==
  ASSUME GrantInv, NEW p \in Workers, InsertOrder(p)
  PROVE  GrantInv'
  <1>. DEFINE row == [ord[p] EXCEPT !.sn = born + 1]
  <1>. p \in Procs /\ Types /\ Coherent(p)
    BY DEF Procs, GrantInv
  <1>1. op[p] = "create" /\ ord[p] \in Order /\ ord[p].status = "pending"
    BY DEF InsertOrder, Coherent, Routed, Copied
  <1>. MaxOrders \in Nat /\ born \in Nat
    BY ShopAssumption DEF Types
  <1>. born < MaxOrders /\ born' = born + 1
    BY DEF InsertOrder
  <1>2. born + 1 \in Serials /\ born' = born + 1 /\ born + 1 \in 0..MaxOrders
    BY DEF Serials
  <1>3. row \in Order /\ row.sn = born + 1 /\ row.status = "pending"
    BY <1>1, <1>2 DEF Order
  <1>4. orders' = Put(NextId, row) /\ UNCHANGED <<now, grants>>
    BY DEF InsertOrder, outside
  <1>5. /\ pc' \in [Procs -> Places] /\ op' \in [Procs -> Handlers]
        /\ ord' \in [Procs -> Order \cup {NoOrder}]
        /\ \A q \in Procs : Coherent(q)'
    <2>1. CASE Return(p)
      BY <1>4, <2>1, ReturnCoherent
    <2>2. CASE Goto(p, "pay") /\ ord' = [ord EXCEPT ![p] = row] /\ op' = op
      <3>1. /\ pc' \in [Procs -> Places] /\ pc'[p] = "pay"
            /\ \A q \in Procs \ {p} : pc'[q] = pc[q]
        BY <2>2, GotoFrame DEF Places
      <3>2. /\ ord' \in [Procs -> Order \cup {NoOrder}] /\ ord'[p] = row
            /\ \A q \in Procs \ {p} : ord'[q] = ord[q]
        <4>. HIDE DEF row
        <4>. QED
          BY <1>3, <2>2 DEF Types
      <3>3. Coherent(p)'
        BY <1>1, <1>3, <2>2, <3>1, <3>2 DEF Coherent, Routed, Copied, Paid, Settling
      <3>4. grants' \in [Serials -> Nat] /\ (\A sn \in Serials : grants'[sn] >= grants[sn])
        BY <1>4 DEF Types
      <3>5. \A q \in Procs \ {p} : Coherent(q)'
        BY <2>2, <3>1, <3>2, <3>4, Aside DEF GrantInv
      <3>. QED
        BY <2>2, <3>1, <3>2, <3>3, <3>5 DEF Types
    <2>. QED
      BY <2>1, <2>2 DEF InsertOrder
  <1>6. /\ orders' \in [DOMAIN orders' -> Order]
        /\ \A i \in DOMAIN orders' : i = NextId \/ (i \in DOMAIN orders /\ orders'[i] = orders[i])
        /\ orders'[NextId] = row
    <2>. HIDE DEF row
    <2>1. /\ Put(NextId, row) \in [DOMAIN Put(NextId, row) -> Order]
          /\ DOMAIN Put(NextId, row) = DOMAIN orders \cup {NextId}
          /\ Put(NextId, row)[NextId] = row
          /\ \A i \in DOMAIN orders \ {NextId} : Put(NextId, row)[i] = orders[i]
      BY <1>3, PutType
    <2>. QED
      BY <1>4, <2>1
  <1>7. (\A i \in DOMAIN orders : orders[i].sn \in Serials)' /\ ApprovedWasGranted'
    BY <1>2, <1>3, <1>4, <1>6 DEF GrantInv, ApprovedWasGranted
  <1>. QED
    BY <1>2, <1>4, <1>5, <1>6, <1>7 DEF GrantInv, Types

LEMMA AoidStep ==
  ASSUME GrantInv, NEW p \in Workers, SaveOrderAoid(p)
  PROVE  GrantInv'
  <1>. p \in Procs /\ Types /\ Coherent(p)
    BY DEF Procs, GrantInv
  <1>1. ord[p] \in Order /\ ord[p].sn \in 0..MaxOrders
    BY DEF SaveOrderAoid, Coherent, Routed, Copied, Order
  <1>2. \A i \in DOMAIN orders : [orders[i] EXCEPT !.aoid = ord[p].sn] \in Order
    BY <1>1 DEF Types, Order
  <1>3. /\ DOMAIN orders' = DOMAIN orders /\ orders' \in [DOMAIN orders' -> Order]
        /\ \A i \in DOMAIN orders : /\ orders'[i].sn = orders[i].sn
                                    /\ orders'[i].status = orders[i].status
    BY <1>2 DEF SaveOrderAoid, Types, Order
  <1>4. UNCHANGED <<now, born, grants, op, ord>>
    BY DEF SaveOrderAoid, outside, local, history
  <1>5. op[p] = "create" /\ Goto(p, "show")
    BY DEF SaveOrderAoid, Coherent, Routed
  <1>6. pc'[p] = "show"
    BY <1>5, GotoFrame DEF Places
  <1>7. /\ \A q \in Procs : Coherent(q)'
        /\ pc' \in [Procs -> Places] /\ op' \in [Procs -> Handlers]
        /\ ord' \in [Procs -> Order \cup {NoOrder}]
    BY <1>4, <1>5, <1>6, GoOn DEF Places, Routed
  <1>. QED
    BY <1>3, <1>4, <1>7 DEF GrantInv, Types, ApprovedWasGranted

-----------------------------------------------------------------------------
(* The steps of an approval or a revocation, and the final Save.           *)

\* A grant is committed: the only step after which an approval may be saved.
LEMMA GrantStep ==
  ASSUME GrantInv, NEW p \in Procs, Goto(p, "save"), op[p] \in {"approve", "revoke"},
         grants' = Granted(p), UNCHANGED <<orders, now, born, op, ord>>
  PROVE  GrantInv'
  <1>. Types /\ Coherent(p)
    BY DEF GrantInv
  <1>1. ord[p] \in Order /\ ord[p].sn \in Serials
    BY DEF Coherent, Copied, Settling
  <1>2. /\ grants' \in [Serials -> Nat] /\ (\A sn \in Serials : grants'[sn] >= grants[sn])
        /\ op[p] = "approve" => grants'[ord[p].sn] >= 1
    <2>1. CASE op[p] = "approve"
      BY <1>1, <2>1 DEF Granted, Types
    <2>2. CASE op[p] = "revoke"
      BY <2>2 DEF Granted, Types
    <2>. QED
      BY <2>1, <2>2
  <1>3. /\ pc' \in [Procs -> Places] /\ pc'[p] = "save"
        /\ \A q \in Procs \ {p} : pc'[q] = pc[q]
    BY GotoFrame DEF Places
  <1>4. Coherent(p)'
    <2>1. Routed(p)' /\ Copied(p)'
      BY <1>1, <1>3 DEF Routed, Copied, Settling
    <2>2. Paid(p)'
      BY <1>1, <1>2 DEF Coherent, Paid, Types
    <2>. QED
      BY <2>1, <2>2 DEF Coherent
  <1>5. \A q \in Procs \ {p} : Coherent(q)'
    BY <1>2, <1>3, Aside DEF GrantInv
  <1>. QED
    BY <1>2, <1>3, <1>4, <1>5, OrdersKept DEF Types

LEMMA FailedUpdateStep ==
  ASSUME GrantInv, NEW p \in Procs, UpdateFailed(p), pc[p] \in {"copy", "write"},
         UNCHANGED <<orders, now, born, grants>>
  PROVE  GrantInv'
  <1>. Types
    BY DEF GrantInv
  <1>1. grants' \in [Serials -> Nat] /\ (\A sn \in Serials : grants'[sn] >= grants[sn])
    BY DEF Types
  <1>2. CASE Return(p)
    BY <1>1, <1>2, ReturnCoherent, OrdersKept
  <1>3. CASE Goto(p, "dup") /\ op[p] = "approve" /\ UNCHANGED <<op, ord>>
    <2>1. pc'[p] = "dup"
      BY <1>3, GotoFrame DEF Places
    <2>. QED
      BY <1>1, <1>3, <2>1, GoOn, OrdersKept DEF Places, Routed
  <1>. QED
    BY <1>2, <1>3 DEF UpdateFailed

LEMMA SaveStep ==
  ASSUME GrantInv, NEW p \in Procs, SaveOrder(p)
  PROVE  GrantInv'
  <1>. DEFINE row == Closed(ord[p], op[p])
  <1>. Types /\ Coherent(p)
    BY DEF GrantInv
  <1>1. op[p] \in Settling /\ ord[p] \in Order /\ ord[p].sn \in Serials
    BY DEF SaveOrder, Coherent, Routed, Copied
  <1>2. row \in Order /\ row.sn = ord[p].sn
    BY <1>1 DEF Closed, Settling, Order, Status
  <1>3. row.status \in {"approved", "revoked"} => grants[row.sn] >= 1
    <2>1. CASE op[p] \in {"approve", "revoke"}
      BY <1>2, <2>1 DEF SaveOrder, Coherent, Paid
    <2>2. CASE op[p] \in {"reject", "cancel"}
      <3>1. row.status = "rejected"
        BY <1>1, <2>2 DEF Closed, Order
      <3>. QED
        BY <3>1
    <2>. QED
      BY <1>1, <2>1, <2>2 DEF Settling
  <1>4. orders' = Put(oid[p], row) /\ Return(p) /\ UNCHANGED <<now, born, grants>>
    BY DEF SaveOrder, outside, history
  <1>5. /\ orders' \in [DOMAIN orders' -> Order]
        /\ DOMAIN orders' = DOMAIN orders \cup {oid[p]}
        /\ orders'[oid[p]] = row
        /\ \A i \in DOMAIN orders \ {oid[p]} : orders'[i] = orders[i]
    <2>. HIDE DEF row
    <2>1. /\ Put(oid[p], row) \in [DOMAIN Put(oid[p], row) -> Order]
          /\ DOMAIN Put(oid[p], row) = DOMAIN orders \cup {oid[p]}
          /\ Put(oid[p], row)[oid[p]] = row
          /\ \A i \in DOMAIN orders \ {oid[p]} : Put(oid[p], row)[i] = orders[i]
      BY <1>2, PutType
    <2>. QED
      BY <1>4, <2>1
  <1>6. /\ \A q \in Procs : Coherent(q)'
        /\ pc' \in [Procs -> Places] /\ op' \in [Procs -> Handlers]
        /\ ord' \in [Procs -> Order \cup {NoOrder}]
    BY <1>4, ReturnCoherent
  <1>7. (\A i \in DOMAIN orders : orders[i].sn \in Serials)' /\ ApprovedWasGranted'
    <2>. HIDE DEF row
    <2>1. \A i \in DOMAIN orders' : i = oid[p] \/ (i \in DOMAIN orders /\ orders'[i] = orders[i])
      BY <1>5
    <2>. QED
      BY <1>1, <1>2, <1>3, <1>4, <1>5, <2>1 DEF GrantInv, ApprovedWasGranted
  <1>. QED
    BY <1>4, <1>5, <1>6, <1>7 DEF GrantInv, Types

LEMMA ApprovalStep ==
  ASSUME GrantInv, NEW p \in Procs, Approval(p)
  PROVE  GrantInv'
  <1>. Types /\ Coherent(p)
    BY DEF GrantInv
  <1>. USE DEF store, outside, local, jobs, history
  <1>0. ASSUME UNCHANGED grants
        PROVE  grants' \in [Serials -> Nat] /\ (\A sn \in Serials : grants'[sn] >= grants[sn])
    BY <1>0 DEF Types
  <1>1. CASE LoadClient(p)
    <2>1. UNCHANGED <<orders, now, born, grants, op, ord>>
      BY <1>1 DEF LoadClient
    <2>2. PICK place \in {"copy", "dup", "save"} :
             /\ Goto(p, place)
             /\ place = "dup" => op[p] = "approve"
             /\ place = "save" => op[p] # "approve"
      BY <1>1 DEF LoadClient
    <2>3. pc'[p] = place /\ op[p] \in {"approve", "revoke"}
      BY <1>1, <2>2, GotoFrame DEF LoadClient, Coherent, Routed, Places
    <2>. QED
      BY <1>0, <2>1, <2>2, <2>3, GoOn, OrdersKept DEF Places, Routed, Settling
  <1>2. CASE CopyForUpdate(p)
    <2>1. UNCHANGED <<orders, now, born, grants>>
      BY <1>2 DEF CopyForUpdate
    <2>2. CASE UpdateFailed(p)
      BY <1>2, <2>1, <2>2, FailedUpdateStep DEF CopyForUpdate
    <2>3. CASE Goto(p, "write") /\ UNCHANGED <<op, ord>>
      <3>1. pc'[p] = "write" /\ op[p] \in {"approve", "revoke"}
        BY <1>2, <2>3, GotoFrame DEF CopyForUpdate, Coherent, Routed, Places
      <3>. QED
        BY <1>0, <2>1, <2>3, <3>1, GoOn, OrdersKept DEF Places, Routed
    <2>. QED
      BY <1>2, <2>2, <2>3 DEF CopyForUpdate
  <1>3. CASE WriteClient(p)
    BY <1>3, GrantStep DEF WriteClient, Coherent, Routed
  <1>4. CASE CheckDuplicate(p)
    <2>1. UNCHANGED <<orders, now, born, grants>>
      BY <1>4 DEF CheckDuplicate
    <2>2. CASE Return(p)
      BY <1>0, <2>1, <2>2, ReturnCoherent, OrdersKept
    <2>3. CASE Goto(p, "copyAdd") /\ UNCHANGED <<op, ord>>
      <3>1. pc'[p] = "copyAdd" /\ op[p] = "approve"
        BY <1>4, <2>3, GotoFrame DEF CheckDuplicate, Coherent, Routed, Places
      <3>. QED
        BY <1>0, <2>1, <2>3, <3>1, GoOn, OrdersKept DEF Places, Routed
    <2>. QED
      BY <1>4, <2>2, <2>3 DEF CheckDuplicate
  <1>5. CASE CopyForAdd(p)
    <2>1. UNCHANGED <<orders, now, born, grants, op, ord>> /\ Goto(p, "add")
      BY <1>5 DEF CopyForAdd
    <2>2. pc'[p] = "add" /\ op[p] = "approve"
      BY <1>5, <2>1, GotoFrame DEF CopyForAdd, Coherent, Routed, Places
    <2>. QED
      BY <1>0, <2>1, <2>2, GoOn, OrdersKept DEF Places, Routed
  <1>6. CASE AddClient(p)
    BY <1>6, GrantStep DEF AddClient, Coherent, Routed
  <1>7. CASE DbFails(p)
    <2>1. UNCHANGED <<orders, now, born, grants>>
      BY <1>7 DEF DbFails
    <2>2. CASE pc[p] = "write"
      BY <1>7, <2>1, <2>2, FailedUpdateStep DEF DbFails
    <2>3. CASE pc[p] = "add"
      BY <1>0, <1>7, <2>1, <2>3, ReturnCoherent, OrdersKept DEF DbFails
    <2>. QED
      BY <1>7, <2>2, <2>3 DEF DbFails
  <1>8. CASE SaveOrder(p)
    BY <1>8, SaveStep
  <1>9. CASE SaveFails(p)
    BY <1>0, <1>9, ReturnCoherent, OrdersKept DEF SaveFails
  <1>. QED
    BY <1>1, <1>2, <1>3, <1>4, <1>5, <1>6, <1>7, <1>8, <1>9 DEF Approval

-----------------------------------------------------------------------------
(* The other steps.                                                        *)

\* A step of a handler that leaves orders and grants alone and either returns,
\* enters a settling handler or goes on.
LEMMA QuietStep ==
  ASSUME GrantInv, NEW p \in Procs, UNCHANGED <<orders, now, born, grants>>,
         \/ Return(p)
         \/ \E id \in DOMAIN orders :
               \/ Enter(p, "approve", id, "load")
               \/ Enter(p, "reject", id, "save")
               \/ Enter(p, "cancel", id, "save")
               \/ Enter(p, "revoke", id, "load") /\ orders[id].status = "approved"
         \/ UNCHANGED <<pc, op, ord>>
  PROVE  GrantInv'
  <1>. Types
    BY DEF GrantInv
  <1>1. grants' \in [Serials -> Nat] /\ (\A sn \in Serials : grants'[sn] >= grants[sn])
    BY DEF Types
  <1>2. CASE Return(p)
    BY <1>1, <1>2, ReturnCoherent, OrdersKept
  <1>3. CASE \E id \in DOMAIN orders :
               \/ Enter(p, "approve", id, "load")
               \/ Enter(p, "reject", id, "save")
               \/ Enter(p, "cancel", id, "save")
               \/ Enter(p, "revoke", id, "load") /\ orders[id].status = "approved"
    BY <1>1, <1>3, EnterCoherent, OrdersKept
  <1>4. CASE UNCHANGED <<pc, op, ord>>
    <2>1. \A q \in Procs : Coherent(q)'
      BY <1>1, <1>4, Aside DEF GrantInv
    <2>. QED
      BY <1>1, <1>4, <2>1, OrdersKept DEF Types
  <1>. QED
    BY <1>2, <1>3, <1>4

LEMMA HandlerStep ==
  ASSUME GrantInv, NEW p \in Workers, Handler(p)
  PROVE  GrantInv'
  <1>. p \in Procs /\ Types /\ Coherent(p)
    BY DEF Procs, GrantInv
  <1>. USE DEF store, outside, local, jobs, history
  <1>0. ASSUME UNCHANGED grants
        PROVE  grants' \in [Serials -> Nat] /\ (\A sn \in Serials : grants'[sn] >= grants[sn])
    BY <1>0 DEF Types
  <1>1. ASSUME NEW b \in Buyers, NEW plan \in Plans, NEW bufpay \in BOOLEAN,
               CreateOrder(p, b, plan, bufpay)
        PROVE  GrantInv'
    BY <1>1, CreateStep
  <1>2. CASE InsertOrder(p)
    BY <1>2, InsertStep
  <1>3. CASE CreatePayment(p)
    <2>1. PICK place \in {"aoid", "show"} : Goto(p, place)
      BY <1>3 DEF CreatePayment
    <2>2. pc'[p] = place /\ op[p] = "create" /\ UNCHANGED <<orders, now, born, grants, op, ord>>
      BY <1>3, <2>1, GotoFrame DEF CreatePayment, Coherent, Routed, Places
    <2>. QED
      BY <1>0, <2>1, <2>2, GoOn, OrdersKept DEF Places, Routed
  <1>4. CASE SaveOrderAoid(p)
    BY <1>4, AoidStep
  <1>5. CASE ShowQr(p)
    BY <1>5, QuietStep DEF ShowQr
  <1>6. CASE PaymentUnusable(p)
    BY <1>6, QuietStep DEF PaymentUnusable, Holds
  <1>7. ASSUME NEW id \in DOMAIN orders,
               AdminApproves(p, id) \/ AdminRejects(p, id) \/ BuyerCancels(p, id)
        PROVE  GrantInv'
    BY <1>7, QuietStep DEF AdminApproves, AdminRejects, BuyerCancels
  <1>8. ASSUME NEW id \in DOMAIN orders, AdminRevokes(p, id) PROVE GrantInv'
    BY <1>8, QuietStep DEF AdminRevokes, Holds
  <1>9. ASSUME NEW id \in DOMAIN orders, BufPayNotify(p, id) PROVE GrantInv'
    BY <1>9, QuietStep DEF BufPayNotify
  <1>10. ASSUME NEW b \in Buyers, DeleteClient(p, b) PROVE GrantInv'
    <2>1. UNCHANGED <<orders, now, born, grants, ord>>
      BY <1>10 DEF DeleteClient
    <2>2. /\ pc' \in [Procs -> Places] /\ pc'[p] = "drop"
          /\ \A q \in Procs \ {p} : pc'[q] = pc[q]
      BY <1>10, GotoFrame DEF DeleteClient, Places
    <2>3. /\ op' \in [Procs -> Handlers] /\ op'[p] = "delete"
          /\ \A q \in Procs \ {p} : op'[q] = op[q]
      BY <1>10 DEF DeleteClient, Types, Handlers
    <2>4. Coherent(p)'
      BY <2>2, <2>3 DEF Coherent, Routed, Copied, Paid, Settling
    <2>5. \A q \in Procs \ {p} : Coherent(q)'
      BY <1>0, <2>1, <2>2, <2>3, Aside DEF GrantInv
    <2>. QED
      BY <1>0, <2>1, <2>2, <2>3, <2>4, <2>5, OrdersKept DEF Types
  <1>11. CASE DropClient(p)
    BY <1>11, QuietStep DEF DropClient
  <1>. QED
    BY <1>1, <1>2, <1>3, <1>4, <1>5, <1>6, <1>7, <1>8, <1>9, <1>10, <1>11 DEF Handler

LEMMA JobStep ==
  ASSUME GrantInv, NEW j \in Jobs, Job(j)
  PROVE  GrantInv'
  <1>. j \in Procs /\ Types /\ Coherent(j)
    BY DEF Procs, GrantInv
  <1>. USE DEF store, outside, local, jobs, history
  <1>0. ASSUME UNCHANGED grants
        PROVE  grants' \in [Serials -> Nat] /\ (\A sn \in Serials : grants'[sn] >= grants[sn])
    BY <1>0 DEF Types
  <1>1. ASSUME NEW place \in {"poll", "expire", "idle"}, Goto(j, place),
               UNCHANGED <<orders, now, born, grants, op, ord>>
        PROVE  GrantInv'
    <2>1. pc'[j] = place
      BY <1>1, GotoFrame DEF Places
    <2>. QED
      BY <1>0, <1>1, <2>1, GoOn, OrdersKept DEF Places, Routed
  <1>2. CASE StartJob(j)
    BY <1>1, <1>2 DEF StartJob
  <1>3. ASSUME NEW id \in 1..MaxOrders, Poll(j, id) PROVE GrantInv'
    <2>1. UNCHANGED <<orders, now, born, grants>>
      BY <1>3 DEF Poll
    <2>2. \/ Return(j)
          \/ Enter(j, "approve", id, "load") /\ id \in DOMAIN orders
          \/ Goto(j, "expire") /\ UNCHANGED <<op, ord>>
      BY <1>3 DEF Poll, Holds
    <2>. QED
      BY <1>1, <2>1, <2>2, QuietStep
  <1>4. CASE PollFails(j)
    BY <1>4, QuietStep DEF PollFails
  <1>5. CASE Expire(j)
    <2>1. PICK row : orders' = IF Holds(row.id, "pending")
                               THEN [orders EXCEPT ![row.id].status = "expired"] ELSE orders
      BY <1>5 DEF Expire
    <2>2. \A i \in DOMAIN orders : [orders[i] EXCEPT !.status = "expired"] \in Order
      BY DEF Types, Order, Status
    <2>3. /\ DOMAIN orders' = DOMAIN orders /\ orders' \in [DOMAIN orders' -> Order]
          /\ \A i \in DOMAIN orders :
                /\ orders'[i].sn = orders[i].sn
                /\ orders'[i].status = orders[i].status \/ orders'[i].status = "expired"
      BY <2>1, <2>2 DEF Types, Order
    <2>4. UNCHANGED <<now, born, grants>> /\ Return(j)
      BY <1>5 DEF Expire
    <2>5. /\ \A q \in Procs : Coherent(q)'
          /\ pc' \in [Procs -> Places] /\ op' \in [Procs -> Handlers]
          /\ ord' \in [Procs -> Order \cup {NoOrder}]
      BY <2>4, ReturnCoherent
    <2>. QED
      BY <2>3, <2>4, <2>5 DEF GrantInv, Types, ApprovedWasGranted
  <1>6. CASE EndRound(j)
    <2>1. UNCHANGED <<orders, now, born, grants, op, ord>>
      BY <1>6 DEF EndRound
    <2>2. CASE Goto(j, "idle")
      BY <1>1, <2>1, <2>2
    <2>3. CASE UNCHANGED pc
      BY <2>1, <2>3, QuietStep
    <2>. QED
      BY <1>6, <2>2, <2>3 DEF EndRound
  <1>. QED
    BY <1>2, <1>3, <1>4, <1>5, <1>6 DEF Job

LEMMA EnvironmentStep ==
  ASSUME GrantInv, Environment
  PROVE  GrantInv'
  <1>. Types
    BY DEF GrantInv
  <1>. USE DEF store, outside, local, jobs, history
  <1>1. UNCHANGED <<pc, op, ord, born, grants>> /\ now' \in Nat
    <2>1. CASE \E sn \in Serials : BuyerPays(sn)
      BY <2>1 DEF BuyerPays, Types
    <2>2. CASE \E emails \in SUBSET (DOMAIN rows \ {House}) : emails # {} /\ AddTraffic(emails)
      BY <2>2 DEF AddTraffic, Types
    <2>3. CASE ClearOrders
      BY <2>3 DEF ClearOrders, Types
    <2>4. CASE ToggleReady
      BY <2>4 DEF ToggleReady, Types
    <2>5. CASE Tick
      BY <2>5 DEF Tick, Types
    <2>. QED
      BY <2>1, <2>2, <2>3, <2>4, <2>5 DEF Environment
  <1>2. orders' = orders \/ orders' = << >>
    BY DEF Environment, BuyerPays, AddTraffic, ClearOrders, ToggleReady, Tick
  <1>3. orders' \in [DOMAIN orders' -> Order]
    <2>1. CASE orders' = orders
      BY <2>1 DEF Types
    <2>2. CASE orders' = << >>
      BY <2>2
    <2>. QED
      BY <1>2, <2>1, <2>2
  <1>4. \A q \in Procs : Coherent(q)'
    BY <1>1, Aside DEF GrantInv, Types
  <1>5. (\A i \in DOMAIN orders : orders[i].sn \in Serials)' /\ ApprovedWasGranted'
    BY <1>1, <1>2 DEF GrantInv, ApprovedWasGranted
  <1>. QED
    BY <1>1, <1>3, <1>4, <1>5 DEF GrantInv, Types

LEMMA GrantInit == Init => GrantInv
  <1>. SUFFICES ASSUME Init PROVE GrantInv
    OBVIOUS
  <1>1. Types
    <2>1. orders \in [DOMAIN orders -> Order]
      BY DEF Init
    <2>2. NoOrder \in Order \cup {NoOrder}
      OBVIOUS
    <2>3. pc \in [Procs -> Places] /\ op \in [Procs -> Handlers]
      BY DEF Init, Fresh, Places, Handlers
    <2>4. ord \in [Procs -> Order \cup {NoOrder}]
      <3>. HIDE DEF NoOrder
      <3>. QED
        BY <2>2 DEF Init, Fresh
    <2>. QED
      BY <2>1, <2>3, <2>4 DEF Init, Fresh, Types
  <1>2. \A p \in Procs : Coherent(p)
    BY DEF Init, Fresh, Coherent, Routed, Copied, Paid, Settling
  <1>. QED
    BY <1>1, <1>2 DEF Init, GrantInv, ApprovedWasGranted

LEMMA GrantNext == GrantInv /\ [Next]_vars => GrantInv'
  <1>. SUFFICES ASSUME GrantInv, [Next]_vars PROVE GrantInv'
    OBVIOUS
  <1>1. CASE UNCHANGED vars
    <2>1. UNCHANGED <<orders, now, born, grants, pc, op, ord>>
      BY <1>1 DEF vars, outside, local, history
    <2>2. PendJob \in Procs
      BY DEF Procs, Jobs
    <2>. QED
      BY <2>1, <2>2, QuietStep
  <1>. QED
    BY <1>1, HandlerStep, ApprovalStep, JobStep, EnvironmentStep DEF Next

\* However many handlers, jobs, failures, deletions and clearings overlap, an
\* order that says it was provisioned was: whoever saves "approved" or "revoked"
\* over the row comes from a committed grant of that order (ApproveOrder,
\* RevokeOrder and the whole-row Save in web/service/shop.go).
THEOREM ApprovedGranted == Spec => []ApprovedWasGranted
  <1>1. GrantInv => ApprovedWasGranted
    BY DEF GrantInv
  <1>. QED
    BY <1>1, GrantInit, GrantNext, PTL DEF Spec

-----------------------------------------------------------------------------
(***************************************************************************)
(* How often the quota of an order is granted.  The handlers that overlap  *)
(* are at most MaxActive, any number.                                      *)
(***************************************************************************)
(* The inductive invariant.                                                *)

Approving == {"load", "copy", "write", "dup", "copyAdd", "add", "save"}

\* The handlers that approve order sn: those whose grant is committed and who
\* have only the order row left to save, and those who have yet to grant.
Saving(sn) == {p \in Procs : op[p] = "approve" /\ ord[p].sn = sn /\ pc[p] = "save"}

Underway(sn) == {p \in Procs : op[p] = "approve" /\ ord[p].sn = sn /\ pc[p] # "save"}

\* Serial numbers are given out in order, and nothing is granted in advance.
Numbered ==
    /\ \A i \in DOMAIN orders : orders[i].sn <= born
    /\ \A p \in Procs : ord[p].sn <= born
    /\ \A sn \in Serials : sn > born => grants[sn] = 0

\* The row ids are reused, but an order has one for life: its row and every copy
\* of it agree on the id.
OneId ==
    /\ DOMAIN oid = Procs
    /\ \A i, k \in DOMAIN orders : orders[i].sn = orders[k].sn => i = k
    /\ \A i \in DOMAIN orders, p \in Procs : ord[p].sn = orders[i].sn => oid[p] = i
    /\ \A p, q \in Procs : ord[p].sn = ord[q].sn /\ ord[p].sn # 0 => oid[p] = oid[q]

\* No more handlers are under way than may overlap.
Crowd ==
    /\ IsFiniteSet(Active) /\ Cardinality(Active) <= MaxActive
    /\ \A p \in Procs : op[p] = "approve" => pc[p] \in Approving

Open(sn) == \E i \in DOMAIN orders : /\ orders[i].sn = sn
                                     /\ orders[i].status \in {"pending", "expired"}

\* What has been granted and what may still be is bounded by the handlers; and as
\* long as the row is open, every grant has a handler that is about to close it.
OwedAt(sn) ==
    sn \notin lost =>
        /\ grants[sn] + Cardinality(Underway(sn)) <= MaxActive
        /\ Open(sn) => grants[sn] <= Cardinality(Saving(sn))

BoundInv ==
    /\ GrantInv /\ Numbered /\ OneId /\ Crowd
    /\ \A sn \in Serials : OwedAt(sn)

\* A step of p leaves the other handlers where they are.
Only(p) ==
    \A q \in Procs \ {p} : /\ pc'[q] = pc[q] /\ op'[q] = op[q]
                           /\ ord'[q] = ord[q] /\ oid'[q] = oid[q]

-----------------------------------------------------------------------------
(* Counting.                                                               *)

\* The approvers of an order are among the active handlers.
LEMMA ApproversActive ==
  ASSUME Crowd, NEW sn
  PROVE  /\ Saving(sn) \subseteq Active /\ Underway(sn) \subseteq Active
         /\ IsFiniteSet(Saving(sn)) /\ IsFiniteSet(Underway(sn))
         /\ Cardinality(Saving(sn)) \in Nat /\ Cardinality(Underway(sn)) \in Nat
         /\ Cardinality(Saving(sn)) + Cardinality(Underway(sn)) <= Cardinality(Active)
  <1>1. Saving(sn) \subseteq Active /\ Underway(sn) \subseteq Active
    BY DEF Crowd, Saving, Underway, Active, Approving
  <1>2. IsFiniteSet(Saving(sn)) /\ IsFiniteSet(Underway(sn))
    BY <1>1, FS_Subset DEF Crowd
  <1>3. Cardinality(Saving(sn)) \in Nat /\ Cardinality(Underway(sn)) \in Nat
    BY <1>2, FS_CardinalityType
  <1>4. Saving(sn) \cap Underway(sn) = {}
    BY DEF Saving, Underway
  <1>5. Cardinality(Saving(sn) \cup Underway(sn))
          = Cardinality(Saving(sn)) + Cardinality(Underway(sn)) - Cardinality(Saving(sn) \cap Underway(sn))
    BY <1>2, FS_Union
  <1>6. Cardinality(Saving(sn) \cap Underway(sn)) = 0
    BY <1>4, FS_EmptySet
  <1>7. Cardinality(Saving(sn) \cup Underway(sn)) <= Cardinality(Active)
    BY <1>1, FS_Subset DEF Crowd
  <1>. QED
    BY <1>1, <1>2, <1>3, <1>5, <1>6, <1>7

\* A handler that goes on was active, or found room.
LEMMA CrowdStep ==
  ASSUME Crowd, NEW p \in Procs, Only(p), pc[p] # "idle" \/ CanStart(p),
         op'[p] = "approve" => pc'[p] \in Approving
  PROVE  Crowd'
  <1>. MaxActive \in Nat
    BY ShopAssumption
  <1>. IsFiniteSet(Active) /\ Cardinality(Active) \in Nat /\ Cardinality(Active) <= MaxActive
    BY FS_CardinalityType DEF Crowd
  <1>1. Active' \subseteq Active \cup {p}
    BY DEF Only, Active
  <1>2. PICK S : /\ IsFiniteSet(S) /\ Active' \subseteq S /\ Cardinality(S) <= MaxActive
                 /\ Cardinality(S) \in Nat
    <2>1. CASE pc[p] # "idle"
      <3>1. p \in Active
        BY <2>1 DEF Active
      <3>. QED
        BY <1>1, <3>1
    <2>2. CASE CanStart(p)
      <3>1. p \notin Active /\ Cardinality(Active) < MaxActive
        BY <2>2 DEF CanStart, Active
      <3>2. /\ IsFiniteSet(Active \cup {p})
            /\ Cardinality(Active \cup {p}) = Cardinality(Active) + 1
        BY <3>1, FS_AddElement
      <3>. QED
        BY <1>1, <3>1, <3>2
    <2>. QED
      BY <2>1, <2>2
  <1>3. IsFiniteSet(Active') /\ Cardinality(Active') <= Cardinality(S)
    BY <1>2, FS_Subset
  <1>4. Cardinality(Active') \in Nat
    BY <1>3, FS_CardinalityType
  <1>5. IsFiniteSet(Active)' /\ (Cardinality(Active) <= MaxActive)'
    BY <1>2, <1>3, <1>4
  <1>6. (\A q \in Procs : op[q] = "approve" => pc[q] \in Approving)'
    BY DEF Crowd, Only
  <1>. QED
    BY <1>5, <1>6 DEF Crowd

\* An order of which no more is granted or under way than before, and whose row
\* did not reopen.
LEMMA StandStill ==
  ASSUME GrantInv, Crowd, Crowd', NEW sn \in Serials, OwedAt(sn),
         grants'[sn] = grants[sn], sn \in lost => sn \in lost',
         Open(sn)' => Open(sn),
         Saving(sn) \subseteq Saving(sn)', Underway(sn)' \subseteq Underway(sn)
  PROVE  OwedAt(sn)'
  <1>1. grants[sn] \in Nat
    BY DEF GrantInv, Types
  <1>2. /\ Cardinality(Saving(sn)) \in Nat /\ Cardinality(Underway(sn)) \in Nat
        /\ IsFiniteSet(Underway(sn))
    BY ApproversActive
  <1>3. /\ IsFiniteSet(Saving(sn)') /\ Cardinality(Saving(sn)') \in Nat
        /\ Cardinality(Underway(sn)') \in Nat
    <2>1. IsFiniteSet(Active') /\ Saving(sn)' \subseteq Active' /\ Underway(sn)' \subseteq Active'
      BY DEF Crowd, Saving, Underway, Active, Approving
    <2>. QED
      BY <2>1, FS_Subset, FS_CardinalityType
  <1>4. Cardinality(Saving(sn)) <= Cardinality(Saving(sn)')
    BY <1>3, FS_Subset
  <1>5. Cardinality(Underway(sn)') <= Cardinality(Underway(sn))
    BY <1>2, FS_Subset
  <1>. MaxActive \in Nat
    BY ShopAssumption
  <1>. QED
    BY <1>1, <1>2, <1>3, <1>4, <1>5 DEF OwedAt

-----------------------------------------------------------------------------
(* Names.                                                                  *)

\* A handler lets go of its order, keeps it, or has read a row; and every row is
\* an old one or a copy of one that was written back.
LEMMA NamesStep ==
  ASSUME GrantInv, GrantInv', Numbered, OneId, NEW p \in Procs, Only(p), UNCHANGED born,
         DOMAIN oid' = Procs,
         \/ ord'[p].sn = 0
         \/ ord'[p].sn = ord[p].sn /\ oid'[p] = oid[p]
         \/ \E id \in DOMAIN orders : ord'[p] = orders[id] /\ oid'[p] = id,
         \A i \in DOMAIN orders' :
            \/ i \in DOMAIN orders /\ orders'[i].sn = orders[i].sn
            \/ i = oid[p] /\ orders'[i].sn = ord[p].sn,
         \A sn \in Serials : grants'[sn] # grants[sn] => sn <= born
  PROVE  Numbered' /\ OneId'
  <1>. /\ born \in Nat
       /\ \A i \in DOMAIN orders : orders[i].sn \in Serials /\ orders[i].sn # 0
       /\ \A i \in DOMAIN orders' : orders'[i].sn \in Serials /\ orders'[i].sn # 0
    BY ShopAssumption DEF GrantInv, Types, Serials
  <1>1. \A i \in DOMAIN orders' : orders'[i].sn <= born
    BY DEF Numbered
  <1>2. \A q \in Procs : ord'[q].sn <= born
    BY DEF Numbered, Only
  <1>3. \A i, k \in DOMAIN orders' : orders'[i].sn = orders'[k].sn => i = k
    BY DEF OneId
  <1>4. \A i \in DOMAIN orders', q \in Procs : ord'[q].sn = orders'[i].sn => oid'[q] = i
    BY DEF OneId, Only
  <1>5. \A q, r \in Procs : ord'[q].sn = ord'[r].sn /\ ord'[q].sn # 0 => oid'[q] = oid'[r]
    BY DEF OneId, Only
  <1>6. \A sn \in Serials : sn > born => grants'[sn] = 0
    BY ShopAssumption DEF Numbered, Serials
  <1>. QED
    BY <1>1, <1>2, <1>3, <1>4, <1>5, <1>6 DEF Numbered, OneId

\* What GotoFrame, EnterFrame and ReturnFrame say of the id as well.
LEMMA GotoOnly ==
  ASSUME GrantInv, OneId, NEW p \in Procs, NEW place \in Places, Goto(p, place),
         UNCHANGED <<op, oid, ord>>
  PROVE  Only(p) /\ pc'[p] = place /\ DOMAIN oid' = Procs
  BY GotoFrame DEF GrantInv, OneId, Only

LEMMA EnterOnly ==
  ASSUME GrantInv, OneId, NEW p \in Procs, NEW handler \in Handlers, NEW place \in Places,
         NEW id \in DOMAIN orders, Enter(p, handler, id, place)
  PROVE  /\ Only(p) /\ DOMAIN oid' = Procs
         /\ pc'[p] = place /\ op'[p] = handler /\ ord'[p] = orders[id] /\ oid'[p] = id
  <1>1. /\ pc'[p] = place /\ op'[p] = handler /\ ord'[p] = orders[id]
        /\ \A q \in Procs \ {p} : pc'[q] = pc[q] /\ op'[q] = op[q] /\ ord'[q] = ord[q]
    BY EnterFrame DEF GrantInv
  <1>2. oid' = [oid EXCEPT ![p] = id]
    BY DEF Enter
  <1>3. DOMAIN oid' = Procs /\ oid'[p] = id /\ (\A q \in Procs \ {p} : oid'[q] = oid[q])
    BY <1>2 DEF OneId
  <1>. QED
    BY <1>1, <1>3 DEF Only

LEMMA ReturnOnly ==
  ASSUME GrantInv, OneId, NEW p \in Procs, Return(p)
  PROVE  /\ Only(p) /\ DOMAIN oid' = Procs
         /\ pc'[p] \in {"idle", "poll"} /\ op'[p] = "none" /\ ord'[p].sn = 0
  <1>1. ord'[p] = NoOrder
    BY DEF GrantInv, Types, Return
  <1>. QED
    BY <1>1, ReturnFrame DEF GrantInv, OneId, Only, Return, NoOrder

-----------------------------------------------------------------------------
(* The kinds of steps.                                                     *)

\* A step that grants nothing and starts no approval: a handler that goes on with
\* its order, enters another handler or returns.  A Save that fails after a grant
\* marks its order as lost.
LEMMA QuietBound ==
  ASSUME BoundInv, GrantInv', NEW p \in Procs, Only(p), UNCHANGED <<born, grants>>,
         pc[p] # "idle" \/ CanStart(p), DOMAIN oid' = Procs, lost \subseteq lost',
         \/ ord'[p].sn = 0
         \/ ord'[p].sn = ord[p].sn /\ oid'[p] = oid[p]
         \/ \E id \in DOMAIN orders : ord'[p] = orders[id] /\ oid'[p] = id,
         \A i \in DOMAIN orders' :
            /\ i \in DOMAIN orders /\ orders'[i].sn = orders[i].sn
            /\ orders'[i].status \in {"pending", "expired"}
                 => orders[i].status \in {"pending", "expired"},
         op[p] = "approve" /\ pc[p] = "save" => ord[p].sn \in lost',
         op'[p] = "approve" =>
            /\ op[p] = "approve" /\ ord'[p].sn = ord[p].sn
            /\ pc[p] # "save" /\ pc'[p] \in Approving \ {"save"}
  PROVE  BoundInv'
  <1>. GrantInv /\ Numbered /\ OneId /\ Crowd
    BY DEF BoundInv
  <1>1. Numbered' /\ OneId'
    BY NamesStep
  <1>2. Crowd'
    BY CrowdStep
  <1>3. ASSUME NEW sn \in Serials PROVE OwedAt(sn)'
    <2>1. CASE sn \in lost'
      BY <2>1 DEF OwedAt
    <2>2. CASE sn \notin lost'
      <3>1. OwedAt(sn) /\ grants'[sn] = grants[sn]
        BY DEF BoundInv
      <3>2. Open(sn)' => Open(sn)
        BY DEF Open
      <3>3. Saving(sn) \subseteq Saving(sn)'
        BY <2>2 DEF Only, Saving
      <3>4. Underway(sn)' \subseteq Underway(sn)
        BY DEF Only, Underway
      <3>. QED
        BY <1>2, <2>2, <3>1, <3>2, <3>3, <3>4, StandStill
    <2>. QED
      BY <2>1, <2>2
  <1>. QED
    BY <1>1, <1>2, <1>3 DEF BoundInv

\* An approval begins: the row is pending, so all that was granted has a handler
\* about to save, and this handler is one more of those that overlap.
LEMMA ApproveBound ==
  ASSUME BoundInv, GrantInv', NEW p \in Procs, NEW id \in DOMAIN orders,
         Enter(p, "approve", id, "load"), orders[id].status = "pending",
         pc[p] # "idle" \/ CanStart(p), op[p] # "approve",
         UNCHANGED <<orders, born, grants, lost>>
  PROVE  BoundInv'
  <1>. GrantInv /\ Numbered /\ OneId /\ Crowd
    BY DEF BoundInv
  <1>1. /\ Only(p) /\ DOMAIN oid' = Procs
        /\ pc'[p] = "load" /\ op'[p] = "approve" /\ ord'[p] = orders[id] /\ oid'[p] = id
    BY EnterOnly DEF Handlers, Places
  <1>2. Numbered' /\ OneId'
    BY <1>1, NamesStep
  <1>3. Crowd'
    BY <1>1, CrowdStep DEF Approving
  <1>4. ASSUME NEW sn \in Serials PROVE OwedAt(sn)'
    <2>1. OwedAt(sn) /\ Saving(sn)' = Saving(sn)
      BY <1>1 DEF BoundInv, Only, Saving
    <2>2. CASE sn # orders[id].sn
      <3>1. Underway(sn)' = Underway(sn)
        BY <1>1, <2>2 DEF Only, Underway
      <3>. QED
        BY <1>3, <2>1, <3>1, StandStill DEF Open
    <2>3. CASE sn = orders[id].sn /\ sn \notin lost
      <3>1. Open(sn)
        BY <2>3 DEF Open
      <3>2. grants[sn] \in Nat /\ grants[sn] <= Cardinality(Saving(sn))
        BY <2>1, <2>3, <3>1 DEF OwedAt, GrantInv, Types
      <3>3. IsFiniteSet(Active') /\ Saving(sn)' \subseteq Active' /\ Underway(sn)' \subseteq Active'
        BY <1>3 DEF Crowd, Saving, Underway, Active, Approving
      <3>4. IsFiniteSet(Saving(sn)') /\ IsFiniteSet(Underway(sn)')
        BY <3>3, FS_Subset
      <3>5. /\ Cardinality(Saving(sn)') \in Nat /\ Cardinality(Underway(sn)') \in Nat
            /\ Cardinality(Active') \in Nat
        BY <3>3, <3>4, FS_CardinalityType
      <3>6. Cardinality(Saving(sn)' \cap Underway(sn)') = 0
        <4>1. Saving(sn)' \cap Underway(sn)' = {}
          BY DEF Saving, Underway
        <4>. QED
          BY <4>1, FS_EmptySet
      <3>7. Cardinality(Saving(sn)' \cup Underway(sn)')
              = Cardinality(Saving(sn)') + Cardinality(Underway(sn)')
        <4>1. Cardinality(Saving(sn)' \cup Underway(sn)')
                = Cardinality(Saving(sn)') + Cardinality(Underway(sn)')
                  - Cardinality(Saving(sn)' \cap Underway(sn)')
          BY <3>4, FS_Union
        <4>. QED
          BY <3>5, <3>6, <4>1
      <3>8. Cardinality(Saving(sn)' \cup Underway(sn)') <= Cardinality(Active')
        BY <3>3, FS_Subset
      <3>9. Cardinality(Active') <= MaxActive
        BY <1>3 DEF Crowd
      <3>. MaxActive \in Nat
        BY ShopAssumption
      <3>. QED
        BY <2>1, <3>2, <3>5, <3>7, <3>8, <3>9 DEF OwedAt
    <2>4. CASE sn \in lost
      BY <2>4 DEF OwedAt
    <2>. QED
      BY <2>2, <2>3, <2>4
  <1>. QED
    BY <1>2, <1>3, <1>4 DEF BoundInv

\* The grant: one approver moves from those under way to those about to save.
LEMMA GrantBound ==
  ASSUME BoundInv, GrantInv', NEW p \in Procs, op[p] = "approve", pc[p] \in {"write", "add"},
         Goto(p, "save"), grants' = Granted(p), UNCHANGED <<orders, born, lost, op, oid, ord>>
  PROVE  BoundInv'
  <1>. DEFINE own == ord[p].sn
  <1>. GrantInv /\ Numbered /\ OneId /\ Crowd
    BY DEF BoundInv
  <1>1. Only(p) /\ pc'[p] = "save" /\ DOMAIN oid' = Procs
    BY GotoOnly DEF Places
  <1>2. own \in Serials /\ own <= born
    BY DEF GrantInv, Coherent, Copied, Settling, Numbered
  <1>3. /\ grants'[own] = grants[own] + 1
        /\ \A sn \in Serials \ {own} : grants'[sn] = grants[sn]
    BY <1>2 DEF Granted, GrantInv, Types
  <1>4. Numbered' /\ OneId'
    BY <1>1, <1>2, <1>3, NamesStep
  <1>5. Crowd'
    BY <1>1, CrowdStep DEF Approving
  <1>6. ASSUME NEW sn \in Serials PROVE OwedAt(sn)'
    <2>1. OwedAt(sn) /\ (Open(sn)' <=> Open(sn))
      BY DEF BoundInv, Open
    <2>2. CASE sn # own
      <3>1. Saving(sn)' = Saving(sn) /\ Underway(sn)' = Underway(sn)
        BY <1>1, <2>2 DEF Only, Saving, Underway
      <3>. QED
        BY <1>3, <1>5, <2>1, <2>2, <3>1, StandStill
    <2>3. CASE sn = own
      <3>1. /\ p \in Underway(sn) /\ Underway(sn)' = Underway(sn) \ {p}
            /\ p \notin Saving(sn) /\ Saving(sn)' = Saving(sn) \cup {p}
        BY <1>1, <2>3 DEF Only, Saving, Underway
      <3>2. /\ IsFiniteSet(Saving(sn)) /\ IsFiniteSet(Underway(sn))
            /\ Cardinality(Saving(sn)) \in Nat /\ Cardinality(Underway(sn)) \in Nat
        BY ApproversActive
      <3>3. Cardinality(Saving(sn)') = Cardinality(Saving(sn)) + 1
        BY <3>1, <3>2, FS_AddElement
      <3>4. Cardinality(Underway(sn)') = Cardinality(Underway(sn)) - 1
        BY <3>1, <3>2, FS_RemoveElement
      <3>5. grants[sn] \in Nat /\ MaxActive \in Nat
        BY ShopAssumption DEF GrantInv, Types
      <3>. QED
        BY <1>3, <2>1, <2>3, <3>2, <3>3, <3>4, <3>5 DEF OwedAt
    <2>. QED
      BY <2>2, <2>3
  <1>. QED
    BY <1>4, <1>5, <1>6 DEF BoundInv

\* The final Save closes the row, so that no approval of it begins any more.
LEMMA SaveBound ==
  ASSUME BoundInv, GrantInv', NEW p \in Procs, SaveOrder(p)
  PROVE  BoundInv'
  <1>. DEFINE row == Closed(ord[p], op[p])
  <1>. GrantInv /\ Numbered /\ OneId /\ Crowd
    BY DEF BoundInv
  <1>1. op[p] \in Settling /\ ord[p] \in Order /\ ord[p].sn \in Serials
    BY DEF SaveOrder, GrantInv, Coherent, Routed, Copied
  <1>2. row \in Order /\ row.sn = ord[p].sn /\ row.status \notin {"pending", "expired"}
    BY <1>1 DEF Closed, Settling, Order, Status
  <1>3. Return(p) /\ pc[p] = "save" /\ UNCHANGED <<born, grants, lost>>
    BY DEF SaveOrder, history
  <1>4. /\ Only(p) /\ DOMAIN oid' = Procs
        /\ op'[p] = "none" /\ ord'[p].sn = 0
    BY <1>3, ReturnOnly
  <1>5. /\ DOMAIN orders' = DOMAIN orders \cup {oid[p]}
        /\ orders'[oid[p]] = row
        /\ \A i \in DOMAIN orders \ {oid[p]} : orders'[i] = orders[i]
    <2>. HIDE DEF row
    <2>1. /\ DOMAIN Put(oid[p], row) = DOMAIN orders \cup {oid[p]}
          /\ Put(oid[p], row)[oid[p]] = row
          /\ \A i \in DOMAIN orders \ {oid[p]} : Put(oid[p], row)[i] = orders[i]
      BY <1>2, PutType DEF GrantInv
    <2>2. orders' = Put(oid[p], row)
      BY DEF SaveOrder, row
    <2>. QED
      BY <2>1, <2>2
  <1>. HIDE DEF row
  <1>6. Numbered' /\ OneId'
    BY <1>2, <1>3, <1>4, <1>5, NamesStep
  <1>7. Crowd'
    BY <1>3, <1>4, CrowdStep
  <1>8. ASSUME NEW sn \in Serials PROVE OwedAt(sn)'
    <2>1. OwedAt(sn) /\ Underway(sn)' = Underway(sn)
      BY <1>3, <1>4 DEF BoundInv, Only, Underway
    <2>2. CASE sn # ord[p].sn
      <3>1. Saving(sn)' = Saving(sn)
        BY <1>4, <2>2 DEF Only, Saving
      <3>2. Open(sn)' => Open(sn)
        BY <1>2, <1>5, <2>2 DEF Open
      <3>. QED
        BY <1>3, <1>7, <2>1, <3>1, <3>2, StandStill
    <2>3. CASE sn = ord[p].sn
      <3>1. ~Open(sn)'
        BY <1>2, <1>5, <2>3 DEF Open, OneId
      <3>. QED
        BY <1>3, <2>1, <3>1 DEF OwedAt
    <2>. QED
      BY <2>2, <2>3
  <1>. QED
    BY <1>6, <1>7, <1>8 DEF BoundInv

\* A new order has a number nobody has yet.
LEMMA InsertBound ==
  ASSUME BoundInv, GrantInv', NEW p \in Procs, InsertOrder(p)
  PROVE  BoundInv'
  <1>. DEFINE row == [ord[p] EXCEPT !.sn = born + 1]
  <1>. GrantInv /\ Numbered /\ OneId /\ Crowd
    BY DEF BoundInv
  <1>1. op[p] = "create" /\ ord[p] \in Order /\ pc[p] = "insert"
    BY DEF InsertOrder, GrantInv, Coherent, Routed, Copied
  <1>. born \in Nat /\ MaxOrders \in Nat /\ born < MaxOrders /\ born' = born + 1
    BY ShopAssumption DEF GrantInv, Types, InsertOrder
  <1>2. born + 1 \in Serials /\ row \in Order /\ row.sn = born + 1
    BY <1>1 DEF Order, Serials
  <1>3. /\ DOMAIN orders' = DOMAIN orders \cup {NextId}
        /\ orders'[NextId] = row
        /\ \A i \in DOMAIN orders \ {NextId} : orders'[i] = orders[i]
    <2>. HIDE DEF row
    <2>1. /\ DOMAIN Put(NextId, row) = DOMAIN orders \cup {NextId}
          /\ Put(NextId, row)[NextId] = row
          /\ \A i \in DOMAIN orders \ {NextId} : Put(NextId, row)[i] = orders[i]
      BY <1>2, PutType DEF GrantInv
    <2>2. orders' = Put(NextId, row)
      BY DEF InsertOrder, row
    <2>. QED
      BY <2>1, <2>2
  <1>4. /\ Only(p) /\ DOMAIN oid' = Procs /\ op'[p] # "approve"
        /\ ord'[p].sn = 0 \/ (ord'[p].sn = born + 1 /\ oid'[p] = NextId)
    <2>1. CASE Return(p)
      BY <2>1, ReturnOnly
    <2>2. CASE /\ Goto(p, "pay") /\ op' = op
               /\ oid' = [oid EXCEPT ![p] = NextId] /\ ord' = [ord EXCEPT ![p] = row]
      <3>. HIDE DEF row
      <3>1. ord'[p] = row /\ (\A q \in Procs \ {p} : ord'[q] = ord[q])
        BY <2>2 DEF GrantInv, Types
      <3>2. DOMAIN oid' = Procs /\ oid'[p] = NextId /\ (\A q \in Procs \ {p} : oid'[q] = oid[q])
        BY <2>2 DEF OneId
      <3>3. \A q \in Procs \ {p} : pc'[q] = pc[q]
        BY <2>2, GotoFrame DEF GrantInv, Places
      <3>. QED
        BY <1>1, <1>2, <2>2, <3>1, <3>2, <3>3 DEF Only
    <2>. QED
      BY <2>1, <2>2 DEF InsertOrder
  <1>5. UNCHANGED <<grants, lost>>
    BY DEF InsertOrder
  <1>. HIDE DEF row
  <1>6. \A i \in DOMAIN orders : orders[i].sn \in Serials /\ orders[i].sn <= born
    BY DEF GrantInv, Numbered
  <1>7. \A q \in Procs : ord[q].sn <= born
    BY DEF Numbered
  <1>8. Numbered'
    <2>1. \A i \in DOMAIN orders' : orders'[i].sn <= born + 1
      BY <1>2, <1>3, <1>6 DEF Serials
    <2>2. \A q \in Procs : ord'[q].sn <= born + 1
      <3>1. \A q \in Procs : ord[q] \in Order \cup {NoOrder}
        BY DEF GrantInv, Types
      <3>2. \A q \in Procs : ord[q].sn \in Int
        BY <3>1 DEF Order, NoOrder
      <3>. QED
        BY <1>4, <1>7, <3>2 DEF Only
    <2>3. \A sn \in Serials : sn > born + 1 => grants'[sn] = 0
      BY <1>5 DEF Numbered, Serials
    <2>. QED
      BY <2>1, <2>2, <2>3 DEF Numbered
  <1>9. OneId'
    <2>1. \A i \in DOMAIN orders : orders[i].sn # born + 1 /\ orders[i].sn # 0
      BY <1>6 DEF Serials
    <2>2. \A q \in Procs : ord[q].sn # born + 1
      BY <1>7
    <2>3. \A i, k \in DOMAIN orders' : orders'[i].sn = orders'[k].sn => i = k
      BY <1>2, <1>3, <2>1 DEF OneId
    <2>4. \A i \in DOMAIN orders', q \in Procs : ord'[q].sn = orders'[i].sn => oid'[q] = i
      BY <1>2, <1>3, <1>4, <2>1, <2>2 DEF OneId, Only
    <2>5. \A q, r \in Procs : ord'[q].sn = ord'[r].sn /\ ord'[q].sn # 0 => oid'[q] = oid'[r]
      BY <1>4, <2>2 DEF OneId, Only
    <2>. QED
      BY <1>4, <2>3, <2>4, <2>5 DEF OneId
  <1>10. Crowd'
    BY <1>1, <1>4, CrowdStep
  <1>11. ASSUME NEW sn \in Serials PROVE OwedAt(sn)'
    <2>1. OwedAt(sn) /\ Saving(sn)' = Saving(sn) /\ Underway(sn)' = Underway(sn)
      BY <1>1, <1>4 DEF BoundInv, Only, Saving, Underway
    <2>2. CASE sn # born + 1
      <3>1. Open(sn)' => Open(sn)
        BY <1>2, <1>3, <2>2 DEF Open
      <3>. QED
        BY <1>5, <1>10, <2>1, <3>1, StandStill
    <2>3. CASE sn = born + 1
      <3>1. grants[sn] = 0
        BY <2>3 DEF Numbered
      <3>2. Cardinality(Saving(sn)) \in Nat
        BY ApproversActive
      <3>. QED
        BY <1>5, <2>1, <3>1, <3>2 DEF OwedAt
    <2>. QED
      BY <2>2, <2>3
  <1>. QED
    BY <1>8, <1>9, <1>10, <1>11 DEF BoundInv

-----------------------------------------------------------------------------
(* The kinds of steps, in the form the actions take.                       *)

\* Orders stay as they are and a handler goes on, but not to a Save that would
\* need a grant.
LEMMA GoOnBound ==
  ASSUME BoundInv, GrantInv', NEW p \in Procs, NEW place \in Places, Goto(p, place),
         UNCHANGED <<orders, born, grants, lost, op, oid, ord>>,
         pc[p] # "idle" \/ CanStart(p),
         op[p] = "approve" => pc[p] # "save" /\ place \in Approving \ {"save"}
  PROVE  BoundInv'
  <1>1. Only(p) /\ pc'[p] = place /\ DOMAIN oid' = Procs
    BY GotoOnly DEF BoundInv
  <1>. QED
    BY <1>1, QuietBound

\* A handler that is not about to close its order returns.
LEMMA ReturnBound ==
  ASSUME BoundInv, GrantInv', NEW p \in Procs, Return(p),
         UNCHANGED <<orders, born, grants>>, lost \subseteq lost', pc[p] # "idle",
         op[p] = "approve" /\ pc[p] = "save" => ord[p].sn \in lost'
  PROVE  BoundInv'
  <1>1. /\ Only(p) /\ DOMAIN oid' = Procs
        /\ op'[p] = "none" /\ ord'[p].sn = 0
    BY ReturnOnly DEF BoundInv
  <1>. QED
    BY <1>1, QuietBound

\* A handler that is not an approval enters one that is not an approval.
LEMMA EnterBound ==
  ASSUME BoundInv, GrantInv', NEW p \in Procs, NEW handler \in {"reject", "cancel", "revoke"},
         NEW place \in Places, NEW id \in DOMAIN orders, Enter(p, handler, id, place),
         UNCHANGED <<orders, born, grants, lost>>,
         pc[p] # "idle" \/ CanStart(p), op[p] # "approve"
  PROVE  BoundInv'
  <1>1. /\ Only(p) /\ DOMAIN oid' = Procs
        /\ op'[p] = handler /\ ord'[p] = orders[id] /\ oid'[p] = id
    BY EnterOnly DEF BoundInv, Handlers
  <1>. QED
    BY <1>1, QuietBound

LEMMA ApprovalBound ==
  ASSUME BoundInv, GrantInv', NEW p \in Procs, Approval(p)
  PROVE  BoundInv'
  <1>. GrantInv /\ Coherent(p)
    BY DEF BoundInv, GrantInv
  <1>. USE DEF store, outside, local, jobs, history
  <1>1. CASE LoadClient(p)
    <2>1. PICK place \in {"copy", "dup", "save"} :
             Goto(p, place) /\ (place = "save" => op[p] # "approve")
      BY <1>1 DEF LoadClient
    <2>. QED
      BY <1>1, <2>1, GoOnBound DEF LoadClient, Places, Approving
  <1>2. ASSUME UpdateFailed(p), pc[p] \in {"copy", "write"}, UNCHANGED <<orders, born, grants, lost>>
        PROVE  BoundInv'
    <2>1. CASE Return(p)
      BY <1>2, <2>1, ReturnBound
    <2>2. CASE Goto(p, "dup") /\ UNCHANGED <<op, oid, ord>>
      BY <1>2, <2>2, GoOnBound DEF Places, Approving
    <2>. QED
      BY <1>2, <2>1, <2>2 DEF UpdateFailed
  <1>3. CASE CopyForUpdate(p)
    <2>1. CASE UpdateFailed(p)
      BY <1>2, <1>3, <2>1 DEF CopyForUpdate
    <2>2. CASE Goto(p, "write") /\ UNCHANGED <<op, oid, ord>>
      BY <1>3, <2>2, GoOnBound DEF CopyForUpdate, Places, Approving
    <2>. QED
      BY <1>3, <2>1, <2>2 DEF CopyForUpdate
  <1>4. ASSUME pc[p] \in {"write", "add"}, Goto(p, "save"), grants' = Granted(p),
               UNCHANGED <<orders, born, lost, op, oid, ord>>
        PROVE  BoundInv'
    <2>1. CASE op[p] = "approve"
      BY <1>4, <2>1, GrantBound
    <2>2. CASE op[p] # "approve"
      <3>1. grants' = grants
        BY <1>4, <2>2 DEF Granted
      <3>. QED
        BY <1>4, <2>2, <3>1, GoOnBound DEF Places
    <2>. QED
      BY <2>1, <2>2
  <1>5. CASE WriteClient(p)
    BY <1>4, <1>5 DEF WriteClient
  <1>6. CASE CheckDuplicate(p)
    <2>1. CASE Return(p)
      BY <1>6, <2>1, ReturnBound DEF CheckDuplicate
    <2>2. CASE Goto(p, "copyAdd") /\ UNCHANGED <<op, oid, ord>>
      BY <1>6, <2>2, GoOnBound DEF CheckDuplicate, Places, Approving
    <2>. QED
      BY <1>6, <2>1, <2>2 DEF CheckDuplicate
  <1>7. CASE CopyForAdd(p)
    BY <1>7, GoOnBound DEF CopyForAdd, Places, Approving
  <1>8. CASE AddClient(p)
    BY <1>4, <1>8 DEF AddClient
  <1>9. CASE DbFails(p)
    <2>1. CASE pc[p] = "write"
      BY <1>2, <1>9, <2>1 DEF DbFails
    <2>2. CASE pc[p] = "add"
      BY <1>9, <2>2, ReturnBound DEF DbFails
    <2>. QED
      BY <1>9, <2>1, <2>2 DEF DbFails
  <1>10. CASE SaveOrder(p)
    BY <1>10, SaveBound
  <1>11. CASE SaveFails(p)
    BY <1>11, ReturnBound DEF SaveFails
  <1>. QED
    BY <1>1, <1>3, <1>5, <1>6, <1>7, <1>8, <1>9, <1>10, <1>11 DEF Approval

LEMMA HandlerBound ==
  ASSUME BoundInv, GrantInv', NEW p \in Workers, Handler(p)
  PROVE  BoundInv'
  <1>. p \in Procs /\ GrantInv /\ OneId /\ Coherent(p)
    BY DEF Procs, BoundInv, GrantInv
  <1>. USE DEF store, outside, local, jobs, history
  <1>0. pc[p] \in {"idle", "pay", "show", "drop", "insert"} => op[p] # "approve"
    BY DEF BoundInv, Crowd, Approving
  <1>1. ASSUME NEW b \in Buyers, NEW plan \in Plans, NEW bufpay \in BOOLEAN,
               CreateOrder(p, b, plan, bufpay)
        PROVE  BoundInv'
    <2>1. \A q \in Procs \ {p} : pc'[q] = pc[q]
      BY <1>1, GotoFrame DEF CreateOrder, GrantInv, Places
    <2>2. op'[p] = "create" /\ (\A q \in Procs \ {p} : op'[q] = op[q])
      BY <1>1 DEF CreateOrder, GrantInv, Types
    <2>3. ord'[p].sn = 0 /\ (\A q \in Procs \ {p} : ord'[q] = ord[q])
      BY <1>1 DEF CreateOrder, GrantInv, Types
    <2>4. UNCHANGED <<orders, oid, born, grants, lost>> /\ CanStart(p)
      BY <1>1 DEF CreateOrder
    <2>. QED
      BY <1>0, <2>1, <2>2, <2>3, <2>4, QuietBound DEF Only, OneId, CanStart
  <1>2. CASE InsertOrder(p)
    BY <1>2, InsertBound
  <1>3. CASE CreatePayment(p)
    <2>1. PICK place \in {"aoid", "show"} : Goto(p, place)
      BY <1>3 DEF CreatePayment
    <2>. QED
      BY <1>0, <1>3, <2>1, GoOnBound DEF CreatePayment, Places
  <1>4. CASE SaveOrderAoid(p)
    <2>1. Only(p) /\ DOMAIN oid' = Procs
      BY <1>4, GotoOnly DEF SaveOrderAoid, Places
    <2>2. \A i \in DOMAIN orders' : /\ i \in DOMAIN orders /\ orders'[i].sn = orders[i].sn
                                    /\ orders'[i].status = orders[i].status
      BY <1>4 DEF SaveOrderAoid, GrantInv, Types, Order
    <2>3. op[p] = "create" /\ pc[p] # "idle" /\ UNCHANGED <<op, oid, ord, born, grants, lost>>
      BY <1>4 DEF SaveOrderAoid, Coherent, Routed
    <2>. QED
      BY <2>1, <2>2, <2>3, QuietBound
  <1>5. CASE ShowQr(p)
    BY <1>0, <1>5, ReturnBound DEF ShowQr
  <1>6. CASE PaymentUnusable(p)
    <2>1. CASE Return(p)
      BY <1>0, <1>6, <2>1, ReturnBound DEF PaymentUnusable
    <2>2. CASE Enter(p, "cancel", oid[p], "save") /\ Holds(oid[p], "pending")
      BY <1>0, <1>6, <2>2, EnterBound DEF PaymentUnusable, Holds, Places
    <2>. QED
      BY <1>6, <2>1, <2>2 DEF PaymentUnusable
  <1>7. ASSUME NEW id \in DOMAIN orders,
               AdminApproves(p, id) \/ AdminRejects(p, id) \/ BuyerCancels(p, id) \/ AdminRevokes(p, id)
        PROVE  BoundInv'
    <2>1. CASE AdminApproves(p, id)
      BY <1>0, <2>1, ApproveBound DEF AdminApproves, Holds, CanStart
    <2>2. CASE AdminRejects(p, id) \/ BuyerCancels(p, id) \/ AdminRevokes(p, id)
      <3>1. PICK handler \in {"reject", "cancel", "revoke"}, place \in Places :
               Enter(p, handler, id, place)
        BY <2>2 DEF AdminRejects, BuyerCancels, AdminRevokes, Places
      <3>2. CanStart(p) /\ UNCHANGED <<orders, born, grants, lost>>
        BY <2>2 DEF AdminRejects, BuyerCancels, AdminRevokes
      <3>. QED
        BY <1>0, <3>1, <3>2, EnterBound DEF CanStart
    <2>. QED
      BY <1>7, <2>1, <2>2
  <1>8. ASSUME NEW id \in DOMAIN orders, BufPayNotify(p, id) PROVE BoundInv'
    <2>1. CanStart(p) /\ pc[p] = "idle" /\ UNCHANGED <<orders, born, grants, lost>>
      BY <1>8 DEF BufPayNotify, CanStart
    <2>2. CASE Enter(p, "approve", id, "load") /\ orders[id].status = "pending"
      BY <1>0, <2>1, <2>2, ApproveBound
    <2>3. CASE UNCHANGED <<pc, op, oid, ord>>
      BY <1>0, <2>1, <2>3, QuietBound DEF Only, OneId
    <2>. QED
      BY <1>8, <2>2, <2>3 DEF BufPayNotify, Holds
  <1>9. ASSUME NEW b \in Buyers, DeleteClient(p, b) PROVE BoundInv'
    <2>1. \A q \in Procs \ {p} : pc'[q] = pc[q]
      BY <1>9, GotoFrame DEF DeleteClient, GrantInv, Places
    <2>2. op'[p] = "delete" /\ (\A q \in Procs \ {p} : op'[q] = op[q])
      BY <1>9 DEF DeleteClient, GrantInv, Types
    <2>3. UNCHANGED <<orders, oid, ord, born, grants, lost>> /\ CanStart(p) /\ pc[p] = "idle"
      BY <1>9 DEF DeleteClient, CanStart
    <2>. QED
      BY <1>0, <2>1, <2>2, <2>3, QuietBound DEF Only, OneId
  <1>10. CASE DropClient(p)
    BY <1>0, <1>10, ReturnBound DEF DropClient
  <1>. QED
    BY <1>1, <1>2, <1>3, <1>4, <1>5, <1>6, <1>7, <1>8, <1>9, <1>10 DEF Handler

LEMMA JobBound ==
  ASSUME BoundInv, GrantInv', NEW j \in Jobs, Job(j)
  PROVE  BoundInv'
  <1>. j \in Procs /\ GrantInv /\ OneId
    BY DEF Procs, BoundInv
  <1>. USE DEF store, outside, local, jobs, history
  <1>0. pc[j] \in {"idle", "poll", "expire"} => op[j] # "approve"
    BY DEF BoundInv, Crowd, Approving
  <1>1. CASE StartJob(j)
    BY <1>0, <1>1, GoOnBound DEF StartJob, CanStart, Places
  <1>2. ASSUME NEW id \in 1..MaxOrders, Poll(j, id) PROVE BoundInv'
    <2>1. pc[j] = "poll" /\ UNCHANGED <<orders, born, grants, lost>>
      BY <1>2 DEF Poll
    <2>2. CASE Return(j)
      BY <1>0, <2>1, <2>2, ReturnBound
    <2>3. CASE Enter(j, "approve", id, "load") /\ Holds(id, "pending")
      BY <1>0, <2>1, <2>3, ApproveBound DEF Holds
    <2>4. CASE Goto(j, "expire") /\ UNCHANGED <<op, oid, ord>>
      BY <1>0, <2>1, <2>4, GoOnBound DEF Places
    <2>. QED
      BY <1>2, <2>2, <2>3, <2>4 DEF Poll
  <1>3. CASE PollFails(j)
    BY <1>0, <1>3, ReturnBound DEF PollFails
  <1>4. CASE Expire(j)
    <2>1. /\ Only(j) /\ DOMAIN oid' = Procs
          /\ op'[j] = "none" /\ ord'[j].sn = 0
      BY <1>4, ReturnOnly DEF Expire
    <2>2. PICK row : orders' = IF Holds(row.id, "pending")
                               THEN [orders EXCEPT ![row.id].status = "expired"] ELSE orders
      BY <1>4 DEF Expire
    <2>3. \A i \in DOMAIN orders' :
             /\ i \in DOMAIN orders /\ orders'[i].sn = orders[i].sn
             /\ orders'[i].status \in {"pending", "expired"}
                  => orders[i].status \in {"pending", "expired"}
      BY <2>2 DEF Holds, GrantInv, Types, Order
    <2>4. pc[j] = "expire" /\ UNCHANGED <<born, grants, lost>>
      BY <1>4 DEF Expire
    <2>. QED
      BY <1>0, <2>1, <2>3, <2>4, QuietBound
  <1>5. CASE EndRound(j)
    <2>1. pc[j] = "poll" /\ UNCHANGED <<orders, born, grants, lost, op, oid, ord>>
      BY <1>5 DEF EndRound
    <2>2. CASE Goto(j, "idle")
      BY <1>0, <2>1, <2>2, GoOnBound DEF Places
    <2>3. CASE UNCHANGED pc
      BY <1>0, <2>1, <2>3, QuietBound DEF Only, OneId
    <2>. QED
      BY <1>5, <2>2, <2>3 DEF EndRound
  <1>. QED
    BY <1>1, <1>2, <1>3, <1>4, <1>5 DEF Job

\* No handler moves, and no row is added or reopened.
LEMMA ApartBound ==
  ASSUME BoundInv, GrantInv', UNCHANGED <<pc, op, oid, ord, born, grants, lost>>,
         orders' = orders \/ orders' = << >>
  PROVE  BoundInv'
  <1>1. Numbered' /\ OneId' /\ Crowd'
    BY DEF BoundInv, Numbered, OneId, Crowd, Active
  <1>2. ASSUME NEW sn \in Serials PROVE OwedAt(sn)'
    <2>1. Open(sn)' => Open(sn)
      BY DEF Open
    <2>2. Saving(sn)' = Saving(sn) /\ Underway(sn)' = Underway(sn)
      BY DEF Saving, Underway
    <2>. QED
      BY <1>1, <2>1, <2>2, StandStill DEF BoundInv
  <1>. QED
    BY <1>1, <1>2 DEF BoundInv

LEMMA EnvironmentBound ==
  ASSUME BoundInv, GrantInv', Environment
  PROVE  BoundInv'
  <1>1. UNCHANGED <<pc, op, oid, ord, born, grants, lost>>
    BY DEF Environment, BuyerPays, AddTraffic, ClearOrders, ToggleReady, Tick,
           local, history
  <1>2. orders' = orders \/ orders' = << >>
    BY DEF Environment, BuyerPays, AddTraffic, ClearOrders, ToggleReady, Tick, store
  <1>. QED
    BY <1>1, <1>2, ApartBound

LEMMA BoundNext == BoundInv /\ [Next]_vars => BoundInv'
  <1>. SUFFICES ASSUME BoundInv, [Next]_vars PROVE BoundInv'
    OBVIOUS
  <1>1. GrantInv'
    BY GrantNext DEF BoundInv
  <1>2. CASE UNCHANGED vars
    BY <1>1, <1>2, ApartBound DEF vars, local, history
  <1>. QED
    BY <1>1, <1>2, HandlerBound, ApprovalBound, JobBound, EnvironmentBound DEF Next

LEMMA BoundInit == Init => BoundInv
  <1>. SUFFICES ASSUME Init PROVE BoundInv
    OBVIOUS
  <1>1. GrantInv
    BY GrantInit
  <1>2. orders = << >> /\ born = 0 /\ (\A sn \in Serials : grants[sn] = 0)
    BY DEF Init, Fresh
  <1>3. \A p \in Procs : pc[p] = "idle" /\ op[p] = "none" /\ ord[p].sn = 0
    BY DEF Init, Fresh, NoOrder
  <1>4. Numbered
    BY <1>2, <1>3 DEF Numbered
  <1>5. OneId
    BY <1>2, <1>3 DEF OneId, Init, Fresh
  <1>. MaxActive \in Nat
    BY ShopAssumption
  <1>6. Crowd
    <2>1. Active = {}
      BY <1>3 DEF Active
    <2>. QED
      BY <1>3, <2>1, FS_EmptySet DEF Crowd
  <1>7. ASSUME NEW sn \in Serials PROVE OwedAt(sn)
    <2>1. Underway(sn) = {} /\ Saving(sn) = {}
      BY <1>3 DEF Underway, Saving
    <2>. QED
      BY <1>2, <2>1, FS_EmptySet DEF OwedAt, Open
  <1>. QED
    BY <1>1, <1>4, <1>5, <1>6, <1>7 DEF BoundInv

-----------------------------------------------------------------------------

LEMMA BoundAlways == Spec => []BoundInv
  BY BoundInit, BoundNext, PTL DEF Spec

\* However handlers, jobs, failures, deletions and clearings interleave, an order
\* is granted no more often than handlers may overlap, unless its final Save was
\* lost; one at a time, that is never twice (ApproveOrder, which neither locks the
\* order nor checks its status again before it writes).
THEOREM GrantsFew == Spec => []GrantsBounded
  <1>1. BoundInv => GrantsBounded
    <2>. SUFFICES ASSUME BoundInv, NEW sn \in Serials \ lost PROVE grants[sn] <= MaxActive
      BY DEF GrantsBounded
    <2>1. grants[sn] \in Nat /\ MaxActive \in Nat
      BY ShopAssumption DEF BoundInv, GrantInv, Types
    <2>2. Cardinality(Underway(sn)) \in Nat
      BY ApproversActive DEF BoundInv
    <2>. QED
      BY <2>1, <2>2 DEF BoundInv, OwedAt
  <1>. QED
    BY <1>1, BoundAlways, PTL

\* An order closed for lack of payment gave nothing away once no approval of it is
\* under way: a grant overwrites "expired", whichever handler came first
\* (ExpirePendingOrder and the Save of ApproveOrder).
THEOREM ExpiredGaveNothing == Spec => []ExpiredWasNotGranted
  <1>1. BoundInv => ExpiredWasNotGranted
    <2>. SUFFICES ASSUME BoundInv, NEW i \in DOMAIN orders,
                         orders[i].status = "expired", orders[i].sn \notin lost,
                         \A p \in Procs : op[p] = "approve" => ord[p].sn # orders[i].sn
                  PROVE  grants[orders[i].sn] = 0
      BY DEF ExpiredWasNotGranted
    <2>1. orders[i].sn \in Serials /\ grants[orders[i].sn] \in Nat
      BY DEF BoundInv, GrantInv, Types
    <2>2. Saving(orders[i].sn) = {}
      BY DEF Saving
    <2>3. Cardinality(Saving(orders[i].sn)) = 0
      BY <2>2, FS_EmptySet
    <2>. QED
      BY <2>1, <2>3 DEF BoundInv, OwedAt, Open
  <1>. QED
    BY <1>1, BoundAlways, PTL

-----------------------------------------------------------------------------
(***************************************************************************)
(* Pending orders.                                                         *)
(***************************************************************************)
(* The inductive invariant.                                                *)

\* The handlers that have counted and are about to insert an order of b.
Inserting(b) == {p \in Procs : pc[p] = "insert" /\ ord[p].buyer = b}

\* They and the pending orders were all once under way together.
Slots(b) ==
    /\ IsFiniteSet(PendingOf(b))
    /\ Cardinality(PendingOf(b)) + Cardinality(Inserting(b)) <= MaxActive

SlotInv == \A b \in Buyers : Slots(b)

\* One more element is at most one more.
LEMMA OneMore ==
  ASSUME NEW S, IsFiniteSet(S), NEW x
  PROVE  IsFiniteSet(S \cup {x}) /\ Cardinality(S \cup {x}) <= Cardinality(S) + 1
  <1>1. Cardinality(S) \in Nat
    BY FS_CardinalityType
  <1>2. /\ IsFiniteSet(S \cup {x})
        /\ Cardinality(S \cup {x}) = IF x \in S THEN Cardinality(S) ELSE Cardinality(S) + 1
    BY FS_AddElement
  <1>3. Cardinality(S \cup {x}) <= Cardinality(S) + 1
    BY <1>1, <1>2
  <1>. QED
    BY <1>2, <1>3

\* The inserters of a buyer are among the active handlers.
LEMMA InsertersActive ==
  ASSUME Crowd, NEW b
  PROVE  /\ IsFiniteSet(Inserting(b)) /\ Cardinality(Inserting(b)) \in Nat
         /\ Cardinality(Inserting(b)) <= MaxActive
  <1>1. Inserting(b) \subseteq Active
    BY DEF Inserting, Active
  <1>2. /\ IsFiniteSet(Inserting(b)) /\ Cardinality(Inserting(b)) <= Cardinality(Active)
        /\ Cardinality(Active) \in Nat /\ Cardinality(Active) <= MaxActive
    BY <1>1, FS_Subset, FS_CardinalityType DEF Crowd
  <1>. QED
    BY <1>2, FS_CardinalityType, ShopAssumption

\* No more orders of a buyer are pending, and no more are about to be.
LEMMA FewerSlots ==
  ASSUME Crowd, NEW b, Slots(b),
         PendingOf(b)' \subseteq PendingOf(b), Inserting(b)' \subseteq Inserting(b)
  PROVE  Slots(b)'
  <1>1. /\ IsFiniteSet(Inserting(b)) /\ Cardinality(Inserting(b)) \in Nat
        /\ IsFiniteSet(PendingOf(b)) /\ Cardinality(PendingOf(b)) \in Nat
    BY InsertersActive, FS_CardinalityType DEF Slots
  <1>2. /\ IsFiniteSet(PendingOf(b)') /\ Cardinality(PendingOf(b)') <= Cardinality(PendingOf(b))
        /\ IsFiniteSet(Inserting(b)') /\ Cardinality(Inserting(b)') <= Cardinality(Inserting(b))
    BY <1>1, FS_Subset
  <1>3. Cardinality(PendingOf(b)') \in Nat /\ Cardinality(Inserting(b)') \in Nat
    BY <1>2, FS_CardinalityType
  <1>. QED
    BY <1>1, <1>2, <1>3, ShopAssumption DEF Slots

LEMMA SlotKept ==
  ASSUME Crowd, SlotInv,
         \A i \in DOMAIN orders' :
            orders'[i].status = "pending" =>
               /\ i \in DOMAIN orders /\ orders[i].status = "pending"
               /\ orders'[i].buyer = orders[i].buyer,
         \A q \in Procs : pc'[q] = "insert" => pc[q] = "insert" /\ ord'[q] = ord[q]
  PROVE  SlotInv'
  <1>. SUFFICES ASSUME NEW b \in Buyers PROVE Slots(b)'
    BY DEF SlotInv
  <1>1. PendingOf(b)' \subseteq PendingOf(b) /\ Inserting(b)' \subseteq Inserting(b)
    BY DEF PendingOf, Inserting
  <1>. QED
    BY <1>1, FewerSlots DEF SlotInv

\* A handler that leaves the table alone and does not come to an INSERT.
LEMMA SlotQuiet ==
  ASSUME Types, Crowd, SlotInv, UNCHANGED orders,
         \/ UNCHANGED <<pc, ord>>
         \/ \E p \in Procs : Return(p)
         \/ UNCHANGED ord /\ \E p \in Procs : \E place \in Places \ {"insert"} : Goto(p, place)
         \/ \E p \in Procs, id \in DOMAIN orders, h \in Handlers :
               \E place \in Places \ {"insert"} : Enter(p, h, id, place)
  PROVE  SlotInv'
  <1>1. CASE UNCHANGED <<pc, ord>>
    BY <1>1, SlotKept
  <1>2. ASSUME NEW p \in Procs, Return(p) PROVE SlotInv'
    BY <1>2, ReturnFrame, SlotKept
  <1>3. ASSUME UNCHANGED ord, NEW p \in Procs, NEW place \in Places \ {"insert"}, Goto(p, place)
        PROVE  SlotInv'
    <2>1. \A q \in Procs : pc'[q] = "insert" => pc[q] = "insert"
      BY <1>3, GotoFrame
    <2>. QED
      BY <1>3, <2>1, SlotKept
  <1>4. ASSUME NEW p \in Procs, NEW id \in DOMAIN orders, NEW h \in Handlers,
               NEW place \in Places \ {"insert"}, Enter(p, h, id, place)
        PROVE  SlotInv'
    <2>1. \A q \in Procs : pc'[q] = "insert" => pc[q] = "insert" /\ ord'[q] = ord[q]
      BY <1>4, EnterFrame
    <2>. QED
      BY <2>1, SlotKept
  <1>. QED
    BY <1>1, <1>2, <1>3, <1>4

\* CreateOrder has found no pending order: those about to insert one are under way.
LEMMA SlotCreate ==
  ASSUME BoundInv, BoundInv', SlotInv, NEW p \in Procs, NEW b \in Buyers, NEW plan \in Plans,
         NEW bufpay \in BOOLEAN, CreateOrder(p, b, plan, bufpay)
  PROVE  SlotInv'
  <1>. Types /\ Crowd /\ Crowd'
    BY DEF BoundInv, GrantInv
  <1>1. UNCHANGED orders /\ PendingOf(b) = {} /\ pc[p] = "idle"
    BY DEF CreateOrder, store, CanStart
  <1>2. /\ \A q \in Procs \ {p} : pc'[q] = pc[q] /\ ord'[q] = ord[q]
        /\ ord'[p].buyer = b
    BY GotoFrame DEF CreateOrder, Places, Types
  <1>3. ASSUME NEW c \in Buyers, c # b PROVE Slots(c)'
    <2>1. PendingOf(c)' \subseteq PendingOf(c)
      BY <1>1 DEF PendingOf
    <2>2. Inserting(c)' \subseteq Inserting(c)
      BY <1>2, <1>3 DEF Inserting
    <2>. QED
      BY <2>1, <2>2, FewerSlots DEF SlotInv
  <1>4. Slots(b)'
    <2>1. PendingOf(b)' = {}
      BY <1>1 DEF PendingOf
    <2>2. IsFiniteSet(PendingOf(b)') /\ Cardinality(PendingOf(b)') = 0
      BY <2>1, FS_EmptySet
    <2>3. Cardinality(Inserting(b)') \in Nat /\ Cardinality(Inserting(b)') <= MaxActive
      <3>1. Inserting(b)' \subseteq Active' /\ IsFiniteSet(Active') /\ Cardinality(Active') <= MaxActive
        BY DEF Inserting, Active, Crowd
      <3>2. /\ IsFiniteSet(Inserting(b)') /\ Cardinality(Inserting(b)') <= Cardinality(Active')
            /\ Cardinality(Active') \in Nat
        BY <3>1, FS_Subset, FS_CardinalityType
      <3>3. Cardinality(Inserting(b)') \in Nat
        BY <3>2, FS_CardinalityType
      <3>. QED
        BY <3>1, <3>2, <3>3, ShopAssumption
    <2>. QED
      BY <2>2, <2>3, ShopAssumption DEF Slots
  <1>. QED
    BY <1>3, <1>4 DEF SlotInv

\* The INSERT makes of an inserter a pending order.
LEMMA SlotInsert ==
  ASSUME BoundInv, SlotInv, NEW p \in Procs, InsertOrder(p)
  PROVE  SlotInv'
  <1>. DEFINE row == [ord[p] EXCEPT !.sn = born + 1]
  <1>. Types /\ Coherent(p) /\ Crowd
    BY DEF BoundInv, GrantInv
  <1>1. pc[p] = "insert" /\ op[p] = "create" /\ ord[p] \in Order
    BY DEF InsertOrder, Coherent, Routed, Copied
  <1>2. PICK b \in Buyers : ord[p].buyer = b /\ row.buyer = b
    BY <1>1 DEF Order
  <1>3. \A i \in DOMAIN orders' : \/ i = NextId /\ orders'[i] = row
                                  \/ i \in DOMAIN orders /\ orders'[i] = orders[i]
    BY DEF InsertOrder, Put
  <1>4. pc'[p] # "insert" /\ \A q \in Procs \ {p} : pc'[q] = pc[q] /\ ord'[q] = ord[q]
    BY ReturnFrame, GotoFrame DEF InsertOrder, Places, Types
  <1>. HIDE DEF row
  <1>5. ASSUME NEW c \in Buyers, c # b PROVE Slots(c)'
    <2>1. PendingOf(c)' \subseteq PendingOf(c)
      BY <1>2, <1>3, <1>5 DEF PendingOf
    <2>2. Inserting(c)' \subseteq Inserting(c)
      BY <1>4 DEF Inserting
    <2>. QED
      BY <2>1, <2>2, FewerSlots DEF SlotInv
  <1>6. Slots(b)'
    <2>1. PendingOf(b)' \subseteq PendingOf(b) \cup {NextId}
      BY <1>3 DEF PendingOf
    <2>2. Inserting(b)' \subseteq Inserting(b) \ {p} /\ p \in Inserting(b)
      BY <1>1, <1>2, <1>4 DEF Inserting
    <2>3. /\ IsFiniteSet(PendingOf(b)) /\ Cardinality(PendingOf(b)) \in Nat
          /\ IsFiniteSet(Inserting(b)) /\ Cardinality(Inserting(b)) \in Nat
          /\ Cardinality(PendingOf(b)) + Cardinality(Inserting(b)) <= MaxActive
      BY InsertersActive, FS_CardinalityType DEF SlotInv, Slots
    <2>4. /\ IsFiniteSet(PendingOf(b) \cup {NextId})
          /\ Cardinality(PendingOf(b) \cup {NextId}) <= Cardinality(PendingOf(b)) + 1
      BY <2>3, OneMore
    <2>5. /\ IsFiniteSet(Inserting(b) \ {p})
          /\ Cardinality(Inserting(b) \ {p}) = Cardinality(Inserting(b)) - 1
      BY <2>2, <2>3, FS_RemoveElement
    <2>6. /\ IsFiniteSet(PendingOf(b)')
          /\ Cardinality(PendingOf(b)') <= Cardinality(PendingOf(b) \cup {NextId})
          /\ Cardinality(PendingOf(b) \cup {NextId}) \in Nat
      BY <2>1, <2>4, FS_Subset, FS_CardinalityType
    <2>7. /\ Cardinality(Inserting(b)') <= Cardinality(Inserting(b) \ {p})
          /\ IsFiniteSet(Inserting(b)')
      BY <2>2, <2>5, FS_Subset
    <2>8. Cardinality(PendingOf(b)') \in Nat /\ Cardinality(Inserting(b)') \in Nat
      BY <2>6, <2>7, FS_CardinalityType
    <2>9. Cardinality(PendingOf(b)') + Cardinality(Inserting(b)') <= MaxActive
      BY <2>3, <2>4, <2>5, <2>6, <2>7, <2>8, ShopAssumption
    <2>. QED
      BY <2>6, <2>9 DEF Slots
  <1>. QED
    BY <1>5, <1>6 DEF SlotInv

LEMMA SlotAoid ==
  ASSUME BoundInv, SlotInv, NEW p \in Procs, SaveOrderAoid(p)
  PROVE  SlotInv'
  <1>. Types /\ Crowd
    BY DEF BoundInv, GrantInv
  <1>1. /\ DOMAIN orders' = DOMAIN orders
        /\ \A i \in DOMAIN orders : /\ orders'[i].status = orders[i].status
                                    /\ orders'[i].buyer = orders[i].buyer
    BY DEF SaveOrderAoid, Types, Order
  <1>2. \A q \in Procs : pc'[q] = "insert" => pc[q] = "insert" /\ ord'[q] = ord[q]
    BY GotoFrame DEF SaveOrderAoid, local, Places
  <1>. QED
    BY <1>1, <1>2, SlotKept

LEMMA SlotSave ==
  ASSUME BoundInv, SlotInv, NEW p \in Procs, SaveOrder(p)
  PROVE  SlotInv'
  <1>. Types /\ Coherent(p) /\ Crowd
    BY DEF BoundInv, GrantInv
  <1>. DEFINE row == Closed(ord[p], op[p])
  <1>1. op[p] \in Settling /\ ord[p] \in Order
    BY DEF SaveOrder, Coherent, Routed, Copied
  <1>2. row.status # "pending"
    BY <1>1 DEF Closed, Settling, Order
  <1>. HIDE DEF row
  <1>3. \A i \in DOMAIN orders' : orders'[i] = row \/ (i \in DOMAIN orders /\ orders'[i] = orders[i])
    BY DEF SaveOrder, Put, row
  <1>4. \A q \in Procs : pc'[q] = "insert" => pc[q] = "insert" /\ ord'[q] = ord[q]
    BY ReturnFrame DEF SaveOrder
  <1>. QED
    BY <1>2, <1>3, <1>4, SlotKept

LEMMA SlotExpire ==
  ASSUME BoundInv, SlotInv, NEW j \in Jobs, Expire(j)
  PROVE  SlotInv'
  <1>. Types /\ Crowd /\ j \in Procs
    BY DEF BoundInv, GrantInv, Procs
  <1>1. \A i \in DOMAIN orders' : orders'[i].status = "pending" =>
               /\ i \in DOMAIN orders /\ orders[i].status = "pending"
               /\ orders'[i].buyer = orders[i].buyer
    BY DEF Expire, Types, Order
  <1>2. \A q \in Procs : pc'[q] = "insert" => pc[q] = "insert" /\ ord'[q] = ord[q]
    BY ReturnFrame DEF Expire
  <1>. QED
    BY <1>1, <1>2, SlotKept

LEMMA SlotStep ==
  ASSUME BoundInv, BoundInv', SlotInv, [Next]_vars
  PROVE  SlotInv'
  <1>. Types /\ Crowd
    BY DEF BoundInv, GrantInv
  <1>. USE DEF store, outside, local, jobs, history
  <1>1. CASE UNCHANGED vars
    BY <1>1, SlotQuiet DEF vars
  <1>2. ASSUME NEW p \in Workers, Handler(p) PROVE SlotInv'
    <2>. p \in Procs
      BY DEF Procs
    <2>1. CASE CreatePayment(p)
      BY <2>1, SlotQuiet DEF CreatePayment, Places
    <2>2. CASE ShowQr(p)
      BY <2>2, SlotQuiet DEF ShowQr
    <2>3. CASE PaymentUnusable(p)
      BY <2>3, SlotQuiet DEF PaymentUnusable, Holds, Handlers, Places
    <2>4. ASSUME NEW id \in DOMAIN orders,
                 \/ AdminApproves(p, id) \/ AdminRejects(p, id)
                 \/ BuyerCancels(p, id) \/ AdminRevokes(p, id)
          PROVE  SlotInv'
      BY <2>4, SlotQuiet DEF AdminApproves, AdminRejects, BuyerCancels, AdminRevokes, Handlers, Places
    <2>5. ASSUME NEW id \in DOMAIN orders, BufPayNotify(p, id) PROVE SlotInv'
      BY <2>5, SlotQuiet DEF BufPayNotify, Handlers, Places
    <2>6. ASSUME NEW b \in Buyers, DeleteClient(p, b) PROVE SlotInv'
      BY <2>6, SlotQuiet DEF DeleteClient, Places
    <2>7. CASE DropClient(p)
      BY <2>7, SlotQuiet DEF DropClient
    <2>. QED
      BY <1>2, <2>1, <2>2, <2>3, <2>4, <2>5, <2>6, <2>7, SlotCreate, SlotInsert, SlotAoid DEF Handler
  <1>3. ASSUME NEW p \in Procs, Approval(p) PROVE SlotInv'
    <2>1. CASE LoadClient(p)
      BY <2>1, SlotQuiet DEF LoadClient, Places
    <2>2. CASE CopyForUpdate(p)
      BY <2>2, SlotQuiet DEF CopyForUpdate, UpdateFailed, Places
    <2>3. CASE WriteClient(p)
      BY <2>3, SlotQuiet DEF WriteClient, Places
    <2>4. CASE CheckDuplicate(p)
      BY <2>4, SlotQuiet DEF CheckDuplicate, Places
    <2>5. CASE CopyForAdd(p)
      BY <2>5, SlotQuiet DEF CopyForAdd, Places
    <2>6. CASE AddClient(p)
      BY <2>6, SlotQuiet DEF AddClient, Places
    <2>7. CASE DbFails(p)
      BY <2>7, SlotQuiet DEF DbFails, UpdateFailed, Places
    <2>8. CASE SaveFails(p)
      BY <2>8, SlotQuiet DEF SaveFails
    <2>. QED
      BY <1>3, <2>1, <2>2, <2>3, <2>4, <2>5, <2>6, <2>7, <2>8, SlotSave DEF Approval
  <1>4. ASSUME NEW j \in Jobs, Job(j) PROVE SlotInv'
    <2>. j \in Procs
      BY DEF Procs
    <2>1. CASE StartJob(j)
      BY <2>1, SlotQuiet DEF StartJob, Places
    <2>2. ASSUME NEW id \in 1..MaxOrders, Poll(j, id) PROVE SlotInv'
      BY <2>2, SlotQuiet DEF Poll, Holds, Handlers, Places
    <2>3. CASE PollFails(j)
      BY <2>3, SlotQuiet DEF PollFails
    <2>4. CASE EndRound(j)
      BY <2>4, SlotQuiet DEF EndRound, Places
    <2>. QED
      BY <1>4, <2>1, <2>2, <2>3, <2>4, SlotExpire DEF Job
  <1>5. CASE Environment
    <2>1. UNCHANGED <<pc, ord>> /\ (orders' = orders \/ orders' = << >>)
      BY <1>5 DEF Environment, BuyerPays, AddTraffic, ClearOrders, ToggleReady, Tick
    <2>. QED
      BY <2>1, SlotKept
  <1>. QED
    BY <1>1, <1>2, <1>3, <1>4, <1>5 DEF Next

\* However handlers, jobs, failures, deletions and clearings interleave, a buyer has
\* at most as many pending orders as handlers overlap: CreateOrder's count, which
\* neither locks anything nor is backed by an index, bounds them as long as it is
\* made before every INSERT, and no other step makes a row pending.
THEOREM PendingFew == Spec => []PendingBounded
  <1>. MaxActive \in Nat
    BY ShopAssumption
  <1>1. Init => SlotInv
    <2>. SUFFICES ASSUME Init, NEW b \in Buyers PROVE Slots(b)
      BY DEF SlotInv
    <2>1. PendingOf(b) = {} /\ Inserting(b) = {}
      BY DEF Init, Fresh, PendingOf, Inserting
    <2>. QED
      BY <2>1, FS_EmptySet DEF Slots
  <1>2. BoundInv /\ BoundInv' /\ SlotInv /\ [Next]_vars => SlotInv'
    BY SlotStep
  <1>3. BoundInv /\ SlotInv => PendingBounded
    <2>. SUFFICES ASSUME BoundInv, SlotInv, NEW b \in Buyers
                  PROVE  Cardinality(PendingOf(b)) <= MaxActive
      BY DEF PendingBounded
    <2>1. Cardinality(PendingOf(b)) \in Nat /\ Cardinality(Inserting(b)) \in Nat
      BY InsertersActive, FS_CardinalityType DEF BoundInv, SlotInv, Slots
    <2>. QED
      BY <2>1 DEF SlotInv, Slots
  <1>. QED
    BY <1>1, <1>2, <1>3, BoundAlways, PTL DEF Spec
=============================================================================
