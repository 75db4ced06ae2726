-------------------------------- MODULE Shop --------------------------------
(***************************************************************************)
(* The traffic shop: orders placed from Telegram, confirmed by hand or by  *)
(* polling BufPay, and turned into quota on the buyer's proxy client       *)
(* (web/service/shop.go, shopbot.go, bufpay.go, the shop jobs).            *)
(*                                                                         *)
(* Every handler runs on a goroutine of its own (a Telegram worker, or one *)
(* of the two cron jobs), takes no lock, and is a chain of separate        *)
(* database calls: it reads the order, reads the client, reads the whole   *)
(* settings array, writes the array back, and last writes the whole order  *)
(* row back.  Each of these calls is one action here, so handlers          *)
(* interleave between any two of them.                                     *)
(***************************************************************************)
EXTENDS InboundStore

CONSTANTS
    Buyers,       \* Telegram users; the e-mail of buyer b is tg<b>, here b itself
    House,        \* e-mail of the client the administrator made by hand
    Workers,      \* goroutines that serve Telegram callbacks and panel requests
    PendJob,      \* ShopPendingJob, every 5 minutes
    RecJob,       \* ShopReconcileJob, every 20 seconds
    Plans,        \* the plans on sale: records [gb, days]
    AutoPay,      \* shopPayMode = "auto"
    DailyLimit,   \* shopDailyLimit
    DayLength,    \* ticks in a day (CreateOrder counts since midnight)
    PendingTTL,   \* shopPendingTTL in ticks
    Window,       \* the 24 hours ReconcilePendingOrders looks back, in ticks
    QueryLimit,   \* the Limit(20) of the polling queries
    \* Bounds of the model, none of them in the code:
    MaxActive,    \* handlers that may overlap
    MaxOrders, MaxClock, MaxUsed, MaxClears, MaxDeletes, MaxDbErrors, MaxOutages,
    MaxCallbacks

Jobs == {PendJob, RecJob}
Procs == Workers \cup Jobs

ASSUME ShopAssumption ==
    /\ House \notin Buyers
    /\ PendJob # RecJob /\ Jobs \cap Workers = {}
    /\ Plans \subseteq [gb : Nat \ {0}, days : Nat \ {0}]
    /\ AutoPay \in BOOLEAN
    /\ DailyLimit \in Nat \ {0} /\ DayLength \in Nat \ {0}
    /\ PendingTTL \in Nat \ {0} /\ Window \in Nat \ {0} /\ QueryLimit \in Nat \ {0}
    /\ MaxActive \in Nat \ {0}
    /\ MaxOrders \in Nat /\ MaxClock \in Nat /\ MaxUsed \in Nat
    /\ MaxClears \in Nat /\ MaxDeletes \in Nat
    /\ MaxDbErrors \in Nat /\ MaxOutages \in Nat /\ MaxCallbacks \in Nat

VARIABLES
    orders,    \* table orders: id -> row
    settings,  \* inbounds.settings.clients of the shop's inbound
    rows,      \* table client_traffics: e-mail -> row
    bill,      \* BufPay's side of an order: "none", "open" (QR shown), "paid"
    answer,    \* the panel's answer to BufPay's callback: "none", "success", "fail"
    ready,     \* an inbound is selected for the shop
    now,       \* the clock
    pc,        \* what a goroutine does next
    op,        \* the handler it runs
    oid,       \* the order id it works on
    ord,       \* its copy of the order row
    cli,       \* the client it is about to write
    inb,       \* its copy of the settings array
    todo,      \* a job: the rows selected and not yet polled
    phase,     \* a job: "reconcile" or "expire"
    born,      \* history: orders ever created
    grants,    \* history: how often the quota of an order was committed
    lost,      \* history: orders whose final Save failed after a grant
    spent      \* what was used of the bounds

store == <<orders, settings, rows>>
local == <<op, oid, ord, cli, inb>>
jobs == <<todo, phase>>
outside == <<bill, answer, ready, now>>
history == <<born, grants, lost>>
vars == <<orders, settings, rows, outside, pc, local, jobs, history, spent>>

-----------------------------------------------------------------------------
(* Rows and what the handlers compute from them.                           *)

Serials == 1..MaxOrders
Status == {"pending", "approved", "rejected", "revoked", "expired"}

Order == [sn : 0..MaxOrders, buyer : Buyers, gb : Nat, days : Nat, status : Status,
          bufpay : BOOLEAN, aoid : 0..MaxOrders, created : Nat]

\* An order is named by its row id, which restarts at 1 after ClearOrders; sn
\* is the identity of the order itself and of its BufPay bill, which the column
\* aoid names (0: none).
NoOrder == [sn |-> 0]
NoClient == [id |-> << >>]

HouseClient == [email |-> House, id |-> <<House>>, total |-> 0, expiry |-> 0,
                enable |-> TRUE]

\* buildShopClient: a fresh uuid, full quota, expiry days from now.
BuildShopClient(p, o) ==
    [email |-> o.buyer, id |-> <<p, o.sn, grants[o.sn]>>, total |-> o.gb,
     expiry |-> now + o.days, enable |-> TRUE]

\* Mutants of extendExistingClient: the client stays switched off; the new plan
\* replaces what the client had.
ExtendedStillOff(c, o) == [c EXCEPT !.total = @ + o.gb, !.expiry = MaxOf(@, now) + o.days]

ExtendedReplaces(c, o) == [c EXCEPT !.total = o.gb, !.expiry = now + o.days, !.enable = TRUE]

\* extendExistingClient: quota and time are added to what the client has.
Extended(c, o) ==
    [c EXCEPT !.total = @ + o.gb, !.expiry = MaxOf(@, now) + o.days, !.enable = TRUE]

\* Mutants of revokeAdjustment: no clamp; everything is taken, not this order's
\* share; the time is taken and the traffic left.
RevokedUnclamped(c, o, used) ==
    [c EXCEPT !.total = @ - o.gb, !.expiry = MaxOf(@ - o.days, now), !.enable = FALSE]

RevokedAll(c, o, used) ==
    [c EXCEPT !.total = MaxOf(used, 1), !.expiry = now, !.enable = FALSE]

RevokedTimeOnly(c, o, used) ==
    [c EXCEPT !.expiry = MaxOf(@ - o.days, now), !.enable = FALSE]

\* revokeAdjustment: take back this order's quota but never below what was
\* used, never to 0 (unlimited), and its days but never to before now.
Revoked(c, o, used) ==
    LET total == MaxOf(MaxOf(c.total - o.gb, used), 1)
        expiry == MaxOf(c.expiry - o.days, now)
    IN  [c EXCEPT !.total = total, !.expiry = expiry,
                  !.enable = ~(total <= used \/ expiry <= now)]

\* SQLite's AUTOINCREMENT; ClearOrders also resets the sequence.
NextId == IF orders = << >> THEN 1
          ELSE 1 + CHOOSE i \in DOMAIN orders : \A j \in DOMAIN orders : j <= i

\* GORM's Save of a whole row: UPDATE, or INSERT when the row is gone.
Put(id, row) == [i \in DOMAIN orders \cup {id} |-> IF i = id THEN row ELSE orders[i]]

\* CreateOrder's count.
PendingOf(b) == {i \in DOMAIN orders : orders[i].buyer = b /\ orders[i].status = "pending"}

TodayOf(b) == {i \in DOMAIN orders :
                 /\ orders[i].buyer = b
                 /\ orders[i].created >= (now \div DayLength) * DayLength}

\* ORDER BY id LIMIT QueryLimit over a set of ids.  A job works through its
\* rows in that order, so the set and the order on ids are all there is.
Selected(ids) ==
    {[id |-> i, aoid |-> orders[i].aoid] :
        i \in {i \in ids : Cardinality({k \in ids : k < i}) < QueryLimit}}

FirstRow(list) == {r \in list : \A q \in list : r.id <= q.id}

ToReconcile == Selected({i \in DOMAIN orders :
                            /\ orders[i].status \in {"pending", "expired"}
                            /\ orders[i].aoid # 0
                            /\ orders[i].created > now - Window})

\* Mutant: the query of the expiry round also returns what it has closed before.
ToExpireAgain == Selected({i \in DOMAIN orders :
                              /\ orders[i].status \in {"pending", "expired"}
                              /\ orders[i].aoid # 0
                              /\ orders[i].created < now - PendingTTL})

ToExpire == Selected({i \in DOMAIN orders :
                         /\ orders[i].status = "pending"
                         /\ orders[i].aoid # 0
                         /\ orders[i].created < now - PendingTTL})

-----------------------------------------------------------------------------
(* Goroutines.                                                             *)

Active == {p \in Procs : pc[p] # "idle"}

CanStart(p) == pc[p] = "idle" /\ Cardinality(Active) < MaxActive

Goto(p, place) == pc' = [pc EXCEPT ![p] = place]

\* The handler returns: a worker is free again, a job goes to its next row.
Return(p) ==
    /\ Goto(p, IF p \in Jobs THEN "poll" ELSE "idle")
    /\ todo' = IF p \in Jobs THEN [todo EXCEPT ![p] = @ \ FirstRow(@)] ELSE todo
    /\ op' = [op EXCEPT ![p] = "none"]
    /\ oid' = [oid EXCEPT ![p] = 0]
    /\ ord' = [ord EXCEPT ![p] = NoOrder]
    /\ cli' = [cli EXCEPT ![p] = NoClient]
    /\ inb' = [inb EXCEPT ![p] = << >>]
    /\ UNCHANGED phase

\* A handler has read the order row and goes on with its copy.
Enter(p, handler, id, place) ==
    /\ op' = [op EXCEPT ![p] = handler]
    /\ oid' = [oid EXCEPT ![p] = id]
    /\ ord' = [ord EXCEPT ![p] = orders[id]]
    /\ Goto(p, place)
    /\ UNCHANGED <<cli, inb>>

\* Mutant: any existing order will do.
Exists(id, status) == id \in DOMAIN orders

\* GetOrder succeeds and the order has the status the handler insists on.
Holds(id, status) == id \in DOMAIN orders /\ orders[id].status = status

\* Everything but the orders themselves when the panel starts.
Fresh ==
    /\ settings = <<HouseClient>>
    /\ rows = [e \in {House} |-> [total |-> 0, expiry |-> 0, enable |-> TRUE, used |-> 0]]
    /\ answer = [sn \in Serials |-> "none"]
    /\ ready = TRUE
    /\ now = 1
    /\ pc = [p \in Procs |-> "idle"]
    /\ op = [p \in Procs |-> "none"]
    /\ oid = [p \in Procs |-> 0]
    /\ ord = [p \in Procs |-> NoOrder]
    /\ cli = [p \in Procs |-> NoClient]
    /\ inb = [p \in Procs |-> << >>]
    /\ todo = [j \in Jobs |-> {}]
    /\ phase = [j \in Jobs |-> "reconcile"]
    /\ grants = [sn \in Serials |-> 0]
    /\ lost = {}
    /\ spent = [clears |-> 0, deletes |-> 0, errors |-> 0, outages |-> 0, callbacks |-> 0]

Init ==
    /\ orders = << >>
    /\ bill = [sn \in Serials |-> "none"]
    /\ born = 0
    /\ Fresh

-----------------------------------------------------------------------------
(* Placing an order.                                                       *)

\* CreateOrder up to its INSERT: one pending order per buyer, a daily limit.
\* The BufPay path (sendShopBufPayQR) has asked ShopReady before.
CreateOrder(p, b, plan, bufpay) ==
    /\ CanStart(p) /\ p \in Workers
    /\ born + Cardinality({q \in Procs : pc[q] = "insert"}) < MaxOrders
    /\ bufpay => AutoPay /\ ready
    /\ PendingOf(b) = {}
    /\ Cardinality(TodayOf(b)) < DailyLimit
    /\ Goto(p, "insert")
    /\ op' = [op EXCEPT ![p] = "create"]
    /\ ord' = [ord EXCEPT ![p] =
                 [sn |-> 0, buyer |-> b, gb |-> plan.gb, days |-> plan.days,
                  status |-> "pending", bufpay |-> bufpay, aoid |-> 0,
                  created |-> now]]
    /\ UNCHANGED <<store, outside, oid, cli, inb, jobs, history, spent>>

\* The INSERT.  The buyer of a BufPay order has no QR code yet.
InsertOrder(p) ==
    /\ pc[p] = "insert" /\ born < MaxOrders
    /\ LET row == [ord[p] EXCEPT !.sn = born + 1]
       IN  /\ orders' = Put(NextId, row)
           /\ born' = born + 1
           /\ \/ /\ ~row.bufpay
                 /\ Return(p)
              \/ /\ row.bufpay
                 /\ Goto(p, "pay")
                 /\ oid' = [oid EXCEPT ![p] = NextId]
                 /\ ord' = [ord EXCEPT ![p] = row]
                 /\ UNCHANGED <<op, cli, inb, jobs>>
    /\ UNCHANGED <<settings, rows, outside, grants, lost, spent>>

\* BufPay answers CreatePayment with an aoid to remember, or without one: then
\* the order can only be confirmed by the callback or by hand.
CreatePayment(p) ==
    /\ pc[p] = "pay"
    /\ Goto(p, "aoid") \/ Goto(p, "show")
    /\ UNCHANGED <<store, outside, local, jobs, history, spent>>

\* SaveOrderAoid updates one column by id.
SaveOrderAoid(p) ==
    /\ pc[p] = "aoid"
    /\ orders' = [i \in DOMAIN orders |->
                    IF i = oid[p] THEN [orders[i] EXCEPT !.aoid = ord[p].sn] ELSE orders[i]]
    /\ Goto(p, "show")
    /\ UNCHANGED <<settings, rows, outside, local, jobs, history, spent>>

\* The QR code goes out to the buyer.
ShowQr(p) ==
    /\ pc[p] = "show"
    /\ bill' = [bill EXCEPT ![ord[p].sn] = "open"]
    /\ Return(p)
    /\ UNCHANGED <<store, answer, ready, now, history, spent>>

\* CreatePayment failed, or gave neither image nor text for a QR code:
\* AbandonPendingOrder reads the order again.
PaymentUnusable(p) ==
    /\ pc[p] \in {"pay", "show"}
    /\ IF Holds(oid[p], "pending")
       THEN Enter(p, "cancel", oid[p], "save") /\ UNCHANGED jobs
       ELSE Return(p)
    /\ UNCHANGED <<store, outside, history, spent>>

-----------------------------------------------------------------------------
(* The administrator's and the buyer's buttons.                            *)

\* shop_ok2 and the polling jobs: ApproveOrder reads the order.
AdminApproves(p, id) ==
    /\ CanStart(p) /\ p \in Workers
    /\ Holds(id, "pending") /\ ready
    /\ Enter(p, "approve", id, "load")
    /\ UNCHANGED <<store, outside, jobs, history, spent>>

\* shop_no: RejectOrder.
AdminRejects(p, id) ==
    /\ CanStart(p) /\ p \in Workers
    /\ Holds(id, "pending")
    /\ Enter(p, "reject", id, "save")
    /\ UNCHANGED <<store, outside, jobs, history, spent>>

\* shop_cancel_order, a button of manual orders: AbandonPendingOrder.
BuyerCancels(p, id) ==
    /\ CanStart(p) /\ p \in Workers
    /\ Holds(id, "pending") /\ ~orders[id].bufpay
    /\ Enter(p, "cancel", id, "save")
    /\ UNCHANGED <<store, outside, jobs, history, spent>>

\* shop_revoke2: RevokeOrder reads the order.
AdminRevokes(p, id) ==
    /\ CanStart(p) /\ p \in Workers
    /\ Holds(id, "approved")
    /\ Enter(p, "revoke", id, "load")
    /\ UNCHANGED <<store, outside, jobs, history, spent>>

-----------------------------------------------------------------------------
(* ApproveOrder and RevokeOrder on the client.                             *)

\* GetClientByEmail, and what the handler makes of the client.  A buyer
\* without a client: an approval creates one, a revocation has nothing to take.
LoadClient(p) ==
    /\ pc[p] = "load"
    /\ LET email == ord[p].buyer
           client == ClientByEmail(settings, email)
       IN  IF ClientKnown(settings, rows, email)
           THEN /\ cli' = [cli EXCEPT ![p] =
                             IF op[p] = "approve" THEN Extended(client, ord[p])
                             ELSE Revoked(client, ord[p], rows[email].used)]
                /\ Goto(p, "copy")
           ELSE /\ Goto(p, IF op[p] = "approve" THEN "dup" ELSE "save")
                /\ UNCHANGED cli
    /\ UNCHANGED <<store, outside, op, oid, ord, inb, jobs, history, spent>>

\* Mutant: the approval takes the failed update for a success.
UpdateFailureIgnored(p) ==
    /\ Goto(p, "save")
    /\ cli' = [cli EXCEPT ![p] = NoClient]
    /\ inb' = [inb EXCEPT ![p] = << >>]
    /\ UNCHANGED <<op, oid, ord, jobs>>

\* The update failed: an approval falls back to a new client, a revocation
\* gives up.
UpdateFailed(p) ==
    \/ /\ op[p] = "approve"
       /\ Goto(p, "dup")
       /\ cli' = [cli EXCEPT ![p] = NoClient]
       /\ inb' = [inb EXCEPT ![p] = << >>]
       /\ UNCHANGED <<op, oid, ord, jobs>>
    \/ op[p] = "revoke" /\ Return(p)

\* UpdateInboundClient reads the inbound and looks the client up by its id.
CopyForUpdate(p) ==
    /\ pc[p] = "copy"
    /\ IF IndexOfId(settings, cli[p].id) # {}
       THEN /\ inb' = [inb EXCEPT ![p] = settings]
            /\ Goto(p, "write")
            /\ UNCHANGED <<op, oid, ord, cli, jobs>>
       ELSE UpdateFailed(p)
    /\ UNCHANGED <<store, outside, history, spent>>

Granted(p) == IF op[p] = "approve" THEN [grants EXCEPT ![ord[p].sn] = @ + 1] ELSE grants

\* The transaction of UpdateInboundClient: traffic row and whole array.
WriteClient(p) ==
    /\ pc[p] = "write"
    /\ settings' = WithClient(inb[p], cli[p])
    /\ rows' = UpdateClientStat(rows, cli[p])
    /\ grants' = Granted(p)
    /\ Goto(p, "save")
    /\ inb' = [inb EXCEPT ![p] = << >>]
    /\ cli' = [cli EXCEPT ![p] = NoClient]
    /\ UNCHANGED <<orders, outside, op, oid, ord, jobs, born, lost, spent>>

\* AddInboundClient: no client may have the e-mail yet ...
CheckDuplicate(p) ==
    /\ pc[p] = "dup"
    /\ IF ord[p].buyer \in AllEmails(settings)
       THEN Return(p)
       ELSE Goto(p, "copyAdd") /\ UNCHANGED <<local, jobs>>
    /\ UNCHANGED <<store, outside, history, spent>>

\* ... then the inbound is read ...
CopyForAdd(p) ==
    /\ pc[p] = "copyAdd"
    /\ inb' = [inb EXCEPT ![p] = settings]
    /\ cli' = [cli EXCEPT ![p] = BuildShopClient(p, ord[p])]
    /\ Goto(p, "add")
    /\ UNCHANGED <<store, outside, op, oid, ord, jobs, history, spent>>

\* ... and written back with the new client at its end.
AddClient(p) ==
    /\ pc[p] = "add"
    /\ settings' = Append(inb[p], cli[p])
    /\ rows' = AddClientStat(rows, cli[p])
    /\ grants' = Granted(p)
    /\ Goto(p, "save")
    /\ inb' = [inb EXCEPT ![p] = << >>]
    /\ cli' = [cli EXCEPT ![p] = NoClient]
    /\ UNCHANGED <<orders, outside, op, oid, ord, jobs, born, lost, spent>>

\* Mutant: the error of the transaction is dropped.
DbErrorIgnored(p) ==
    /\ pc[p] \in {"write", "add"}
    /\ spent.errors < MaxDbErrors
    /\ spent' = [spent EXCEPT !.errors = @ + 1]
    /\ UpdateFailureIgnored(p)
    /\ UNCHANGED <<store, outside, history>>

\* The transaction rolls back.
DbFails(p) ==
    /\ pc[p] \in {"write", "add"}
    /\ spent.errors < MaxDbErrors
    /\ spent' = [spent EXCEPT !.errors = @ + 1]
    /\ IF pc[p] = "write" THEN UpdateFailed(p) ELSE Return(p)
    /\ UNCHANGED <<store, outside, history>>

\* Mutant: the approval forgets to change the status.
ClosedLeftPending(o, handler) ==
    IF handler = "approve" THEN o
    ELSE [o EXCEPT !.status = IF handler = "revoke" THEN "revoked" ELSE "rejected"]

\* The last step of every handler: Save writes the handler's copy of the whole
\* row with the new status.
Closed(o, handler) ==
    CASE handler = "approve" -> [o EXCEPT !.status = "approved"]
      [] handler = "revoke" -> [o EXCEPT !.status = "revoked"]
      [] handler \in {"reject", "cancel"} -> [o EXCEPT !.status = "rejected"]

SaveOrder(p) ==
    /\ pc[p] = "save"
    /\ orders' = Put(oid[p], Closed(ord[p], op[p]))
    /\ Return(p)
    /\ UNCHANGED <<settings, rows, outside, history, spent>>

SaveFails(p) ==
    /\ pc[p] = "save"
    /\ spent.errors < MaxDbErrors
    /\ spent' = [spent EXCEPT !.errors = @ + 1]
    /\ lost' = IF op[p] = "approve" THEN lost \cup {ord[p].sn} ELSE lost
    /\ Return(p)
    /\ UNCHANGED <<store, outside, born, grants>>

-----------------------------------------------------------------------------
(* The cron jobs.  One job never overlaps itself (SkipIfStillRunning), but *)
(* the two run concurrently.                                               *)

\* ReconcilePendingOrders selects its rows.
StartJob(j) ==
    /\ CanStart(j) /\ AutoPay
    /\ Goto(j, "poll")
    /\ todo' = [todo EXCEPT ![j] = ToReconcile]
    /\ UNCHANGED <<store, outside, local, phase, history, spent>>

\* Mutant: the expiry round closes orders without asking BufPay.
PaidBeforeTTL(j, row) == bill[row.aoid] = "paid" /\ phase[j] = "reconcile"

\* IsPayedStatus of BufPay's answer for the aoid selected with the row.
IsPayed(j, row) == bill[row.aoid] = "paid"

\* QueryOrder answers.  A paid order goes through ApproveOrder, which reads
\* the row by the selected id; an unpaid one is left alone or, in the expiry
\* round, closed.
Poll(j, id) ==
    /\ pc[j] = "poll"
    /\ \E row \in FirstRow(todo[j]) :
          /\ row.id = id
          /\ LET paid == IsPayed(j, row)
             IN  \/ /\ paid /\ Holds(id, "pending") /\ ready
                    /\ Enter(j, "approve", id, "load")
                    /\ UNCHANGED jobs
                 \/ /\ paid /\ ~(Holds(id, "pending") /\ ready)
                    /\ Return(j)
                 \/ /\ ~paid /\ phase[j] = "reconcile"
                    /\ Return(j)
                 \/ /\ ~paid /\ phase[j] = "expire"
                    /\ Goto(j, "expire")
                    /\ UNCHANGED <<local, jobs>>
    /\ UNCHANGED <<store, outside, history, spent>>

\* QueryOrder fails: the row waits for the next round.
PollFails(j) ==
    /\ pc[j] = "poll" /\ todo[j] # {}
    /\ Return(j)
    /\ UNCHANGED <<store, outside, history, spent>>

\* Mutant: the UPDATE has no condition on the status.
ExpireAny(j) ==
    /\ pc[j] = "expire"
    /\ \E row \in FirstRow(todo[j]) :
          orders' = [i \in DOMAIN orders |->
                        IF i = row.id THEN [orders[i] EXCEPT !.status = "expired"]
                        ELSE orders[i]]
    /\ Return(j)
    /\ UNCHANGED <<settings, rows, outside, history, spent>>

\* ExpirePendingOrder: the only conditional UPDATE of a status.
Expire(j) ==
    /\ pc[j] = "expire"
    /\ \E row \in FirstRow(todo[j]) :
          orders' = IF Holds(row.id, "pending")
                    THEN [orders EXCEPT ![row.id].status = "expired"] ELSE orders
    /\ Return(j)
    /\ UNCHANGED <<settings, rows, outside, history, spent>>

\* After its reconciling round ShopReconcileJob runs ExpireStalePendingOrders.
EndRound(j) ==
    /\ pc[j] = "poll" /\ todo[j] = {}
    /\ IF j = RecJob /\ phase[j] = "reconcile"
       THEN /\ phase' = [phase EXCEPT ![j] = "expire"]
            /\ todo' = [todo EXCEPT ![j] = ToExpire]
            /\ UNCHANGED pc
       ELSE /\ phase' = [phase EXCEPT ![j] = "reconcile"]
            /\ Goto(j, "idle")
            /\ UNCHANGED todo
    /\ UNCHANGED <<store, outside, local, history, spent>>

-----------------------------------------------------------------------------
(* BufPay, the meter, the panel and the clock.                             *)

BuyerPays(sn) ==
    /\ bill[sn] = "open"
    /\ bill' = [bill EXCEPT ![sn] = "paid"]
    /\ UNCHANGED <<store, answer, ready, now, pc, local, jobs, history, spent>>

\* sendShopBufPayQR gives BufPay the order number with the project's prefix;
\* strconv.Atoi accepts digits only.
WireId(id) == [prefix |-> "xxui-", digits |-> id]

AtoiFails(text) == text.prefix # ""

\* BufPay posts its callback: VerifyBufPayNotify parses the number, and so does
\* the controller's fallback.  Success also for an order already handled.
BufPayNotify(p, id) ==
    /\ CanStart(p) /\ p \in Workers
    /\ id \in DOMAIN orders
    /\ bill[orders[id].sn] = "paid"
    /\ spent.callbacks < MaxCallbacks
    /\ spent' = [spent EXCEPT !.callbacks = @ + 1]
    /\ LET unread == AtoiFails(WireId(id))
       IN  /\ answer' = [answer EXCEPT ![orders[id].sn] =
                           IF unread THEN "fail" ELSE "success"]
           /\ IF ~unread /\ Holds(id, "pending") /\ ready
              THEN Enter(p, "approve", id, "load")
              ELSE UNCHANGED <<pc, local>>
    /\ UNCHANGED <<store, bill, ready, now, jobs, history>>

\* AddTraffic in one transaction: traffic of some clients, then
\* disableInvalidClients over the whole table.
AddTraffic(emails) ==
    /\ \A e \in emails : rows[e].enable /\ rows[e].used < MaxUsed
    /\ rows' = [e \in DOMAIN rows |->
                  LET row == [rows[e] EXCEPT !.used = IF e \in emails THEN @ + 1 ELSE @]
                  IN  [row EXCEPT !.enable = @ /\ ~Depleted(row, now)]]
    /\ UNCHANGED <<orders, settings, outside, pc, local, jobs, history, spent>>

\* DelInboundClient from the panel: reads the inbound, deletes the traffic row,
\* later writes the array back without the client.
DeleteClient(p, email) ==
    /\ CanStart(p) /\ p \in Workers
    /\ spent.deletes < MaxDeletes
    /\ ClientKnown(settings, rows, email)
    /\ spent' = [spent EXCEPT !.deletes = @ + 1]
    /\ rows' = DelClientStat(rows, email)
    /\ inb' = [inb EXCEPT ![p] = settings]
    /\ cli' = [cli EXCEPT ![p] = ClientByEmail(settings, email)]
    /\ op' = [op EXCEPT ![p] = "delete"]
    /\ Goto(p, "drop")
    /\ UNCHANGED <<orders, settings, outside, oid, ord, jobs, history>>

DropClient(p) ==
    /\ pc[p] = "drop"
    /\ settings' = WithoutClient(inb[p], cli[p].id)
    /\ Return(p)
    /\ UNCHANGED <<orders, rows, outside, history, spent>>

\* The panel's "clear orders": every row goes and the ids restart.
ClearOrders ==
    /\ orders # << >>
    /\ spent.clears < MaxClears
    /\ spent' = [spent EXCEPT !.clears = @ + 1]
    /\ orders' = << >>
    /\ UNCHANGED <<settings, rows, outside, pc, local, jobs, history>>

\* The administrator deselects the shop's inbound in the settings, or selects it
\* again.  Its clients stay as they are.
ToggleReady ==
    /\ ready => spent.outages < MaxOutages
    /\ ready' = ~ready
    /\ spent' = IF ready THEN [spent EXCEPT !.outages = @ + 1] ELSE spent
    /\ UNCHANGED <<store, bill, answer, now, pc, local, jobs, history>>

Tick ==
    /\ now < MaxClock
    /\ now' = now + 1
    /\ UNCHANGED <<store, bill, answer, ready, pc, local, jobs, history, spent>>

-----------------------------------------------------------------------------

Handler(p) ==
    \/ \E b \in Buyers, plan \in Plans, bufpay \in BOOLEAN : CreateOrder(p, b, plan, bufpay)
    \/ InsertOrder(p) \/ CreatePayment(p) \/ SaveOrderAoid(p) \/ ShowQr(p) \/ PaymentUnusable(p)
    \/ \E id \in DOMAIN orders :
          \/ AdminApproves(p, id) \/ AdminRejects(p, id)
          \/ BuyerCancels(p, id) \/ AdminRevokes(p, id) \/ BufPayNotify(p, id)
    \/ \E b \in Buyers : DeleteClient(p, b)
    \/ DropClient(p)

Approval(p) ==
    \/ LoadClient(p) \/ CopyForUpdate(p) \/ WriteClient(p)
    \/ CheckDuplicate(p) \/ CopyForAdd(p) \/ AddClient(p) \/ DbFails(p)
    \/ SaveOrder(p) \/ SaveFails(p)

Job(j) == StartJob(j) \/ (\E id \in 1..MaxOrders : Poll(j, id)) \/ PollFails(j) \/ Expire(j) \/ EndRound(j)

Environment ==
    \/ \E sn \in Serials : BuyerPays(sn)
    \/ \E emails \in SUBSET (DOMAIN rows \ {House}) : emails # {} /\ AddTraffic(emails)
    \/ ClearOrders \/ ToggleReady \/ Tick

Next ==
    \/ \E p \in Workers : Handler(p)
    \/ \E p \in Procs : Approval(p)
    \/ \E j \in Jobs : Job(j)
    \/ Environment

Spec == Init /\ [][Next]_vars

-----------------------------------------------------------------------------
(* Fairness.  Goroutines that are not blocked run; cron fires its jobs; a   *)
(* query that every expiry round repeats is not answered with an error     *)
(* every time; time passes.  Nothing is assumed of the administrator, the   *)
(* buyers, and the queries of the other rounds.                            *)

Proceed(p) ==
    \/ InsertOrder(p) \/ CreatePayment(p) \/ SaveOrderAoid(p) \/ ShowQr(p)
    \/ LoadClient(p) \/ CopyForUpdate(p) \/ WriteClient(p)
    \/ CheckDuplicate(p) \/ CopyForAdd(p) \/ AddClient(p)
    \/ SaveOrder(p) \/ DropClient(p)

Fairness ==
    /\ \A p \in Procs : WF_vars(Proceed(p))
    /\ \A j \in Jobs : /\ WF_vars(StartJob(j))
                       /\ WF_vars(Expire(j) \/ EndRound(j))
                       /\ WF_vars(PollFails(j) \/ \E id \in 1..MaxOrders : Poll(j, id))
    /\ \A id \in 1..MaxOrders : SF_vars(phase[RecJob] = "expire" /\ Poll(RecJob, id))
    /\ WF_vars(Tick)

FairSpec == Spec /\ Fairness

-----------------------------------------------------------------------------
(* Properties.                                                             *)

Client == [email : Buyers \cup {House}, id : Seq(Procs \cup {House} \cup Nat),
           total : Nat, expiry : Nat, enable : BOOLEAN]

TrafficRow == [total : Nat, expiry : Nat, enable : BOOLEAN, used : Nat]

Places == {"idle", "insert", "pay", "aoid", "show", "load", "copy", "write", "dup",
           "copyAdd", "add", "save", "drop", "poll", "expire"}

Handlers == {"none", "create", "approve", "reject", "cancel", "revoke", "delete"}

\* Every variable has its type.
TypeOK ==
    /\ DOMAIN orders \subseteq Nat
    /\ \A i \in DOMAIN orders : orders[i] \in Order
    /\ settings \in Seq(Client)
    /\ DOMAIN rows \subseteq Buyers \cup {House}
    /\ \A e \in DOMAIN rows : rows[e] \in TrafficRow
    /\ bill \in [Serials -> {"none", "open", "paid"}]
    /\ answer \in [Serials -> {"none", "success", "fail"}]
    /\ ready \in BOOLEAN
    /\ now \in Nat
    /\ pc \in [Procs -> Places]
    /\ op \in [Procs -> Handlers]
    /\ oid \in [Procs -> Nat]
    /\ ord \in [Procs -> Order \cup {NoOrder}]
    /\ cli \in [Procs -> Client \cup {NoClient}]
    /\ inb \in [Procs -> Seq(Client)]
    /\ todo \in [Jobs -> SUBSET [id : Nat, aoid : Serials]]
    /\ phase \in [Jobs -> {"reconcile", "expire"}]
    /\ born \in 0..MaxOrders
    /\ grants \in [Serials -> Nat]
    /\ lost \subseteq Serials
    /\ spent \in [clears : Nat, deletes : Nat, errors : Nat, outages : Nat, callbacks : Nat]

\* A row that says "approved" (or "revoked", which needs "approved" first) was
\* paid out: the quota of that very order was committed at least once, however
\* the handlers overlap.
ApprovedWasGranted ==
    \A i \in DOMAIN orders :
        orders[i].status \in {"approved", "revoked"} => grants[orders[i].sn] >= 1

\* An order is granted at most once by each of the handlers that were under way
\* together: never again after it was settled.  With one handler at a time this
\* is exactly-once.  (A grant whose final Save fails is repeated by the polling
\* job: those orders are in lost.)
GrantsBounded ==
    \A sn \in Serials \ lost : grants[sn] <= MaxActive

\* total = 0 means unlimited traffic in the panel.  No interleaving of
\* approvals and revocations gives a buyer that.
NeverUnlimited ==
    /\ \A e \in DOMAIN rows \ {House} : rows[e].total >= 1
    /\ \A i \in DOMAIN settings : settings[i].email # House => settings[i].total >= 1

\* An order closed for lack of payment gave nothing away, once no handler is at
\* work on it: ExpirePendingOrder closes pending rows only, and an approval that
\* granted overwrites it.
ExpiredWasNotGranted ==
    \A i \in DOMAIN orders :
        LET sn == orders[i].sn
        IN  orders[i].status = "expired" /\ sn \notin lost
              /\ (\A p \in Procs : op[p] = "approve" => ord[p].sn # sn)
            => grants[sn] = 0

\* A buyer whose client has quota and days left is served: neither the JSON
\* array nor the traffic row leaves him switched off.
ServedWhilePaid ==
    \A e \in DOMAIN rows \ {House} :
        Active = {} /\ ~Depleted(rows[e], now)
        => /\ rows[e].enable
           /\ ClientKnown(settings, rows, e) /\ ClientByEmail(settings, e).enable

\* One pending order per buyer at a time (the comments of CreateOrder and of
\* ExpirePendingOrder).  Two CreateOrders that both count before either inserts
\* break it.
OnePendingPerBuyer ==
    \A i, k \in DOMAIN orders :
        /\ orders[i].buyer = orders[k].buyer
        /\ orders[i].status = "pending" /\ orders[k].status = "pending"
        => i = k

\* What is true of it: a buyer has no more pending orders than handlers overlap.
\* (CreateOrder.)
PendingBounded == \A b \in Buyers : Cardinality(PendingOf(b)) <= MaxActive

HasOrder(sn, status) ==
    \E i \in DOMAIN orders : orders[i].sn = sn /\ orders[i].status = status

\* Order sn waits and can be polled.  The clock of the model ends at MaxClock, so
\* only orders whose TTL runs out before that say anything about liveness.
Waiting(sn) ==
    \E i \in DOMAIN orders : /\ orders[i].aoid = sn /\ orders[i].status = "pending"
                             /\ orders[i].created + PendingTTL < MaxClock

\* An order BufPay knows does not hold its buyer's only slot for ever: it is
\* provisioned, or closed by a person, or expires (ExpireStalePendingOrders), even
\* with the polling queries failing now and then and older rows filling their LIMIT.
PendingReleased == \A sn \in Serials : Waiting(sn) ~> ~HasOrder(sn, "pending")

\* Money that arrives before the query that precedes closing an order is never
\* answered with closing it (ExpireStalePendingOrders: "an order that was paid must
\* not be voided"): in the end the quota is granted, or a person rejected the order.
\* Money that arrives between that query and the UPDATE does void the order.
PaidSettles ==
    \A sn \in Serials :
        (Waiting(sn) /\ bill[sn] = "paid" /\ \A j \in Jobs : pc[j] # "expire")
        ~> (grants[sn] > 0 \/ HasOrder(sn, "rejected"))

\* The comment of ReconcilePendingOrders: a recently expired order that turns
\* out to be paid is provisioned after all.
PaidExpiredIsProvisioned ==
    \A sn \in Serials :
        (HasOrder(sn, "expired") /\ bill[sn] = "paid") ~> grants[sn] > 0
=============================================================================
