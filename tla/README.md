# XX-UI: verification project

XX-UI (`src/`) is a Go web panel for xray-core with a Telegram bot that sells
traffic, and a browser front end in JavaScript. This directory holds TLA+ models
of the parts of it where several goroutines or people share state without a
common lock, and of the links that three pieces of code must write and read in
the same way; TLC configurations that check them on small instances; and TLAPS
proofs of their main invariants for every value of the constants.

## 1. Inventory of the system

| Part | State it keeps | Operations | Talks to |
|---|---|---|---|
| **Shop** (`web/service/shop.go`, `shopbot.go`, `bufpay.go`, `web/controller/shop.go`, the shop jobs) | table `orders`; settings | place, pay, approve, reject, cancel, revoke, expire, clear; poll BufPay; BufPay's callback | client store; BufPay (HTTP); Telegram; `SetToNeedRestart` |
| **Client store** (`web/service/inbound.go`) | `inbounds.settings.clients` (one JSON array per inbound), table `client_traffics` (unique e-mail) | add, update, delete, copy a client; account traffic; disable depleted clients; renew; reset | called by panel, bot, shop, jobs; xray's API; `SetToNeedRestart` |
| **Xray lifecycle** (`web/service/xray.go`, `xray/process.go`, `web/job/check_xray_running_job.go`, entries of `web/web.go`) | variable `p`, mutex `lock`, flags `isNeedXrayRestart`, `isManuallyStopped`, the OS processes | build the configuration, restart, stop, detect crashes, consume the flag | database; the operating system |
| **WebSocket hub** (`web/websocket/hub.go`, `web/controller/websocket.go`) | set of clients, three buffered channels, a send buffer per client | register, unregister, broadcast, stop | traffic job, notifier, browsers |
| **Traffic accounting and resets** (`inbound.go`, `web/job/xray_traffic_job.go`, `periodic_traffic_reset_job.go`) | counters of inbounds and clients, history, last reset time | add traffic, renew, reset by period, catch up on a missed day | client store, hub |
| **IP limit job** (`web/job/check_client_ip_job.go`) | IPs per client, ban log | parse access log, ban, release | fail2ban, xray |
| **Inbound and client forms** (`web/html/inbounds.html`, `modals/`, `form/`, `assets/js/model/inbound.js`) | an open form with its copy of an inbound | open, set a field, save, close | the API of the panel |
| **Share links** (`assets/js/model/inbound.js`, `sub/subService.go`, `assets/js/model/outbound.js`) | none: three translations of one inbound | write (panel), write (subscription), read (outbound form) | clients of the VPN |
| **Login guard, rate limits, subscription guard** | counters per address under one mutex each | count, block, forgive | gin |
| **Custom geo files** | files and their rows | download, replace, delete | xray restart |
| **Node monitor, health alerts, VPS quota** | last known state per node or threshold | probe, alert once | Telegram |
| **Telegram bot outside the shop**, **settings**, **latency, LDAP, backups**, **database layer**, **outbounds and providers** | mostly none of their own | | |

How they interact: everything is a goroutine of one process (gin handlers,
Telegram workers, cron entries). They share the SQLite database through single
statements and short transactions, the global `p`, and two atomic flags. There
is no lock around a handler. The cron chain (`web.go` 474-481) recovers from
panics and never starts a job whose previous run is still going; different jobs
do overlap.

The hard behaviours are therefore:

* *read, edit, write back*: an order row and a whole settings array are read,
  edited in memory, and saved whole, with other handlers in between;
* *money in two steps*: the quota is committed by one transaction, the order's
  status by a later `Save`;
* *polling*: two jobs poll BufPay for the same orders, in slices of 20 rows,
  with a query and a conditional `UPDATE` apart from each other;
* *id reuse*: clearing the table restarts the ids while handlers still hold old
  ones;
* *an edit that reaches the process but not its successor*: handlers talk to the
  running xray through its API without the mutex that restarts hold;
* *requests by flag*: the restart flag is taken down before the restart is made;
* *no waiting on exit*: the old process is sent SIGTERM and the new one started
  at once, on the same ports;
* *the hub's only loop waits for goroutines that wait for the hub's loop*;
* *a day that is missed*: a reset that is due while the panel is down is caught
  up later by comparing time stamps, of which some are cut to whole seconds;
* *counters that are saved back*: a form carries the traffic it showed, and the
  save writes whole rows, as do the handlers that change an inbound's clients,
  every approval of the shop among them;
* *fields that depend on each other*: transport, security and flow are set in any
  order, in two forms at once;
* *the same table written three times*: links are generated in JavaScript and in
  Go, and read in JavaScript.

What makes each part correct:

* **Shop**: who is marked approved was granted his quota; nobody is granted
  twice; an order closed as unpaid gave nothing away; revoking takes back
  exactly that order's share, never what other orders bought, never leaves free
  traffic, never reaches 0 (which means *unlimited*); a buyer's single pending
  slot is released; money that arrived is honoured.
* **Client store**: the array and the table agree; a client that has quota and
  days left is served.
* **Xray lifecycle**: a requested restart is not forgotten and is made in the
  end; a crash is repaired; no process runs that the panel has lost track of;
  what the database says is in force.
* **Hub**: map and channels agree; nothing is sent on a closed channel; browsers
  see messages in order; a client that left or lags is dropped; `Stop` ends
  everything.
* **Traffic**: no byte counted twice or lost; one reset per period, and one in
  each.
* **Forms**: nothing is stored that the form would not offer for the transport.
* **Links**: what the panel writes it can read; the subscription writes the same.

## 2. Modules

| Module | Models | Role |
|---|---|---|
| `InboundStore` | the functions of `inbound.go` on one inbound's array and on the traffic rows | operators, used by `Shop` |
| `Shop` | `shop.go`, the shop parts of `shopbot.go` and `bufpay.go`, the two polling jobs, the callback | specification of the detailed system |
| `ShopLedger` | the rules stated at `revokeAdjustment` and the order life cycle | abstract specification |
| `ShopBooks` | how a state of `Shop` is seen as books of `ShopLedger` | refinement mapping, and the properties stated through it |
| `MCShop` | constants, and the waiting orders that `shop_live` begins with | for TLC |
| `ShopProofs`, `ShopStoreProofs` | | theorems about `Shop`, whatever overlaps |
| `ShopLedgerProofs` | | theorems about `ShopLedger` |
| `ShopSerialProofs` | | theorems about `Shop` when handlers take turns, the refinement among them |
| `XrayLifecycle` | `xray.go`, `process.go`, the watchdog, the cron entries, edits through the API | specification |
| `MCXray` | constants | for TLC |
| `XrayProofs` | | theorems about `XrayLifecycle` |
| `WsHub` | `hub.go`, the pumps of `controller/websocket.go` | specification |
| `MCWs`, `WsProofs` | | constants; theorems |
| `TrafficReset` | `periodic_traffic_reset_job.go`, the counting, resetting and policy functions of `inbound.go` | specification |
| `MCTraffic`, `TrafficProofs` | | constants; theorems |
| `InboundForm` | the forms of an inbound and of a client | specification |
| `ShareLink` | the links of `inbound.js` and `subService.go`, the reader of `outbound.js` | operators |
| `MCLinks` | links of every inbound that `InboundForm` can store | composition |
| `FormProofs` | | theorems about `InboundForm` and about its links |

### Shop

State: `orders` is the table (row id to row); `settings` and `rows` are the two
tables of a client; `pc`, `op`, `oid`, `ord`, `cli`, `inb` are a handler's
program counter and its local variables (which handler it is, the id it works
on, its copies of the order row, the client and the settings array); `todo` and
`phase` are a polling job's list of rows and the round it is in; `bill` and
`answer` are BufPay's side; `now` the clock. `born`, `grants` and `lost` are
history variables; `born` also numbers the orders and bounds them, and `grants`
makes new client ids fresh.

Every database call of a handler is one action:

* `CreateOrder` (counts), `InsertOrder`, `CreatePayment`, `SaveOrderAoid`,
  `ShowQr`, `PaymentUnusable`: placing an order, with or without BufPay;
* `AdminApproves`, `AdminRejects`, `BuyerCancels`, `AdminRevokes`,
  `BufPayNotify`, `Poll`: the reads that start a handler;
* `LoadClient`, `CopyForUpdate`, `WriteClient` (extending or revoking),
  `CheckDuplicate`, `CopyForAdd`, `AddClient` (a new client), `UpdateFailed`
  (the fallback), `DbFails` (rollback);
* `SaveOrder`, `SaveFails`: the `Save` of the whole row, last step of every
  handler;
* `StartJob`, `Poll`, `PollFails`, `Expire`, `EndRound`: the two jobs;
* `AddTraffic`, `DeleteClient`/`DropClient`, `ClearOrders`, `ToggleReady`,
  `BuyerPays`, `Tick`: everybody else.

Abstractions: sizes and days are small numbers, one unit also standing for the
single byte of `revokeAdjustment`; a client id is a tuple naming its maker; the
shop serves one inbound; prices, signatures, messages, reminders, statistics and
usage notices are left out; the e-mail `tg<chat id>` is the buyer. The settings
array is a sequence, since its order decides which element a lookup finds.
Orders have, besides the row id, an identity `sn`, because row ids are reused.
Deselecting the shop's inbound is modelled, deleting it with its clients is not.
The panel's delete of a client may be interleaved with all of this; edits of a
buyer's client in the panel's form are not modelled.

### XrayLifecycle

State: `proc` (slot to process: the configuration it was given, what it serves
now, whether the API port is known, and `new`, `starting`, `serving`,
`stopping`, `dying` or `dead`), `p`, `lock`, the two flags, `db` (the enabled
inbounds), the callers' locals `force` and `built`, the editors' `edit`, the
watchdog's `checkTime`. `owed` and `fresh` are history: a restart was requested
and no process was created since from a configuration read after that.

Actions follow `RestartXray` line by line (`Acquire`, `AccountDue` and
`BuildConfig` for `GetXrayConfig`, `Decide`, `CreateProcess`, `StartProcess`, `GraceEnds`, and the failures `BuildFails`,
`StartFails`), who calls it (`RestartPressed`, `ConsumeFlag` with `RestoreFlag`,
`CheckXray`), `StopXray`, an editor's four steps (`BeginEdit`, `ApiTakes` or
`ApiRefuses`, `CommitEdit`, `AnnounceRestart`), and what xray-core does
(`Serve`, `PortConflict`, `Exit`, `Crash`).

Abstractions: a configuration is the set of inbounds it contains; the file
`config.json` is written within `StartProcess`, since starts are serialised by
the mutex; slots are names for processes and a dead process's slot is reused;
a handler's commit does not fail; `AccountDue` is the `AddTraffic(nil, nil)` call
of `GetXrayConfig`, one step with its transaction, whose verdict `needRestart`
that caller drops. `KillOrphanXray` is left out: it looks for
processes whose parent is pid 1, which are those of an earlier panel. `p` is nil
only before the first start and that window is left out too.

### WsHub

State: the map `clients`, the channels `broadcast` (a count), `register` and
`unregister`, whether the context is `cancelled`, where the loop is, the
deliveries of the broadcast it waits for (`work`) and those of them whose worker
is inside `Unregister` (`stuck`); of each connection the stage of
`HandleWebSocket` and `readPump`, whether `writePump` runs, its socket, its
channel `Send` and whether that is closed. History: what was written last, who
was admitted, whose unregistration overtook his registration, who missed a
message.

Actions: one for each case of `Run`'s `select` (`LoopStop`, `LoopRegister`,
`LoopUnregister`, `LoopBroadcast`), the end of its `wg.Wait` (`LoopResume`), the
two outcomes of a worker's `select` (`Deliver`) and the return of its call of
`Unregister` (`Evict`), `Broadcast` up to the channel and `CastEnds` (delivered
to the channel, or dropped), `Stop`; for a connection `Connect`, `Register`,
`ReadError`, `Leave`, `Write`, `WriterEnds`, and `PeerGone`.

Abstractions: a message is its position in the order of the loop; a message over
10 MB, which is replaced by a short notice, is a message; goroutine-per-client and
worker-pool deliveries are one action, with the pool's size as the bound of
workers that may be stuck. The handler of `recover` in `Run` is left out, since
nothing inside the loop panics: the workers recover for themselves.

### TrafficReset

State: `day`, the inbounds' rows (`exists`, `row`: counters, all-time counter,
policy, time of the last reset), the clients' counters, the totals of the history
(`filed`), the cron entries that fire today (`pending`) and what each running job
has left to do (`todo`, copies of rows), an open `form`, and a handler of clients
under way (`edit`). History: `metered`, `discarded` (set to zero or deleted),
`handled` (the due date dealt with last), `held` (since when a policy holds),
`overwritten` (what saves of whole rows took from the two counters of an inbound,
or gave back to them), `rewound` (inbounds whose reset time such a save put back,
until a job handles them again).

Actions: `AddTraffic`; `NextDay`, on which the entries fire or the panel is down;
`List` (`getInboundsForPeriod`), then `Mark`, `Reset` or `HandleFails` for each
copy; `AddInbound`, `ResetTraffics`, `ResetAllClientTraffics`,
`ResetClientTraffic`, `ApplyTrafficResetToAll`; an edit of the inbound in its steps
`OpenForm`, `ReadOld`, `SaveOld`, `CloseForm`; and a handler of its clients in the
steps `ReadInbound`, `DelClientStat`, `SaveClients`, `EditFails`.

The last four stand for the five functions that read an inbound, put other clients
into it and save the whole row: `AddInboundClient` (`inbound.go` 915 to 1005),
`DelInboundClient` (1209 to 1295), `UpdateInboundClient` (1313 to 1486),
`DelDepletedClients` (2622 to 2656) and `DelInboundClientByEmail` (3158 to 3247).
All that reach xray or the bot's menus go through them (copying clients, switching
a client on or off, the shop). Which clients they leave is in `Shop` and
`InboundStore`; here it is the other columns that matter.

Abstractions: upload and download are one number; the clients of an inbound are
one client; a day has two time stamps, midnight and later, which is what the
truncation to seconds can tell apart; daylight saving is left out; the hourly and
weekly entries, which differ from the daily one in when they fire, are left out;
a transaction is one step, since SQLite lets no transaction write after a read
that another one has made stale. `resetDay` outside 1 to 31 is what a caller sends
that leaves it out; the catch-up's clamping of it is modelled with the calendar. A
method may be left out of a request or be unknown: then the default policy or the
old one is taken, or the request is refused, as in the code. At a time one form
and one handler of clients are under way, overlapping each other and everything
else. Deleting an inbound is left out, and with it that a later save of a whole
row would insert it again.

### InboundForm, ShareLink and MCLinks

`InboundForm` has the stored inbound (protocol, transport, security and the flow
of its client), the form of the inbound and the form of its client, each with its
copy, and the history variable `overtaken`. Its actions are the fields of the
forms, with what the page does when they change (`streamNetworkChange`, the
watcher of the security, the setter of `protocol`), and opening, saving and
closing. Whether the watcher runs when a form is opened depends on what it showed
before, of another inbound even, so it may. Fields that no step depends on are
not in it.

`ShareLink` has operators only: the link that the panel makes of an inbound with
its other options (`PanelLink` and its parts), the one that the subscription makes
(`SubLink`), and the outbound that the form reads from a link (`Import`,
`Written`). A link is a record with its parameters as a function from keys; `f ++ g`
joins two of these.
Ports, remarks, base64 and URL coding, tokens and `allowInsecure` are left out;
the fields of the xhttp padding are one value, and so are its two encodings.

`MCLinks` composes them: in every state whose inbound can have a stream and
whose forms are closed it makes the links with all options usual, and with any
two of them unusual. `Unreadable` and `Different` list where the code is known
not to agree, one line for each case, and nothing else is excluded; each line was
found needed. Hysteria is excluded from the reading as a whole, for its reader takes
nothing of TLS; its two generators are compared key by key.

Of the address the options are any, a particular one, and `::0`, which the
subscription takes for any and the panel for a particular one. Inbounds that listen
on `@...`, for which the panel (`inbounds.html` 2964) and the subscription
(`subService.go` 93, 207) take address and security from the inbound that falls
back to them, are left out.

Left out: inbounds set through the API or the bot, which need not be what a form
would store; importing an inbound from JSON; and the options that appear in no
link.

## 3. Runs

| Run | Instance | Question | Result |
|---|---|---|---|
| `shop_serial` | 1 buyer, 1 worker, 2 orders, `MaxActive` 1, both jobs | does the shop keep its books when handlers do not overlap? | holds, and `Shop` implements `ShopLedger` |
| `shop_auto` | 1 buyer, 1 worker, both jobs, `MaxActive` 2, the table cleared once, the client deleted once, a database error, an outage of the inbound | do failures and races approve without a grant, grant more than the handlers under way, close a paid order as unpaid, or make a client unlimited? | no |
| `shop_live` | 2 waiting BufPay orders, queries of 1 row, jobs only | are waiting orders released and paid ones settled by polling alone? | yes |
| `shop_lost_client` | 2 buyers, 2 workers | is an approved buyer served? | **violated**, see 4 |
| `shop_paid_expired` | as `shop_live`, queries of 2 rows | is a paid expired order provisioned? | **violated** |
| `shop_two_pending` | 1 buyer, 2 workers, 2 orders, `MaxActive` 2 | has a buyer one pending order at most? | **violated** |
| `xray_live` | 1 inbound, 1 editor, 1 operator, the cron entry, the watchdog, 3 slots, 1 edit, 1 press, 1 failure | is a request forgotten or a process lost sight of; are requests honoured and crashes repaired? | no; yes |
| `xray_edits` | 1 operator, 2 edits | is a committed edit in force once all is quiet? | **violated** |
| `ws_hub` | 2 connections, every channel of capacity 1, 2 broadcasts | do map and channels agree, are messages in order, is everybody cut off who should be, does `Stop` end everything? | yes, as far as the loop is not wedged |
| `traffic` | 1 inbound, a month of 3 days and one of 1, reset days 2 and none, 2 units of traffic, 2 requests, among them a form and a handler of clients that save whole rows | is traffic lost or filed twice, a period filed over another, or a due date handled twice, but for what a saved row overwrites? | no |
| `traffic_missed` | 1 request | does every month have its reset? | **violated** |
| `links` | 2 flows; 294 option records for each inbound | is security or a flow stored that the transport does not offer; can the panel read its links; does the subscription write the same? | no; yes; yes; but for the listed exceptions |

Deadlock is checked in `links` only: the other models stop when their bounds are
spent, and the system itself is idle when nobody calls.

### Bounds

* Handlers: two that overlap (`MaxActive` 2) are the smallest number at which
  any of the read-then-write races shows; each of the races in the hazard list
  is between two.
* Orders: two are needed for one order's revocation to touch another's quota,
  for an id to be reused, and for a query limit of one to leave a row behind.
* Clock: long enough for a plan to run out, a TTL to pass and a day to begin
  (`shop_serial`); the 24 hours of `Window` are longer than the TTL, as in the
  code.
* `QueryLimit` is 1 for the code's 20: one row more than the limit waits.
* Channels of capacity 1 and two connections: the smallest hub in which a channel
  is full, one connection can lag while another leaves, and a broadcast has two
  workers. With the pool's size at 2 all of them may be stuck, as in the code
  with fewer clients than workers.
* Two months: the shorter has no day 2, so its last day stands for it; an outage
  can cover a due date with and without a day left in its month. One inbound is
  enough, because jobs treat inbounds one at a time and share nothing between
  them; two units of traffic tell the counter from what a reset took. Two requests are a
  form and a handler of clients that overlap, or either of them and a reset by hand,
  an import or a new policy; the meter, the jobs and their failures are not bounded
  by them.
* Options two at a time: the generators' conditions relate at most two options
  of an inbound to each other.
* Slots: the process in `p`, its predecessor that has not exited, and one that
  is being created; a fourth needs two predecessors that ignore SIGTERM.
* Failures, edits, presses, clears, deletes, callbacks: one or two, which is
  enough for each to fall at every point of the others.

Symmetry is not used: every run but a few checks temporal properties.

### Fairness

`Shop`: a goroutine that can take its next step does (weak fairness of
`Proceed` and of the jobs' steps); cron starts its jobs; time passes. A poll is
one step that either answers or fails (weak fairness of their disjunction), and
only for the polls of the expiry round it is assumed that BufPay does not fail
every time (strong fairness of `Poll` there). Nothing is assumed of buyers,
administrators or of the polls of the other rounds. Liveness properties speak
of orders whose TTL ends before `MaxClock`, since the clock stops there.

`XrayLifecycle`: goroutines run; cron fires the 30 second entry and the
watchdog; xray-core either binds or exits and obeys SIGTERM (weak fairness);
`Acquire` gets strong fairness because Go's `sync.Mutex` hands itself to a
waiter that starved for a millisecond. Nothing is assumed of people and
failures, which are bounded.

`WsHub`: every goroutine that can go on does (weak fairness of a connection's
reader, of the callers of `Broadcast`, of the workers together and of the loop).
Weak fairness of the loop as a whole says nothing about which ready case of its
`select` is taken, which is Go's own choice at random; that is why nothing is
said of how soon. Nothing is assumed of `writePump`, which is as slow as its
peer, nor of people.

## 4. Disagreements found

1. `shop_lost_client`: two approvals for two new buyers that overlap both read
   the settings array, and the later `Save` drops the other's client
   (`inbound.go` 915, 1005). The order says approved and the traffic row exists,
   while `shopbot.go` 746 promises the client at once.
2. `shop_paid_expired`: the comment at `shop.go` 998-999 says that an expired
   order found paid is provisioned. The job finds it, but `ApproveOrder` accepts
   pending orders only (315).
3. `shop_two_pending`: the comments at `shop.go` 229 and 1049 say that a person has
   one pending order at most. `CreateOrder` counts (231) and inserts (255) in two
   statements, and two overlapping requests of one buyer both count none.
4. `xray_edits`: an edit whose API call reaches the old process and whose commit
   comes after `RestartXray` read the database is in neither process, and its
   handler returns `needRestart = false`, against the comments at `inbound.go`
   258, 492, 548.
5. `traffic_missed`: the comment at `periodic_traffic_reset_job.go` 99-101 says
   that the catch-up keeps a month from going without a reset. It compares the
   last reset with the due date of the current month only (139-142): when the
   panel is down from the reset day to the end of that month, as for one midnight
   with a reset day of 31, nothing makes up for it.

Not stated as properties, because nothing in the repository says otherwise, but
visible in the models: with overlapping handlers an order may be granted once by
each of them (`GrantsBounded` says: never more often), and an order whose final
`Save` failed is granted again by the next poll (these are in `lost`). And every
callback of BufPay is answered with `fail`: the order number it was given is
`xxui-<id>` (`shopbot.go` 868), which the handler parses with `strconv.Atoi`
(`shop.go` 808; `WireId` and `AtoiFails` in the model), so that the polling jobs
alone provision orders, where the comment at `shopbot.go` 938 speaks of the callback.

Likewise in the newer models:

* the hub's loop can wedge: a worker inside `Unregister` waits for room that only
  the loop, which waits for the worker, could make (`Wedged`; it takes a hundred
  waiting unregistrations, and `Stop` ends it);
* a client whose unregistration is taken before its registration stays in the map
  until its buffer is full (`overtaken`);
* `Stop` says that it closes all connections; those still in the channel
  `register` stay open;
* a job whose listed copy has no traffic does not touch the clients' counters,
  and an inbound that is imported with an old time of its last reset loses its
  traffic in the first night;
* a save of a whole inbound row puts the counters, the policy and the reset time
  back to what they were when the row was read, or, by a form, the counters to what
  it showed when it was opened. Not only forms do this (`UpdateInbound`, 709): so do
  the five handlers of clients (1005, 1295, 1486, 2656, 3247), every approval and
  revocation of the shop among them. Traffic metered meanwhile is taken off the
  inbound's counters again, or a reset undone (`overwritten`); with the old reset
  time a due date may be handled again, and a period of the history begin before the
  last one ended (`rewound`);
* `streamNetworkChange` resets `inbound.reality`, a field that nothing reads, so
  Reality stays selected on WebSocket and HTTPUpgrade, which `canEnableReality` does
  not allow, and is stored (`CarriesReality`);
* a client form that is saved over a changed inbound can leave a flow that the
  new transport does not serve (`overtaken` of `InboundForm`);
* the panel cannot read all of its own links (`Unreadable`), and the subscription
  differs from the panel (`Different`): mKCP, for which three of its generators
  panic; ECH; further paths of tcp's http header; the mode of xhttp in VMess;
  external proxies that force TLS or none; a particular listen address with
  hysteria; the listen address `::0`, to which the panel's links lead and no client
  gets.

## 5. What is proved

All theorems are checked by TLAPS, for every value of the constants that the
modules' assumptions allow (`ShopAssumption`: the roles are distinct and the
numbers are numbers; `LifecycleAssumption`, `HubAssumption`,
`TrafficAssumption`: likewise; `FlowsAssumption`: the empty flow is not a flow).

* `XrayProofs!TypeCorrect`: `Spec => []TypeOK`. `TypeOK` is not inductive because
  of `checkTime \in 0..2`: the watchdog's count is 2 only while its restart is
  under way, and at most 1 when it is idle. That relation is the strengthening.
* `XrayProofs!RequestKept`: `Spec => []NoRequestLost`. The inductive invariant
  `RequestInv` adds that while the cron entry is inside its forced restart and a
  request is owed, either it has not yet read the configuration, or it has read
  it after the request and will create the process, or the flag is up again; the
  argument needs that its call is forced, so that the short cut cannot take it.
* `XrayProofs!NoneStray`: `Spec => []NoStrayProcess`. Rests on `Mutex` (only the
  holder of `lock` is inside `RestartXray`) and `StrayInv` (whoever is about to
  create a process finds that the one in `p` has died or was signalled): with
  the callers taking turns, nobody can start another one in between.
* `ShopProofs!ApprovedGranted`: `Spec => []ApprovedWasGranted`. The inductive
  invariant `GrantInv` is typing (`Types`) and, for every goroutine, `Coherent`:
  a handler only reaches the places its kind may reach (`Routed`), its copy of
  the row is of an order that exists (`Copied`), and an approval that is at its
  `Save` has committed its grant (`Paid`). It is needed because the row that
  `Save` writes is a copy made many steps earlier: the property of the table
  alone does not survive that step.
* `ShopProofs!GrantsFew`, `ExpiredGaveNothing`: `Spec => []GrantsBounded` and
  `Spec => []ExpiredWasNotGranted`. Both follow from `BoundInv`, which counts
  handlers. As long as the row of an order is open (pending or expired), every
  grant of it has a handler that is about to save "approved" over the row; and
  what was granted, with the approvals that have yet to grant, is never more than
  may overlap (`OwedAt`). An approval begins only at a pending row, so it adds one
  to handlers that are all still there, and these are at most `MaxActive`
  (`Crowd`). The argument needs that the row a handler saves over is the row of
  its order although ids are reused (`OneId`), and that serial numbers are fresh
  (`Numbered`). TLC has checked `BoundInv` on the instance of `shop_auto`, and on
  one with two orders and two workers, before it was proved.
* `ShopStoreProofs!TypeCorrect` and `NobodyUnlimited`: `Spec => []TypeOK` and
  `Spec => []NeverUnlimited`, whatever overlaps. The inductive invariant
  `StoreInv` says of both tables and of every copy of them that a handler holds
  (`inb`, `cli`, `ord`) what the properties say of the tables: the row or the
  array that is written is a copy made earlier, so an invariant of the tables
  alone would not survive the writes. An order's traffic is at least 1 and
  `Clamp` returns at least 1, which is why no sum or difference of them comes to
  0, the total that means unlimited. Type correctness of the array rests on
  lemmas about the operators of `InboundStore`, the loop of `DelInboundClient`
  among them, which is the recursive function `Kept`: the induction is a search
  for the least index at which the claim fails (`NatMin`).
* `ShopLedgerProofs!FloorKept` and `NothingFree`: the rules 1 to 3 of
  `revokeAdjustment`, for the abstract books with any finite set of orders and any
  plans (`Sensible`). A revocation is clamped from below by what was used at some
  earlier reading, so the two bounds need each other's case analysis; `Ruled`
  states them for one buyer. The traffic of the standing orders is a sum over a
  finite set, whose laws are proved here from the definition of the fold, again by
  a smallest counterexample (`BySubsets`).
* `ShopProofs!PendingFew`: `Spec => []PendingBounded`, whatever overlaps: a buyer
  has at most `MaxActive` pending orders. The rule of one pending order does not
  hold (`shop_two_pending`), and this is what is left of it. `SlotInv` counts, with
  the buyer's pending orders, the `CreateOrder`s of his that have counted none and
  not yet inserted: a `CreateOrder` joins these only when there is no pending order,
  and at most `MaxActive` handlers are under way (`Crowd`); an insert moves one from
  the one kind to the other.
* `ShopSerialProofs!PaidIsServed`: for `MaxActive = 1`, with any number of clearings,
  deletions, failed transactions, outages and callbacks, `Spec => []ServedWhilePaid`.
  `ServeInv` is about the tables (`Tables`: the two have the same clients, no client
  is named twice, ids in use were given out before, and who is switched off is
  depleted) and about what a handler knows of them (`View`): since it is alone, its
  copy of the array still is the array.
* `ShopSerialProofs!BooksAreKept`: `Calm => (Spec => LedgerKept)`, that is `Shop`
  implements `ShopLedger` under the mapping of `ShopBooks`; one lemma per action
  shows that it is a step of the books or none. `BookInv` says which order an id
  stands for (`Numbers`) and that the client about to be written has the quota
  that the books will show (`Exact`). `Calm` is `MaxActive = 1` and no clearing,
  deletion or failing transaction, and the code justifies no less: overlapping
  approvals grant an order twice, a clearing reuses ids, a deletion loses quota
  that was paid for, and an approval whose `Save` fails is granted again by the
  next poll. Outages of the inbound, failing polls, callbacks and both jobs are
  included; `shop_serial` checks the same instance of `Calm`.
* `ShopSerialProofs!FloorHolds` and `GiftBound`: `QuotaFloor` and `NoFreeQuota` of
  the shop, under `Calm`. They are the two theorems about the ledger, instantiated
  through the mapping; nothing about handlers is proved again.

* `WsProofs!TypeCorrect`, `MapAgrees`, `NeverSentOnClosed`, `MessagesInOrder`:
  `Spec => []P` for the four invariants of the hub, for any number of connections
  and any capacities. The second and third rest on `ServeInv`: a client waits in
  the channel `register` at most once and before it was ever in the map
  (`EntersOnce`), so that none comes back after its channel was closed; and there
  are deliveries only while the loop waits, and only to clients in the map
  (`WorkAwaited`), so that no case that closes a channel can be taken then.
  `MessagesInOrder` rests on `OrderInv`: every outstanding delivery is of the
  message taken last, what is in a channel is newer than what was written, and
  older than an outstanding delivery.
* `TrafficProofs!TypeCorrect`, `TrafficAccounted`, `HistoryDisjoint`,
  `HandledOnce`: the same for `TrafficReset`, for every calendar. `Typed` needs
  that `ClampedDay` is a day of its month, and lemmas about the recursive function
  `DaysBefore` that follow from its definition. `BookInv` strengthens `Accounted` and
  `PeriodsDisjoint` with what holds of rows that do not exist; that a save of a whole
  row shifts counter and `overwritten` by the same amount keeps the first, and that
  it either leaves the reset time at least as late or adds the inbound to `rewound`
  keeps the second. `HandledOnce` rests on `DueInv`: whatever is listed is of an
  inbound that still has the policy it was listed for and for a due date not yet
  handled, unless the policy was changed today or the inbound is in `rewound`
  (`ListedRight`); the due date handled last is not after the last reset
  (`HandledSoFar`); an inbound handled today is neither listed again nor about to
  be (`HandledToday`); and what handlers do meanwhile disturbs none of this
  (`Harmless`).
* `FormProofs!TypeCorrect`, `SecurityIsOffered`, `FlowIsServed`: for every set of
  flows. `Typed` adds that a client form is open only over a stored inbound;
  `SecurityInv` says of the form as well as of what is stored that security needs a
  transport with TLS, and Reality VLESS or Trojan; the transports that are left to
  Reality are those of `canEnableReality` and of `CarriesReality`;
  `FlowInv` adds that a client form's protocol is the stored one, which an edit
  cannot change.
* `FormProofs!EveryLinkRead` and `EveryLinkInSync`: for every inbound that the forms
  can store, every record of options that is `Sane` and every external proxy, the
  panel reads its own link as an outbound that connects to the inbound, and the
  subscription's link is read as the panel's is; except exactly where `Unreadable`
  and `Different` say so. `LinksAreRead` and `LinksInSync` are `PanelReadsItsLinks`
  and `SubscriptionInSync`, the same for the options of the run `links`. `Sane` asks
  of the options only what the form offers: two kinds of header, a path from a list
  that is not empty, and a first server name and short id. Of the state they need
  `AptInv`: Reality is of VLESS and Trojan alone, and hysteria always has TLS. The
  argument is that the outbound depends on a link's parameters only through the
  values of some keys (`Look`), and that the parts which a link is joined from have
  keys of their own, so that each value comes from one part.

So every safety property that a passing run checks, and the refinement, is also
proved. Where a theorem has a hypothesis (`MaxActive = 1`, `Calm`), the constants
of `shop_serial` meet it, and it is needed: with two workers and `MaxActive` 2 TLC
finds `ServedWhilePaid` violated, with one deletion, one
failing transaction or `MaxActive` 2 it finds `LedgerKept`, `QuotaFloor` and
`NoFreeQuota` violated, and after a clearing there are no rows for the mapping to
read.

Only model-checked is liveness: `PendingReleased` and `PaidSettles` of the shop,
`RequestHonoured` and `CrashRepaired` of the Xray lifecycle, `LaggardsCutOff`,
`GoneForgotten` and `ShutdownCompletes` of the hub. They follow from fairness, and
reasoning with `ENABLED` is out of the prover's reach; for them the bounds of
section 3 are all the evidence there is. The disagreements of section 4 are
counterexamples, and need no proof.

## 6. Not modelled

* *Client IP limit*, *custom geo files*, *node monitor, health alerts, VPS quota*,
  *latency, LDAP, backups*: they drive other programs and files; what they share
  with the rest is the restart flag and the editors of `XrayLifecycle`.
* *Login guard, rate limits, subscription guard*: every operation holds one mutex
  from its beginning to its end, so there is nothing but sequential code.
* *Settings, database layer, outbounds and providers, Telegram menus*: rows read
  and written one at a time, templates and texts.
* *Subscription in JSON and Clash form*, the subscription page.
* *Pages*: their WebSocket client (`assets/js/websocket.js`) and what they fall back
  to. Every failed attempt to connect starts another poller of `index.html`
  (1617-1620), all of which end when the connection is back, and another refresh
  loop of `inbounds.html` (4675-4680), which do not.
* *Renewal* (`autoRenewClients`) and migrations of `inbound.go`.
* *Vendored libraries*: `src/web/assets/codemirror` alone has more than four fifths
  of the repository's lines of JavaScript, and none of its logic.

What could be added next: renewal in `TrafficReset`, and that `XrayLifecycle`
implements a specification with an atomic restart.
