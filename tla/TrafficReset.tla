---------------------------- MODULE TrafficReset -----------------------------
(***************************************************************************)
(* The traffic counters of the inbounds and their periodic resets          *)
(* (web/service/inbound.go, web/job/periodic_traffic_reset_job.go): what   *)
(* AddTraffic counts, what the cron entries file in the history and set    *)
(* to zero, the catch-up for a reset day on which the panel was down, and  *)
(* the handlers that write the same rows meanwhile.                        *)
(*                                                                         *)
(* Upload and download are one number, and the clients of an inbound are   *)
(* one client.  The enable columns, which no action here reads, belong to  *)
(* InboundStore.  A transaction is one step, for SQLite in WAL mode has    *)
(* one writer and refuses to write after a read that is out of date.  But  *)
(* UpdateInbound and the handlers of clients read an inbound before their  *)
(* transaction, if they have one, and save the whole row in it.            *)
(***************************************************************************)
EXTENDS Integers, Sequences

CONSTANTS
    Inbounds,
    MonthLengths, \* the calendar: how many days each month has
    ResetDays,    \* values of resetDay in requests; those outside 1 .. LongestMonth are
                  \* what a caller sends that leaves it out, or has wrong
    LongestMonth, \* 31 in the code
    DefaultPolicy,\* defaultTrafficReset
    Nobody,       \* no inbound is in the form
    \* Bounds of the model, none of them in the code:
    MaxTraffic, MaxRequests

Periods == {"daily", "monthly", "custom_date"}

Methods == Periods \cup {"never"}

Policy == [method : Methods, day : Int]

\* What a request may have for a method: none (an empty string in the code) is
\* "unset", and anything that validResetMethods does not have is "bogus".
Requested == Methods \cup {"unset", "bogus"}

ASSUME TrafficAssumption ==
    /\ Nobody \notin Inbounds
    /\ MonthLengths \in Seq(Nat \ {0}) /\ MonthLengths # <<>>
    /\ ResetDays \subseteq Int
    /\ LongestMonth \in Nat \ {0}
    /\ DefaultPolicy \in Policy
    /\ MaxTraffic \in Nat /\ MaxRequests \in Nat

VARIABLES
    day,          \* today, counted from 1
    exists,       \* the rows of the table inbounds
    row,          \* what they hold
    clientUp,     \* the traffic of an inbound's client (client_traffics)
    filed,        \* traffic_histories: the totals of an inbound's rows and its client's,
                  \* and the end of the last period
    pending,      \* cron entries that fire today and have not listed yet
    todo,         \* what a running job has left to do
    form,         \* an edit of an inbound, from the browser's form to the save
    edit,         \* a handler of an inbound's clients, from its read to its save
    \* history
    metered,      \* everything AddTraffic has counted
    discarded,    \* what was set to zero by hand
    handled,      \* the due date the jobs last dealt with
    held,         \* the day since when an inbound has its policy
    overwritten,  \* what saves of whole rows took from the counters (or, negative, gave)
    rewound,      \* inbounds whose last reset time such a save put back, until a job
                  \* handles them again
    requests      \* how many of MaxRequests were made

tables == <<exists, row, clientUp, filed>>
forms == <<form, edit>>
books == <<metered, discarded, overwritten>>
resets == <<handled, held, rewound>>
vars == <<day, tables, pending, todo, forms, books, resets, requests>>

-----------------------------------------------------------------------------
(* The calendar, and time stamps.  A day has two: its midnight, and any    *)
(* time after it.                                                          *)

\* The days before a month.
DaysBefore[m \in 1 .. Len(MonthLengths)] ==
    IF m = 1 THEN 0 ELSE DaysBefore[m - 1] + MonthLengths[m - 1]

LastDay == DaysBefore[Len(MonthLengths)] + MonthLengths[Len(MonthLengths)]

MonthOf(d) == CHOOSE m \in 1 .. Len(MonthLengths) :
                  DaysBefore[m] < d /\ d <= DaysBefore[m] + MonthLengths[m]

Midnight(d) == 2 * d

Now == 2 * day + 1

\* time.Now().Unix() * 1000: a job that runs right after midnight truncates the
\* time to midnight itself.
TruncatedNow == {2 * day, 2 * day + 1}

\* The day of a month that resetDay stands for: a short month has its last day.
ClampedDay(resetDay, m) ==
    LET atLeastOne == IF resetDay < 1 THEN 1 ELSE resetDay
        atMost31 == IF atLeastOne > LongestMonth THEN LongestMonth ELSE atLeastOne
    IN  IF atMost31 > MonthLengths[m] THEN MonthLengths[m] ELSE atMost31

DueDate(resetDay, m) == DaysBefore[m] + ClampedDay(resetDay, m)

\* The entries @daily, @monthly and @daily.
Fires(period, d) == period = "monthly" => d = DaysBefore[MonthOf(d)] + 1

-----------------------------------------------------------------------------

Row == [up : Nat, allTime : Nat, method : Methods, day : Int, last : Nat]

Counts == [inbound : Nat, client : Nat]

Zero == [inbound |-> 0, client |-> 0]

Losses == [up : Int, allTime : Int]

EmptyRow == [up |-> 0, allTime |-> 0, method |-> "never", day |-> 1, last |-> 0]

ClosedForm == [step |-> "closed", id |-> Nobody, up |-> 0, old |-> EmptyRow]

NoEdit == [step |-> "idle", id |-> Nobody, old |-> EmptyRow]

\* There may be inbounds from before last_traffic_reset_time was, which is 0 then.
Init ==
    /\ day = 1
    /\ exists \in [Inbounds -> BOOLEAN]
    /\ \E d \in ResetDays :
           row = [i \in Inbounds |-> IF exists[i]
                                    THEN [EmptyRow EXCEPT !.method = "custom_date", !.day = d]
                                    ELSE EmptyRow]
    /\ clientUp = [i \in Inbounds |-> 0]
    /\ filed = [i \in Inbounds |-> [inbound |-> 0, client |-> 0, until |-> 0]]
    /\ pending = {}
    /\ todo = [p \in Periods |-> {}]
    /\ form = ClosedForm
    /\ edit = NoEdit
    /\ metered = [i \in Inbounds |-> Zero]
    /\ discarded = [i \in Inbounds |-> Zero]
    /\ handled = [i \in Inbounds |-> 0]
    /\ held = [i \in Inbounds |-> 0]
    /\ overwritten = [i \in Inbounds |-> [up |-> 0, allTime |-> 0]]
    /\ rewound = {}
    /\ requests = 0

\* A handler is called, one of MaxRequests.
Request ==
    /\ requests < MaxRequests
    /\ requests' = requests + 1

-----------------------------------------------------------------------------
(* Counting.                                                               *)

\* AddTraffic: one transaction adds to the inbound by an expression in SQL and to
\* the client by reading and saving its row.
AddTraffic(i) ==
    /\ exists[i]
    /\ metered[i].inbound < MaxTraffic
    /\ row' = [row EXCEPT ![i].up = @ + 1, ![i].allTime = @ + 1]
    /\ clientUp' = [clientUp EXCEPT ![i] = @ + 1]
    /\ metered' = [metered EXCEPT ![i] = [inbound |-> @.inbound + 1, client |-> @.client + 1]]
    /\ UNCHANGED <<day, exists, filed, pending, todo, forms, discarded, overwritten, resets, requests>>

-----------------------------------------------------------------------------
(* The cron entries.                                                       *)

\* Midnight passes, and the panel is up or down.  A job takes less than a day.
NextDay ==
    /\ day < LastDay
    /\ pending = {} /\ \A p \in Periods : todo[p] = {}
    /\ day' = day + 1
    /\ \/ pending' = {p \in Periods : Fires(p, day + 1)}
       \/ UNCHANGED pending
    /\ UNCHANGED <<tables, todo, forms, books, resets, requests>>

\* Mutant: a last reset at midnight itself counts as missed.
DueOnOrBefore(i, period) ==
    IF period # "custom_date"
    THEN {day}
    ELSE LET due == DueDate(row[i].day, MonthOf(day))
         IN  {d \in {due} : \/ day = due
                            \/ /\ row[i].last > 0
                               /\ Now > Midnight(due)
                               /\ row[i].last <= Midnight(due)}

\* The reset of an inbound is due on this day.  A standard period is due when its
\* entry fires; custom_date on its day of the month, or after it if the last reset
\* was before and there was one.
DueOn(i, period) ==
    IF period # "custom_date"
    THEN {day}
    ELSE LET due == DueDate(row[i].day, MonthOf(day))
         IN  {d \in {due} : \/ day = due
                            \/ /\ row[i].last > 0
                               /\ Now > Midnight(due)
                               /\ row[i].last < Midnight(due)}

\* The inbounds whose reset is due, with the due date.
DueNow(period) ==
    {x \in {i \in Inbounds : exists[i] /\ row[i].method = period} \X (1 .. day) :
        x[2] \in DueOn(x[1], period)}

\* getInboundsForPeriod: copies of the rows.  The due date is history.
List(p) ==
    /\ p \in pending
    /\ pending' = pending \ {p}
    /\ todo' = [todo EXCEPT ![p] =
           {[id |-> x[1], up |-> row[x[1]].up, due |-> x[2]] : x \in DueNow(p)}]
    /\ UNCHANGED <<day, tables, forms, books, resets, requests>>

\* The copy is done with, and its due date met.
Handled(p, x) ==
    /\ todo' = [todo EXCEPT ![p] = @ \ {x}]
    /\ handled' = [handled EXCEPT ![x.id] = x.due]
    /\ rewound' = rewound \ {x.id}

\* One turn of Run's loop, for a copy without traffic: MarkTrafficResetTime.
Mark(p, x) ==
    /\ x \in todo[p]
    /\ x.up = 0
    /\ row' = [row EXCEPT ![x.id].last = Now]
    /\ Handled(p, x)
    /\ UNCHANGED <<day, exists, clientUp, filed, pending, forms, books, held, requests>>

\* Mutant: the history gets the traffic of the listed copy.
ResetListed(p, x) ==
    /\ x \in todo[p]
    /\ x.up > 0
    /\ \E truncated \in TruncatedNow :
           row' = [row EXCEPT ![x.id].up = 0, ![x.id].last = truncated]
    /\ filed' = [filed EXCEPT ![x.id] = [inbound |-> @.inbound + x.up,
                                         client |-> @.client + clientUp[x.id],
                                         until |-> Now]]
    /\ clientUp' = [clientUp EXCEPT ![x.id] = 0]
    /\ Handled(p, x)
    /\ UNCHANGED <<day, exists, pending, forms, books, held, requests>>

\* Mutant: the reset does not move the time of the last reset.
ResetKeepsTime(p, x) ==
    /\ x \in todo[p]
    /\ x.up > 0
    /\ row' = [row EXCEPT ![x.id].up = 0]
    /\ filed' = [filed EXCEPT ![x.id] = [inbound |-> @.inbound + row[x.id].up,
                                         client |-> @.client + clientUp[x.id],
                                         until |-> Now]]
    /\ clientUp' = [clientUp EXCEPT ![x.id] = 0]
    /\ Handled(p, x)
    /\ UNCHANGED <<day, exists, pending, forms, books, held, requests>>

\* One turn for a copy with traffic: ResetInboundTrafficWithHistory files what the
\* rows hold now, sets them to zero, and moves the time of the last reset.
Reset(p, x) ==
    /\ x \in todo[p]
    /\ x.up > 0
    /\ \E truncated \in TruncatedNow :
           row' = [row EXCEPT ![x.id].up = 0, ![x.id].last = truncated]
    /\ filed' = [filed EXCEPT ![x.id] = [inbound |-> @.inbound + row[x.id].up,
                                         client |-> @.client + clientUp[x.id],
                                         until |-> Now]]
    /\ clientUp' = [clientUp EXCEPT ![x.id] = 0]
    /\ Handled(p, x)
    /\ UNCHANGED <<day, exists, pending, forms, books, held, requests>>

\* Either of them fails, and the loop goes on.
HandleFails(p, x) ==
    /\ x \in todo[p]
    /\ todo' = [todo EXCEPT ![p] = @ \ {x}]
    /\ UNCHANGED <<day, tables, pending, forms, books, resets, requests>>

-----------------------------------------------------------------------------
(* Handlers.                                                               *)

\* normalizeTrafficReset of a method it accepts.
Normalized(method, d) ==
    [method |-> method,
     day |-> IF method = "custom_date" /\ (d < 1 \/ d > LongestMonth) THEN 1 ELSE d]

\* AddInbound and ApplyTrafficResetToAll take the default for a policy left out.
OrDefault(method, d) ==
    IF method = "unset" THEN DefaultPolicy ELSE [method |-> method, day |-> d]

\* AddInbound: created with a policy or imported with traffic, and then with the
\* time of the last reset it had where it was exported.  A bogus method is refused.
AddInbound(i, up, last) ==
    /\ ~exists[i]
    /\ Request
    /\ exists' = [exists EXCEPT ![i] = TRUE]
    /\ \E method \in Requested, d \in ResetDays :
           LET policy == OrDefault(method, d)
               n == Normalized(policy.method, policy.day)
           IN  /\ policy.method \in Methods
               /\ row' = [row EXCEPT ![i] = [up |-> up, allTime |-> up, method |-> n.method, day |-> n.day,
                                             last |-> IF last <= 0 THEN Now ELSE last]]
    /\ clientUp' = [clientUp EXCEPT ![i] = up]
    /\ metered' = [metered EXCEPT ![i] = [inbound |-> up, client |-> up]]
    /\ held' = [held EXCEPT ![i] = day]
    /\ UNCHANGED <<day, filed, pending, todo, forms, discarded, overwritten, handled, rewound>>

\* ResetInboundTraffic, or ResetAllTraffics: the inbounds' counters only.
ResetTraffics(S) ==
    /\ Request
    /\ row' = [i \in Inbounds |-> IF i \in S THEN [row[i] EXCEPT !.up = 0] ELSE row[i]]
    /\ discarded' = [i \in Inbounds |-> IF i \in S
                                        THEN [discarded[i] EXCEPT !.inbound = @ + row[i].up]
                                        ELSE discarded[i]]
    /\ UNCHANGED <<day, exists, clientUp, filed, pending, todo, forms, metered, overwritten, resets>>

\* ResetAllClientTraffics, of one inbound or of all: the clients' counters, and
\* the time of the last reset.
ResetAllClientTraffics(S) ==
    /\ Request
    /\ \E truncated \in TruncatedNow :
           row' = [i \in Inbounds |-> IF i \in S THEN [row[i] EXCEPT !.last = truncated] ELSE row[i]]
    /\ clientUp' = [i \in Inbounds |-> IF i \in S THEN 0 ELSE clientUp[i]]
    /\ discarded' = [i \in Inbounds |-> IF i \in S
                                        THEN [discarded[i] EXCEPT !.client = @ + clientUp[i]]
                                        ELSE discarded[i]]
    /\ UNCHANGED <<day, exists, filed, pending, todo, forms, metered, overwritten, resets>>

\* The client rows lose this much of the inbound's traffic.
DropClientTraffic(i, gone) ==
    /\ clientUp' = [clientUp EXCEPT ![i] = @ - gone]
    /\ discarded' = [discarded EXCEPT ![i].client = @ + gone]

\* ResetClientTraffic and ResetClientTrafficByEmail.
ResetClientTraffic(i) ==
    /\ exists[i]
    /\ Request
    /\ DropClientTraffic(i, clientUp[i])
    /\ UNCHANGED <<day, exists, row, filed, pending, todo, forms, metered, overwritten, resets>>

\* ApplyTrafficResetToAll: the policy, and the last reset is now.  A bogus method is
\* refused.
ApplyTrafficResetToAll(method, d) ==
    /\ Request
    /\ LET policy == OrDefault(method, d)
           n == Normalized(policy.method, policy.day)
       IN  /\ policy.method \in Methods
           /\ row' = [i \in Inbounds |-> IF exists[i]
                                         THEN [row[i] EXCEPT !.method = n.method, !.day = n.day, !.last = Now]
                                         ELSE row[i]]
    /\ held' = [i \in Inbounds |-> IF exists[i] THEN day ELSE held[i]]
    /\ UNCHANGED <<day, exists, clientUp, filed, pending, todo, forms, books, handled, rewound>>

\* Mutant: the request's policy is saved as it is.
MergedVerbatim(method, d, old) == Normalized(method, d)

\* mergeTrafficResetPolicy: what a request leaves out stays as it was, and a method
\* that is none gives way to the default policy.
Merged(method, d, old) ==
    LET valid(x) == 1 <= x /\ x <= LongestMonth
        wanted == IF method = "unset" THEN old.method ELSE method
    IN  IF wanted \in Methods
        THEN Normalized(wanted, IF valid(d) THEN d ELSE IF valid(old.day) THEN old.day ELSE 1)
        ELSE DefaultPolicy

\* Save of a whole inbound row.
SaveInbound(i, new) ==
    /\ row' = [row EXCEPT ![i] = new]
    /\ held' = [held EXCEPT ![i] = IF new.method = row[i].method /\ new.day = row[i].day THEN @ ELSE day]
    /\ overwritten' = [overwritten EXCEPT ![i] = [up |-> @.up + row[i].up - new.up,
                                                  allTime |-> @.allTime + row[i].allTime - new.allTime]]
    /\ rewound' = IF new.last < row[i].last THEN rewound \cup {i} ELSE rewound

\* An administrator opens the form of an inbound: it carries the traffic shown.
OpenForm(i) ==
    /\ exists[i]
    /\ form.step = "closed"
    /\ Request
    /\ form' = [step |-> "open", id |-> i, up |-> row[i].up, old |-> EmptyRow]
    /\ UNCHANGED <<day, tables, pending, todo, edit, books, resets>>

\* UpdateInbound reads the row, outside its transaction.
ReadOld ==
    /\ form.step = "open"
    /\ form' = [form EXCEPT !.step = "read", !.old = row[form.id]]
    /\ UNCHANGED <<day, tables, pending, todo, edit, books, resets, requests>>

\* And saves all of it: the traffic of the form, the policy of the request, and
\* the other columns as they were read.  Clients that the form no longer has lose
\* their traffic rows.
SaveOld(method, d) ==
    /\ form.step = "read"
    /\ LET old == form.old
           n == Merged(method, d, old)
           changed == n.method # old.method \/ n.day # old.day
       IN  SaveInbound(form.id, [up |-> form.up, allTime |-> old.allTime,
                                 method |-> n.method, day |-> n.day,
                                 last |-> IF changed THEN Now ELSE old.last])
    /\ \E gone \in 0 .. clientUp[form.id] : DropClientTraffic(form.id, gone)
    /\ form' = ClosedForm
    /\ UNCHANGED <<day, exists, filed, pending, todo, edit, metered, handled, requests>>

\* The form is closed without saving, or the request fails.
CloseForm ==
    /\ form.step # "closed"
    /\ form' = ClosedForm
    /\ UNCHANGED <<day, tables, pending, todo, edit, books, resets, requests>>

\* AddInboundClient, UpdateInboundClient, DelInboundClient, DelInboundClientByEmail
\* or DelDepletedClients reads an inbound.
ReadInbound(i) ==
    /\ exists[i]
    /\ edit.step = "idle"
    /\ Request
    /\ edit' = [step |-> "read", id |-> i, old |-> row[i]]
    /\ UNCHANGED <<day, tables, pending, todo, form, books, resets>>

\* The two deletions delete the client's traffic row by a statement of its own.
DelClientStat ==
    /\ edit.step = "read"
    /\ \E gone \in 0 .. clientUp[edit.id] : DropClientTraffic(edit.id, gone)
    /\ edit' = [edit EXCEPT !.step = "dropped"]
    /\ UNCHANGED <<day, exists, row, filed, pending, todo, form, metered, overwritten, resets, requests>>

\* The handler saves the inbound as it was read, with other clients.  The others
\* delete traffic rows, if any, in the same transaction.
SaveClients ==
    /\ edit.step # "idle"
    /\ SaveInbound(edit.id, edit.old)
    /\ \E gone \in IF edit.step = "read" THEN 0 .. clientUp[edit.id] ELSE {0} :
           DropClientTraffic(edit.id, gone)
    /\ edit' = NoEdit
    /\ UNCHANGED <<day, exists, filed, pending, todo, form, metered, handled, requests>>

\* It returns early, or its last statement fails.
EditFails ==
    /\ edit.step # "idle"
    /\ edit' = NoEdit
    /\ UNCHANGED <<day, tables, pending, todo, form, books, resets, requests>>

-----------------------------------------------------------------------------

Handle(p, x) == Mark(p, x) \/ Reset(p, x) \/ HandleFails(p, x)

Next ==
    \/ NextDay
    \/ \E i \in Inbounds :
           \/ AddTraffic(i)
           \/ \E up \in {0, 1}, last \in {0, 1, Now} : AddInbound(i, up, last)
           \/ ResetClientTraffic(i)
           \/ OpenForm(i) \/ ReadInbound(i)
    \/ \E p \in Periods : List(p) \/ \E x \in todo[p] : Handle(p, x)
    \/ \E S \in {{i} : i \in {j \in Inbounds : exists[j]}} \cup {{j \in Inbounds : exists[j]}} :
           ResetTraffics(S) \/ ResetAllClientTraffics(S)
    \/ \E method \in Requested, d \in ResetDays : ApplyTrafficResetToAll(method, d) \/ SaveOld(method, d)
    \/ ReadOld \/ CloseForm
    \/ DelClientStat \/ SaveClients \/ EditFails

Spec == Init /\ [][Next]_vars

-----------------------------------------------------------------------------
(* Properties.                                                             *)

\* The types; the method of a row is one that some cron entry looks for, whatever a
\* request left out or had wrong.  (normalizeTrafficReset, mergeTrafficResetPolicy.)
TypeOK ==
    /\ day \in Nat
    /\ exists \in [Inbounds -> BOOLEAN]
    /\ row \in [Inbounds -> Row]
    /\ clientUp \in [Inbounds -> Nat]
    /\ filed \in [Inbounds -> [inbound : Nat, client : Nat, until : Nat]]
    /\ pending \subseteq Periods
    /\ todo \in [Periods -> SUBSET [id : Inbounds, up : Nat, due : Nat]]
    /\ form \in [step : {"closed", "open", "read"}, id : Inbounds \cup {Nobody}, up : Nat, old : Row]
    /\ form.step # "closed" => form.id \in Inbounds
    /\ edit \in [step : {"idle", "read", "dropped"}, id : Inbounds \cup {Nobody}, old : Row]
    /\ edit.step # "idle" => edit.id \in Inbounds
    /\ metered \in [Inbounds -> Counts] /\ discarded \in [Inbounds -> Counts]
    /\ handled \in [Inbounds -> Nat] /\ held \in [Inbounds -> Nat]
    /\ overwritten \in [Inbounds -> Losses]
    /\ rewound \subseteq Inbounds
    /\ requests \in Nat

\* No traffic is lost or counted twice between the counters, the history and what
\* administrators set to zero or deleted.  The one leak is the save of a whole row
\* (UpdateInbound and the handlers of clients), which takes back what happened to
\* the inbound's counters since it was read: that and nothing else is overwritten,
\* through resets in between and saves over one another; clients never leak.  (The
\* snapshot and the two resets in ResetInboundTrafficWithHistory's transaction.)
Accounted ==
    \A i \in Inbounds :
        /\ filed[i].client + clientUp[i] + discarded[i].client = metered[i].client
        /\ filed[i].inbound + row[i].up + discarded[i].inbound + overwritten[i].up = metered[i].inbound
        /\ row[i].allTime + overwritten[i].allTime = metered[i].inbound

\* A reset is not repeated: whatever the jobs do to an inbound is for a due date
\* they have not dealt with before, through all catch-ups and time stamps cut to
\* midnight.  Except when its policy was changed on that very day, between the
\* entries that fire at midnight, or when since then the save of a whole row, by a
\* form or a handler of clients, brought back an old time of the last reset.
\* (getInboundsForPeriod and what moves last_traffic_reset_time.)
OncePerDueDate ==
    [][\A p \in Periods : \A x \in todo[p] \ todo'[p] :
           \/ handled[x.id] < x.due
           \/ held[x.id] = day
           \/ x.id \in rewound]_vars

\* The periods of an inbound in the history do not overlap by more than the second
\* that truncation can take: the time at which the next one begins is not before
\* the end of the last, unless the save of a whole row put it back since the last
\* turn of a job.  (PeriodStart is the last_traffic_reset_time that the reset before
\* has left.)
PeriodsDisjoint ==
    \A i \in Inbounds : i \in rewound \/ filed[i].until <= row[i].last + 1

\* No month passes without a reset: when an inbound that has a time of the last
\* reset kept its policy since before its reset day of last month, that reset was
\* done, on the day or later.  (What the catch-up is there for.)
NoMonthSkipped ==
    LET m == MonthOf(day)
    IN  \A i \in Inbounds :
            (m > 1 /\ exists[i] /\ row[i].method = "custom_date" /\ i \notin rewound)
            => LET due == DueDate(row[i].day, m - 1)
               IN  held[i] < due /\ (held[i] > 0 \/ handled[i] > 0) => handled[i] >= due
=============================================================================
