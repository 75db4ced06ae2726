---------------------------- MODULE XrayLifecycle ----------------------------
(***************************************************************************)
(* The life of the xray-core process under the panel (web/service/xray.go, *)
(* xray/process.go, the cron entries of web/web.go).                       *)
(*                                                                         *)
(* Panel handlers change the database and try to apply the change to the   *)
(* running process through its API; when that fails they only raise the    *)
(* flag isNeedXrayRestart.  A cron entry consumes the flag every 30        *)
(* seconds, a watchdog looks for crashes every second, people and a        *)
(* periodic entry restart or stop xray.  RestartXray and StopXray hold     *)
(* the mutex lock; the flag, the variable p and the API calls of the       *)
(* handlers are used without it.                                           *)
(***************************************************************************)
EXTENDS Integers, FiniteSets

CONSTANTS
    Inbounds,     \* the inbounds an edit can be about
    Editors,      \* goroutines of handlers and jobs that change inbounds
    Operators,    \* goroutines that restart or stop xray on demand: the panel, the
                  \* bot, SIGUSR1, and the cron entry of the periodic restart
    FlagJob,      \* the 30 second cron entry
    Watchdog,     \* CheckXrayRunningJob
    Slots,        \* names for operating system processes; a dead one's is reused
    Nobody,       \* holder of the free mutex
    \* Bounds of the model, none of them in the code:
    MaxEdits, MaxOps, MaxFailures

Callers == Operators \cup {FlagJob, Watchdog}
Threads == Editors \cup Callers

ASSUME LifecycleAssumption ==
    /\ Editors \cap Callers = {}
    /\ Operators \cap {FlagJob, Watchdog} = {}
    /\ FlagJob # Watchdog
    /\ Nobody \notin Threads
    /\ Slots # {} /\ Inbounds # {}
    /\ MaxEdits \in Nat /\ MaxOps \in Nat /\ MaxFailures \in Nat

VARIABLES
    proc,               \* the operating system's view: slot -> process
    p,                  \* the global variable p: the slot of the current process
    lock,               \* who holds the mutex
    isNeedXrayRestart,
    isManuallyStopped,
    db,                 \* the enabled inbounds in the database
    pc,                 \* what a goroutine does next
    force,              \* RestartXray's argument
    built,              \* the configuration RestartXray has built
    edit,               \* an editor: the inbound, whether it is to be there, the
                        \* verdict needRestart
    checkTime,          \* the watchdog's count of crashes seen in a row
    owed,               \* history: a restart was requested, and no process was
                        \* created since from a configuration read after that
    fresh,              \* history: no restart was requested since this caller
                        \* read the configuration
    spent               \* what was used of the bounds

globals == <<p, lock, isNeedXrayRestart, isManuallyStopped>>
frames == <<force, built>>
vars == <<proc, globals, db, pc, frames, edit, checkTime, owed, fresh, spent>>

-----------------------------------------------------------------------------

\* An xray process: the configuration file it was given, what it serves now
\* (the API changes that), and its state.  "new" is a Process object without
\* an operating system process.  "stopping" was sent SIGTERM while it served;
\* "dying" got it earlier, before xray-core handles the signal, and never binds.
\* api tells whether refreshAPIPort has run.
\* A dead process is Absent: nothing reads what it was given any more.
Process == [config : SUBSET Inbounds, serves : SUBSET Inbounds, api : BOOLEAN,
            state : {"new", "starting", "serving", "stopping", "dying", "dead"}]

NoEdit == [inbound |-> CHOOSE i \in Inbounds : TRUE, present |-> FALSE, needRestart |-> FALSE]

Absent == [config |-> {}, serves |-> {}, api |-> FALSE, state |-> "dead"]

\* IsXrayRunning: started, and Wait has not returned.
Alive(s) == proc[s].state \in {"starting", "serving", "stopping", "dying"}

IsXrayRunning == Alive(p)

\* The API of the process in p answers.
ApiReachable == proc[p].api /\ proc[p].state \in {"serving", "stopping"}

\* A process that serves holds its ports until it is gone.
PortsTaken(s) == \E t \in Slots \ {s} : proc[t].state \in {"serving", "stopping"}

\* Process.Stop sends SIGTERM and waits for nothing.
Stop(s) ==
    proc' = [proc EXCEPT ![s].state = CASE @ = "serving" -> "stopping"
                                        [] @ = "starting" -> "dying"
                                        [] OTHER -> @]

Goto(t, place) == pc' = [pc EXCEPT ![t] = place]

Bump(what) == spent' = [spent EXCEPT ![what] = @ + 1]

\* startTask has called RestartXray(true) before any cron entry is added.
Init ==
    /\ p \in Slots
    /\ db \in SUBSET Inbounds
    /\ proc = [s \in Slots |->
                 IF s = p THEN [config |-> db, serves |-> db, api |-> TRUE, state |-> "serving"]
                 ELSE Absent]
    /\ lock = Nobody
    /\ isNeedXrayRestart = FALSE
    /\ isManuallyStopped = FALSE
    /\ pc = [t \in Threads |-> "idle"]
    /\ force = [c \in Callers |-> FALSE]
    /\ built = [c \in Callers |-> {}]
    /\ edit = [e \in Editors |-> NoEdit]
    /\ checkTime = 0
    /\ owed = FALSE
    /\ fresh = [c \in Callers |-> FALSE]
    /\ spent = [edits |-> 0, ops |-> 0, failures |-> 0]

-----------------------------------------------------------------------------
(* Handlers that change an inbound: AddInbound, UpdateInbound, DelInbound, *)
(* and in the same way the client handlers and AddTraffic's disabling of   *)
(* clients.                                                                *)

BeginEdit(e, i, present) ==
    /\ pc[e] = "idle" /\ spent.edits < MaxEdits
    /\ Bump("edits")
    /\ edit' = [edit EXCEPT ![e] = [inbound |-> i, present |-> present, needRestart |-> FALSE]]
    /\ Goto(e, "api")
    /\ UNCHANGED <<proc, globals, db, frames, checkTime, owed, fresh>>

With(set, i, present) == IF present THEN set \cup {i} ELSE set \ {i}

\* The API of the process in p takes the change.
ApiTakes(e) ==
    /\ pc[e] = "api"
    /\ ApiReachable
    /\ proc' = [proc EXCEPT ![p].serves = With(@, edit[e].inbound, edit[e].present)]
    /\ Goto(e, "commit")
    /\ UNCHANGED <<globals, db, frames, edit, checkTime, owed, fresh, spent>>

\* It does not, at all or after the old version of the inbound was deleted:
\* xray needs a restart.
ApiRefuses(e) ==
    /\ pc[e] = "api"
    /\ \/ UNCHANGED proc
       \/ /\ ApiReachable
          /\ proc' = [proc EXCEPT ![p].serves = @ \ {edit[e].inbound}]
    /\ edit' = [edit EXCEPT ![e].needRestart = TRUE]
    /\ Goto(e, "commit")
    /\ UNCHANGED <<globals, db, frames, checkTime, owed, fresh, spent>>

CommitEdit(e) ==
    /\ pc[e] = "commit"
    /\ db' = With(db, edit[e].inbound, edit[e].present)
    /\ Goto(e, IF edit[e].needRestart THEN "announce" ELSE "idle")
    /\ edit' = [edit EXCEPT ![e] = IF edit[e].needRestart THEN @ ELSE NoEdit]
    /\ UNCHANGED <<proc, globals, frames, checkTime, owed, fresh, spent>>

\* SetToNeedRestart.
AnnounceRestart(e) ==
    /\ pc[e] = "announce"
    /\ isNeedXrayRestart' = TRUE
    /\ owed' = TRUE
    /\ fresh' = [c \in Callers |-> FALSE]
    /\ edit' = [edit EXCEPT ![e] = NoEdit]
    /\ Goto(e, "idle")
    /\ UNCHANGED <<proc, p, lock, isManuallyStopped, db, frames, checkTime, spent>>

-----------------------------------------------------------------------------
(* Who calls RestartXray and StopXray.                                     *)

Call(c, isForce) ==
    /\ pc[c] = "idle"
    /\ force' = [force EXCEPT ![c] = isForce]
    /\ Goto(c, "lock")

RestartPressed(c) ==
    /\ spent.ops < MaxOps
    /\ Call(c, TRUE)
    /\ Bump("ops")
    /\ UNCHANGED <<proc, globals, db, built, edit, checkTime, owed, fresh>>

\* Mutant: the cron entry calls RestartXray(false), as an earlier version did.
ConsumeFlagUnforced ==
    /\ isNeedXrayRestart
    /\ Call(FlagJob, FALSE)
    /\ isNeedXrayRestart' = FALSE
    /\ UNCHANGED <<proc, p, lock, isManuallyStopped, db, built, edit, checkTime, owed,
                   fresh, spent>>

\* IsNeedRestartAndSetFalse is a compare-and-swap; the restart is forced.
ConsumeFlag ==
    /\ isNeedXrayRestart
    /\ Call(FlagJob, TRUE)
    /\ isNeedXrayRestart' = FALSE
    /\ UNCHANGED <<proc, p, lock, isManuallyStopped, db, built, edit, checkTime, owed,
                   fresh, spent>>

DidXrayCrash == ~IsXrayRunning /\ ~isManuallyStopped

\* CheckXrayRunningJob restarts after two crashes in a row.
CheckXray ==
    /\ pc[Watchdog] = "idle"
    /\ IF DidXrayCrash
       THEN /\ checkTime' = checkTime + 1
            /\ IF checkTime + 1 > 1 THEN Call(Watchdog, FALSE) ELSE UNCHANGED <<pc, force>>
       ELSE /\ checkTime' = 0
            /\ UNCHANGED <<pc, force>>
    /\ UNCHANGED <<proc, globals, db, built, edit, owed, fresh, spent>>

\* StopXray: one critical section that waits for nothing.
StopXray(c) ==
    /\ spent.ops < MaxOps
    /\ pc[c] = "idle" /\ lock = Nobody
    /\ Bump("ops")
    /\ isManuallyStopped' = TRUE
    /\ IF IsXrayRunning THEN Stop(p) ELSE UNCHANGED proc
    /\ UNCHANGED <<p, lock, isNeedXrayRestart, db, pc, frames, edit, checkTime, owed, fresh>>

-----------------------------------------------------------------------------
(* RestartXray.                                                            *)

\* Mutant: the mutex excludes nobody.
AcquireUnlocked(c) ==
    /\ pc[c] = "lock"
    /\ lock' = c
    /\ isManuallyStopped' = FALSE
    /\ Goto(c, "build")
    /\ UNCHANGED <<proc, p, isNeedXrayRestart, db, frames, edit, checkTime, owed, fresh, spent>>

Acquire(c) ==
    /\ pc[c] = "lock" /\ lock = Nobody
    /\ lock' = c
    /\ isManuallyStopped' = FALSE
    /\ Goto(c, "build")
    /\ UNCHANGED <<proc, p, isNeedXrayRestart, db, frames, edit, checkTime, owed, fresh, spent>>

\* Mutant: the watchdog goes on counting after its restart.
ReleaseCounting(c) ==
    /\ lock' = Nobody
    /\ force' = [force EXCEPT ![c] = FALSE]
    /\ built' = [built EXCEPT ![c] = {}]
    /\ fresh' = [fresh EXCEPT ![c] = FALSE]
    /\ UNCHANGED checkTime

\* The deferred Unlock, and the end of the call's local variables.
Release(c) ==
    /\ lock' = Nobody
    /\ force' = [force EXCEPT ![c] = FALSE]
    /\ built' = [built EXCEPT ![c] = {}]
    /\ fresh' = [fresh EXCEPT ![c] = FALSE]
    /\ checkTime' = IF c = Watchdog THEN 0 ELSE checkTime

\* Mutant: the cron entry forgets the request when the restart failed.
ReturnForgetful(c, ok) ==
    /\ Release(c)
    /\ Goto(c, "idle")

\* RestartXray returns: the cron entry goes on to put the flag back after an
\* error, the watchdog starts counting anew.
Return(c, ok) ==
    /\ Release(c)
    /\ Goto(c, IF c = FlagJob /\ ~ok THEN "restore" ELSE "idle")

\* GetXrayConfig calls AddTraffic(nil, nil): what has used up its quota or its
\* time is disabled and what is due is renewed, in the database and, when the API
\* can be reached, in the process that still runs.
AccountDue(c) ==
    /\ pc[c] = "build"
    /\ \/ UNCHANGED <<proc, db, spent>>
       \/ /\ spent.edits < MaxEdits /\ Bump("edits")
          /\ \E i \in Inbounds, present \in BOOLEAN :
                /\ db' = With(db, i, present)
                /\ \/ UNCHANGED proc
                   \/ /\ ApiReachable
                      /\ proc' = [proc EXCEPT ![p].serves = With(@, i, present)]
    /\ Goto(c, "read")
    /\ UNCHANGED <<globals, frames, edit, checkTime, owed, fresh>>

\* After that it reads the database ...
BuildConfig(c) ==
    /\ pc[c] = "read"
    /\ built' = [built EXCEPT ![c] = db]
    /\ fresh' = [fresh EXCEPT ![c] = TRUE]
    /\ Goto(c, "decide")
    /\ UNCHANGED <<proc, globals, db, force, edit, checkTime, owed, spent>>

\* ... or fails, before or after the call.
BuildFails(c) ==
    /\ pc[c] \in {"build", "read"} /\ spent.failures < MaxFailures
    /\ Bump("failures")
    /\ Return(c, FALSE)
    /\ UNCHANGED <<proc, p, isNeedXrayRestart, isManuallyStopped, db, edit, owed>>

\* Mutant: an unchanged configuration ends the call even if xray is down.
DecideOnConfigOnly(c) ==
    /\ pc[c] = "decide"
    /\ \/ /\ ~force[c] /\ proc[p].config = built[c] /\ ~isNeedXrayRestart
          /\ Return(c, TRUE)
          /\ UNCHANGED <<proc, p, isNeedXrayRestart, isManuallyStopped>>
       \/ /\ force[c] \/ proc[p].config # built[c] \/ isNeedXrayRestart
          /\ Stop(p)
          /\ Goto(c, "create")
          /\ UNCHANGED <<globals, frames, checkTime, fresh>>
    /\ UNCHANGED <<db, edit, owed, spent>>

\* A restart that nothing requires ends here; otherwise the running process is
\* sent SIGTERM, and nobody waits for it to exit.
Decide(c) ==
    /\ pc[c] = "decide"
    /\ IF IsXrayRunning
       THEN \/ /\ ~force[c] /\ proc[p].config = built[c] /\ ~isNeedXrayRestart
               /\ Return(c, TRUE)
               /\ UNCHANGED <<proc, p, isNeedXrayRestart, isManuallyStopped>>
            \/ /\ force[c] \/ proc[p].config # built[c] \/ isNeedXrayRestart
               /\ Stop(p)
               /\ Goto(c, "create")
               /\ UNCHANGED <<globals, frames, checkTime, fresh>>
       ELSE /\ Goto(c, "create")
            /\ UNCHANGED <<proc, globals, frames, checkTime, fresh>>
    /\ UNCHANGED <<db, edit, owed, spent>>

\* NewProcess: p points to an object without a process yet.
CreateProcess(c) ==
    /\ pc[c] = "create"
    /\ \E s \in Slots :
          /\ ~Alive(s)
          /\ p' = s
          /\ proc' = [proc EXCEPT ![s] = [config |-> built[c], serves |-> {}, api |-> FALSE,
                                          state |-> "new"]]
    /\ owed' = (owed /\ ~fresh[c])
    /\ Goto(c, "start")
    /\ UNCHANGED <<lock, isNeedXrayRestart, isManuallyStopped, db, frames, edit, checkTime,
                   fresh, spent>>

\* Start: the configuration file is written and the binary executed.
StartProcess(c) ==
    /\ pc[c] = "start"
    /\ proc' = [proc EXCEPT ![p].state = "starting"]
    /\ Goto(c, "grace")
    /\ UNCHANGED <<globals, db, frames, edit, checkTime, owed, fresh, spent>>

StartFails(c) ==
    /\ pc[c] = "start" /\ spent.failures < MaxFailures
    /\ Bump("failures")
    /\ Return(c, FALSE)
    /\ UNCHANGED <<proc, p, isNeedXrayRestart, isManuallyStopped, db, edit, owed>>

\* The second of grace: a process that is gone by its end is a failed start.
\* Under StopXray's signal it may also go after it.
GraceEnds(c) ==
    /\ pc[c] = "grace"
    /\ Return(c, Alive(p))
    /\ proc' = IF Alive(p) THEN [proc EXCEPT ![p].api = TRUE] ELSE proc
    /\ UNCHANGED <<p, isNeedXrayRestart, isManuallyStopped, db, edit, owed, spent>>

\* The cron entry after a failed restart.
RestoreFlag ==
    /\ pc[FlagJob] = "restore"
    /\ isNeedXrayRestart' = TRUE
    /\ Goto(FlagJob, "idle")
    /\ UNCHANGED <<proc, p, lock, isManuallyStopped, db, frames, edit, checkTime, owed,
                   fresh, spent>>

-----------------------------------------------------------------------------
(* xray-core itself, as the panel sees it.                                 *)

\* It binds its ports and serves its configuration ...
Serve(s) ==
    /\ proc[s].state = "starting" /\ ~PortsTaken(s)
    /\ proc' = [proc EXCEPT ![s].state = "serving", ![s].serves = proc[s].config]
    /\ UNCHANGED <<globals, db, pc, frames, edit, checkTime, owed, fresh, spent>>

\* ... or exits because another process still has them.
PortConflict(s) ==
    /\ proc[s].state = "starting" /\ PortsTaken(s)
    /\ proc' = [proc EXCEPT ![s] = Absent]
    /\ UNCHANGED <<globals, db, pc, frames, edit, checkTime, owed, fresh, spent>>

\* It obeys SIGTERM.
Exit(s) ==
    /\ proc[s].state \in {"stopping", "dying"}
    /\ proc' = [proc EXCEPT ![s] = Absent]
    /\ UNCHANGED <<globals, db, pc, frames, edit, checkTime, owed, fresh, spent>>

Crash(s) ==
    /\ proc[s].state \in {"starting", "serving"} /\ spent.failures < MaxFailures
    /\ Bump("failures")
    /\ proc' = [proc EXCEPT ![s] = Absent]
    /\ UNCHANGED <<globals, db, pc, frames, edit, checkTime, owed, fresh>>

-----------------------------------------------------------------------------

Edit(e) ==
    \/ \E i \in Inbounds, present \in BOOLEAN : BeginEdit(e, i, present)
    \/ ApiTakes(e) \/ ApiRefuses(e) \/ CommitEdit(e) \/ AnnounceRestart(e)

RestartXray(c) ==
    \/ Acquire(c) \/ AccountDue(c) \/ BuildConfig(c) \/ BuildFails(c) \/ Decide(c)
    \/ CreateProcess(c) \/ StartProcess(c) \/ StartFails(c) \/ GraceEnds(c)

Xray(s) == Serve(s) \/ PortConflict(s) \/ Exit(s) \/ Crash(s)

Next ==
    \/ \E e \in Editors : Edit(e)
    \/ \E c \in Operators : RestartPressed(c) \/ StopXray(c)
    \/ \E c \in Callers : RestartXray(c)
    \/ ConsumeFlag \/ RestoreFlag \/ CheckXray
    \/ \E s \in Slots : Xray(s)

Spec == Init /\ [][Next]_vars

\* Goroutines run, cron fires, xray-core gets on with what it does and obeys
\* SIGTERM.  A restart that waits for the mutex gets it, as Go's mutex does not
\* starve a waiter.  Nothing is assumed of people and of failures.
Fairness ==
    /\ \A c \in Callers :
          /\ WF_vars(AccountDue(c) \/ BuildConfig(c) \/ Decide(c) \/ CreateProcess(c)
                     \/ StartProcess(c) \/ GraceEnds(c))
          /\ SF_vars(Acquire(c))
    /\ WF_vars(ConsumeFlag \/ RestoreFlag) /\ WF_vars(CheckXray)
    /\ \A s \in Slots : WF_vars(Serve(s) \/ PortConflict(s) \/ Exit(s))

FairSpec == Spec /\ Fairness

-----------------------------------------------------------------------------
(* Properties.                                                             *)

Places == {"idle", "api", "commit", "announce", "lock", "build", "read", "decide",
           "create", "start", "grace", "restore"}

\* Every variable has its type.
TypeOK ==
    /\ proc \in [Slots -> Process]
    /\ p \in Slots
    /\ lock \in Callers \cup {Nobody}
    /\ isNeedXrayRestart \in BOOLEAN /\ isManuallyStopped \in BOOLEAN
    /\ db \in SUBSET Inbounds
    /\ pc \in [Threads -> Places]
    /\ force \in [Callers -> BOOLEAN]
    /\ built \in [Callers -> SUBSET Inbounds]
    /\ edit \in [Editors -> [inbound : Inbounds, present : BOOLEAN,
                             needRestart : BOOLEAN]]
    /\ checkTime \in 0..2
    /\ owed \in BOOLEAN
    /\ fresh \in [Callers -> BOOLEAN]
    /\ spent \in [edits : Nat, ops : Nat, failures : Nat]

\* A requested restart is never forgotten (the comment on the 30 second entry in
\* web.go): until a process was created from a configuration read after the
\* request, the flag is up or the cron entry that took it down is still at work.
NoRequestLost == owed => isNeedXrayRestart \/ pc[FlagJob] # "idle"

\* No xray runs on behind the panel's back: every process but the one in p has
\* died or was sent SIGTERM, however restarts, stops and crashes interleave.
NoStrayProcess == \A s \in Slots : proc[s].state \in {"starting", "serving"} => s = p

\* A restart requested while xray should run is made in the end, also when some
\* starts fail because the old process still holds its ports.
RequestHonoured == owed ~> ~owed

\* A crash is repaired, unless somebody stopped xray.
CrashRepaired == DidXrayCrash ~> (proc[p].state = "serving" \/ isManuallyStopped)

\* The doc comments of AddInbound, UpdateInbound and DelInbound return "whether
\* Xray needs restart": once everything came to rest, the process serves what the
\* database says.
EditsInForce ==
    (\A t \in Threads : pc[t] = "idle") /\ ~isNeedXrayRestart /\ spent.failures = 0
        /\ proc[p].state = "serving"
    => proc[p].serves = db
=============================================================================
