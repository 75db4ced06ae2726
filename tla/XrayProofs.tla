----------------------------- MODULE XrayProofs -----------------------------
(***************************************************************************)
(* Theorems about XrayLifecycle, for any number of handlers, callers,      *)
(* inbounds and process slots.                                             *)
(***************************************************************************)
EXTENDS XrayLifecycle, TLAPS

-----------------------------------------------------------------------------
(* Types.                                                                  *)

\* The watchdog's count is 2 only while it restarts xray.
Counting == checkTime = 2 => pc[Watchdog] # "idle"

TypeInv == TypeOK /\ Counting

LEMMA ThreadTypes ==
    /\ FlagJob \in Callers /\ Watchdog \in Callers /\ FlagJob # Watchdog
    /\ Callers \subseteq Threads /\ Editors \subseteq Threads /\ Operators \subseteq Callers
    /\ Editors \cap Callers = {}
    /\ Operators \cap {FlagJob, Watchdog} = {}
    /\ Nobody \notin Callers
  BY LifecycleAssumption DEF Callers, Threads

LEMMA BumpType ==
  ASSUME TypeOK, NEW what \in {"edits", "ops", "failures"}, Bump(what)
  PROVE  spent' \in [edits : Nat, ops : Nat, failures : Nat]
  BY DEF TypeOK, Bump

LEMMA GotoType ==
  ASSUME TypeOK, NEW t \in Threads, NEW place \in Places, Goto(t, place)
  PROVE  /\ pc' \in [Threads -> Places]
         /\ pc'[t] = place
         /\ \A u \in Threads \ {t} : pc'[u] = pc[u]
  BY DEF TypeOK, Goto

LEMMA ProcessType ==
  ASSUME NEW q \in Process
  PROVE  /\ q.config \in SUBSET Inbounds
         /\ [q EXCEPT !.state = "starting"] \in Process
         /\ [q EXCEPT !.api = TRUE] \in Process
         /\ [[q EXCEPT !.state = "serving"] EXCEPT !.serves = q.config] \in Process
  BY DEF Process

LEMMA WithType ==
  ASSUME NEW set \in SUBSET Inbounds, NEW i \in Inbounds, NEW present
  PROVE  With(set, i, present) \in SUBSET Inbounds
  BY DEF With

LEMMA ServesType ==
  ASSUME TypeOK, NEW set \in SUBSET Inbounds,
         proc' = [proc EXCEPT ![p].serves = set]
  PROVE  /\ proc' \in [Slots -> Process]
         /\ \A s \in Slots : proc'[s].state = proc[s].state
  <1>1. /\ [proc[p] EXCEPT !.serves = set] \in Process
        /\ [proc[p] EXCEPT !.serves = set].state = proc[p].state
    BY DEF TypeOK, Process
  <1>2. proc' = [proc EXCEPT ![p] = [proc[p] EXCEPT !.serves = set]]
    OBVIOUS
  <1>. QED
    BY <1>1, <1>2 DEF TypeOK

\* GetXrayConfig's AddTraffic call: at most what one process serves changes.
LEMMA AccountType ==
  ASSUME TypeOK, NEW c \in Callers, AccountDue(c)
  PROVE  /\ proc' \in [Slots -> Process]
         /\ db' \in SUBSET Inbounds
         /\ spent' \in [edits : Nat, ops : Nat, failures : Nat]
         /\ \A s \in Slots : proc'[s].state = proc[s].state
  <1>1. CASE UNCHANGED <<proc, db, spent>>
    BY <1>1 DEF TypeOK
  <1>2. ASSUME NEW i \in Inbounds, NEW present \in BOOLEAN, Bump("edits"),
               db' = With(db, i, present),
               proc' = proc \/ proc' = [proc EXCEPT ![p].serves = With(@, i, present)]
        PROVE  /\ proc' \in [Slots -> Process]
               /\ db' \in SUBSET Inbounds
               /\ spent' \in [edits : Nat, ops : Nat, failures : Nat]
               /\ \A s \in Slots : proc'[s].state = proc[s].state
    <2>1. db' \in SUBSET Inbounds
      BY <1>2, WithType DEF TypeOK
    <2>2. spent' \in [edits : Nat, ops : Nat, failures : Nat]
      BY <1>2, BumpType
    <2>3. CASE proc' = proc
      BY <2>1, <2>2, <2>3 DEF TypeOK
    <2>4. CASE proc' = [proc EXCEPT ![p].serves = With(@, i, present)]
      <3>1. With(proc[p].serves, i, present) \in SUBSET Inbounds
        BY WithType DEF TypeOK, Process
      <3>. QED
        BY <2>1, <2>2, <2>4, <3>1, ServesType
    <2>. QED
      BY <1>2, <2>3, <2>4
  <1>. QED
    BY <1>1, <1>2 DEF AccountDue

LEMMA StopType ==
  ASSUME TypeOK, NEW s \in Slots, Stop(s)
  PROVE  proc' \in [Slots -> Process]
  <1>. DEFINE next == CASE proc[s].state = "serving" -> "stopping"
                        [] proc[s].state = "starting" -> "dying"
                        [] OTHER -> proc[s].state
  <1>1. proc[s] \in Process /\ next \in {"new", "starting", "serving", "stopping", "dying", "dead"}
    BY DEF TypeOK, Process
  <1>2. proc' = [proc EXCEPT ![s] = [proc[s] EXCEPT !.state = next]]
    BY DEF Stop, TypeOK
  <1>3. [proc[s] EXCEPT !.state = next] \in Process
    <2>. HIDE DEF next
    <2>. QED
      BY <1>1 DEF Process
  <1>. QED
    BY <1>2, <1>3 DEF TypeOK

\* The end of a call of RestartXray.
LEMMA ReturnType ==
  ASSUME TypeInv, NEW c \in Callers, NEW ok \in BOOLEAN, Return(c, ok)
  PROVE  /\ lock' \in Callers \cup {Nobody}
         /\ pc' \in [Threads -> Places]
         /\ force' \in [Callers -> BOOLEAN]
         /\ built' \in [Callers -> SUBSET Inbounds]
         /\ checkTime' \in 0..2
         /\ Counting'
         /\ fresh' \in [Callers -> BOOLEAN]
  <1>. USE ThreadTypes
  <1>1. DEFINE place == IF c = FlagJob /\ ~ok THEN "restore" ELSE "idle"
  <1>2. Goto(c, place) /\ place \in Places
    BY DEF Return, Places
  <1>3. pc' \in [Threads -> Places] /\ (\A u \in Threads \ {c} : pc'[u] = pc[u])
    BY <1>2, GotoType DEF TypeInv
  <1>4. Counting'
    BY <1>3 DEF Return, Release, Counting, TypeInv
  <1>. QED
    BY <1>3, <1>4 DEF Return, Release, TypeInv, TypeOK

LEMMA NoEditType ==
    NoEdit \in [inbound : Inbounds, present : BOOLEAN, needRestart : BOOLEAN]
  BY LifecycleAssumption DEF NoEdit

LEMMA EditType ==
  ASSUME NEW x \in [inbound : Inbounds, present : BOOLEAN, needRestart : BOOLEAN]
  PROVE  [x EXCEPT !.needRestart = TRUE] \in
            [inbound : Inbounds, present : BOOLEAN, needRestart : BOOLEAN]
  OBVIOUS

LEMMA TypeInit == Init => TypeInv
  <1>. SUFFICES ASSUME Init PROVE TypeInv
    OBVIOUS
  <1>. USE ThreadTypes
  <1>1. proc \in [Slots -> Process]
    BY DEF Init, Process, Absent
  <1>2. edit \in [Editors -> [inbound : Inbounds, present : BOOLEAN,
                              needRestart : BOOLEAN]]
    BY NoEditType DEF Init
  <1>3. spent \in [edits : Nat, ops : Nat, failures : Nat]
    BY DEF Init
  <1>4. pc \in [Threads -> Places] /\ Counting /\ checkTime \in 0..2
    BY DEF Init, Places, Counting
  <1>5. force \in [Callers -> BOOLEAN] /\ fresh \in [Callers -> BOOLEAN]
    BY DEF Init
  <1>6. built \in [Callers -> SUBSET Inbounds]
    BY DEF Init
  <1>7. lock \in Callers \cup {Nobody} /\ p \in Slots /\ db \in SUBSET Inbounds
    BY DEF Init
  <1>8. isNeedXrayRestart \in BOOLEAN /\ isManuallyStopped \in BOOLEAN /\ owed \in BOOLEAN
    BY DEF Init
  <1>. QED
    BY <1>1, <1>2, <1>3, <1>4, <1>5, <1>6, <1>7, <1>8 DEF TypeInv, TypeOK

LEMMA TypeStep == TypeInv /\ [Next]_vars => TypeInv'
  <1>. SUFFICES ASSUME TypeInv, [Next]_vars PROVE TypeInv'
    OBVIOUS
  <1>. TypeOK
    BY DEF TypeInv
  <1>. USE ThreadTypes DEF TypeInv, TypeOK, Counting, globals, frames
  <1>1. ASSUME NEW e \in Editors, Edit(e) PROVE TypeInv'
    <2>1. ASSUME NEW i \in Inbounds, NEW present \in BOOLEAN, BeginEdit(e, i, present)
          PROVE  TypeInv'
      BY <2>1, BumpType, GotoType DEF BeginEdit, Places
    <2>2. CASE ApiTakes(e)
      <3>1. edit[e].inbound \in Inbounds /\ edit[e].present \in BOOLEAN
        OBVIOUS
      <3>2. With(proc[p].serves, edit[e].inbound, edit[e].present) \in SUBSET Inbounds
        BY <3>1, WithType DEF Process
      <3>3. proc' \in [Slots -> Process]
        BY <2>2, <3>2, ServesType DEF ApiTakes
      <3>. QED
        BY <2>2, <3>3, GotoType DEF ApiTakes, Places
    <2>3. CASE ApiRefuses(e)
      <3>1. proc' \in [Slots -> Process]
        <4>1. CASE UNCHANGED proc
          BY <4>1
        <4>2. CASE proc' = [proc EXCEPT ![p].serves = @ \ {edit[e].inbound}]
          <5>1. proc[p].serves \ {edit[e].inbound} \in SUBSET Inbounds
            BY DEF Process
          <5>. QED
            BY <4>2, <5>1, ServesType
        <4>. QED
          BY <2>3, <4>1, <4>2 DEF ApiRefuses
      <3>2. edit' \in [Editors -> [inbound : Inbounds, present : BOOLEAN, needRestart : BOOLEAN]]
        <4>1. [edit[e] EXCEPT !.needRestart = TRUE] \in
                 [inbound : Inbounds, present : BOOLEAN, needRestart : BOOLEAN]
          BY EditType
        <4>. QED
          BY <2>3, <4>1 DEF ApiRefuses
      <3>. QED
        BY <2>3, <3>1, <3>2, GotoType DEF ApiRefuses, Places
    <2>4. CASE CommitEdit(e)
      <3>. DEFINE place == IF edit[e].needRestart THEN "announce" ELSE "idle"
      <3>1. Goto(e, place) /\ place \in Places
        BY <2>4 DEF CommitEdit, Places
      <3>2. pc' \in [Threads -> Places] /\ pc'[Watchdog] = pc[Watchdog]
        BY <3>1, GotoType
      <3>3. db' \in SUBSET Inbounds
        BY <2>4 DEF CommitEdit, With
      <3>4. edit' \in [Editors -> [inbound : Inbounds, present : BOOLEAN, needRestart : BOOLEAN]]
        BY <2>4, NoEditType DEF CommitEdit
      <3>. QED
        BY <2>4, <3>2, <3>3, <3>4 DEF CommitEdit
    <2>5. CASE AnnounceRestart(e)
      <3>1. edit' \in [Editors -> [inbound : Inbounds, present : BOOLEAN, needRestart : BOOLEAN]]
        BY <2>5, NoEditType DEF AnnounceRestart
      <3>. QED
        BY <2>5, <3>1, GotoType DEF AnnounceRestart, Places
    <2>. QED
      BY <1>1, <2>1, <2>2, <2>3, <2>4, <2>5 DEF Edit
  <1>2. ASSUME NEW c \in Operators, RestartPressed(c) \/ StopXray(c) PROVE TypeInv'
    <2>1. CASE RestartPressed(c)
      BY <2>1, BumpType, GotoType DEF RestartPressed, Call, Places
    <2>2. CASE StopXray(c)
      <3>1. proc' \in [Slots -> Process]
        BY <2>2, StopType DEF StopXray
      <3>. QED
        BY <2>2, <3>1, BumpType DEF StopXray
    <2>. QED
      BY <1>2, <2>1, <2>2
  <1>3. ASSUME NEW c \in Callers, RestartXray(c) PROVE TypeInv'
    <2>1. CASE Acquire(c)
      BY <2>1, GotoType DEF Acquire, Places
    <2>2. CASE AccountDue(c)
      <3>1. proc' \in [Slots -> Process] /\ db' \in SUBSET Inbounds
        BY <2>2, AccountType
      <3>2. spent' \in [edits : Nat, ops : Nat, failures : Nat]
        BY <2>2, AccountType
      <3>. QED
        BY <2>2, <3>1, <3>2, GotoType DEF AccountDue, Places
    <2>9. CASE BuildConfig(c)
      BY <2>9, GotoType DEF BuildConfig, Places
    <2>3. CASE BuildFails(c)
      BY <2>3, ReturnType, BumpType DEF BuildFails
    <2>4. CASE Decide(c)
      <3>1. CASE Return(c, TRUE) /\ UNCHANGED <<proc, p, isNeedXrayRestart, isManuallyStopped>>
        BY <2>4, <3>1, ReturnType DEF Decide
      <3>2. CASE Goto(c, "create") /\ UNCHANGED <<globals, frames, checkTime, fresh>>
        <4>1. proc' \in [Slots -> Process]
          BY <2>4, <3>2, StopType DEF Decide
        <4>. QED
          BY <2>4, <3>2, <4>1, GotoType DEF Decide, Places
      <3>. QED
        BY <2>4, <3>1, <3>2 DEF Decide
    <2>5. CASE CreateProcess(c)
      <3>1. proc' \in [Slots -> Process] /\ p' \in Slots
        BY <2>5 DEF CreateProcess, Process
      <3>. QED
        BY <2>5, <3>1, GotoType DEF CreateProcess, Places
    <2>6. CASE StartProcess(c)
      <3>1. proc' \in [Slots -> Process]
        BY <2>6, ProcessType DEF StartProcess
      <3>. QED
        BY <2>6, <3>1, GotoType DEF StartProcess, Places
    <2>7. CASE StartFails(c)
      BY <2>7, ReturnType, BumpType DEF StartFails
    <2>8. CASE GraceEnds(c)
      <3>1. proc' \in [Slots -> Process]
        <4>1. proc[p] \in Process
          OBVIOUS
        <4>2. [proc[p] EXCEPT !.api = TRUE] \in Process
          BY <4>1, ProcessType
        <4>3. proc' = proc \/ proc' = [proc EXCEPT ![p] = [proc[p] EXCEPT !.api = TRUE]]
          BY <2>8 DEF GraceEnds
        <4>. QED
          BY <4>2, <4>3
      <3>2. Alive(p) \in BOOLEAN
        BY DEF Alive
      <3>3. Return(c, Alive(p))
        BY <2>8 DEF GraceEnds
      <3>. QED
        BY <2>8, <3>1, <3>2, <3>3, ReturnType DEF GraceEnds
    <2>. QED
      BY <1>3, <2>1, <2>2, <2>3, <2>4, <2>5, <2>6, <2>7, <2>8, <2>9 DEF RestartXray
  <1>4. CASE ConsumeFlag
    BY <1>4, GotoType DEF ConsumeFlag, Call, Places
  <1>5. CASE RestoreFlag
    BY <1>5, GotoType DEF RestoreFlag, Places
  <1>6. CASE CheckXray
    <2>1. CASE DidXrayCrash /\ checkTime + 1 > 1
      <3>1. Call(Watchdog, FALSE) /\ checkTime' = checkTime + 1
        BY <1>6, <2>1 DEF CheckXray
      <3>2. checkTime' \in 0..2
        BY <1>6, <3>1 DEF CheckXray
      <3>3. pc' \in [Threads -> Places] /\ pc'[Watchdog] = "lock"
        BY <3>1, GotoType DEF Call, Places
      <3>. QED
        BY <1>6, <3>1, <3>2, <3>3 DEF CheckXray, Call
    <2>2. CASE DidXrayCrash /\ ~(checkTime + 1 > 1)
      <3>1. checkTime' = 1 /\ UNCHANGED <<pc, force>>
        BY <1>6, <2>2 DEF CheckXray
      <3>. QED
        BY <1>6, <3>1 DEF CheckXray
    <2>3. CASE ~DidXrayCrash
      BY <1>6, <2>3 DEF CheckXray
    <2>. QED
      BY <2>1, <2>2, <2>3
  <1>7. ASSUME NEW s \in Slots, Xray(s) PROVE TypeInv'
    <2>1. Absent \in Process
      BY DEF Absent, Process
    <2>2. CASE Serve(s)
      <3>1. proc' \in [Slots -> Process]
        BY <2>2, ProcessType DEF Serve
      <3>. QED
        BY <2>2, <3>1 DEF Serve
    <2>3. CASE PortConflict(s) \/ Exit(s)
      <3>1. proc' \in [Slots -> Process]
        BY <2>1, <2>3 DEF PortConflict, Exit
      <3>. QED
        BY <2>3, <3>1 DEF PortConflict, Exit
    <2>4. CASE Crash(s)
      <3>1. proc' \in [Slots -> Process]
        BY <2>1, <2>4 DEF Crash
      <3>. QED
        BY <2>4, <3>1, BumpType DEF Crash
    <2>. QED
      BY <1>7, <2>2, <2>3, <2>4 DEF Xray
  <1>8. CASE UNCHANGED vars
    BY <1>8 DEF vars
  <1>. QED
    BY <1>1, <1>2, <1>3, <1>4, <1>5, <1>6, <1>7, <1>8 DEF Next

\* Every variable keeps its type; in particular the watchdog never counts beyond
\* the second crash in a row (CheckXrayRunningJob.Run).
THEOREM TypeCorrect == Spec => []TypeOK
  <1>. QED
    BY TypeInit, TypeStep, PTL DEF Spec, TypeInv

-----------------------------------------------------------------------------
(* A requested restart is not forgotten.  The cron entry has taken the     *)
(* flag down before it restarts, so while it is at work something else     *)
(* must stand for the request: first that it is going to read the          *)
(* configuration, then that it has read one that has the edit (fresh), and *)
(* after NewProcess nothing, for the request is met unless it came later   *)
(* and raised the flag again.  That it reaches NewProcess at all rests on  *)
(* isForce.                                                                *)

RequestInv ==
    /\ NoRequestLost
    /\ pc[FlagJob] \in {"lock", "build", "read", "decide"} => force[FlagJob]
    /\ owed /\ pc[FlagJob] \in {"decide", "create"} => fresh[FlagJob] \/ isNeedXrayRestart
    /\ owed /\ pc[FlagJob] \in {"start", "grace"} => isNeedXrayRestart

\* What a return of RestartXray does to its caller and leaves alone of the others.
LEMMA ReturnFrame ==
  ASSUME TypeInv, NEW c \in Callers, NEW ok \in BOOLEAN, Return(c, ok)
  PROVE  /\ pc'[c] \in {"restore", "idle"}
         /\ c = FlagJob /\ ~ok => pc'[c] = "restore"
         /\ lock' = Nobody
         /\ \A t \in Threads \ {c} : pc'[t] = pc[t]
         /\ \A d \in Callers \ {c} : force'[d] = force[d] /\ fresh'[d] = fresh[d]
  <1>. USE ThreadTypes
  <1>. DEFINE place == IF c = FlagJob /\ ~ok THEN "restore" ELSE "idle"
  <1>1. Goto(c, place) /\ place \in Places
    BY DEF Return, Places
  <1>2. pc'[c] = place /\ (\A t \in Threads \ {c} : pc'[t] = pc[t])
    BY <1>1, GotoType DEF TypeInv
  <1>3. \A d \in Callers \ {c} : force'[d] = force[d] /\ fresh'[d] = fresh[d]
    BY DEF Return, Release, TypeInv, TypeOK
  <1>. QED
    BY <1>2, <1>3 DEF Return, Release

LEMMA RequestStep == TypeInv /\ RequestInv /\ [Next]_vars => RequestInv'
  <1>. SUFFICES ASSUME TypeInv, RequestInv, [Next]_vars PROVE RequestInv'
    OBVIOUS
  <1>. TypeOK
    BY DEF TypeInv
  <1>. USE ThreadTypes DEF RequestInv, NoRequestLost, globals, frames
  <1>1. ASSUME NEW e \in Editors, Edit(e) PROVE RequestInv'
    <2>1. ASSUME NEW i \in Inbounds, NEW present \in BOOLEAN, BeginEdit(e, i, present)
          PROVE  RequestInv'
      BY <2>1, GotoType DEF BeginEdit, Places
    <2>2. CASE ApiTakes(e)
      BY <2>2, GotoType DEF ApiTakes, Places
    <2>3. CASE ApiRefuses(e)
      BY <2>3, GotoType DEF ApiRefuses, Places
    <2>4. CASE CommitEdit(e)
      <3>. DEFINE place == IF edit[e].needRestart THEN "announce" ELSE "idle"
      <3>1. Goto(e, place) /\ place \in Places
        BY <2>4 DEF CommitEdit, Places
      <3>2. pc'[FlagJob] = pc[FlagJob]
        BY <3>1, GotoType
      <3>. QED
        BY <2>4, <3>2 DEF CommitEdit
    <2>5. CASE AnnounceRestart(e)
      BY <2>5, GotoType DEF AnnounceRestart, Places
    <2>. QED
      BY <1>1, <2>1, <2>2, <2>3, <2>4, <2>5 DEF Edit
  <1>2. ASSUME NEW c \in Operators, RestartPressed(c) \/ StopXray(c) PROVE RequestInv'
    <2>1. CASE RestartPressed(c)
      <3>1. pc'[FlagJob] = pc[FlagJob]
        BY <2>1, GotoType DEF RestartPressed, Call, Places
      <3>2. force'[FlagJob] = force[FlagJob]
        BY <2>1 DEF RestartPressed, Call, TypeOK
      <3>. QED
        BY <2>1, <3>1, <3>2 DEF RestartPressed
    <2>2. CASE StopXray(c)
      BY <2>2 DEF StopXray
    <2>. QED
      BY <1>2, <2>1, <2>2
  <1>3. ASSUME NEW c \in Callers, RestartXray(c) PROVE RequestInv'
    <2>1. CASE Acquire(c)
      BY <2>1, GotoType DEF Acquire, Places
    <2>9. CASE AccountDue(c)
      BY <2>9, GotoType DEF AccountDue, Places
    <2>2. CASE BuildConfig(c)
      <3>1. pc'[c] = "decide" /\ (\A t \in Threads \ {c} : pc'[t] = pc[t])
        BY <2>2, GotoType DEF BuildConfig, Places
      <3>2. fresh'[c] /\ (\A d \in Callers \ {c} : fresh'[d] = fresh[d])
        BY <2>2 DEF BuildConfig, TypeOK
      <3>. QED
        BY <2>2, <3>1, <3>2 DEF BuildConfig
    <2>3. CASE BuildFails(c)
      BY <2>3, ReturnFrame DEF BuildFails
    <2>4. CASE Decide(c)
      <3>1. CASE Return(c, TRUE) /\ ~force[c]
        <4>1. c # FlagJob
          BY <2>4, <3>1 DEF Decide
        <4>2. UNCHANGED <<isNeedXrayRestart, owed>>
          BY <2>4 DEF Decide
        <4>. QED
          BY <3>1, <4>1, <4>2, ReturnFrame
      <3>2. CASE Goto(c, "create") /\ UNCHANGED <<globals, frames, checkTime, fresh>>
        BY <2>4, <3>2, GotoType DEF Decide, Places
      <3>. QED
        BY <2>4, <3>1, <3>2 DEF Decide
    <2>5. CASE CreateProcess(c)
      <3>1. pc'[c] = "start" /\ (\A t \in Threads \ {c} : pc'[t] = pc[t])
        BY <2>5, GotoType DEF CreateProcess, Places
      <3>2. owed' => owed /\ ~fresh[c]
        BY <2>5 DEF CreateProcess
      <3>. QED
        BY <2>5, <3>1, <3>2 DEF CreateProcess
    <2>6. CASE StartProcess(c)
      BY <2>6, GotoType DEF StartProcess, Places
    <2>7. CASE StartFails(c)
      BY <2>7, ReturnFrame DEF StartFails
    <2>8. CASE GraceEnds(c)
      <3>1. Alive(p) \in BOOLEAN
        BY DEF Alive
      <3>2. Return(c, Alive(p))
        BY <2>8 DEF GraceEnds
      <3>. QED
        BY <2>8, <3>1, <3>2, ReturnFrame DEF GraceEnds
    <2>. QED
      BY <1>3, <2>1, <2>2, <2>3, <2>4, <2>5, <2>6, <2>7, <2>8, <2>9 DEF RestartXray
  <1>4. CASE ConsumeFlag
    <2>1. pc'[FlagJob] = "lock"
      BY <1>4, GotoType DEF ConsumeFlag, Call, Places
    <2>2. force'[FlagJob] = TRUE
      BY <1>4 DEF ConsumeFlag, Call, TypeOK
    <2>. QED
      BY <2>1, <2>2
  <1>5. CASE RestoreFlag
    BY <1>5, GotoType DEF RestoreFlag, Places
  <1>6. CASE CheckXray
    <2>1. pc'[FlagJob] = pc[FlagJob] /\ force'[FlagJob] = force[FlagJob]
      BY <1>6, GotoType DEF CheckXray, Call, Places, TypeOK
    <2>. QED
      BY <1>6, <2>1 DEF CheckXray
  <1>7. ASSUME NEW s \in Slots, Xray(s) PROVE RequestInv'
    BY <1>7 DEF Xray, Serve, PortConflict, Exit, Crash
  <1>8. CASE UNCHANGED vars
    BY <1>8 DEF vars
  <1>. QED
    BY <1>1, <1>2, <1>3, <1>4, <1>5, <1>6, <1>7, <1>8 DEF Next

\* Whatever the handlers, the cron entry, the watchdog and people do in between,
\* a request for a restart is on record until a process was made that knows the
\* edit it was for (the 30 second entry in web.go, RestartXray).
THEOREM RequestKept == Spec => []NoRequestLost
  <1>1. Init => RequestInv
    BY ThreadTypes DEF Init, RequestInv, NoRequestLost
  <1>. QED
    BY <1>1, TypeInit, TypeStep, RequestStep, PTL DEF Spec, RequestInv

-----------------------------------------------------------------------------
(* No process is lost sight of.  The mutex makes the calls of RestartXray  *)
(* take turns, so that between Stop and NewProcess p still names the       *)
(* process that was stopped.                                               *)

Critical == {"build", "read", "decide", "create", "start", "grace"}

Mutex == \A c \in Callers : pc[c] \in Critical => lock = c

Running(s) == proc[s].state \in {"starting", "serving"}

StrayInv ==
    /\ NoStrayProcess
    /\ \A c \in Callers : pc[c] = "create" => ~Running(p)

\* A step that moves one thread to or from a place outside the critical section,
\* or one caller within it, and leaves the lock alone.
LEMMA MutexMove ==
  ASSUME TypeInv, Mutex, NEW t \in Threads, NEW place \in Places, Goto(t, place), lock' = lock,
         t \in Callers /\ place \in Critical => pc[t] \in Critical
  PROVE  Mutex'
  BY GotoType, ThreadTypes DEF Mutex, TypeInv

LEMMA MutexReturn ==
  ASSUME TypeInv, Mutex, NEW c \in Callers, NEW ok \in BOOLEAN, Return(c, ok), pc[c] \in Critical
  PROVE  Mutex'
  BY ReturnFrame, ThreadTypes DEF Mutex, Critical

LEMMA MutexStep == TypeInv /\ Mutex /\ [Next]_vars => Mutex'
  <1>. SUFFICES ASSUME TypeInv, Mutex, [Next]_vars PROVE Mutex'
    OBVIOUS
  <1>. USE ThreadTypes DEF globals, frames
  <1>1. ASSUME NEW e \in Editors, Edit(e) PROVE Mutex'
    <2>1. \E place \in Places : Goto(e, place) /\ lock' = lock
      BY <1>1 DEF Edit, BeginEdit, ApiTakes, ApiRefuses, CommitEdit, AnnounceRestart, Places
    <2>. QED
      BY <2>1, MutexMove
  <1>2. ASSUME NEW c \in Operators, RestartPressed(c) \/ StopXray(c) PROVE Mutex'
    <2>1. CASE RestartPressed(c)
      BY <2>1, MutexMove DEF RestartPressed, Call, Places, Critical
    <2>2. CASE StopXray(c)
      BY <2>2 DEF StopXray, Mutex
    <2>. QED
      BY <1>2, <2>1, <2>2
  <1>3. ASSUME NEW c \in Callers, RestartXray(c) PROVE Mutex'
    <2>1. CASE Acquire(c)
      <3>1. pc'[c] = "build" /\ (\A t \in Threads \ {c} : pc'[t] = pc[t])
        BY <2>1, GotoType DEF Acquire, Places, TypeInv
      <3>2. \A d \in Callers : pc[d] \notin Critical
        BY <2>1 DEF Acquire, Mutex
      <3>. QED
        BY <2>1, <3>1, <3>2 DEF Acquire, Mutex
    <2>2. CASE AccountDue(c) \/ BuildConfig(c) \/ CreateProcess(c) \/ StartProcess(c)
      BY <2>2, MutexMove DEF AccountDue, BuildConfig, CreateProcess, StartProcess, Places, Critical
    <2>3. CASE BuildFails(c) \/ StartFails(c)
      BY <2>3, MutexReturn DEF BuildFails, StartFails, Critical
    <2>4. CASE Decide(c)
      BY <2>4, MutexReturn, MutexMove DEF Decide, Places, Critical
    <2>5. CASE GraceEnds(c)
      <3>1. Alive(p) \in BOOLEAN
        BY DEF Alive
      <3>. QED
        BY <2>5, <3>1, MutexReturn DEF GraceEnds, Critical
    <2>. QED
      BY <1>3, <2>1, <2>2, <2>3, <2>4, <2>5 DEF RestartXray
  <1>4. CASE ConsumeFlag
    BY <1>4, MutexMove DEF ConsumeFlag, Call, Places, Critical
  <1>5. CASE RestoreFlag
    BY <1>5, MutexMove DEF RestoreFlag, Places, Critical
  <1>6. CASE CheckXray
    <2>1. CASE Call(Watchdog, FALSE)
      BY <1>6, <2>1, MutexMove DEF CheckXray, Call, Places, Critical
    <2>2. CASE UNCHANGED <<pc, force>>
      BY <1>6, <2>2 DEF CheckXray, Mutex
    <2>. QED
      BY <1>6, <2>1, <2>2 DEF CheckXray
  <1>7. ASSUME NEW s \in Slots, Xray(s) PROVE Mutex'
    BY <1>7 DEF Xray, Serve, PortConflict, Exit, Crash, Mutex
  <1>8. CASE UNCHANGED vars
    BY <1>8 DEF vars, Mutex
  <1>. QED
    BY <1>1, <1>2, <1>3, <1>4, <1>5, <1>6, <1>7, <1>8 DEF Next

\* A step that leaves the processes' states, p and the callers that are about to
\* create a process alone, or lets a process die.
LEMMA StrayKept ==
  ASSUME StrayInv, p' = p,
         \A s \in Slots : Running(s)' => Running(s),
         \A c \in Callers : pc'[c] = "create" => pc[c] = "create",
         p \in Slots
  PROVE  StrayInv'
  BY DEF StrayInv, NoStrayProcess, Running

LEMMA StrayStep == TypeInv /\ Mutex /\ StrayInv /\ [Next]_vars => StrayInv'
  <1>. SUFFICES ASSUME TypeInv, Mutex, StrayInv, [Next]_vars PROVE StrayInv'
    OBVIOUS
  <1>. TypeOK /\ p \in Slots
    BY DEF TypeInv, TypeOK
  <1>. USE ThreadTypes DEF globals, frames
  <1>1. ASSUME NEW e \in Editors, Edit(e) PROVE StrayInv'
    <2>1. \E place \in Places : Goto(e, place)
      BY <1>1 DEF Edit, BeginEdit, ApiTakes, ApiRefuses, CommitEdit, AnnounceRestart, Places
    <2>2. \A c \in Callers : pc'[c] = pc[c]
      BY <2>1, GotoType
    <2>3. p' = p
      BY <1>1 DEF Edit, BeginEdit, ApiTakes, ApiRefuses, CommitEdit, AnnounceRestart
    <2>4. \A s \in Slots : proc'[s].state = proc[s].state
      <3>1. proc' = proc \/ \E set : proc' = [proc EXCEPT ![p].serves = set]
        BY <1>1 DEF Edit, BeginEdit, ApiTakes, ApiRefuses, CommitEdit, AnnounceRestart
      <3>2. ASSUME NEW set, proc' = [proc EXCEPT ![p].serves = set]
            PROVE  \A s \in Slots : proc'[s].state = proc[s].state
        BY <3>2 DEF TypeOK, Process
      <3>. QED
        BY <3>1, <3>2
    <2>. QED
      BY <2>2, <2>3, <2>4, StrayKept DEF Running
  <1>2. ASSUME NEW c \in Operators, RestartPressed(c) \/ StopXray(c) PROVE StrayInv'
    <2>1. CASE RestartPressed(c)
      <3>1. \A d \in Callers : pc'[d] = "create" => pc[d] = "create"
        BY <2>1, GotoType DEF RestartPressed, Call, Places
      <3>. QED
        BY <2>1, <3>1, StrayKept DEF RestartPressed, Running
    <2>2. CASE StopXray(c)
      <3>1. \A s \in Slots : Running(s)' => Running(s)
        BY <2>2 DEF StopXray, Stop, Running, TypeOK, Process
      <3>. QED
        BY <2>2, <3>1, StrayKept DEF StopXray
    <2>. QED
      BY <1>2, <2>1, <2>2
  <1>3. ASSUME NEW c \in Callers, RestartXray(c) PROVE StrayInv'
    <2>1. CASE Acquire(c)
      <3>1. \A d \in Callers : pc'[d] = "create" => pc[d] = "create"
        BY <2>1, GotoType DEF Acquire, Places
      <3>. QED
        BY <2>1, <3>1, StrayKept DEF Acquire, Running
    <2>2. CASE AccountDue(c)
      <3>1. \A d \in Callers : pc'[d] = "create" => pc[d] = "create"
        BY <2>2, GotoType DEF AccountDue, Places
      <3>2. \A s \in Slots : proc'[s].state = proc[s].state
        BY <2>2, AccountType
      <3>. QED
        BY <2>2, <3>1, <3>2, StrayKept DEF AccountDue, Running
    <2>9. CASE BuildConfig(c)
      <3>1. \A d \in Callers : pc'[d] = "create" => pc[d] = "create"
        BY <2>9, GotoType DEF BuildConfig, Places
      <3>. QED
        BY <2>9, <3>1, StrayKept DEF BuildConfig, Running
    <2>3. CASE BuildFails(c) \/ StartFails(c)
      <3>1. \A d \in Callers : pc'[d] = "create" => pc[d] = "create"
        BY <2>3, ReturnFrame DEF BuildFails, StartFails
      <3>. QED
        BY <2>3, <3>1, StrayKept DEF BuildFails, StartFails, Running
    <2>4. CASE Decide(c)
      <3>1. CASE Return(c, TRUE) /\ UNCHANGED <<proc, p>>
        <4>1. \A d \in Callers : pc'[d] = "create" => pc[d] = "create"
          BY <3>1, ReturnFrame
        <4>. QED
          BY <3>1, <4>1, StrayKept DEF Running
      <3>2. CASE Stop(p) /\ p' = p
        <4>1. ~Running(p)' /\ (\A s \in Slots : Running(s)' => Running(s))
          BY <3>2 DEF Stop, Running, TypeOK, Process
        <4>. QED
          BY <3>2, <4>1 DEF StrayInv, NoStrayProcess, Running
      <3>3. CASE ~IsXrayRunning /\ UNCHANGED <<proc, p>>
        BY <3>3 DEF StrayInv, NoStrayProcess, Running, IsXrayRunning, Alive
      <3>. QED
        BY <2>4, <3>1, <3>2, <3>3 DEF Decide
    <2>5. CASE CreateProcess(c)
      <3>1. \A s \in Slots : ~Running(s)
        BY <2>5 DEF CreateProcess, StrayInv, NoStrayProcess, Running
      <3>2. \A s \in Slots : ~Running(s)'
        BY <2>5, <3>1 DEF CreateProcess, Running, TypeOK
      <3>3. p' \in Slots
        BY <2>5 DEF CreateProcess
      <3>. QED
        BY <3>2, <3>3 DEF StrayInv, NoStrayProcess, Running
    <2>6. CASE StartProcess(c)
      <3>1. \A d \in Callers : pc'[d] # "create"
        <4>1. pc'[c] = "grace" /\ (\A t \in Threads \ {c} : pc'[t] = pc[t])
          BY <2>6, GotoType DEF StartProcess, Places
        <4>2. \A d \in Callers \ {c} : pc[d] # "create"
          BY <2>6 DEF StartProcess, Mutex, Critical
        <4>. QED
          BY <4>1, <4>2
      <3>2. p' = p /\ (\A s \in Slots \ {p} : proc'[s] = proc[s])
        BY <2>6 DEF StartProcess, TypeOK
      <3>. QED
        BY <3>1, <3>2 DEF StrayInv, NoStrayProcess, Running
    <2>7. CASE GraceEnds(c)
      <3>1. Alive(p) \in BOOLEAN /\ Return(c, Alive(p))
        BY <2>7 DEF GraceEnds, Alive
      <3>2. \A d \in Callers : pc'[d] = "create" => pc[d] = "create"
        BY <3>1, ReturnFrame
      <3>3. \A s \in Slots : proc'[s].state = proc[s].state
        BY <2>7 DEF GraceEnds, TypeOK, Process
      <3>. QED
        BY <2>7, <3>2, <3>3, StrayKept DEF GraceEnds, Running
    <2>. QED
      BY <1>3, <2>1, <2>2, <2>3, <2>4, <2>5, <2>6, <2>7, <2>9 DEF RestartXray
  <1>4. CASE ConsumeFlag \/ RestoreFlag
    <2>1. \A d \in Callers : pc'[d] = "create" => pc[d] = "create"
      BY <1>4, GotoType DEF ConsumeFlag, RestoreFlag, Call, Places
    <2>. QED
      BY <1>4, <2>1, StrayKept DEF ConsumeFlag, RestoreFlag, Running
  <1>5. CASE CheckXray
    <2>1. \A d \in Callers : pc'[d] = "create" => pc[d] = "create"
      BY <1>5, GotoType DEF CheckXray, Call, Places
    <2>. QED
      BY <1>5, <2>1, StrayKept DEF CheckXray, Running
  <1>6. ASSUME NEW s \in Slots, Xray(s) PROVE StrayInv'
    <2>1. \A t \in Slots : Running(t)' => Running(t)
      BY <1>6 DEF Xray, Serve, PortConflict, Exit, Crash, Running, Absent, TypeOK, Process
    <2>. QED
      BY <1>6, <2>1, StrayKept DEF Xray, Serve, PortConflict, Exit, Crash
  <1>7. CASE UNCHANGED vars
    BY <1>7 DEF vars, StrayInv, NoStrayProcess, Running
  <1>. QED
    BY <1>1, <1>2, <1>3, <1>4, <1>5, <1>6, <1>7 DEF Next

\* Every xray the panel has started is the one in p, has died or was sent SIGTERM:
\* the calls of RestartXray and StopXray, the crashes and the failed starts may
\* follow each other in any order (xray.go, the mutex lock).
THEOREM NoneStray == Spec => []NoStrayProcess
  <1>1. Init => Mutex /\ StrayInv
    BY DEF Init, Mutex, Critical, StrayInv, NoStrayProcess, Running, Absent, Callers, Threads
  <1>. QED
    BY <1>1, TypeInit, TypeStep, MutexStep, StrayStep, PTL DEF Spec, StrayInv
=============================================================================
