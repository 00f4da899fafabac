----------------------- MODULE DesktopLifecycleProofs -----------------------
(***************************************************************************)
(* Proofs about the desktop application, for any number of instances, of   *)
(* backend processes, of launches, of saves and of kills.                  *)
(*                                                                         *)
(* Type correctness is inductive.  What the four invariants of the run     *)
(* need is in three groups, one for each question: BackendInv (who holds   *)
(* which process), CrashInv (who has been told of an exit) and TimerInv    *)
(* (what the timer has been set from).  Each group is stated for one       *)
(* instance where it can be, so that a step of one instance is seen to     *)
(* leave the others alone once and for all (OnlyKeeps, CrashByInstance).   *)
(***************************************************************************)
EXTENDS DesktopLifecycle, TLAPS

----------------------------------------------------------------------------
(* Type correctness.                                                       *)

\* A handler that moves on stays within what it may wait for.
LEMMA GotoStart ==
    ASSUME TypeOK, NEW a \in App, NEW t \in Starter, NEW at \in StartTask \cup {"idle"},
           Goto(a, t, at)
    PROVE  task' \in [App -> Waits]
<1>1. task \in [App -> Waits]
  BY DEF TypeOK
<1>2. QED
  BY <1>1 DEF Goto, Waits, Starter

LEMMA GotoReady ==
    ASSUME TypeOK, NEW a \in App, NEW at \in StartTask \cup {"done"}, Goto(a, "ready", at)
    PROVE  task' \in [App -> Waits]
<1>1. task \in [App -> Waits]
  BY DEF TypeOK
<1>2. QED
  BY <1>1 DEF Goto, Waits

LEMMA GotoSave ==
    ASSUME TypeOK, NEW a \in App, NEW at \in {"idle", "write", "stop"}, Goto(a, "save", at)
    PROVE  task' \in [App -> Waits]
<1>1. task \in [App -> Waits]
  BY DEF TypeOK
<1>2. QED
  BY <1>1 DEF Goto, Waits

LEMMA GotoSaveSync ==
    ASSUME TypeOK, NEW a \in App, NEW at \in {"idle", "on", "off"}, Goto(a, "saveSync", at)
    PROVE  task' \in [App -> Waits]
<1>1. task \in [App -> Waits]
  BY DEF TypeOK
<1>2. QED
  BY <1>1 DEF Goto, Waits

LEMMA SignalledType ==
    ASSUME NEW procs \in [Pid -> Process], NEW backend
    PROVE  Signalled(procs, backend) \in [Pid -> Process]
<1> SUFFICES ASSUME NEW p \in Pid
             PROVE  [procs[p] EXCEPT !.killed = TRUE, !.note = "quit"] \in Process
  BY DEF Signalled
<1> QED
  BY DEF Process

LEMMA FreeType == Free \in Process /\ AtRest \in Waits
BY DEF Free, Process, AtRest, Waits

LEMMA FreeFields == Free.state = "free" /\ ~Free.killed /\ Free.owner = None /\ Free.note = "none"
BY DEF Free

LEMMA InitType == Init => TypeOK
<1> SUFFICES ASSUME Init PROVE TypeOK
  OBVIOUS
<1>1. <<platform, installed>> \in Environments
  <2>1. PICK e \in Environments : platform = e[1] /\ installed = e[2]
    BY DEF Init
  <2>2. e = <<e[1], e[2]>>
    BY LifecycleAssumption
  <2>3. QED
    BY <2>1, <2>2
<1>2. syncConfig \in {"truncated", "on", "off"}
  BY LifecycleAssumption DEF Init
<1>3. launches \in 0 .. MaxLaunches /\ kills \in 0 .. MaxKills /\ syncSaves \in 0 .. MaxSyncSaves
  BY LifecycleAssumption DEF Init
<1>4. QED
  BY <1>1, <1>2, <1>3, FreeType DEF Init, TypeOK

\* app.quit() changes the same five variables whoever calls it, and Fail two more.
LEMMA QuitType ==
    ASSUME TypeOK, NEW a \in App, NEW backend \in Pid \cup {None},
           NEW procs \in [Pid -> Process], Quit(a, backend, procs)
    PROVE  /\ phase' \in [App -> {"off", "up", "quitting"}]
           /\ appClosing' \in [App -> BOOLEAN]
           /\ autoSyncTimer' \in [App -> BOOLEAN]
           /\ proc' \in [Pid -> Process]
           /\ backendProcess' \in [App -> Pid \cup {None}]
<1>1. Signalled(procs, backend) \in [Pid -> Process]
  BY SignalledType
<1>2. CASE phase[a] = "up"
  BY <1>1, <1>2 DEF TypeOK, Quit
<1>3. CASE phase[a] # "up"
  BY <1>3 DEF TypeOK, Quit, closing
<1>4. QED
  BY <1>2, <1>3

LEMMA FailType ==
    ASSUME TypeOK, NEW a \in App, NEW t \in Starter, Fail(a, t)
    PROVE  /\ phase' \in [App -> {"off", "up", "quitting"}]
           /\ appClosing' \in [App -> BOOLEAN]
           /\ autoSyncTimer' \in [App -> BOOLEAN]
           /\ proc' \in [Pid -> Process]
           /\ backendProcess' \in [App -> Pid \cup {None}]
           /\ backendCrashDialogOpen' \in [App -> BOOLEAN]
           /\ task' \in [App -> Waits]
<1>1. CASE t = "ready"
  <2>1. task' \in [App -> Waits]
    BY <1>1, GotoReady DEF Fail
  <2>2. QED
    BY <1>1, <2>1, QuitType DEF TypeOK, Fail
<1>2. CASE t = "restart"
  <2>1. task' \in [App -> Waits]
    BY <1>2, GotoStart DEF Fail
  <2>2. QED
    BY <1>2, <2>1 DEF TypeOK, Fail, closing
<1>3. QED
  BY <1>1, <1>2 DEF Starter

LEMMA OrphanedType ==
    ASSUME TypeOK, NEW a \in App, NEW note \in {"none", "abandoned"}
    PROVE  Orphaned(a, note) \in [Pid -> Process]
<1>1. \A p \in Pid : proc[p] \in Process
  BY DEF TypeOK
<1> SUFFICES ASSUME NEW p \in Pid
             PROVE  [proc[p] EXCEPT !.owner = None,
                                    !.note = IF note = "none" THEN @ ELSE note] \in Process
  BY <1>1, FreeType DEF Orphaned
<1> QED
  BY <1>1 DEF Process

LEMMA EndedType ==
    ASSUME TypeOK, NEW a \in App, Ended(a)
    PROVE  /\ phase' \in [App -> {"off", "up", "quitting"}]
           /\ appClosing' \in [App -> BOOLEAN]
           /\ appRelaunching' \in [App -> BOOLEAN]
           /\ backendCrashDialogOpen' \in [App -> BOOLEAN]
           /\ backendProcess' \in [App -> Pid \cup {None}]
           /\ windows' \in [App -> SUBSET {"first", "reopened"}]
           /\ mainWindow' \in [App -> {"first", "reopened", "none"}]
           /\ task' \in [App -> Waits]
           /\ autoSyncTimer' \in [App -> BOOLEAN]
           /\ captured' \in [App -> [Starter -> {"on", "off"}]]
           /\ restarted' \in [App -> BOOLEAN]
           /\ overlapped' \in [App -> BOOLEAN]
BY FreeType DEF TypeOK, Ended

----------------------------------------------------------------------------
\* startOrCrash, one case for each of its steps.
LEMMA StartType ==
    ASSUME TypeOK, NEW a \in App, NEW t \in Starter, StartStep(a, t)
    PROVE  TypeOK'
<1> USE DEF environment, flags, closing, syncVars, counters
<1>1. CASE ReadConfig(a, t)
  <2>1. CASE Fail(a, t)
    BY <1>1, <2>1, FailType DEF ReadConfig, TypeOK
  <2>2. CASE Goto(a, t, "port") \/ Goto(a, t, "prompt")
    <3>1. task' \in [App -> Waits]
      BY <2>2, GotoStart DEF StartTask
    <3>2. CASE ~Fail(a, t)
      BY <1>1, <3>1, <3>2 DEF ReadConfig, TypeOK
    <3>3. QED
      BY <2>1, <3>2
  <2>3. QED
    BY <1>1, <2>1, <2>2 DEF ReadConfig
<1>2. CASE AnswerPrompt(a, t)
  <2>1. CASE Fail(a, t)
    BY <1>2, <2>1, FailType DEF AnswerPrompt, TypeOK
  <2>2. CASE Goto(a, t, "write") /\ ~Fail(a, t)
    <3>1. task' \in [App -> Waits]
      BY <2>2, GotoStart DEF StartTask
    <3>2. QED
      BY <1>2, <2>2, <3>1 DEF AnswerPrompt, TypeOK
  <2>3. QED
    BY <1>2, <2>1, <2>2 DEF AnswerPrompt
<1>3. CASE WritePrompted(a, t)
  <2>1. task' \in [App -> Waits]
    BY <1>3, GotoStart DEF WritePrompted, StartTask
  <2>2. QED
    BY <1>3, <2>1 DEF WritePrompted, TypeOK
<1>4. CASE ProbePort(a, t)
  <2>1. CASE Fail(a, t)
    BY <1>4, <2>1, FailType DEF ProbePort, TypeOK
  <2>2. CASE Goto(a, t, "spawn") /\ ~Fail(a, t)
    <3>1. task' \in [App -> Waits]
      BY <2>2, GotoStart DEF StartTask
    <3>2. QED
      BY <1>4, <2>2, <3>1 DEF ProbePort, TypeOK
  <2>3. QED
    BY <1>4, <2>1, <2>2 DEF ProbePort
<1>5. CASE Spawn(a, t)
  <2> DEFINE new == CHOOSE p \in {p \in Pid : proc[p].state = "free"} : TRUE
             born == [state |-> "booting", killed |-> FALSE, owner |-> a,
                      note |-> IF appClosing[a] THEN "late" ELSE "none"]
  <2>1. new \in Pid
    BY <1>5 DEF Spawn
  <2>2. born \in Process
    BY DEF Process
  <2>3. proc' = [proc EXCEPT ![new] = born] /\ backendProcess' = [backendProcess EXCEPT ![a] = new]
    BY <1>5 DEF Spawn
  <2> HIDE DEF new, born
  <2>4. task' \in [App -> Waits]
    BY <1>5, GotoStart DEF Spawn, StartTask
  <2>5. proc' \in [Pid -> Process] /\ backendProcess' \in [App -> Pid \cup {None}]
    BY <2>1, <2>2, <2>3 DEF TypeOK
  <2>6. QED
    BY <1>5, <2>4, <2>5 DEF Spawn, TypeOK
<1>6. CASE Poll(a, t)
  <2>1. CASE Fail(a, t)
    BY <1>6, <2>1, FailType DEF Poll, TypeOK
  <2>2. CASE Goto(a, t, "syncConfig") /\ ~Fail(a, t)
    <3>1. task' \in [App -> Waits]
      BY <2>2, GotoStart DEF StartTask
    <3>2. QED
      BY <1>6, <2>2, <3>1 DEF Poll, TypeOK
  <2>3. QED
    BY <1>6, <2>1, <2>2 DEF Poll
<1>7. CASE ReadSyncConfig(a, t)
  <2>1. task' \in [App -> Waits]
    BY <1>7, GotoStart DEF ReadSyncConfig, StartTask
  <2>2. captured' \in [App -> [Starter -> {"on", "off"}]]
    BY <1>7 DEF ReadSyncConfig, TypeOK, SettingOf
  <2>3. overlapped' \in [App -> BOOLEAN]
    BY <1>7 DEF ReadSyncConfig, TypeOK
  <2>4. QED
    BY <1>7, <2>1, <2>2, <2>3 DEF ReadSyncConfig, TypeOK
<1>8. CASE Configure(a, t)
  <2>1. autoSyncTimer' \in [App -> BOOLEAN] /\ captured' \in [App -> [Starter -> {"on", "off"}]]
    BY <1>8 DEF Configure, configureAutoSync, TypeOK
  <2>2. CASE t = "ready"
    <3>1. task' \in [App -> Waits]
      BY <1>8, <2>2, GotoReady DEF Configure, StartTask
    <3>2. windows' \in [App -> SUBSET {"first", "reopened"}]
      BY <1>8, <2>2 DEF Configure, TypeOK
    <3>3. mainWindow' \in [App -> {"first", "reopened", "none"}]
      BY <1>8, <2>2 DEF Configure, TypeOK
    <3>4. QED
      BY <1>8, <2>1, <2>2, <3>1, <3>2, <3>3 DEF Configure, TypeOK
  <2>3. CASE t = "restart"
    <3>1. task' \in [App -> Waits]
      BY <1>8, <2>3, GotoStart DEF Configure, StartTask
    <3>2. QED
      BY <1>8, <2>1, <2>3, <3>1 DEF Configure, TypeOK
  <2>4. QED
    BY <2>2, <2>3 DEF Starter
<1>9. CASE Load(a, t)
  <2>1. CASE Fail(a, t)
    BY <1>9, <2>1, FailType DEF Load, TypeOK
  <2>2. CASE Goto(a, t, IF t = "ready" THEN "done" ELSE "idle") /\ ~Fail(a, t)
    <3>1. task' \in [App -> Waits]
      BY <2>2, GotoStart, GotoReady
    <3>2. QED
      BY <1>9, <2>2, <3>1 DEF Load, TypeOK
  <2>3. QED
    BY <1>9, <2>1, <2>2 DEF Load
<1>10. QED
  BY <1>1, <1>2, <1>3, <1>4, <1>5, <1>6, <1>7, <1>8, <1>9 DEF StartStep

LEMMA BackendType ==
    ASSUME TypeOK, NEW p \in Pid, Listen(p) \/ Exit(p)
    PROVE  TypeOK'
<1>1. proc \in [Pid -> Process]
  BY DEF TypeOK
<1>2. CASE Listen(p)
  <2>1. proc' \in [Pid -> Process]
    BY <1>1, <1>2 DEF Listen, Process
  <2>2. QED
    BY <1>2, <2>1 DEF Listen, TypeOK, environment, flags, syncVars, counters
<1>3. CASE Exit(p)
  <2>1. [proc[p] EXCEPT !.state = "exited"] \in Process
    BY <1>1 DEF Process
  <2>2. proc' = [proc EXCEPT ![p] = IF proc[p].owner = None THEN Free
                                    ELSE [proc[p] EXCEPT !.state = "exited"]]
    BY <1>1, <1>3 DEF Exit
  <2>3. proc' \in [Pid -> Process]
    BY <1>1, <2>1, <2>2, FreeType
  <2>4. QED
    BY <1>3, <2>3 DEF Exit, TypeOK, environment, flags, syncVars, counters
<1>4. QED
  BY <1>2, <1>3

LEMMA ExitHandlerType ==
    ASSUME TypeOK, NEW a \in App, NEW p \in Pid, OnExit(a, p)
    PROVE  TypeOK'
<1> DEFINE procs == [proc EXCEPT ![p] = Free]
           asks == ~appClosing[a] /\ ~appRelaunching[a] /\ ~backendCrashDialogOpen[a]
           stopped == task[a].save = "stop"
<1>1. procs \in [Pid -> Process]
  BY FreeType DEF TypeOK
<1>2. task' \in [App -> Waits]
  <2>1. task \in [App -> Waits]
    BY DEF TypeOK
  <2>2. task' = [task EXCEPT ![a].restart = IF asks THEN "dialog" ELSE @,
                             ![a].save = IF stopped THEN "idle" ELSE @]
    BY DEF OnExit
  <2> DEFINE ask == IF asks THEN "dialog" ELSE task[a].restart
             save == IF stopped THEN "idle" ELSE task[a].save
  <2>3. task' = [task EXCEPT ![a] = [[task[a] EXCEPT !.restart = ask] EXCEPT !.save = save]]
    BY <2>1, <2>2 DEF Waits
  <2>4. ask \in StartTask \cup {"idle", "dialog"} /\ save \in {"idle", "write", "stop"}
    BY <2>1 DEF Waits
  <2> HIDE DEF ask, save
  <2>5. [[task[a] EXCEPT !.restart = ask] EXCEPT !.save = save] \in Waits
    BY <2>1, <2>4 DEF Waits
  <2>6. QED
    BY <2>1, <2>3, <2>5
<1>3. backendCrashDialogOpen' \in [App -> BOOLEAN] /\ relaunch' \in [App -> BOOLEAN]
  BY DEF OnExit, TypeOK
<1>4. CASE Quit(a, None, procs)
  BY <1>1, <1>2, <1>3, <1>4, QuitType DEF OnExit, TypeOK, environment, syncVars, counters
<1>5. CASE ~Quit(a, None, procs)
  <2>1. /\ proc' = procs
        /\ backendProcess' = [backendProcess EXCEPT ![a] = None]
        /\ UNCHANGED closing
    BY <1>5 DEF OnExit
  <2>2. QED
    BY <1>1, <1>2, <1>3, <2>1 DEF OnExit, TypeOK, environment, closing, syncVars, counters
<1>6. QED
  BY <1>4, <1>5

LEMMA SaveType ==
    ASSUME TypeOK, NEW a \in App, SaveSettings(a) \/ SaveStep(a)
    PROVE  TypeOK'
<1> USE DEF environment, flags, closing, syncVars, counters
<1>1. proc \in [Pid -> Process]
  BY DEF TypeOK
<1>2. CASE SaveSettings(a)
  <2>1. task' \in [App -> Waits]
    BY <1>2, GotoSave DEF SaveSettings
  <2>2. QED
    BY <1>2, <2>1 DEF SaveSettings, TypeOK
<1>3. CASE StopForRelaunch(a)
  <2>1. task' \in [App -> Waits]
    BY <1>3, GotoSave DEF StopForRelaunch
  <2>2. appRelaunching' \in [App -> BOOLEAN] /\ relaunch' \in [App -> BOOLEAN]
    BY <1>3 DEF StopForRelaunch, TypeOK
  <2>3. CASE Quit(a, None, proc)
    BY <1>1, <1>3, <2>1, <2>2, <2>3, QuitType DEF StopForRelaunch, TypeOK
  <2>4. CASE ~Quit(a, None, proc)
    <3>1. proc' = [proc EXCEPT ![backendProcess[a]].killed = TRUE] \/ proc' = proc
      BY <1>3, <2>4 DEF StopForRelaunch
    <3>2. proc' \in [Pid -> Process]
      BY <1>1, <3>1 DEF Process
    <3>3. UNCHANGED <<closing, backendProcess>>
      BY <1>3, <2>4 DEF StopForRelaunch
    <3>4. QED
      BY <1>3, <2>1, <2>2, <3>2, <3>3 DEF StopForRelaunch, TypeOK
  <2>5. QED
    BY <2>3, <2>4
<1>4. CASE StopTimeout(a)
  <2>1. task' \in [App -> Waits]
    BY <1>4, GotoSave DEF StopTimeout
  <2>2. \A p \in Pid : [proc[p] EXCEPT !.note = "refused"] \in Process
    BY <1>1 DEF Process
  <2>3. proc' \in [Pid -> Process]
    BY <1>1, <1>4, <2>2 DEF StopTimeout
  <2>4. QED
    BY <1>4, <2>1, <2>3 DEF StopTimeout, TypeOK
<1>5. QED
  BY <1>2, <1>3, <1>4 DEF SaveStep

LEMMA SyncSaveType ==
    ASSUME TypeOK, NEW a \in App,
           SyncConfigSaved(a) \/ \E setting \in {"on", "off"} : SaveSyncConfig(a, setting)
    PROVE  TypeOK'
<1> USE DEF environment, flags, closing, syncVars, counters
<1>1. CASE SyncConfigSaved(a)
  <2>1. task[a].saveSync \in {"idle", "on", "off"}
    BY DEF TypeOK, Waits
  <2>2. task' \in [App -> Waits]
    BY <1>1, GotoSaveSync DEF SyncConfigSaved
  <2>3. autoSyncTimer' \in [App -> BOOLEAN] /\ syncConfig' \in {"truncated", "on", "off"}
    BY <1>1, <2>1 DEF SyncConfigSaved, configureAutoSync, TypeOK
  <2>4. QED
    BY <1>1, <2>2, <2>3 DEF SyncConfigSaved, TypeOK
<1>2. ASSUME NEW setting \in {"on", "off"}, SaveSyncConfig(a, setting)
      PROVE  TypeOK'
  <2>1. task' \in [App -> Waits]
    BY <1>2, GotoSaveSync DEF SaveSyncConfig
  <2>2. overlapped' \in [App -> BOOLEAN]
    BY <1>2 DEF SaveSyncConfig, TypeOK
  <2>3. syncSaves' \in 0 .. MaxSyncSaves
    BY <1>2, LifecycleAssumption DEF SaveSyncConfig, TypeOK
  <2>4. QED
    BY <1>2, <2>1, <2>2, <2>3 DEF SaveSyncConfig, TypeOK
<1>3. QED
  BY <1>1, <1>2

LEMMA WindowType ==
    ASSUME TypeOK, NEW a \in App,
           \/ Activate(a) \/ UserQuit(a) \/ AppExit(a) \/ AppKilled(a)
           \/ \E w \in windows[a] : CloseWindow(a, w)
    PROVE  TypeOK'
<1> USE DEF environment, flags, closing, syncVars, counters
<1>1. proc \in [Pid -> Process] /\ backendProcess[a] \in Pid \cup {None}
  BY DEF TypeOK
<1>2. CASE Activate(a)
  BY <1>2 DEF Activate, TypeOK
<1>3. CASE UserQuit(a)
  BY <1>1, <1>3, QuitType DEF UserQuit, TypeOK
<1>4. CASE AppExit(a)
  BY <1>4, EndedType, OrphanedType DEF AppExit, TypeOK
<1>5. CASE AppKilled(a)
  <2>1. kills' \in 0 .. MaxKills
    BY <1>5, LifecycleAssumption DEF AppKilled, TypeOK
  <2>2. relaunch' \in [App -> BOOLEAN]
    BY <1>5 DEF AppKilled, TypeOK
  <2>3. QED
    BY <1>5, <2>1, <2>2, EndedType, OrphanedType DEF AppKilled, TypeOK
<1>6. ASSUME NEW w \in windows[a], CloseWindow(a, w)
      PROVE  TypeOK'
  <2>1. windows' \in [App -> SUBSET {"first", "reopened"}]
    BY <1>6 DEF CloseWindow, TypeOK
  <2>2. mainWindow' \in [App -> {"first", "reopened", "none"}]
    BY <1>6 DEF CloseWindow, TypeOK
  <2>3. CASE Quit(a, backendProcess[a], proc)
    BY <1>1, <1>6, <2>1, <2>2, <2>3, QuitType DEF CloseWindow, TypeOK
  <2>4. CASE ~Quit(a, backendProcess[a], proc)
    BY <1>6, <2>1, <2>2, <2>4 DEF CloseWindow, TypeOK
  <2>5. QED
    BY <2>3, <2>4
<1>7. QED
  BY <1>2, <1>3, <1>4, <1>5, <1>6

LEMMA LaunchType ==
    ASSUME TypeOK, NEW a \in App, Launch(a) \/ AnswerDialog(a)
    PROVE  TypeOK'
<1> USE DEF environment, flags, closing, syncVars, counters
<1>1. proc \in [Pid -> Process] /\ backendProcess[a] \in Pid \cup {None}
  BY DEF TypeOK
<1>2. CASE Launch(a)
  <2>1. task' \in [App -> Waits]
    BY <1>2, GotoReady DEF Launch, StartTask
  <2>2. launches' \in 0 .. MaxLaunches
    BY <1>2, LifecycleAssumption DEF Launch, TypeOK
  <2>3. QED
    BY <1>2, <2>1, <2>2 DEF Launch, TypeOK
<1>3. CASE AnswerDialog(a)
  <2>1. task' \in [App -> Waits]
    BY <1>3, GotoStart DEF AnswerDialog, Starter, StartTask
  <2>2. backendCrashDialogOpen' \in [App -> BOOLEAN] /\ restarted' \in [App -> BOOLEAN]
    BY <1>3 DEF AnswerDialog, TypeOK
  <2>3. CASE Quit(a, backendProcess[a], proc)
    BY <1>1, <1>3, <2>1, <2>2, <2>3, QuitType DEF AnswerDialog, TypeOK
  <2>4. CASE ~Quit(a, backendProcess[a], proc)
    BY <1>3, <2>1, <2>2, <2>4 DEF AnswerDialog, TypeOK
  <2>5. QED
    BY <2>3, <2>4
<1>4. QED
  BY <1>2, <1>3

\* Every step of the specification keeps the types.
LEMMA TypePreserved == TypeOK /\ [Next]_vars => TypeOK'
<1> SUFFICES ASSUME TypeOK, [Next]_vars
             PROVE  TypeOK'
  OBVIOUS
<1>1. CASE UNCHANGED vars
  BY <1>1 DEF vars, environment, flags, syncVars, counters, TypeOK
<1>2. CASE Next
  BY <1>2, LaunchType, StartType, ExitHandlerType, BackendType, SaveType, SyncSaveType, WindowType
  DEF Next
<1>3. QED
  BY <1>1, <1>2

\* Every variable of every instance, and every process, keeps its type, however
\* the handlers, the exits of processes and the ends of instances interleave.
THEOREM TypeCorrect == Spec => []TypeOK
<1>1. QED
  BY InitType, TypePreserved, PTL DEF Spec

----------------------------------------------------------------------------
(* Which instance holds which process.                                     *)

\* What a start waits for before it has its backend.
BeforeSpawn == {"config", "prompt", "write", "port", "spawn"}

\* Instance a will hear of the exit of p.
Owns(a, p) == proc[p].owner = a

\* appClosing is raised by before-quit and stays; nothing waits once a has ended.
PhasesAgree(a) ==
    /\ appClosing[a] <=> phase[a] = "quitting"
    /\ phase[a] = "off" => task[a] = AtRest

\* An instance has one process at the most, counting those whose exit it has not
\* handled, and none while a start or the crash dialog is on its way to spawn one.
\* This is what keeps the exit handler, which clears backendProcess whatever it
\* holds, from clearing a successor.
OneBackend(a) ==
    /\ \A p, q \in Pid : Owns(a, p) /\ Owns(a, q) => p = q
    /\ task[a].ready \in BeforeSpawn \cup {"idle"} =>
          task[a].restart = "idle" /\ \A p \in Pid : ~Owns(a, p)
    /\ task[a].restart \in BeforeSpawn \cup {"dialog"} => \A p \in Pid : ~Owns(a, p)

\* backendProcess never holds a stranger, and it holds the process of the instance
\* as long as that lives without a signal: after before-quit only a late one does.
LiveIsHeld(a) ==
    /\ \A p \in Pid : backendProcess[a] = p => Owns(a, p)
    /\ \A p \in Pid : Owns(a, p) /\ Alive(p) /\ ~proc[p].killed =>
          /\ backendProcess[a] = p
          /\ phase[a] # "up" => proc[p].note = "late"

\* save-runtime-config waits for a process that it has signalled, and a signal
\* that no note explains is one that it waits for.
SignalIsAwaited(a) ==
    /\ task[a].save = "stop" => \E p \in Pid : Owns(a, p) /\ proc[p].killed
    /\ \A p \in Pid : Owns(a, p) =>
          /\ proc[p].killed /\ proc[p].note = "none" => task[a].save = "stop"
          /\ proc[p].note # "abandoned"

\* app.relaunch() is followed by app.quit() in the same step.
RelaunchIsLast(a) ==
    relaunch[a] /\ phase[a] # "off" =>
        /\ phase[a] = "quitting"
        /\ \A p \in Pid : Owns(a, p) /\ Alive(p) => proc[p].note # "none"

InstanceInv(a) ==
    PhasesAgree(a) /\ OneBackend(a) /\ LiveIsHeld(a) /\ SignalIsAwaited(a) /\ RelaunchIsLast(a)

\* A process of nobody is free, or it was left behind with a reason.
OrphanInv(p) ==
    /\ proc[p].state = "free" => proc[p] = Free
    /\ proc[p].owner = None /\ Alive(p) /\ ~proc[p].killed => proc[p].note \in {"late", "abandoned"}

\* The inductive invariant about processes.
BackendInv == /\ \A a \in App : InstanceInv(a)
              /\ \A p \in Pid : OrphanInv(p)

\* A step of instance a, seen by the others.
Only(a) ==
    /\ \A b \in App \ {a} :
          /\ task'[b] = task[b] /\ phase'[b] = phase[b] /\ appClosing'[b] = appClosing[b]
          /\ backendProcess'[b] = backendProcess[b] /\ relaunch'[b] = relaunch[b]
    /\ \A p \in Pid : proc[p].owner \in App \ {a} \/ proc'[p].owner \in App \ {a} =>
          proc'[p] = proc[p]

\* The invariant of an instance survives the steps of the others.
LEMMA OnlyKeeps ==
    ASSUME BackendInv, NEW a \in App, Only(a), NEW b \in App, b # a
    PROVE  InstanceInv(b)'
<1>1. \A p \in Pid : Owns(b, p)' <=> Owns(b, p)
  BY DEF Only, Owns
<1>2. \A p \in Pid : Owns(b, p) => proc'[p] = proc[p]
  BY DEF Only, Owns
<1>3. /\ task'[b] = task[b] /\ phase'[b] = phase[b] /\ appClosing'[b] = appClosing[b]
      /\ backendProcess'[b] = backendProcess[b] /\ relaunch'[b] = relaunch[b]
  BY DEF Only
<1>4. InstanceInv(b)
  BY DEF BackendInv
<1> HIDE DEF Owns
<1>5. PhasesAgree(b)'
  BY <1>3, <1>4 DEF InstanceInv, PhasesAgree
<1>6. OneBackend(b)'
  BY <1>1, <1>2, <1>3, <1>4 DEF InstanceInv, OneBackend
<1>7. LiveIsHeld(b)'
  BY <1>1, <1>2, <1>3, <1>4 DEF InstanceInv, LiveIsHeld, Alive
<1>8. SignalIsAwaited(b)'
  BY <1>1, <1>2, <1>3, <1>4 DEF InstanceInv, SignalIsAwaited
<1>9. RelaunchIsLast(b)'
  BY <1>1, <1>2, <1>3, <1>4 DEF InstanceInv, RelaunchIsLast, Alive
<1>10. QED
  BY <1>5, <1>6, <1>7, <1>8, <1>9 DEF InstanceInv

\* A handler of a moves on without a spawn: no start goes back to what comes
\* before its spawn, and the wait for a stopped backend neither begins nor ends.
Moves(a) ==
    /\ phase[a] # "off"
    /\ task'[a].ready \in BeforeSpawn \cup {"idle"} => task[a].ready \in BeforeSpawn \cup {"idle"}
    /\ task'[a].restart \in BeforeSpawn \cup {"dialog"} =>
          task[a].restart \in BeforeSpawn \cup {"dialog"}
    /\ task'[a].ready \in BeforeSpawn \cup {"idle"} => task'[a].restart = "idle"
    /\ task'[a].save = "stop" <=> task[a].save = "stop"
    /\ \A b \in App \ {a} : task'[b] = task[b]

\* Such a step keeps the invariant when it leaves processes alone, and when it quits.
LEMMA StayKeeps ==
    ASSUME TypeOK, BackendInv, NEW a \in App, Moves(a),
           UNCHANGED <<phase, appClosing, backendProcess, proc, relaunch>>
    PROVE  BackendInv'
<1>1. Only(a)
  BY DEF Only, Moves
<1>2. InstanceInv(a)
  BY DEF BackendInv
<1>3. PhasesAgree(a)'
  BY <1>2 DEF InstanceInv, PhasesAgree, Moves
<1>4. OneBackend(a)'
  BY <1>2 DEF InstanceInv, OneBackend, Moves, Owns
<1>5. LiveIsHeld(a)'
  BY <1>2 DEF InstanceInv, LiveIsHeld, Owns, Alive
<1>6. SignalIsAwaited(a)'
  BY <1>2 DEF InstanceInv, SignalIsAwaited, Moves, Owns
<1>7. RelaunchIsLast(a)'
  BY <1>2 DEF InstanceInv, RelaunchIsLast, Owns, Alive
<1>8. \A p \in Pid : OrphanInv(p)'
  BY DEF BackendInv, OrphanInv, Alive
<1>9. QED
  BY <1>1, <1>3, <1>4, <1>5, <1>6, <1>7, <1>8, OnlyKeeps DEF BackendInv, InstanceInv

LEMMA QuitKeeps ==
    ASSUME TypeOK, BackendInv, NEW a \in App, Moves(a), relaunch' = relaunch,
           Quit(a, backendProcess[a], proc)
    PROVE  BackendInv'
<1>1. CASE phase[a] # "up"
  <2>1. backendProcess' = backendProcess
    BY <1>1 DEF Quit, TypeOK
  <2>2. QED
    BY <1>1, <2>1, StayKeeps DEF Quit, closing
<1>2. CASE phase[a] = "up"
  <2>1. /\ \A b \in App : phase'[b] = IF b = a THEN "quitting" ELSE phase[b]
        /\ \A b \in App : appClosing'[b] = IF b = a THEN TRUE ELSE appClosing[b]
        /\ \A b \in App : backendProcess'[b] = IF b = a THEN None ELSE backendProcess[b]
    BY <1>2 DEF Quit, TypeOK
  <2>2. \A p \in Pid :
            proc'[p] = IF p = backendProcess[a] /\ ~proc[p].killed
                       THEN [proc[p] EXCEPT !.killed = TRUE, !.note = "quit"]
                       ELSE proc[p]
    BY <1>2 DEF Quit, Signalled
  <2>3. InstanceInv(a)
    BY DEF BackendInv
  <2>4. \A p \in Pid : proc[p] \in Process
    BY DEF TypeOK
  <2>5. \A p \in Pid : /\ proc'[p].owner = proc[p].owner
                       /\ proc'[p].state = proc[p].state
                       /\ proc[p].killed => proc'[p] = proc[p]
                       /\ p = backendProcess[a] /\ ~proc[p].killed =>
                             proc'[p].killed /\ proc'[p].note = "quit"
                       /\ p # backendProcess[a] => proc'[p] = proc[p]
    <3> TAKE p \in Pid
    <3>1. CASE p = backendProcess[a] /\ ~proc[p].killed
      <4>1. proc'[p] = [proc[p] EXCEPT !.killed = TRUE, !.note = "quit"]
        BY <2>2, <3>1
      <4>2. {"killed", "note", "owner", "state"} \subseteq DOMAIN proc[p]
        BY <2>4 DEF Process
      <4>3. /\ proc'[p].owner = proc[p].owner /\ proc'[p].state = proc[p].state
            /\ proc'[p].killed = TRUE /\ proc'[p].note = "quit"
        BY <4>1, <4>2
      <4>4. QED
        BY <3>1, <4>3
    <3>2. CASE p # backendProcess[a] \/ proc[p].killed
      BY <2>2, <3>2
    <3>3. QED
      BY <3>1, <3>2
  <2>6. \A p \in Pid : p = backendProcess[a] => proc[p].owner = a
    BY <2>3 DEF InstanceInv, LiveIsHeld, Owns
  <2>7. Only(a)
    BY <2>1, <2>5, <2>6 DEF Only, Moves
  <2>8. PhasesAgree(a)'
    BY <2>1, <2>3 DEF InstanceInv, PhasesAgree
  <2>9. OneBackend(a)'
    BY <2>3, <2>5 DEF InstanceInv, OneBackend, Moves, Owns
  <2>10. LiveIsHeld(a)'
    BY <2>1, <2>3, <2>5, LifecycleAssumption DEF InstanceInv, LiveIsHeld, Owns, Alive
  <2>11. SignalIsAwaited(a)'
    BY <2>3, <2>5 DEF InstanceInv, SignalIsAwaited, Moves, Owns
  <2>12. RelaunchIsLast(a)'
    BY <1>2, <2>3 DEF InstanceInv, RelaunchIsLast
  <2>13. \A p \in Pid : OrphanInv(p)'
    <3> TAKE p \in Pid
    <3>1. OrphanInv(p)
      BY DEF BackendInv
    <3>2. CASE proc[p].owner = None
      BY <2>5, <2>6, <3>1, <3>2, LifecycleAssumption DEF OrphanInv, Alive
    <3>3. CASE proc[p].owner # None
      BY <2>5, <3>1, <3>3 DEF OrphanInv, Free
    <3>4. QED
      BY <3>2, <3>3
  <2>14. QED
    BY <2>7, <2>8, <2>9, <2>10, <2>11, <2>12, <2>13, OnlyKeeps DEF BackendInv, InstanceInv
<1>3. QED
  BY <1>1, <1>2

\* The steps of startOrCrash, other than Spawn, are of that kind.
LEMMA GotoMoves ==
    ASSUME TypeOK, BackendInv, NEW a \in App, NEW t \in Starter, NEW at, Goto(a, t, at),
           task[a][t] # "idle", at # "dialog", t = "ready" => at # "idle",
           at \in BeforeSpawn => task[a][t] \in BeforeSpawn \cup {"dialog"}
    PROVE  Moves(a)
<1>1. task[a] \in Waits /\ task \in [App -> Waits]
  BY DEF TypeOK
<1>2. PhasesAgree(a) /\ OneBackend(a)
  BY DEF BackendInv, InstanceInv
<1>3. \A b \in App \ {a} : task'[b] = task[b]
  BY <1>1 DEF Goto
<1>4. phase[a] # "off"
  BY <1>2 DEF PhasesAgree, AtRest, Starter
<1>5. CASE t = "ready"
  <2>1. /\ task'[a].ready = at /\ task'[a].restart = task[a].restart
        /\ task'[a].save = task[a].save
    BY <1>1, <1>5 DEF Goto, Waits
  <2>2. task[a].ready # "dialog"
    BY <1>1 DEF Waits, StartTask
  <2>3. QED
    BY <1>2, <1>3, <1>4, <1>5, <2>1, <2>2 DEF Moves, OneBackend
<1>6. CASE t = "restart"
  <2>1. /\ task'[a].ready = task[a].ready /\ task'[a].restart = at
        /\ task'[a].save = task[a].save
    BY <1>1, <1>6 DEF Goto, Waits
  <2>2. QED
    BY <1>2, <1>3, <1>4, <1>6, <2>1 DEF Moves, OneBackend
<1>7. QED
  BY <1>5, <1>6 DEF Starter

LEMMA FailKeeps ==
    ASSUME TypeOK, BackendInv, NEW a \in App, NEW t \in Starter, Fail(a, t),
           task[a][t] # "idle", relaunch' = relaunch
    PROVE  BackendInv'
<1>1. CASE t = "ready"
  <2>1. Goto(a, t, "done") /\ Quit(a, backendProcess[a], proc)
    BY <1>1 DEF Fail
  <2>2. Moves(a)
    BY <2>1, GotoMoves DEF BeforeSpawn
  <2>3. QED
    BY <2>1, <2>2, QuitKeeps
<1>2. CASE t = "restart"
  <2>1. Goto(a, t, "idle") /\ UNCHANGED <<phase, appClosing, backendProcess, proc>>
    BY <1>2 DEF Fail, closing
  <2>2. Moves(a)
    BY <1>2, <2>1, GotoMoves DEF BeforeSpawn
  <2>3. QED
    BY <2>1, <2>2, StayKeeps
<1>3. QED
  BY <1>1, <1>2 DEF Starter

\* A spawn finds no process of its instance (OneBackend), so the new one is the only one.
LEMMA SpawnKeeps ==
    ASSUME TypeOK, BackendInv, NEW a \in App, NEW t \in Starter, Spawn(a, t)
    PROVE  BackendInv'
<1> DEFINE new == CHOOSE p \in {p \in Pid : proc[p].state = "free"} : TRUE
           born == [state |-> "booting", killed |-> FALSE, owner |-> a,
                    note |-> IF appClosing[a] THEN "late" ELSE "none"]
<1>1. new \in Pid /\ proc[new].state = "free"
  BY DEF Spawn
<1>2. /\ proc' = [proc EXCEPT ![new] = born]
      /\ backendProcess' = [backendProcess EXCEPT ![a] = new]
  BY DEF Spawn
<1>3. /\ born.state = "booting" /\ ~born.killed /\ born.owner = a
      /\ born.note = IF appClosing[a] THEN "late" ELSE "none"
  OBVIOUS
<1> HIDE DEF new, born
<1>4. proc[new].owner = None
  BY <1>1 DEF BackendInv, OrphanInv, Free
<1>5. /\ Goto(a, t, "poll") /\ task[a][t] = "spawn"
      /\ UNCHANGED <<phase, appClosing, relaunch>>
  BY DEF Spawn, flags
<1>6. Moves(a)
  BY <1>5, GotoMoves DEF BeforeSpawn
<1>7. proc'[new] = born /\ \A p \in Pid : p # new => proc'[p] = proc[p]
  BY <1>1, <1>2 DEF TypeOK
<1>8. backendProcess'[a] = new /\ \A b \in App \ {a} : backendProcess'[b] = backendProcess[b]
  BY <1>2 DEF TypeOK
<1>9. InstanceInv(a)
  BY DEF BackendInv
<1>10. \A p \in Pid : ~Owns(a, p)
  BY <1>5, <1>9 DEF InstanceInv, OneBackend, BeforeSpawn, Starter
<1>11. Only(a)
  BY <1>3, <1>4, <1>5, <1>6, <1>7, <1>8, LifecycleAssumption DEF Only, Moves
<1>12. PhasesAgree(a)'
  BY <1>5, <1>6, <1>9 DEF InstanceInv, PhasesAgree, Moves
<1>13. \A p \in Pid : Owns(a, p)' <=> p = new
  BY <1>1, <1>3, <1>7, <1>10 DEF Owns
<1>14. /\ task'[a].ready \notin BeforeSpawn \cup {"idle"}
       /\ task'[a].restart \notin BeforeSpawn \cup {"dialog"}
  <2>1. task[a] \in Waits /\ task \in [App -> Waits]
    BY DEF TypeOK
  <2>2. CASE t = "ready"
    BY <1>5, <1>9, <2>1, <2>2 DEF Goto, Waits, BeforeSpawn, InstanceInv, OneBackend
  <2>3. CASE t = "restart"
    BY <1>5, <1>9, <2>1, <2>3 DEF Goto, Waits, BeforeSpawn, InstanceInv, OneBackend
  <2>4. QED
    BY <2>2, <2>3 DEF Starter
<1>15. OneBackend(a)'
  BY <1>13, <1>14 DEF OneBackend
<1>16. LiveIsHeld(a)'
  <2>1. phase[a] # "up" => born.note = "late"
    BY <1>3, <1>6, <1>9 DEF InstanceInv, PhasesAgree, Moves, TypeOK
  <2>2. QED
    BY <1>1, <1>5, <1>7, <1>8, <1>13, <2>1 DEF LiveIsHeld
<1>17. SignalIsAwaited(a)'
  <2>1. task'[a].save # "stop"
    BY <1>6, <1>9, <1>10 DEF InstanceInv, SignalIsAwaited, Moves
  <2>2. QED
    BY <1>3, <1>7, <1>13, <2>1 DEF SignalIsAwaited
<1>18. RelaunchIsLast(a)'
  BY <1>3, <1>5, <1>7, <1>9, <1>13 DEF InstanceInv, RelaunchIsLast, PhasesAgree
<1>19. \A p \in Pid : OrphanInv(p)'
  BY <1>3, <1>7, LifecycleAssumption DEF BackendInv, OrphanInv, Alive
<1>20. QED
  BY <1>11, <1>12, <1>15, <1>16, <1>17, <1>18, <1>19, OnlyKeeps DEF BackendInv, InstanceInv

LEMMA StartKeeps ==
    ASSUME TypeOK, BackendInv, NEW a \in App, NEW t \in Starter, StartStep(a, t)
    PROVE  BackendInv'
<1>1. CASE Spawn(a, t)
  BY <1>1, SpawnKeeps
<1>2. CASE Fail(a, t) /\ ~Spawn(a, t)
  <2>1. task[a][t] # "idle" /\ relaunch' = relaunch
    BY <1>2 DEF StartStep, ReadConfig, AnswerPrompt, WritePrompted, ProbePort, Poll,
                ReadSyncConfig, Configure, Load
  <2>2. QED
    BY <1>2, <2>1, FailKeeps
<1>3. CASE ~Fail(a, t) /\ ~Spawn(a, t)
  <2>1. UNCHANGED <<phase, appClosing, backendProcess, proc, relaunch>>
    BY <1>3 DEF StartStep, ReadConfig, AnswerPrompt, WritePrompted, ProbePort, Poll,
                ReadSyncConfig, Configure, Load, closing, flags
  <2>2. PICK at : /\ Goto(a, t, at) /\ task[a][t] # "idle" /\ at # "dialog"
                  /\ t = "ready" => at # "idle"
                  /\ at \in BeforeSpawn => task[a][t] \in BeforeSpawn
    BY <1>3 DEF StartStep, ReadConfig, AnswerPrompt, WritePrompted, ProbePort, Poll,
                ReadSyncConfig, Configure, Load, BeforeSpawn
  <2>3. QED
    BY <2>1, <2>2, GotoMoves, StayKeeps
<1>4. QED
  BY <1>1, <1>2, <1>3

\* A process listens or exits, of a running instance or of one that has ended.
LEMMA BackendKeeps ==
    ASSUME TypeOK, BackendInv, NEW p \in Pid, Listen(p) \/ Exit(p)
    PROVE  BackendInv'
<1>1. \A q \in Pid : proc[q] \in Process
  BY DEF TypeOK
<1>2. UNCHANGED <<phase, appClosing, backendProcess, task, relaunch>>
  BY DEF Listen, Exit, flags
<1>3. CASE proc[p].owner = None
  <2>1. \A q \in Pid : /\ proc'[q].owner = proc[q].owner
                       /\ q # p => proc'[q] = proc[q]
    BY <1>1, <1>3 DEF Listen, Exit, TypeOK, Free, Process
  <2>2. OrphanInv(p)'
    <3>1. CASE Listen(p)
      <4>1. proc'[p].state = "listening" /\ proc'[p].killed = proc[p].killed
            /\ proc'[p].note = proc[p].note
        BY <1>1, <3>1 DEF Listen, TypeOK, Process
      <4>2. QED
        BY <2>1, <3>1, <4>1 DEF BackendInv, OrphanInv, Alive, Listen
    <3>2. CASE Exit(p)
      BY <1>1, <1>3, <3>2 DEF Exit, TypeOK, OrphanInv, Free, Alive
    <3>3. QED
      BY <3>1, <3>2
  <2>3. \A q \in Pid : OrphanInv(q)'
    BY <2>1, <2>2 DEF BackendInv, OrphanInv, Alive
  <2>4. ASSUME NEW a \in App
        PROVE  InstanceInv(a)'
    <3>1. InstanceInv(a)
      BY DEF BackendInv
    <3>2. \A q \in Pid : /\ Owns(a, q)' <=> Owns(a, q)
                         /\ Owns(a, q) => proc'[q] = proc[q]
      BY <1>3, <2>1, LifecycleAssumption DEF Owns
    <3> HIDE DEF Owns
    <3>3. PhasesAgree(a)' /\ OneBackend(a)'
      BY <1>2, <3>1, <3>2 DEF InstanceInv, PhasesAgree, OneBackend
    <3>4. LiveIsHeld(a)'
      BY <1>2, <3>1, <3>2 DEF InstanceInv, LiveIsHeld, Alive
    <3>5. SignalIsAwaited(a)' /\ RelaunchIsLast(a)'
      BY <1>2, <3>1, <3>2 DEF InstanceInv, SignalIsAwaited, RelaunchIsLast, Alive
    <3>6. QED
      BY <3>3, <3>4, <3>5 DEF InstanceInv
  <2>5. QED
    BY <2>3, <2>4 DEF BackendInv
<1>4. CASE proc[p].owner # None
  <2>1. PICK a \in App : proc[p].owner = a
    BY <1>1, <1>4 DEF Process
  <2>2. /\ \A q \in Pid : q # p => proc'[q] = proc[q]
        /\ proc'[p].owner = a /\ proc'[p].killed = proc[p].killed /\ proc'[p].note = proc[p].note
        /\ proc'[p].state \in {"listening", "exited"}
        /\ Alive(p)
    BY <1>1, <1>4, <2>1 DEF Listen, Exit, TypeOK, Process, Alive
  <2>3. Only(a)
    BY <1>2, <2>1, <2>2 DEF Only
  <2>4. InstanceInv(a)
    BY DEF BackendInv
  <2>5. \A q \in Pid : /\ Owns(a, q)' <=> Owns(a, q)
                       /\ proc'[q].killed = proc[q].killed /\ proc'[q].note = proc[q].note
                       /\ Alive(q)' => Alive(q)
    BY <2>1, <2>2 DEF Owns, Alive
  <2> HIDE DEF Owns, Alive
  <2>6. PhasesAgree(a)' /\ OneBackend(a)'
    BY <1>2, <2>4, <2>5 DEF InstanceInv, PhasesAgree, OneBackend
  <2>7. LiveIsHeld(a)'
    BY <1>2, <2>4, <2>5 DEF InstanceInv, LiveIsHeld
  <2>8. SignalIsAwaited(a)' /\ RelaunchIsLast(a)'
    BY <1>2, <2>4, <2>5 DEF InstanceInv, SignalIsAwaited, RelaunchIsLast
  <2>9. \A q \in Pid : OrphanInv(q)'
    BY <1>4, <2>1, <2>2, LifecycleAssumption DEF BackendInv, OrphanInv, Alive
  <2>10. QED
    BY <2>3, <2>4, <2>6, <2>7, <2>8, <2>9, OnlyKeeps DEF BackendInv, InstanceInv
<1>5. QED
  BY <1>3, <1>4

\* app.quit() when backendProcess has just been cleared.
LEMMA QuitWithout ==
    ASSUME TypeOK, NEW a \in App, NEW procs \in [Pid -> Process], Quit(a, None, procs),
           phase[a] # "off", PhasesAgree(a)
    PROVE  /\ proc' = procs
           /\ backendProcess' = [backendProcess EXCEPT ![a] = None]
           /\ phase' = [phase EXCEPT ![a] = "quitting"]
           /\ appClosing' = [appClosing EXCEPT ![a] = TRUE]
<1>1. Signalled(procs, None) = procs
  BY LifecycleAssumption DEF Signalled
<1>2. phase[a] \in {"up", "quitting"} /\ appClosing[a] \in BOOLEAN
  BY DEF TypeOK
<1>3. CASE phase[a] = "up"
  BY <1>1, <1>3 DEF Quit
<1>4. CASE phase[a] = "quitting"
  BY <1>2, <1>4 DEF Quit, closing, PhasesAgree, TypeOK
<1>5. QED
  BY <1>2, <1>3, <1>4

\* The exit handler releases the one process of its instance.
LEMMA ExitHandlerKeeps ==
    ASSUME TypeOK, BackendInv, NEW a \in App, NEW p \in Pid, OnExit(a, p)
    PROVE  BackendInv'
<1> DEFINE procs == [proc EXCEPT ![p] = Free]
           stopped == task[a].save = "stop"
<1>1. procs \in [Pid -> Process]
  BY FreeType DEF TypeOK
<1>2. InstanceInv(a)
  BY DEF BackendInv
<1>3. Owns(a, p) /\ \A q \in Pid : Owns(a, q) => q = p
  BY <1>2 DEF OnExit, Owns, InstanceInv, OneBackend
<1>4. task[a].ready \notin BeforeSpawn \cup {"idle"} /\ phase[a] # "off"
  BY <1>2, <1>3 DEF InstanceInv, OneBackend, PhasesAgree, AtRest
<1>5. /\ proc' = procs
      /\ backendProcess' = [backendProcess EXCEPT ![a] = None]
      /\ \/ /\ stopped
            /\ phase' = [phase EXCEPT ![a] = "quitting"]
            /\ appClosing' = [appClosing EXCEPT ![a] = TRUE]
         \/ ~stopped /\ UNCHANGED <<phase, appClosing>>
  BY <1>1, <1>2, <1>4, QuitWithout DEF OnExit, InstanceInv, closing
<1>6. proc'[p] = Free /\ \A q \in Pid : q # p => proc'[q] = proc[q]
  BY <1>5 DEF TypeOK
<1>7. /\ task'[a].ready = task[a].ready /\ task'[a].save # "stop"
      /\ \A b \in App \ {a} : task'[b] = task[b]
  <2>1. task \in [App -> Waits]
    BY DEF TypeOK
  <2>2. QED
    BY <2>1 DEF OnExit, Waits
<1>8. /\ relaunch'[a] = (relaunch[a] \/ stopped)
      /\ \A b \in App \ {a} : relaunch'[b] = relaunch[b]
  BY DEF OnExit, TypeOK
<1>9. /\ backendProcess'[a] = None
      /\ \A b \in App \ {a} : /\ backendProcess'[b] = backendProcess[b]
                              /\ phase'[b] = phase[b] /\ appClosing'[b] = appClosing[b]
  BY <1>5 DEF TypeOK
<1>10. Only(a)
  BY <1>3, <1>6, <1>7, <1>8, <1>9, LifecycleAssumption DEF Only, Owns, Free
<1>11. \A q \in Pid : ~Owns(a, q)'
  BY <1>3, <1>6, LifecycleAssumption DEF Owns, Free
<1>12. PhasesAgree(a)'
  BY <1>2, <1>4, <1>5 DEF InstanceInv, PhasesAgree, TypeOK
<1>13. OneBackend(a)'
  BY <1>4, <1>7, <1>11 DEF OneBackend
<1>14. LiveIsHeld(a)' /\ SignalIsAwaited(a)'
  BY <1>7, <1>9, <1>11, LifecycleAssumption DEF LiveIsHeld, SignalIsAwaited
<1>15. RelaunchIsLast(a)'
  BY <1>2, <1>5, <1>8, <1>11 DEF InstanceInv, RelaunchIsLast, TypeOK
<1>16. \A q \in Pid : OrphanInv(q)'
  BY <1>6, FreeFields DEF BackendInv, OrphanInv, Alive
<1>17. QED
  BY <1>10, <1>12, <1>13, <1>14, <1>15, <1>16, OnlyKeeps DEF BackendInv, InstanceInv

\* The handlers of the settings window do not touch a start.
LEMMA SideMoves ==
    ASSUME TypeOK, NEW a \in App, NEW t \in {"save", "saveSync"}, NEW at, Goto(a, t, at),
           phase[a] # "off", OneBackend(a),
           t = "save" => (at = "stop" <=> task[a].save = "stop")
    PROVE  Moves(a)
<1>1. task \in [App -> Waits]
  BY DEF TypeOK
<1>2. task'[a].ready = task[a].ready /\ task'[a].restart = task[a].restart
      /\ (t # "save" => task'[a].save = task[a].save) /\ (t = "save" => task'[a].save = at)
  BY <1>1 DEF Goto, Waits
<1>3. \A b \in App \ {a} : task'[b] = task[b]
  BY <1>1 DEF Goto
<1>4. QED
  BY <1>2, <1>3 DEF Moves, OneBackend

LEMMA SaveSettingsKeeps ==
    ASSUME TypeOK, BackendInv, NEW a \in App, SaveSettings(a)
    PROVE  BackendInv'
<1>1. Moves(a)
  BY SideMoves DEF SaveSettings, BackendInv, InstanceInv
<1>2. QED
  BY <1>1, StayKeeps DEF SaveSettings, flags

\* One case for each way stopBackendProcessForRelaunch begins.
LEMMA StopKeeps ==
    ASSUME TypeOK, BackendInv, NEW a \in App, StopForRelaunch(a)
    PROVE  BackendInv'
<1> DEFINE backend == backendProcess[a]
<1>1. InstanceInv(a) /\ task[a].save = "write"
  BY DEF BackendInv, StopForRelaunch
<1>2. proc \in [Pid -> Process] /\ task \in [App -> Waits] /\ backend \in Pid \cup {None}
  BY DEF TypeOK
<1>3. phase[a] # "off"
  BY <1>1 DEF InstanceInv, PhasesAgree, AtRest
<1>4. \A b \in App \ {a} : task'[b] = task[b]
  BY <1>2 DEF StopForRelaunch, Goto
<1>5. CASE /\ IF backend = None THEN TRUE ELSE proc[backend].killed
           /\ Goto(a, "save", "idle")
           /\ relaunch' = [relaunch EXCEPT ![a] = TRUE]
           /\ Quit(a, None, proc)
  <2>1. Moves(a)
    BY <1>1, <1>3, <1>5, SideMoves DEF InstanceInv
  <2>2. /\ proc' = proc /\ backendProcess'[a] = None /\ phase'[a] = "quitting"
        /\ appClosing'[a] /\ relaunch'[a]
        /\ \A b \in App \ {a} : /\ backendProcess'[b] = backendProcess[b]
                                /\ phase'[b] = phase[b] /\ appClosing'[b] = appClosing[b]
                                /\ relaunch'[b] = relaunch[b]
    BY <1>1, <1>2, <1>3, <1>5, QuitWithout DEF InstanceInv, TypeOK
  <2>3. \A p \in Pid : Owns(a, p) /\ Alive(p) => proc[p].killed
    BY <1>1, <1>5, LifecycleAssumption DEF InstanceInv, LiveIsHeld
  <2>4. \A p \in Pid : Owns(a, p) /\ Alive(p) => proc[p].note # "none"
    BY <1>1, <2>3 DEF InstanceInv, SignalIsAwaited
  <2>5. Only(a)
    BY <1>4, <2>2 DEF Only
  <2>6. PhasesAgree(a)' /\ OneBackend(a)'
    BY <1>1, <2>1, <2>2 DEF InstanceInv, PhasesAgree, OneBackend, Moves, Owns
  <2>7. LiveIsHeld(a)'
    BY <2>2, <2>3, LifecycleAssumption DEF LiveIsHeld, Owns, Alive
  <2>8. SignalIsAwaited(a)' /\ RelaunchIsLast(a)'
    BY <1>1, <2>1, <2>2, <2>4 DEF InstanceInv, SignalIsAwaited, RelaunchIsLast, Moves, Owns, Alive
  <2>9. \A p \in Pid : OrphanInv(p)'
    BY <2>2 DEF BackendInv, OrphanInv, Alive
  <2>10. QED
    BY <2>5, <2>6, <2>7, <2>8, <2>9, OnlyKeeps DEF BackendInv, InstanceInv
<1>6. CASE /\ backend # None /\ ~proc[backend].killed
           /\ Goto(a, "save", "stop")
           /\ proc' = [proc EXCEPT ![backend].killed = TRUE]
           /\ UNCHANGED <<closing, backendProcess, relaunch>>
  <2>1. backend \in Pid /\ proc[backend].owner = a
    BY <1>1, <1>2, <1>6 DEF InstanceInv, LiveIsHeld, Owns
  <2>2. /\ proc'[backend] = [proc[backend] EXCEPT !.killed = TRUE]
        /\ \A p \in Pid : p # backend => proc'[p] = proc[p]
    BY <1>2, <1>6, <2>1
  <2>3. /\ proc'[backend].owner = a /\ proc'[backend].killed
        /\ proc'[backend].note = proc[backend].note /\ proc'[backend].state = proc[backend].state
    BY <1>2, <2>1, <2>2 DEF Process
  <2>4. /\ task'[a].ready = task[a].ready /\ task'[a].restart = task[a].restart
        /\ task'[a].save = "stop"
    BY <1>2, <1>6 DEF Goto, Waits
  <2> HIDE DEF backend
  <2>5. UNCHANGED <<phase, appClosing, backendProcess, relaunch>>
    BY <1>6 DEF closing
  <2>6. Only(a)
    BY <1>4, <2>1, <2>2, <2>3, <2>5 DEF Only
  <2>7. \A p \in Pid : Owns(a, p)' <=> Owns(a, p)
    BY <2>1, <2>2, <2>3 DEF Owns
  <2>8. \A p \in Pid : /\ proc'[p].note = proc[p].note
                       /\ Alive(p)' <=> Alive(p)
                       /\ proc[p].killed => proc'[p].killed
    BY <2>2, <2>3 DEF Alive
  <2>9. PhasesAgree(a)' /\ OneBackend(a)'
    BY <1>1, <1>3, <2>4, <2>5, <2>7 DEF InstanceInv, PhasesAgree, OneBackend
  <2>10. LiveIsHeld(a)'
    <3>1. \A p \in Pid : ~proc'[p].killed => ~proc[p].killed
      BY <2>2, <2>3
    <3>2. QED
      BY <1>1, <2>5, <2>7, <2>8, <3>1 DEF InstanceInv, LiveIsHeld
  <2>11. SignalIsAwaited(a)'
    BY <1>1, <2>1, <2>3, <2>4, <2>7, <2>8 DEF InstanceInv, SignalIsAwaited, Owns
  <2>12. RelaunchIsLast(a)'
    BY <1>1, <2>5, <2>7, <2>8 DEF InstanceInv, RelaunchIsLast
  <2>13. \A p \in Pid : OrphanInv(p)'
    <3> TAKE p \in Pid
    <3>1. OrphanInv(p)
      BY DEF BackendInv
    <3>2. CASE p = backend
      <4>1. proc[p].state # "free"
        BY <2>1, <3>1, <3>2, FreeFields, LifecycleAssumption DEF OrphanInv
      <4>2. QED
        BY <2>3, <3>2, <4>1, LifecycleAssumption DEF OrphanInv
    <3>3. CASE p # backend
      BY <2>2, <3>1, <3>3 DEF OrphanInv, Alive
    <3>4. QED
      BY <3>2, <3>3
  <2>14. QED
    BY <2>6, <2>9, <2>10, <2>11, <2>12, <2>13, OnlyKeeps DEF BackendInv, InstanceInv
<1>7. CASE Goto(a, "save", "idle") /\ UNCHANGED <<closing, proc, backendProcess, relaunch>>
  <2>1. Moves(a)
    BY <1>1, <1>3, <1>7, SideMoves DEF InstanceInv
  <2>2. QED
    BY <1>7, <2>1, StayKeeps DEF closing
<1>8. QED
  BY <1>5, <1>6, <1>7 DEF StopForRelaunch

LEMMA StopTimeoutKeeps ==
    ASSUME TypeOK, BackendInv, NEW a \in App, StopTimeout(a)
    PROVE  BackendInv'
<1>1. InstanceInv(a) /\ task[a].save = "stop"
  BY DEF BackendInv, StopTimeout
<1>2. proc \in [Pid -> Process] /\ task \in [App -> Waits]
  BY DEF TypeOK
<1>3. \A p \in Pid :
         proc'[p] = IF proc[p].owner = a /\ proc[p].killed
                    THEN [proc[p] EXCEPT !.note = "refused"] ELSE proc[p]
  BY DEF StopTimeout
<1>4. \A p \in Pid : /\ proc'[p].owner = proc[p].owner /\ proc'[p].state = proc[p].state
                     /\ proc'[p].killed = proc[p].killed
                     /\ Owns(a, p) /\ proc[p].killed => proc'[p].note = "refused"
                     /\ ~Owns(a, p) \/ ~proc[p].killed => proc'[p] = proc[p]
  <2> TAKE p \in Pid
  <2>1. CASE proc[p].owner = a /\ proc[p].killed
    BY <1>2, <1>3, <2>1 DEF Owns, Process
  <2>2. CASE ~(proc[p].owner = a /\ proc[p].killed)
    BY <1>3, <2>2 DEF Owns
  <2>3. QED
    BY <2>1, <2>2
<1>5. /\ task'[a].ready = task[a].ready /\ task'[a].restart = task[a].restart
      /\ task'[a].save = "idle" /\ \A b \in App \ {a} : task'[b] = task[b]
  BY <1>2 DEF StopTimeout, Goto, Waits
<1>6. UNCHANGED <<phase, appClosing, backendProcess, relaunch>>
  BY DEF StopTimeout, flags
<1>7. Only(a)
  BY <1>4, <1>5, <1>6 DEF Only, Owns
<1>8. PhasesAgree(a)' /\ OneBackend(a)'
  BY <1>1, <1>4, <1>5, <1>6 DEF InstanceInv, PhasesAgree, OneBackend, Owns, AtRest
<1>9. LiveIsHeld(a)'
  BY <1>1, <1>4, <1>6 DEF InstanceInv, LiveIsHeld, Owns, Alive
<1>10. SignalIsAwaited(a)'
  BY <1>1, <1>4, <1>5 DEF InstanceInv, SignalIsAwaited, Owns
<1>11. RelaunchIsLast(a)'
  BY <1>1, <1>4, <1>6 DEF InstanceInv, RelaunchIsLast, Owns, Alive
<1>12. \A p \in Pid : OrphanInv(p)'
  <2> TAKE p \in Pid
  <2>1. OrphanInv(p)
    BY DEF BackendInv
  <2>2. CASE proc'[p] = proc[p]
    BY <2>1, <2>2 DEF OrphanInv, Alive
  <2>3. CASE Owns(a, p)
    BY <1>4, <2>1, <2>3, LifecycleAssumption DEF OrphanInv, Owns, Free
  <2>4. QED
    BY <1>4, <2>2, <2>3
<1>13. QED
  BY <1>7, <1>8, <1>9, <1>10, <1>11, <1>12, OnlyKeeps DEF BackendInv, InstanceInv

LEMMA SyncSaveKeeps ==
    ASSUME TypeOK, BackendInv, NEW a \in App,
           SyncConfigSaved(a) \/ \E setting \in {"on", "off"} : SaveSyncConfig(a, setting)
    PROVE  BackendInv'
<1>1. InstanceInv(a)
  BY DEF BackendInv
<1>2. phase[a] # "off"
  BY <1>1 DEF SyncConfigSaved, SaveSyncConfig, InstanceInv, PhasesAgree, AtRest
<1>3. \E at : Goto(a, "saveSync", at)
  BY DEF SyncConfigSaved, SaveSyncConfig
<1>4. Moves(a)
  BY <1>1, <1>2, <1>3, SideMoves DEF InstanceInv
<1>5. QED
  BY <1>4, StayKeeps DEF SyncConfigSaved, SaveSyncConfig, flags

\* The end of an instance leaves behind a process only for one of the two reasons.
LEMMA EndKeeps ==
    ASSUME TypeOK, BackendInv, NEW a \in App, AppExit(a) \/ AppKilled(a)
    PROVE  BackendInv'
<1>1. InstanceInv(a)
  BY DEF BackendInv
<1>2. PICK note \in {"none", "abandoned"} :
          proc' = Orphaned(a, note) /\ (note = "none" => phase[a] = "quitting")
  BY DEF AppExit, AppKilled
<1>3. \A p \in Pid : proc[p] \in Process
  BY DEF TypeOK
<1>4. \A p \in Pid : proc[p].owner # a => proc'[p] = proc[p]
  BY <1>2 DEF Orphaned
<1>5. \A p \in Pid : proc[p].owner = a /\ ~Alive(p) => proc'[p] = Free
  BY <1>2 DEF Orphaned
<1>6. \A p \in Pid : proc[p].owner = a /\ Alive(p) =>
          /\ proc'[p].owner = None /\ proc'[p].state = proc[p].state
          /\ proc'[p].killed = proc[p].killed
          /\ proc'[p].note = IF note = "none" THEN proc[p].note ELSE note
  BY <1>2, <1>3 DEF Orphaned, Process
<1>7. /\ task'[a] = AtRest /\ phase'[a] = "off" /\ ~appClosing'[a] /\ backendProcess'[a] = None
      /\ \A b \in App \ {a} : /\ task'[b] = task[b] /\ backendProcess'[b] = backendProcess[b]
                              /\ phase'[b] = phase[b] /\ appClosing'[b] = appClosing[b]
                              /\ relaunch'[b] = relaunch[b]
  BY DEF AppExit, AppKilled, Ended, TypeOK
<1>8. \A p \in Pid : proc[p].owner = a => proc'[p].owner = None
  BY <1>5, <1>6 DEF Free
<1>9. Only(a)
  BY <1>4, <1>7, <1>8, LifecycleAssumption DEF Only
<1>10. \A p \in Pid : ~Owns(a, p)'
  BY <1>4, <1>8, LifecycleAssumption DEF Owns
<1>11. InstanceInv(a)'
  BY <1>7, <1>10, LifecycleAssumption
  DEF InstanceInv, PhasesAgree, OneBackend, LiveIsHeld, SignalIsAwaited, RelaunchIsLast,
      AtRest, BeforeSpawn
<1>12. \A p \in Pid : OrphanInv(p)'
  <2> TAKE p \in Pid
  <2>1. OrphanInv(p)
    BY DEF BackendInv
  <2>2. CASE proc[p].owner # a
    BY <1>4, <2>1, <2>2 DEF OrphanInv, Alive
  <2>3. CASE proc[p].owner = a /\ ~Alive(p)
    BY <1>5, <2>3, FreeFields DEF OrphanInv, Alive
  <2>4. CASE proc[p].owner = a /\ Alive(p)
    <3>1. ~proc[p].killed /\ phase[a] = "quitting" => proc[p].note = "late"
      BY <1>1, <2>4 DEF InstanceInv, LiveIsHeld, Owns
    <3>2. QED
      BY <1>2, <1>6, <2>4, <3>1 DEF OrphanInv, Alive
  <2>5. QED
    BY <2>2, <2>3, <2>4
<1>13. QED
  BY <1>9, <1>11, <1>12, OnlyKeeps DEF BackendInv

LEMMA LaunchKeeps ==
    ASSUME TypeOK, BackendInv, NEW a \in App, Launch(a)
    PROVE  BackendInv'
<1>1. InstanceInv(a) /\ task[a] = AtRest
  BY DEF BackendInv, InstanceInv, PhasesAgree, Launch
<1>2. /\ task'[a].ready = "config" /\ task'[a].restart = "idle" /\ task'[a].save = "idle"
      /\ \A b \in App \ {a} : task'[b] = task[b]
  <2>1. task \in [App -> Waits]
    BY DEF TypeOK
  <2>2. QED
    BY <1>1, <2>1 DEF Launch, Goto, Waits, AtRest
<1>3. /\ phase'[a] = "up" /\ ~relaunch'[a] /\ phase[a] = "off"
      /\ \A b \in App \ {a} : phase'[b] = phase[b] /\ relaunch'[b] = relaunch[b]
      /\ UNCHANGED <<appClosing, backendProcess, proc>>
  BY DEF Launch, TypeOK, flags
<1>4. Only(a)
  BY <1>2, <1>3 DEF Only
<1>5. \A p \in Pid : ~Owns(a, p)
  BY <1>1 DEF InstanceInv, OneBackend, AtRest
<1>6. PhasesAgree(a)' /\ OneBackend(a)'
  BY <1>1, <1>2, <1>3, <1>5 DEF InstanceInv, PhasesAgree, OneBackend, BeforeSpawn, Owns, TypeOK
<1>7. LiveIsHeld(a)' /\ SignalIsAwaited(a)' /\ RelaunchIsLast(a)'
  BY <1>1, <1>2, <1>3, <1>5
  DEF InstanceInv, LiveIsHeld, SignalIsAwaited, RelaunchIsLast, Owns
<1>8. \A p \in Pid : OrphanInv(p)'
  BY <1>3 DEF BackendInv, OrphanInv, Alive
<1>9. QED
  BY <1>4, <1>6, <1>7, <1>8, OnlyKeeps DEF BackendInv, InstanceInv

LEMMA QuitOrStayKeeps ==
    ASSUME TypeOK, BackendInv, NEW a \in App,
           \/ Activate(a) \/ UserQuit(a) \/ AnswerDialog(a)
           \/ \E w \in windows[a] : CloseWindow(a, w)
    PROVE  BackendInv'
<1>1. InstanceInv(a) /\ relaunch' = relaunch
  BY DEF BackendInv, Activate, UserQuit, AnswerDialog, CloseWindow
<1>2. CASE AnswerDialog(a)
  <2>1. Moves(a)
    BY <1>2, GotoMoves DEF AnswerDialog, Starter, BeforeSpawn
  <2>2. QED
    BY <1>1, <1>2, <2>1, StayKeeps, QuitKeeps DEF AnswerDialog, closing
<1>3. CASE ~AnswerDialog(a)
  <2>1. task' = task /\ phase[a] = "up"
    BY <1>3 DEF Activate, UserQuit, CloseWindow
  <2>2. Moves(a)
    BY <1>1, <2>1 DEF Moves, InstanceInv, OneBackend
  <2>3. QED
    BY <1>1, <1>3, <2>2, StayKeeps, QuitKeeps DEF Activate, UserQuit, CloseWindow, closing, flags
<1>4. QED
  BY <1>2, <1>3

LEMMA BackendInit == Init => BackendInv
<1> SUFFICES ASSUME Init
             PROVE  BackendInv
  OBVIOUS
<1>1. \A p \in Pid : proc[p] = Free
  BY DEF Init
<1>2. \A a \in App, p \in Pid : ~Owns(a, p)
  BY <1>1, LifecycleAssumption DEF Owns, Free
<1>3. ASSUME NEW a \in App
      PROVE  InstanceInv(a)
  BY <1>2, LifecycleAssumption
  DEF Init, InstanceInv, PhasesAgree, OneBackend, LiveIsHeld, SignalIsAwaited, RelaunchIsLast,
      AtRest, BeforeSpawn
<1>4. \A p \in Pid : OrphanInv(p)
  BY <1>1, FreeFields DEF OrphanInv, Alive
<1>5. QED
  BY <1>3, <1>4 DEF BackendInv

\* Every step of the specification keeps BackendInv.
LEMMA BackendPreserved == TypeOK /\ BackendInv /\ [Next]_vars => BackendInv'
<1> SUFFICES ASSUME TypeOK, BackendInv, [Next]_vars
             PROVE  BackendInv'
  OBVIOUS
<1>1. CASE UNCHANGED vars
  BY <1>1
  DEF vars, flags, BackendInv, InstanceInv, PhasesAgree, OneBackend, LiveIsHeld, SignalIsAwaited,
      RelaunchIsLast, OrphanInv, Owns, Alive
<1>2. CASE Next
  BY <1>2, LaunchKeeps, StartKeeps, ExitHandlerKeeps, BackendKeeps, SaveSettingsKeeps, StopKeeps,
     StopTimeoutKeeps, SyncSaveKeeps, EndKeeps, QuitOrStayKeeps
  DEF Next, SaveStep
<1>3. QED
  BY <1>1, <1>2

\* BackendInv holds throughout: one process for each instance at the most, held in
\* backendProcess while it lives unsignalled, whatever the start, the crash dialog,
\* the settings window and quitting do at the same time.
THEOREM BackendSafety == Spec => []BackendInv
<1>1. QED
  BY InitType, TypePreserved, BackendInit, BackendPreserved, PTL DEF Spec

\* Quitting stops every backend the application has started, unless a start was
\* still in progress when before-quit came or the application was killed.
THEOREM NoBackendForgotten == Spec => []BackendsOwned
<1>1. TypeOK /\ BackendInv => BackendsOwned
  <2> SUFFICES ASSUME TypeOK, BackendInv, NEW p \in Pid, Alive(p), ~proc[p].killed,
                      proc[p].note \notin {"late", "abandoned"}
               PROVE  \E a \in App : proc[p].owner = a /\ backendProcess[a] = p
    BY DEF BackendsOwned
  <2>1. proc[p].owner # None
    BY DEF BackendInv, OrphanInv
  <2>2. proc[p].owner \in App
    BY <2>1 DEF TypeOK, Process
  <2>3. QED
    BY <2>2 DEF BackendInv, InstanceInv, LiveIsHeld, Owns
<1>2. QED
  BY <1>1, TypeCorrect, BackendSafety, PTL

\* Once app.relaunch() has been called, no backend of the instance is alive to keep
\* the port from its successor but for the three reasons the property names.
THEOREM PortFreeForRelaunch == Spec => []RelaunchFindsPortFree
<1>1. TypeOK /\ BackendInv => RelaunchFindsPortFree
  <2> SUFFICES ASSUME TypeOK, BackendInv, NEW a \in App, NEW p \in Pid, relaunch[a],
                      phase[a] # "off", proc[p].owner = a, Alive(p)
               PROVE  proc[p].note \in {"late", "quit", "refused"}
    BY DEF RelaunchFindsPortFree
  <2>1. proc[p].note \notin {"none", "abandoned"}
    BY DEF BackendInv, InstanceInv, SignalIsAwaited, RelaunchIsLast, Owns
  <2>2. QED
    BY <2>1 DEF TypeOK, Process
<1>2. QED
  BY <1>1, TypeCorrect, BackendSafety, PTL

----------------------------------------------------------------------------
(* A crash is answered by the dialog.                                      *)

\* The flag is up as long as the dialog's handler is at work, that handler starts
\* only once the user has asked for it, and an instance that has spawned its
\* backend and lost it asks.
AsksAfterCrash(a) ==
    /\ task[a].restart # "idle" => backendCrashDialogOpen[a]
    /\ task[a].restart \in StartTask => restarted[a]
    /\ phase[a] = "up" /\ task[a].ready \notin BeforeSpawn \cup {"idle"} /\ backendProcess[a] = None
       => backendCrashDialogOpen[a] \/ restarted[a] \/ appRelaunching[a]

CrashInv == \A a \in App : AsksAfterCrash(a)

\* A step of a leaves to the others all that AsksAfterCrash reads.
OthersCrashAlike(a) ==
    \A b \in App \ {a} :
        /\ task'[b] = task[b] /\ phase'[b] = phase[b] /\ backendProcess'[b] = backendProcess[b]
        /\ backendCrashDialogOpen'[b] = backendCrashDialogOpen[b]
        /\ appRelaunching'[b] = appRelaunching[b] /\ restarted'[b] = restarted[b]

LEMMA CrashByInstance ==
    ASSUME CrashInv, NEW a \in App, OthersCrashAlike(a), AsksAfterCrash(a)'
    PROVE  CrashInv'
BY DEF CrashInv, OthersCrashAlike, AsksAfterCrash

\* After app.quit() the instance is not up, whether or not it was.
LEMMA QuitCloses ==
    ASSUME TypeOK, NEW a \in App, NEW backend, NEW procs, Quit(a, backend, procs)
    PROVE  /\ phase'[a] # "up"
           /\ \A b \in App \ {a} : phase'[b] = phase[b] /\ backendProcess'[b] = backendProcess[b]
BY DEF TypeOK, Quit, closing

\* What Goto does to each handler.
LEMMA StarterGoto ==
    ASSUME TypeOK, NEW a \in App, NEW t \in Starter, NEW at, Goto(a, t, at)
    PROVE  /\ \A b \in App \ {a} : task'[b] = task[b]
           /\ task'[a].ready = IF t = "ready" THEN at ELSE task[a].ready
           /\ task'[a].restart = IF t = "restart" THEN at ELSE task[a].restart
           /\ task'[a].save = task[a].save /\ task'[a].saveSync = task[a].saveSync
<1>1. task \in [App -> Waits]
  BY DEF TypeOK
<1>2. CASE t = "ready"
  BY <1>1, <1>2 DEF Goto, Waits
<1>3. CASE t = "restart"
  BY <1>1, <1>3 DEF Goto, Waits
<1>4. QED
  BY <1>2, <1>3 DEF Starter

LEMMA StartCrash ==
    ASSUME TypeOK, CrashInv, NEW a \in App, NEW t \in Starter, StartStep(a, t)
    PROVE  CrashInv'
<1> USE DEF ReadConfig, AnswerPrompt, WritePrompted, ProbePort, Spawn, Poll, ReadSyncConfig,
            Configure, Load
<1>1. AsksAfterCrash(a) /\ t \in {"ready", "restart"}
  BY DEF CrashInv, Starter
<1>2. task[a][t] \in StartTask /\ UNCHANGED <<appRelaunching, restarted>>
  BY DEF StartStep, flags, StartTask
<1>3. CASE Fail(a, t) /\ t = "ready"
  <2>1. Goto(a, t, "done") /\ Quit(a, backendProcess[a], proc) /\ UNCHANGED backendCrashDialogOpen
    BY <1>3 DEF Fail
  <2>2. OthersCrashAlike(a)
    BY <1>2, <2>1, StarterGoto, QuitCloses DEF OthersCrashAlike
  <2>3. task'[a].restart = task[a].restart
    BY <1>3, <2>1, StarterGoto
  <2>4. AsksAfterCrash(a)'
    BY <1>1, <1>2, <2>1, <2>3, QuitCloses DEF AsksAfterCrash
  <2>5. QED
    BY <2>2, <2>4, CrashByInstance
<1>4. CASE t = "restart"
  <2>1. restarted'[a]
    BY <1>1, <1>2, <1>4 DEF AsksAfterCrash
  <2>2. backendCrashDialogOpen[a]
    BY <1>1, <1>2, <1>4 DEF AsksAfterCrash, StartTask
  <2>3. PICK at : Goto(a, t, at) /\ (at # "idle" => backendCrashDialogOpen'[a])
    BY <1>4, <2>2 DEF StartStep, Fail, flags, TypeOK
  <2>6. AsksAfterCrash(a)'
    BY <1>4, <2>1, <2>3, StarterGoto DEF AsksAfterCrash
  <2>4. \A b \in App \ {a} :
           /\ phase'[b] = phase[b] /\ backendProcess'[b] = backendProcess[b]
           /\ backendCrashDialogOpen'[b] = backendCrashDialogOpen[b]
    BY <1>4 DEF StartStep, Fail, closing, flags, TypeOK
  <2>5. QED
    BY <1>2, <2>3, <2>4, <2>6, StarterGoto, CrashByInstance DEF OthersCrashAlike
<1>5. CASE ~Fail(a, t) /\ t = "ready"
  <2>1. UNCHANGED <<phase, backendCrashDialogOpen>>
    BY <1>5 DEF StartStep, closing, flags, TypeOK
  <2>2. PICK at : /\ Goto(a, t, at)
                  /\ \/ UNCHANGED backendProcess
                        /\ (at \notin BeforeSpawn => task[a][t] \notin BeforeSpawn \cup {"idle"})
                     \/ Spawn(a, t)
    BY <1>5 DEF StartStep, closing, flags, BeforeSpawn
  <2>3. \A b \in App \ {a} : backendProcess'[b] = backendProcess[b]
    BY <2>2 DEF TypeOK
  <2>4. OthersCrashAlike(a)
    BY <1>2, <2>1, <2>2, <2>3, StarterGoto DEF OthersCrashAlike
  <2>5. task'[a].ready = at /\ task'[a].restart = task[a].restart
    BY <1>5, <2>2, StarterGoto
  <2>6. CASE Spawn(a, t)
    <3>1. backendProcess'[a] # None
      BY <2>6, LifecycleAssumption DEF TypeOK
    <3>2. QED
      BY <1>1, <1>2, <2>1, <2>4, <2>5, <3>1, CrashByInstance DEF AsksAfterCrash
  <2>7. CASE ~Spawn(a, t)
    <3>1. AsksAfterCrash(a)'
      BY <1>1, <1>2, <1>5, <2>1, <2>2, <2>5, <2>7 DEF AsksAfterCrash
    <3>2. QED
      BY <2>4, <3>1, CrashByInstance
  <2>8. QED
    BY <2>6, <2>7
<1>6. QED
  BY <1>1, <1>3, <1>4, <1>5

LEMMA ExitHandlerCrash ==
    ASSUME TypeOK, BackendInv, CrashInv, NEW a \in App, NEW p \in Pid, OnExit(a, p)
    PROVE  CrashInv'
<1>1. AsksAfterCrash(a) /\ PhasesAgree(a)
  BY DEF CrashInv, BackendInv, InstanceInv
<1>2. proc \in [Pid -> Process] /\ [proc EXCEPT ![p] = Free] \in [Pid -> Process]
  BY FreeType DEF TypeOK
<1>3. /\ \A b \in App \ {a} : task'[b] = task[b]
      /\ \/ task'[a].restart = task[a].restart
         \/ /\ task'[a].restart = "dialog"
            /\ ~appClosing[a] /\ ~appRelaunching[a] /\ ~backendCrashDialogOpen[a]
  <2>1. task \in [App -> Waits]
    BY DEF TypeOK
  <2>2. QED
    BY <2>1 DEF OnExit, Waits
<1>4. /\ UNCHANGED <<appRelaunching, restarted>>
      /\ \A b \in App \ {a} : backendCrashDialogOpen'[b] = backendCrashDialogOpen[b]
      /\ ~appClosing[a] /\ ~appRelaunching[a] => backendCrashDialogOpen'[a]
      /\ backendCrashDialogOpen[a] => backendCrashDialogOpen'[a]
  BY DEF OnExit, TypeOK
<1>5. /\ \A b \in App \ {a} : phase'[b] = phase[b] /\ backendProcess'[b] = backendProcess[b]
      /\ phase'[a] = "up" => phase[a] = "up"
  <2>1. CASE Quit(a, None, [proc EXCEPT ![p] = Free])
    BY <2>1, QuitCloses
  <2>2. CASE ~Quit(a, None, [proc EXCEPT ![p] = Free])
    BY <2>2 DEF OnExit, closing, TypeOK
  <2>3. QED
    BY <2>1, <2>2
<1>6. OthersCrashAlike(a)
  BY <1>3, <1>4, <1>5 DEF OthersCrashAlike
<1>7. AsksAfterCrash(a)'
  BY <1>1, <1>3, <1>4, <1>5 DEF AsksAfterCrash, PhasesAgree, StartTask
<1>8. QED
  BY <1>6, <1>7, CrashByInstance

LEMMA SideGoto ==
    ASSUME TypeOK, NEW a \in App, NEW t \in {"save", "saveSync"}, NEW at, Goto(a, t, at)
    PROVE  /\ \A b \in App \ {a} : task'[b] = task[b]
           /\ task'[a].ready = task[a].ready /\ task'[a].restart = task[a].restart
           /\ task'[a].saveSync = IF t = "saveSync" THEN at ELSE task[a].saveSync
<1>1. task \in [App -> Waits]
  BY DEF TypeOK
<1>2. QED
  BY <1>1 DEF Goto, Waits

LEMMA SideCrash ==
    ASSUME TypeOK, CrashInv, NEW a \in App,
           \/ SaveSettings(a) \/ SaveStep(a) \/ SyncConfigSaved(a)
           \/ \E setting \in {"on", "off"} : SaveSyncConfig(a, setting)
    PROVE  CrashInv'
<1>1. AsksAfterCrash(a)
  BY DEF CrashInv
<1>2. /\ \A b \in App \ {a} : task'[b] = task[b]
      /\ task'[a].ready = task[a].ready /\ task'[a].restart = task[a].restart
  BY SideGoto DEF SaveSettings, SaveStep, StopForRelaunch, StopTimeout, SyncConfigSaved,
                  SaveSyncConfig
<1>3. UNCHANGED <<backendCrashDialogOpen, restarted>>
  BY DEF SaveSettings, SaveStep, StopForRelaunch, StopTimeout, SyncConfigSaved, SaveSyncConfig,
         flags
<1>4. CASE StopForRelaunch(a)
  <2>1. /\ \A b \in App \ {a} : /\ phase'[b] = phase[b] /\ backendProcess'[b] = backendProcess[b]
                                /\ appRelaunching'[b] = appRelaunching[b]
        /\ appRelaunching'[a]
    BY <1>4, QuitCloses DEF StopForRelaunch, closing, TypeOK
  <2>2. OthersCrashAlike(a)
    BY <1>2, <1>3, <2>1 DEF OthersCrashAlike
  <2>3. AsksAfterCrash(a)'
    BY <1>1, <1>2, <1>3, <2>1 DEF AsksAfterCrash
  <2>4. QED
    BY <2>2, <2>3, CrashByInstance
<1>5. CASE ~StopForRelaunch(a)
  <2>1. UNCHANGED <<phase, backendProcess, appRelaunching>>
    BY <1>5 DEF SaveSettings, SaveStep, StopTimeout, SyncConfigSaved, SaveSyncConfig, flags
  <2>2. OthersCrashAlike(a) /\ AsksAfterCrash(a)'
    BY <1>1, <1>2, <1>3, <2>1 DEF OthersCrashAlike, AsksAfterCrash
  <2>3. QED
    BY <2>2, CrashByInstance
<1>6. QED
  BY <1>4, <1>5

LEMMA WindowCrash ==
    ASSUME TypeOK, CrashInv, NEW a \in App,
           \/ Activate(a) \/ UserQuit(a) \/ AppExit(a) \/ AppKilled(a)
           \/ Launch(a) \/ AnswerDialog(a)
           \/ \E w \in windows[a] : CloseWindow(a, w)
    PROVE  CrashInv'
<1>1. AsksAfterCrash(a)
  BY DEF CrashInv
<1>2. CASE AppExit(a) \/ AppKilled(a)
  <2>1. task'[a] = AtRest /\ phase'[a] = "off" /\ OthersCrashAlike(a)
    BY <1>2 DEF AppExit, AppKilled, Ended, OthersCrashAlike, TypeOK
  <2>2. AsksAfterCrash(a)'
    BY <2>1 DEF AsksAfterCrash, AtRest, StartTask
  <2>3. QED
    BY <2>1, <2>2, CrashByInstance
<1>3. CASE Launch(a)
  <2>1. /\ task'[a].ready = "config" /\ task'[a].restart = task[a].restart
        /\ \A b \in App \ {a} : task'[b] = task[b]
    BY <1>3, StarterGoto DEF Launch, Starter
  <2>2. OthersCrashAlike(a)
    BY <1>3, <2>1 DEF Launch, OthersCrashAlike, TypeOK, flags
  <2>3. AsksAfterCrash(a)'
    BY <1>1, <1>3, <2>1 DEF Launch, AsksAfterCrash, BeforeSpawn, flags
  <2>4. QED
    BY <2>2, <2>3, CrashByInstance
<1>4. CASE AnswerDialog(a)
  <2>1. PICK at \in {"config", "idle"} :
           /\ Goto(a, "restart", at)
           /\ \/ at = "config" /\ restarted' = [restarted EXCEPT ![a] = TRUE]
                 /\ UNCHANGED <<closing, backendCrashDialogOpen, backendProcess>>
              \/ at = "idle" /\ Quit(a, backendProcess[a], proc) /\ UNCHANGED restarted
                 /\ backendCrashDialogOpen' = [backendCrashDialogOpen EXCEPT ![a] = FALSE]
    BY <1>4 DEF AnswerDialog
  <2>2. /\ task'[a].ready = task[a].ready /\ task'[a].restart = at
        /\ \A b \in App \ {a} : task'[b] = task[b]
    BY <2>1, StarterGoto DEF Starter
  <2>3. /\ UNCHANGED appRelaunching
        /\ \A b \in App \ {a} :
              /\ phase'[b] = phase[b] /\ backendProcess'[b] = backendProcess[b]
              /\ backendCrashDialogOpen'[b] = backendCrashDialogOpen[b]
              /\ restarted'[b] = restarted[b]
    BY <1>4, <2>1, QuitCloses DEF AnswerDialog, closing, TypeOK
  <2>4. CASE at = "config"
    <3>1. restarted'[a] /\ backendCrashDialogOpen'[a]
      BY <1>1, <1>4, <2>1, <2>4 DEF AnswerDialog, AsksAfterCrash, TypeOK
    <3>2. QED
      BY <2>2, <2>3, <3>1, CrashByInstance DEF AsksAfterCrash, OthersCrashAlike
  <2>5. CASE at = "idle"
    <3>1. phase'[a] # "up"
      BY <2>1, <2>5, QuitCloses
    <3>2. QED
      BY <2>2, <2>3, <2>5, <3>1, CrashByInstance DEF AsksAfterCrash, OthersCrashAlike, StartTask
  <2>6. QED
    BY <2>4, <2>5
<1>5. CASE Activate(a) \/ UserQuit(a) \/ \E w \in windows[a] : CloseWindow(a, w)
  <2>1. UNCHANGED <<task, backendCrashDialogOpen, appRelaunching, restarted>>
    BY <1>5 DEF Activate, UserQuit, CloseWindow, flags
  <2>2. CASE Quit(a, backendProcess[a], proc)
    BY <1>1, <2>1, <2>2, QuitCloses, CrashByInstance DEF AsksAfterCrash, OthersCrashAlike
  <2>3. CASE ~Quit(a, backendProcess[a], proc)
    <3>1. UNCHANGED <<phase, backendProcess>>
      BY <1>5, <2>3 DEF Activate, UserQuit, CloseWindow, closing
    <3>2. QED
      BY <2>1, <3>1 DEF CrashInv, AsksAfterCrash
  <2>4. QED
    BY <2>2, <2>3
<1>6. QED
  BY <1>2, <1>3, <1>4, <1>5

LEMMA CrashPreserved == TypeOK /\ BackendInv /\ CrashInv /\ [Next]_vars => CrashInv'
<1> SUFFICES ASSUME TypeOK, BackendInv, CrashInv, [Next]_vars
             PROVE  CrashInv'
  OBVIOUS
<1>1. CASE UNCHANGED vars
  BY <1>1 DEF vars, flags, CrashInv, AsksAfterCrash
<1>2. ASSUME NEW p \in Pid, Listen(p) \/ Exit(p)
      PROVE  CrashInv'
  BY <1>2 DEF Listen, Exit, flags, CrashInv, AsksAfterCrash
<1>3. CASE Next
  BY <1>2, <1>3, StartCrash, ExitHandlerCrash, SideCrash, WindowCrash DEF Next
<1>4. QED
  BY <1>1, <1>3

\* CrashInv holds throughout.
LEMMA CrashSafety == Spec => []CrashInv
<1>1. Init => CrashInv
  BY DEF Init, CrashInv, AsksAfterCrash, AtRest, StartTask
<1>2. QED
  BY <1>1, TypeCorrect, BackendSafety, CrashPreserved, PTL DEF Spec

\* A started instance that is not closing and has lost its backend shows the crash
\* dialog, unless it has shown it before or its relaunch was given up.
THEOREM CrashesAreNoticed == Spec => []CrashNoticed
<1>1. CrashInv => CrashNoticed
  BY DEF CrashInv, AsksAfterCrash, CrashNoticed, BeforeSpawn
<1>2. QED
  BY <1>1, CrashSafety, PTL

----------------------------------------------------------------------------
(* The timer follows the settings.                                         *)

\* A start that is about to set the timer has read what the file holds now, unless
\* a save has overlapped with it.
CapturedIsCurrent ==
    \A a \in App, t \in Starter : task[a][t] = "configure" /\ ~overlapped[a] =>
        /\ captured[a][t] = SettingOf(syncConfig)
        /\ \A b \in App : task[b].saveSync = "idle"

\* A started instance has seen every save of another instance that is under way.
SavesOverlap ==
    \A a, b \in App :
        /\ phase[a] = "up" /\ task[a].ready \in {"load", "done"} /\ ~overlapped[a]
        /\ b # a
        => task[b].saveSync = "idle"

\* The inductive invariant about the timer.
TimerInv == CapturedIsCurrent /\ SavesOverlap /\ TimerFollowsConfig

\* Steps that neither read nor write the setting, and reach no new window.
LEMMA TimerUntouched ==
    ASSUME TimerInv, UNCHANGED syncVars,
           \A a \in App : /\ task'[a].saveSync = task[a].saveSync
                          /\ \A t \in Starter : task'[a][t] = "configure" <=> task[a][t] = "configure"
                          /\ phase'[a] = "up" /\ task'[a].ready \in {"load", "done"} =>
                                /\ phase[a] = "up" /\ task[a].ready \in {"load", "done"}
                                /\ autoSyncTimer'[a] = autoSyncTimer[a]
    PROVE  TimerInv'
<1>1. CapturedIsCurrent'
  BY DEF TimerInv, CapturedIsCurrent, syncVars
<1>2. SavesOverlap'
  BY DEF TimerInv, SavesOverlap, syncVars
<1>3. TimerFollowsConfig'
  <2>1. \A a \in App : task'[a].restart = "configure" <=> task[a].restart = "configure"
    BY DEF Starter
  <2>2. QED
    BY <2>1 DEF TimerInv, TimerFollowsConfig, syncVars
<1>4. QED
  BY <1>1, <1>2, <1>3 DEF TimerInv

LEMMA StartTimer ==
    ASSUME TypeOK, TimerInv, NEW a \in App, NEW t \in Starter, StartStep(a, t),
           ~ReadSyncConfig(a, t), ~Configure(a, t)
    PROVE  TimerInv'
<1> USE DEF ReadConfig, AnswerPrompt, WritePrompted, ProbePort, Spawn, Poll, Load
<1>1. UNCHANGED syncVars /\ task[a][t] \notin {"configure", "idle", "done"}
  BY DEF StartStep
<1>2. PICK at : /\ Goto(a, t, at) /\ at # "configure"
                /\ t = "ready" /\ at \in {"load", "done"} => task[a][t] = "load" \/ Fail(a, t)
  BY DEF StartStep, Fail
<1>3. /\ task'[a].saveSync = task[a].saveSync
      /\ task'[a].ready = IF t = "ready" THEN at ELSE task[a].ready
      /\ task'[a].restart = IF t = "restart" THEN at ELSE task[a].restart
      /\ \A b \in App \ {a} : task'[b] = task[b]
  BY <1>2, StarterGoto
<1>4. \A s \in Starter : task'[a][s] = "configure" <=> task[a][s] = "configure"
  BY <1>1, <1>2, <1>3 DEF Starter
<1>5. CASE Fail(a, t) /\ t = "ready"
  <2>1. Quit(a, backendProcess[a], proc)
    BY <1>5 DEF Fail
  <2>2. /\ phase'[a] # "up"
        /\ \A b \in App \ {a} : phase'[b] = phase[b] /\ autoSyncTimer'[b] = autoSyncTimer[b]
    BY <2>1 DEF Quit, closing, TypeOK
  <2>3. QED
    BY <1>1, <1>3, <1>4, <2>2, TimerUntouched
<1>6. CASE ~(Fail(a, t) /\ t = "ready")
  <2>1. UNCHANGED <<phase, autoSyncTimer>>
    BY <1>6 DEF StartStep, Fail, closing, flags
  <2>2. t = "ready" /\ at \in {"load", "done"} => task[a].ready \in {"load", "done"}
    BY <1>2, <1>6
  <2>3. QED
    BY <1>1, <1>3, <1>4, <2>1, <2>2, TimerUntouched DEF Starter
<1>7. QED
  BY <1>5, <1>6

LEMMA ReadSyncTimer ==
    ASSUME TypeOK, TimerInv, NEW a \in App, NEW t \in Starter, ReadSyncConfig(a, t)
    PROVE  TimerInv'
<1>1. /\ task'[a].saveSync = task[a].saveSync /\ task[a][t] = "syncConfig"
      /\ task'[a].ready = IF t = "ready" THEN "configure" ELSE task[a].ready
      /\ task'[a].restart = IF t = "restart" THEN "configure" ELSE task[a].restart
      /\ \A b \in App \ {a} : task'[b] = task[b]
  BY StarterGoto DEF ReadSyncConfig
<1>2. /\ UNCHANGED <<phase, autoSyncTimer, syncConfig>>
      /\ \A b \in App \ {a} : overlapped'[b] = overlapped[b] /\ captured'[b] = captured[b]
      /\ overlapped'[a] = (overlapped[a] \/ \E b \in App : task[b].saveSync # "idle")
      /\ captured'[a][t] = SettingOf(syncConfig)
      /\ \A s \in Starter \ {t} : captured'[a][s] = captured[a][s]
  BY DEF ReadSyncConfig, TypeOK
<1>3. CapturedIsCurrent'
  <2> SUFFICES ASSUME NEW b \in App, NEW s \in Starter, task'[b][s] = "configure", ~overlapped'[b]
               PROVE  /\ captured'[b][s] = SettingOf(syncConfig)
                      /\ \A c \in App : task'[c].saveSync = "idle"
    BY <1>2 DEF CapturedIsCurrent, SettingOf
  <2>1. CASE b = a /\ s = t
    BY <1>1, <1>2, <2>1
  <2>2. CASE b = a /\ s # t
    <3>1. task[a][s] = "configure"
      BY <1>1, <2>2 DEF Starter
    <3>2. captured'[a][s] = captured[a][s]
      BY <1>2, <2>2
    <3>3. QED
      BY <1>1, <1>2, <2>2, <3>1, <3>2 DEF TimerInv, CapturedIsCurrent
  <2>3. CASE b # a
    BY <1>1, <1>2, <2>3 DEF TimerInv, CapturedIsCurrent
  <2>4. QED
    BY <2>1, <2>2, <2>3
<1>4. SavesOverlap'
  BY <1>1, <1>2 DEF TimerInv, SavesOverlap
<1>5. TimerFollowsConfig'
  BY <1>1, <1>2 DEF TimerInv, TimerFollowsConfig, SettingOf
<1>6. QED
  BY <1>3, <1>4, <1>5 DEF TimerInv

LEMMA ConfigureTimer ==
    ASSUME TypeOK, TimerInv, NEW a \in App, NEW t \in Starter, Configure(a, t)
    PROVE  TimerInv'
<1>1. PICK at : Goto(a, t, at) /\ at # "configure"
  BY DEF Configure
<1>2. /\ task'[a].saveSync = task[a].saveSync /\ task[a][t] = "configure"
      /\ task'[a].ready = IF t = "ready" THEN at ELSE task[a].ready
      /\ task'[a].restart = IF t = "restart" THEN at ELSE task[a].restart
      /\ \A b \in App \ {a} : task'[b] = task[b]
  BY <1>1, StarterGoto DEF Configure
<1>3. /\ UNCHANGED <<phase, syncConfig, overlapped>>
      /\ \A b \in App \ {a} : /\ autoSyncTimer'[b] = autoSyncTimer[b]
                              /\ captured'[b] = captured[b]
      /\ autoSyncTimer'[a] = (captured[a][t] = "on")
      /\ \A s \in Starter \ {t} : captured'[a][s] = captured[a][s]
  BY DEF Configure, configureAutoSync, TypeOK
<1>4. ~overlapped[a] => /\ captured[a][t] = SettingOf(syncConfig)
                        /\ \A b \in App : task[b].saveSync = "idle"
  BY <1>2 DEF TimerInv, CapturedIsCurrent
<1>5. CapturedIsCurrent'
  <2> SUFFICES ASSUME NEW b \in App, NEW s \in Starter, task'[b][s] = "configure", ~overlapped'[b]
               PROVE  /\ captured'[b][s] = SettingOf(syncConfig)
                      /\ \A c \in App : task'[c].saveSync = "idle"
    BY <1>3 DEF CapturedIsCurrent, SettingOf
  <2>1. ~(b = a /\ s = t) /\ task[b][s] = "configure"
    BY <1>1, <1>2 DEF Starter
  <2>2. captured'[b][s] = captured[b][s]
    BY <1>3, <2>1
  <2>3. QED
    BY <1>2, <1>3, <2>1, <2>2 DEF TimerInv, CapturedIsCurrent
<1>6. SavesOverlap'
  BY <1>2, <1>3, <1>4 DEF TimerInv, SavesOverlap
<1>7. TimerFollowsConfig'
  <2> SUFFICES ASSUME NEW b \in App, phase'[b] = "up", task'[b].ready \in {"load", "done"},
                      task'[b].restart # "configure", task'[b].saveSync = "idle", ~overlapped'[b]
               PROVE  autoSyncTimer'[b] <=> SettingOf(syncConfig) = "on"
    BY <1>3 DEF TimerFollowsConfig, SettingOf
  <2>1. CASE b = a
    BY <1>3, <1>4, <2>1
  <2>2. CASE b # a
    BY <1>2, <1>3, <2>2 DEF TimerInv, TimerFollowsConfig
  <2>3. QED
    BY <2>1, <2>2
<1>8. QED
  BY <1>5, <1>6, <1>7 DEF TimerInv

LEMMA SaveSyncTimer ==
    ASSUME TypeOK, TimerInv, NEW a \in App, NEW setting \in {"on", "off"},
           SaveSyncConfig(a, setting)
    PROVE  TimerInv'
<1>1. /\ task'[a].ready = task[a].ready /\ task'[a].restart = task[a].restart
      /\ task'[a].saveSync = setting
      /\ \A b \in App \ {a} : task'[b] = task[b]
  BY SideGoto DEF SaveSyncConfig
<1>2. /\ UNCHANGED <<phase, autoSyncTimer>>
      /\ \A b \in App \ {a} : overlapped'[b]
      /\ (\E t \in Starter : task[a][t] = "configure") => overlapped'[a]
  BY DEF SaveSyncConfig
<1>3. CapturedIsCurrent'
  BY <1>1, <1>2 DEF CapturedIsCurrent, Starter
<1>4. SavesOverlap'
  <2> SUFFICES ASSUME NEW b \in App, phase'[a] = "up", task'[a].ready \in {"load", "done"},
                      ~overlapped'[a], b # a
               PROVE  task'[b].saveSync = "idle"
    BY <1>2 DEF SavesOverlap
  <2>1. ~overlapped[a]
    BY DEF SaveSyncConfig
  <2>2. QED
    BY <1>1, <1>2, <2>1 DEF TimerInv, SavesOverlap
<1>5. TimerFollowsConfig'
  BY <1>1, <1>2 DEF TimerFollowsConfig
<1>6. QED
  BY <1>3, <1>4, <1>5 DEF TimerInv

LEMMA SavedSyncTimer ==
    ASSUME TypeOK, TimerInv, NEW a \in App, SyncConfigSaved(a)
    PROVE  TimerInv'
<1>1. /\ task'[a].ready = task[a].ready /\ task'[a].restart = task[a].restart
      /\ task'[a].saveSync = "idle" /\ task[a].saveSync # "idle"
      /\ \A b \in App \ {a} : task'[b] = task[b]
  BY SideGoto DEF SyncConfigSaved
<1>2. /\ UNCHANGED <<phase, captured, overlapped>>
      /\ syncConfig' = task[a].saveSync /\ task[a].saveSync \in {"on", "off"}
      /\ autoSyncTimer'[a] = (task[a].saveSync = "on")
      /\ \A b \in App \ {a} : autoSyncTimer'[b] = autoSyncTimer[b]
  BY DEF SyncConfigSaved, configureAutoSync, TypeOK, Waits
<1>3. SettingOf(syncConfig') = task[a].saveSync
  BY <1>2 DEF SettingOf
<1>4. CapturedIsCurrent'
  BY <1>1, <1>2 DEF TimerInv, CapturedIsCurrent, Starter
<1>5. SavesOverlap'
  BY <1>1, <1>2 DEF TimerInv, SavesOverlap
<1>6. TimerFollowsConfig'
  BY <1>1, <1>2, <1>3 DEF TimerInv, TimerFollowsConfig, SavesOverlap
<1>7. QED
  BY <1>4, <1>5, <1>6 DEF TimerInv

LEMMA EndTimer ==
    ASSUME TypeOK, TimerInv, NEW a \in App, AppExit(a) \/ AppKilled(a)
    PROVE  TimerInv'
<1>1. /\ task'[a] = AtRest /\ phase'[a] = "off"
      /\ \A b \in App \ {a} : /\ task'[b] = task[b] /\ phase'[b] = phase[b]
                              /\ autoSyncTimer'[b] = autoSyncTimer[b]
                              /\ captured'[b] = captured[b] /\ overlapped'[b] = overlapped[b]
      /\ UNCHANGED syncConfig
  BY DEF AppExit, AppKilled, Ended, TypeOK
<1>2. /\ \A t \in Starter : task'[a][t] # "configure"
      /\ task'[a].saveSync = "idle"
  BY <1>1 DEF AtRest, Starter
<1>3. CapturedIsCurrent'
  BY <1>1, <1>2 DEF TimerInv, CapturedIsCurrent
<1>4. SavesOverlap'
  BY <1>1, <1>2 DEF TimerInv, SavesOverlap
<1>5. TimerFollowsConfig'
  BY <1>1 DEF TimerInv, TimerFollowsConfig, SettingOf
<1>6. QED
  BY <1>3, <1>4, <1>5 DEF TimerInv

LEMMA LaunchTimer ==
    ASSUME TypeOK, BackendInv, TimerInv, NEW a \in App, Launch(a)
    PROVE  TimerInv'
<1>1. task[a] = AtRest
  BY DEF Launch, BackendInv, InstanceInv, PhasesAgree
<1>2. /\ task'[a].ready = "config" /\ task'[a].restart = task[a].restart
      /\ task'[a].saveSync = task[a].saveSync /\ \A b \in App \ {a} : task'[b] = task[b]
  BY StarterGoto DEF Launch, Starter
<1>3. UNCHANGED syncVars /\ \A b \in App : autoSyncTimer'[b] = autoSyncTimer[b]
      /\ (b # a => phase'[b] = phase[b])
  BY DEF Launch, TypeOK
<1>4. QED
  BY <1>1, <1>2, <1>3, TimerUntouched DEF Starter, AtRest

LEMMA OtherTimer ==
    ASSUME TypeOK, CrashInv, TimerInv, NEW a \in App,
           \/ AnswerDialog(a) \/ SaveSettings(a) \/ SaveStep(a) \/ Activate(a) \/ UserQuit(a)
           \/ \E w \in windows[a] : CloseWindow(a, w)
           \/ \E p \in Pid : OnExit(a, p)
    PROVE  TimerInv'
<1>1. UNCHANGED syncVars
  BY DEF AnswerDialog, SaveSettings, SaveStep, StopForRelaunch, StopTimeout, Activate, UserQuit,
         CloseWindow, OnExit
<1>2. \A b \in App \ {a} : task'[b] = task[b]
  <2>1. task \in [App -> Waits]
    BY DEF TypeOK
  <2>2. QED
    BY <2>1 DEF AnswerDialog, SaveSettings, SaveStep, StopForRelaunch, StopTimeout, Activate,
                UserQuit, CloseWindow, OnExit, Goto
<1>3. /\ task'[a].saveSync = task[a].saveSync /\ task'[a].ready = task[a].ready
      /\ \/ task'[a].restart = task[a].restart
         \/ task[a].restart = "dialog" /\ task'[a].restart \in {"config", "idle"}
         \/ task'[a].restart = "dialog" /\ task[a].restart # "configure"
  <2>1. CASE AnswerDialog(a)
    <3>1. PICK at \in {"config", "idle"} : Goto(a, "restart", at) /\ task[a].restart = "dialog"
      BY <2>1 DEF AnswerDialog
    <3>2. QED
      BY <3>1, StarterGoto DEF Starter
  <2>2. CASE SaveSettings(a) \/ SaveStep(a)
    <3>1. \E at : Goto(a, "save", at)
      BY <2>2 DEF SaveSettings, SaveStep, StopForRelaunch, StopTimeout
    <3>2. QED
      BY <3>1, SideGoto
  <2>3. CASE Activate(a) \/ UserQuit(a) \/ \E w \in windows[a] : CloseWindow(a, w)
    <3>1. task' = task
      BY <2>3 DEF Activate, UserQuit, CloseWindow
    <3>2. QED
      BY <3>1
  <2>4. CASE \E p \in Pid : OnExit(a, p)
    <3>1. task \in [App -> Waits] /\ (task[a].restart # "idle" => backendCrashDialogOpen[a])
      BY DEF TypeOK, CrashInv, AsksAfterCrash
    <3>2. QED
      BY <2>4, <3>1 DEF OnExit, Waits
  <2>5. QED
    BY <2>1, <2>2, <2>3, <2>4
<1>4. \A b \in App : phase'[b] = "up" => phase[b] = "up" /\ autoSyncTimer'[b] = autoSyncTimer[b]
  <2>1. CASE \E backend, procs : Quit(a, backend, procs)
    BY <2>1 DEF Quit, closing, TypeOK
  <2>2. CASE UNCHANGED <<phase, autoSyncTimer>>
    BY <2>2
  <2>3. QED
    BY <2>1, <2>2 DEF AnswerDialog, SaveSettings, SaveStep, StopForRelaunch, StopTimeout,
       Activate, UserQuit, CloseWindow, OnExit, closing, flags
<1>5. QED
  BY <1>1, <1>2, <1>3, <1>4, TimerUntouched DEF Starter

LEMMA TimerPreserved == TypeOK /\ BackendInv /\ CrashInv /\ TimerInv /\ [Next]_vars => TimerInv'
<1> SUFFICES ASSUME TypeOK, BackendInv, CrashInv, TimerInv, [Next]_vars
             PROVE  TimerInv'
  OBVIOUS
<1>1. CASE UNCHANGED vars
  BY <1>1, TimerUntouched DEF vars
<1>2. ASSUME NEW p \in Pid, Listen(p) \/ Exit(p)
      PROVE  TimerInv'
  BY <1>2, TimerUntouched DEF Listen, Exit
<1>3. CASE Next
  BY <1>2, <1>3, StartTimer, ReadSyncTimer, ConfigureTimer, SaveSyncTimer, SavedSyncTimer,
     EndTimer, LaunchTimer, OtherTimer
  DEF Next
<1>4. QED
  BY <1>1, <1>3

\* The timer of a started instance is armed when the file enables it and only then,
\* outside of a save, of a restart, and of the overlap of the two.  The run checks
\* one instance; this is for several, which share the file.
THEOREM TimerIsConfigured == Spec => []TimerFollowsConfig
<1>1. Init => TimerInv
  BY DEF Init, TimerInv, CapturedIsCurrent, SavesOverlap, TimerFollowsConfig, AtRest, Starter
<1>2. TimerInv => TimerFollowsConfig
  BY DEF TimerInv
<1>3. QED
  BY <1>1, <1>2, TypeCorrect, BackendSafety, CrashSafety, TimerPreserved, PTL DEF Spec
=============================================================================
