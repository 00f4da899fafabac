-------------------------- MODULE DesktopLifecycle --------------------------
(***************************************************************************)
(* The life of the desktop application (desktop/src/index.ts): start of    *)
(* the embedded backend, the dialog after a crash, saving of the settings  *)
(* with a relaunch, windows, and quitting.                                 *)
(*                                                                         *)
(* Several instances of the application may run: nothing in the code       *)
(* prevents it, and they share the port and the runtime configuration.     *)
(* Within an instance, code between two awaits is one action; dialogs,     *)
(* timers and process events come in any order.  Where the code does not   *)
(* determine it, Electron and Node.js are taken to do this: app.quit()     *)
(* emits before-quit once and the application ends some time later;        *)
(* kill() sends a signal that a process may take long to obey; a backend   *)
(* outlives the application; a rejection that nobody handles is ignored.   *)
(*                                                                         *)
(* What the timer armed by configureAutoSync starts is the subject of      *)
(* Sync; here it is armed and cleared.                                     *)
(***************************************************************************)
EXTENDS Naturals, FiniteSets

CONSTANTS
    App,           \* instances of the application
    Pid,           \* backend processes, used again once they are gone
    None,          \* no process, no instance
    Environments,  \* the pairs of a platform and of the artifacts installed there
    FirstSettings, \* the contents of sync.config.json at the beginning
    MaxLaunches,   \* bound: launches of all instances, and saves of the
                   \* synchronization settings, together
    MaxKills,      \* bound: instances killed by the system
    MaxSyncSaves   \* bound: saves of the synchronization settings

ASSUME LifecycleAssumption ==
    /\ None \notin App \cup Pid
    /\ Environments \subseteq STRING \X SUBSET {"backend", "frontend", "icon"}
    /\ FirstSettings \subseteq {"on", "off"}
    /\ MaxLaunches \in Nat /\ MaxKills \in Nat /\ MaxSyncSaves \in Nat

VARIABLES
    platform,         \* process.platform
    installed,        \* the artifacts that are there
    phase,            \* phase[a]: "off", "up", or "quitting" after app.quit()
    appClosing, appRelaunching, backendCrashDialogOpen, backendProcess,
    windows,          \* windows[a]: the open windows
    mainWindow,       \* mainWindow[a]: the one in the variable mainWindow
    task,             \* task[a][t]: what handler t of a waits for
    relaunch,         \* relaunch[a]: app.relaunch() has been called
    proc,             \* proc[p]: process p
    runtimeConfig,    \* the file runtime.config.json of the user
    syncConfig,       \* the file sync.config.json: "on" and "off" are autoSyncEnabled
    autoSyncTimer,    \* autoSyncTimer[a]: the timer is armed
    captured,         \* captured[a][t]: the syncConfig that t has read, to be armed with
    launches, kills, syncSaves,   \* so far, for the bounds
    restarted,        \* history: restarted[a]: a has been told to restart its backend
    overlapped        \* history: overlapped[a]: a start of a has read sync.config.json
                      \* while it was being saved, or it was saved before the start used it

environment == <<platform, installed>>
flags == <<appClosing, appRelaunching, backendCrashDialogOpen>>
closing == <<phase, appClosing, autoSyncTimer>>
syncVars == <<syncConfig, captured, overlapped>>
counters == <<launches, kills, syncSaves>>
vars == <<environment, phase, flags, autoSyncTimer, backendProcess, windows, mainWindow, task, relaunch, proc,
          runtimeConfig, syncVars, counters, restarted>>

----------------------------------------------------------------------------
\* The handler of ready, the crash dialog, and the handlers of
\* settings:save-runtime-config and of sync:save-config, whose task is the setting
\* it writes.
Task == {"ready", "restart", "save", "saveSync"}

\* The two that run startOrCrash.
Starter == {"ready", "restart"}

\* What resolveRuntimeArtifacts and resolveRuntimeWindowIconPath point to.
Artifact == {"backend", "frontend", "icon"}

ensureRuntimeArtifactsPresent ==
    Artifact \ (IF platform = "darwin" THEN {"icon"} ELSE {}) \subseteq installed

\* What startOrCrash and its callers wait for.
StartTask == {"config", "prompt", "write", "port", "spawn", "poll",
              "syncConfig", "configure", "load"}

\* The setting that readSyncConfig makes of the file.
SettingOf(file) == IF file = "on" THEN "on" ELSE "off"

\* What the handlers of an instance may wait for.
Waits == [ready : StartTask \cup {"idle", "done"},
          restart : StartTask \cup {"idle", "dialog"},
          save : {"idle", "write", "stop"},
          saveSync : {"idle", "on", "off"}]

AtRest == [ready |-> "idle", restart |-> "idle", save |-> "idle", saveSync |-> "idle"]

\* A backend, and the instance that will hear of its exit.  note is a history:
\* the process was spawned after before-quit ("late"), was sent its signal by
\* before-quit ("quit"), did not stop in time for a relaunch ("refused"), or its
\* application was killed ("abandoned").
Process == [state : {"free", "booting", "listening", "exited"},
            killed : BOOLEAN, owner : App \cup {None},
            note : {"none", "late", "quit", "refused", "abandoned"}]

Free == [state |-> "free", killed |-> FALSE, owner |-> None, note |-> "none"]

Alive(p) == proc[p].state \in {"booting", "listening"}

\* Whether some process serves the port.
Serving == \E p \in Pid : proc[p].state = "listening"

\* The port is refused to a, also by the probe of another instance.
PortTaken(a) == Serving \/ \E b \in App \ {a}, t \in Starter : task[b][t] = "port"

TypeOK ==
    /\ <<platform, installed>> \in Environments
    /\ phase \in [App -> {"off", "up", "quitting"}]
    /\ appClosing \in [App -> BOOLEAN]
    /\ appRelaunching \in [App -> BOOLEAN]
    /\ backendCrashDialogOpen \in [App -> BOOLEAN]
    /\ backendProcess \in [App -> Pid \cup {None}]
    /\ windows \in [App -> SUBSET {"first", "reopened"}]
    /\ mainWindow \in [App -> {"first", "reopened", "none"}]
    /\ task \in [App -> Waits]
    /\ relaunch \in [App -> BOOLEAN]
    /\ proc \in [Pid -> Process]
    /\ runtimeConfig \in {"missing", "truncated", "whole"}
    /\ syncConfig \in {"truncated", "on", "off"}
    /\ autoSyncTimer \in [App -> BOOLEAN]
    /\ captured \in [App -> [Starter -> {"on", "off"}]]
    /\ launches \in 0 .. MaxLaunches /\ kills \in 0 .. MaxKills
    /\ syncSaves \in 0 .. MaxSyncSaves
    /\ restarted \in [App -> BOOLEAN] /\ overlapped \in [App -> BOOLEAN]

Init ==
    /\ \E e \in Environments : platform = e[1] /\ installed = e[2]
    /\ phase = [a \in App |-> "off"]
    /\ appClosing = [a \in App |-> FALSE]
    /\ appRelaunching = [a \in App |-> FALSE]
    /\ backendCrashDialogOpen = [a \in App |-> FALSE]
    /\ backendProcess = [a \in App |-> None]
    /\ windows = [a \in App |-> {}]
    /\ mainWindow = [a \in App |-> "none"]
    /\ task = [a \in App |-> AtRest]
    /\ relaunch = [a \in App |-> FALSE]
    /\ proc = [p \in Pid |-> Free]
    /\ runtimeConfig \in {"missing", "whole"}
    /\ syncConfig \in FirstSettings
    /\ autoSyncTimer = [a \in App |-> FALSE]
    /\ captured = [a \in App |-> [t \in Starter |-> "off"]]
    /\ launches = 0 /\ kills = 0 /\ syncSaves = 0
    /\ restarted = [a \in App |-> FALSE] /\ overlapped = [a \in App |-> FALSE]

----------------------------------------------------------------------------
(* Helpers shared by the handlers.                                         *)

Goto(a, t, at) == task' = [task EXCEPT ![a][t] = at]

\* stopBackendProcess: the backend gets a signal, unless it got one before.
Signalled(procs, backend) ==
    [p \in Pid |-> IF p = backend /\ ~procs[p].killed
                   THEN [procs[p] EXCEPT !.killed = TRUE, !.note = "quit"]
                   ELSE procs[p]]

\* A faulty stopBackendProcess, which clears the variable without a signal.
QuitForgets(a, backend, procs) ==
    IF phase[a] = "up"
    THEN /\ phase' = [phase EXCEPT ![a] = "quitting"]
         /\ appClosing' = [appClosing EXCEPT ![a] = TRUE]
         /\ autoSyncTimer' = [autoSyncTimer EXCEPT ![a] = FALSE]
         /\ proc' = procs
         /\ backendProcess' = [backendProcess EXCEPT ![a] = None]
    ELSE /\ proc' = procs
         /\ backendProcess' = [backendProcess EXCEPT ![a] = backend]
         /\ UNCHANGED closing

\* app.quit() and the handler of before-quit: from now on the application
\* closes, the timer is cleared, and the backend it knows is stopped.  procs are the processes as the caller leaves them; backend is the one in
\* backendProcess.
Quit(a, backend, procs) ==
    IF phase[a] = "up"
    THEN /\ phase' = [phase EXCEPT ![a] = "quitting"]
         /\ appClosing' = [appClosing EXCEPT ![a] = TRUE]
         /\ autoSyncTimer' = [autoSyncTimer EXCEPT ![a] = FALSE]
         /\ proc' = Signalled(procs, backend)
         /\ backendProcess' = [backendProcess EXCEPT ![a] = None]
    ELSE /\ proc' = procs
         /\ backendProcess' = [backendProcess EXCEPT ![a] = backend]
         /\ UNCHANGED closing

\* A faulty crash dialog, which lowers its flag outside a finally.
FailKeepsFlag(a, t) ==
    \/ /\ t = "ready"
       /\ Goto(a, t, "done")
       /\ Quit(a, backendProcess[a], proc)
       /\ UNCHANGED backendCrashDialogOpen
    \/ /\ t = "restart"
       /\ Goto(a, t, "idle")
       /\ UNCHANGED <<backendCrashDialogOpen, closing, proc, backendProcess>>

\* startOrCrash, or what follows it, throws: the handler of ready shows the
\* error and quits; the crash dialog lowers its flag.
Fail(a, t) ==
    \/ /\ t = "ready"
       /\ Goto(a, t, "done")
       /\ Quit(a, backendProcess[a], proc)
       /\ UNCHANGED backendCrashDialogOpen
    \/ /\ t = "restart"
       /\ Goto(a, t, "idle")
       /\ backendCrashDialogOpen' = [backendCrashDialogOpen EXCEPT ![a] = FALSE]
       /\ UNCHANGED <<closing, proc, backendProcess>>

\* The processes once instance a has ended: nobody hears of them any more.
Orphaned(a, note) ==
    [p \in Pid |->
        IF proc[p].owner # a THEN proc[p]
        ELSE IF ~Alive(p) THEN Free
        ELSE [proc[p] EXCEPT !.owner = None,
                             !.note = IF note = "none" THEN @ ELSE note]]

\* The variables of instance a once it has ended.
Ended(a) ==
    /\ phase' = [phase EXCEPT ![a] = "off"]
    /\ appClosing' = [appClosing EXCEPT ![a] = FALSE]
    /\ appRelaunching' = [appRelaunching EXCEPT ![a] = FALSE]
    /\ backendCrashDialogOpen' = [backendCrashDialogOpen EXCEPT ![a] = FALSE]
    /\ backendProcess' = [backendProcess EXCEPT ![a] = None]
    /\ windows' = [windows EXCEPT ![a] = {}]
    /\ mainWindow' = [mainWindow EXCEPT ![a] = "none"]
    /\ task' = [task EXCEPT ![a] = AtRest]
    /\ autoSyncTimer' = [autoSyncTimer EXCEPT ![a] = FALSE]
    /\ captured' = [captured EXCEPT ![a] = [t \in Starter |-> "off"]]
    /\ restarted' = [restarted EXCEPT ![a] = FALSE]
    /\ overlapped' = [overlapped EXCEPT ![a] = FALSE]

----------------------------------------------------------------------------
(* Launch and startOrCrash.                                                *)

\* The user, or the relaunch that an ended instance has asked for.
Launch(a) ==
    /\ phase[a] = "off"
    /\ launches + syncSaves < MaxLaunches
    /\ launches' = launches + 1
    /\ phase' = [phase EXCEPT ![a] = "up"]
    /\ relaunch' = [relaunch EXCEPT ![a] = FALSE]
    /\ Goto(a, "ready", "config")
    /\ UNCHANGED <<environment, flags, backendProcess, windows, mainWindow, proc, runtimeConfig,
                   autoSyncTimer, kills, syncSaves, restarted, syncVars>>

\* A file that cannot be parsed, or is parsed and incomplete, is an error.
readRuntimeConfig ==
    CASE runtimeConfig = "missing" -> "null"
      [] runtimeConfig = "truncated" -> "error"
      [] runtimeConfig = "whole" -> "config"

\* ensureRuntimeConfigOrPrompt: a configuration whose directory is writable is
\* used, a missing one or one whose directory is not writable prompts, one that
\* cannot be parsed fails.
ReadConfig(a, t) ==
    /\ task[a][t] = "config"
    /\ \/ /\ readRuntimeConfig = "config"
          /\ Goto(a, t, "port")
          /\ UNCHANGED <<closing, backendCrashDialogOpen, backendProcess, proc>>
       \/ /\ readRuntimeConfig # "error"
          /\ Goto(a, t, "prompt")
          /\ UNCHANGED <<closing, backendCrashDialogOpen, backendProcess, proc>>
       \/ /\ readRuntimeConfig = "error"
          /\ Fail(a, t)
    /\ UNCHANGED <<environment, appRelaunching, windows, mainWindow, relaunch, runtimeConfig, counters, restarted, syncVars>>

\* promptForDatasetsPathOrExit: the dialogs are repeated until the user selects
\* a writable directory or exits.
AnswerPrompt(a, t) ==
    /\ task[a][t] = "prompt"
    /\ \/ /\ runtimeConfig' = "truncated"
          /\ Goto(a, t, "write")
          /\ UNCHANGED <<closing, backendCrashDialogOpen, backendProcess, proc>>
       \/ /\ Fail(a, t)
          /\ UNCHANGED runtimeConfig
    /\ UNCHANGED <<environment, appRelaunching, windows, mainWindow, relaunch, counters, restarted, syncVars>>

\* writeFile, opened with truncation, has written the configuration.
WritePrompted(a, t) ==
    /\ task[a][t] = "write"
    /\ runtimeConfig' = "whole"
    /\ Goto(a, t, "port")
    /\ UNCHANGED <<environment, phase, flags, autoSyncTimer, backendProcess, windows, mainWindow, relaunch, proc, counters, restarted, syncVars>>

\* ensureRuntimeArtifactsPresent, which looks at what never changes, and
\* checkPortAvailability: its probe listens, and fails when the port is taken.
ProbePort(a, t) ==
    /\ task[a][t] = "port"
    /\ \/ /\ ensureRuntimeArtifactsPresent /\ ~Serving
          /\ Goto(a, t, "spawn")
          /\ UNCHANGED <<closing, backendCrashDialogOpen, backendProcess, proc>>
       \/ /\ ~ensureRuntimeArtifactsPresent \/ PortTaken(a)
          /\ Fail(a, t)
    /\ UNCHANGED <<environment, appRelaunching, windows, mainWindow, relaunch, runtimeConfig, counters, restarted, syncVars>>

\* The rest of startBackendProcess up to the first poll, whatever has happened
\* since the port was probed.  Any free identifier will do.
Spawn(a, t) ==
    LET free == {p \in Pid : proc[p].state = "free"}
        new == CHOOSE p \in free : TRUE
    IN  /\ task[a][t] = "spawn"
        /\ free # {}
        /\ proc' = [proc EXCEPT ![new] =
                        [state |-> "booting", killed |-> FALSE, owner |-> a,
                         note |-> IF appClosing[a] THEN "late" ELSE "none"]]
        /\ backendProcess' = [backendProcess EXCEPT ![a] = new]
        /\ Goto(a, t, "poll")
        /\ UNCHANGED <<environment, phase, flags, autoSyncTimer, windows, mainWindow, relaunch, runtimeConfig, counters, restarted, syncVars>>

\* waitForBackendReady, which any process that answers on the port satisfies.
Poll(a, t) ==
    /\ task[a][t] = "poll"
    /\ \/ /\ Serving
          /\ Goto(a, t, "syncConfig")
          /\ UNCHANGED <<closing, backendCrashDialogOpen, backendProcess, proc>>
       \/ /\ ~Serving
          /\ Fail(a, t)
    /\ UNCHANGED <<environment, appRelaunching, windows, mainWindow, relaunch, runtimeConfig, counters, restarted, syncVars>>

\* readSyncConfig, which never fails, has read the file.
ReadSyncConfig(a, t) ==
    /\ task[a][t] = "syncConfig"
    /\ captured' = [captured EXCEPT ![a][t] = SettingOf(syncConfig)]
    /\ overlapped' = [overlapped EXCEPT ![a] = @ \/ \E b \in App : task[b].saveSync # "idle"]
    /\ Goto(a, t, "configure")
    /\ UNCHANGED <<environment, phase, flags, autoSyncTimer, backendProcess, windows, mainWindow, relaunch,
                   proc, runtimeConfig, syncConfig, counters, restarted>>

\* A faulty configureAutoSync, which returns before it clears the timer.
configureAutoSyncLate(a, setting) ==
    autoSyncTimer' = [autoSyncTimer EXCEPT ![a] = @ \/ setting = "on"]

\* The old timer is cleared; the new one is armed if it is enabled.
configureAutoSync(a, setting) ==
    autoSyncTimer' = [autoSyncTimer EXCEPT ![a] = setting = "on"]

\* startOrCrash ends: bootstrap creates the main window, the crash dialog reloads
\* the one there is.
Configure(a, t) ==
    /\ task[a][t] = "configure"
    /\ configureAutoSync(a, captured[a][t])
    /\ captured' = [captured EXCEPT ![a][t] = "off"]
    /\ \/ /\ t = "ready"
          /\ windows' = [windows EXCEPT ![a] = @ \cup {"first"}]
          /\ mainWindow' = [mainWindow EXCEPT ![a] = "first"]
          /\ Goto(a, t, "load")
          /\ UNCHANGED backendCrashDialogOpen
       \/ /\ t = "restart"
          /\ Goto(a, t, IF mainWindow[a] = "none" THEN "idle" ELSE "load")
          /\ backendCrashDialogOpen' =
                [backendCrashDialogOpen EXCEPT ![a] = @ /\ mainWindow[a] # "none"]
          /\ UNCHANGED <<windows, mainWindow>>
    /\ UNCHANGED <<environment, phase, appClosing, appRelaunching, backendProcess, relaunch, proc,
                   runtimeConfig, syncConfig, counters, restarted, overlapped>>

\* A faulty crash dialog, which cannot be shown twice.
LoadAlike(a, t) ==
    /\ task[a][t] = "load"
    /\ \/ /\ Serving
          /\ Goto(a, t, "done")
          /\ backendCrashDialogOpen' =
                [backendCrashDialogOpen EXCEPT ![a] = @ /\ t # "restart"]
          /\ UNCHANGED <<closing, backendProcess, proc>>
       \/ /\ ~Serving \/ mainWindow[a] = "none"
          /\ Fail(a, t)
    /\ UNCHANGED <<environment, appRelaunching, windows, mainWindow, relaunch, runtimeConfig, counters, restarted, syncVars>>

\* loadURL ends; it rejects when nothing serves the port or the window is closed.
Load(a, t) ==
    /\ task[a][t] = "load"
    /\ \/ /\ Serving
          /\ Goto(a, t, IF t = "ready" THEN "done" ELSE "idle")
          /\ backendCrashDialogOpen' =
                [backendCrashDialogOpen EXCEPT ![a] = @ /\ t # "restart"]
          /\ UNCHANGED <<closing, backendProcess, proc>>
       \/ /\ ~Serving \/ mainWindow[a] = "none"
          /\ Fail(a, t)
    /\ UNCHANGED <<environment, appRelaunching, windows, mainWindow, relaunch, runtimeConfig, counters, restarted, syncVars>>

----------------------------------------------------------------------------
(* Backend processes.                                                      *)

\* A process takes the port when nobody has it.
Listen(p) ==
    /\ proc[p].state = "booting" /\ ~Serving
    /\ proc' = [proc EXCEPT ![p].state = "listening"]
    /\ UNCHANGED <<environment, phase, flags, autoSyncTimer, backendProcess, windows, mainWindow, task, relaunch, runtimeConfig,
                   counters, restarted, syncVars>>

\* A process ends, of itself or by a signal; the process of an instance that has
\* ended is simply gone.
Exit(p) ==
    /\ Alive(p)
    /\ proc' = [proc EXCEPT ![p] = IF @.owner = None THEN Free ELSE [@ EXCEPT !.state = "exited"]]
    /\ UNCHANGED <<environment, phase, flags, autoSyncTimer, backendProcess, windows, mainWindow, task, relaunch, runtimeConfig,
                   counters, restarted, syncVars>>

\* A faulty exit handler, silent while there is no window.
OnExitWithWindow(a, p) ==
    LET crashed == ~appClosing[a] /\ ~appRelaunching[a]
        asks == crashed /\ mainWindow[a] # "none" /\ ~backendCrashDialogOpen[a]
        stopped == task[a].save = "stop"
        procs == [proc EXCEPT ![p] = Free]
    IN  /\ proc[p].owner = a /\ proc[p].state = "exited"
        /\ task' = [task EXCEPT ![a].restart = IF asks THEN "dialog" ELSE @,
                                ![a].save = IF stopped THEN "idle" ELSE @]
        /\ backendCrashDialogOpen' = [backendCrashDialogOpen EXCEPT ![a] = @ \/ asks]
        /\ relaunch' = [relaunch EXCEPT ![a] = @ \/ stopped]
        /\ \/ /\ stopped /\ Quit(a, None, procs)
           \/ /\ ~stopped
              /\ proc' = procs
              /\ backendProcess' = [backendProcess EXCEPT ![a] = None]
              /\ UNCHANGED closing
        /\ UNCHANGED <<environment, appRelaunching, windows, mainWindow, runtimeConfig, counters, restarted, syncVars>>

\* The exit handler of startBackendProcess followed, when save-runtime-config
\* waits for this exit, by onExit of stopBackendProcessForRelaunch and the rest of
\* that handler.  backendProcess is cleared whatever process it holds.
OnExit(a, p) ==
    LET crashed == ~appClosing[a] /\ ~appRelaunching[a]
        asks == crashed /\ ~backendCrashDialogOpen[a]
        stopped == task[a].save = "stop"
        procs == [proc EXCEPT ![p] = Free]
    IN  /\ proc[p].owner = a /\ proc[p].state = "exited"
        /\ task' = [task EXCEPT ![a].restart = IF asks THEN "dialog" ELSE @,
                                ![a].save = IF stopped THEN "idle" ELSE @]
        /\ backendCrashDialogOpen' = [backendCrashDialogOpen EXCEPT ![a] = @ \/ asks]
        /\ relaunch' = [relaunch EXCEPT ![a] = @ \/ stopped]
        /\ \/ /\ stopped /\ Quit(a, None, procs)
           \/ /\ ~stopped
              /\ proc' = procs
              /\ backendProcess' = [backendProcess EXCEPT ![a] = None]
              /\ UNCHANGED closing
        /\ UNCHANGED <<environment, appRelaunching, windows, mainWindow, runtimeConfig, counters, restarted, syncVars>>

\* The answer to the crash dialog.
AnswerDialog(a) ==
    /\ task[a].restart = "dialog"
    /\ \/ /\ Goto(a, "restart", "config")
          /\ restarted' = [restarted EXCEPT ![a] = TRUE]
          /\ UNCHANGED <<closing, backendCrashDialogOpen, backendProcess, proc>>
       \/ /\ Goto(a, "restart", "idle")
          /\ backendCrashDialogOpen' = [backendCrashDialogOpen EXCEPT ![a] = FALSE]
          /\ Quit(a, backendProcess[a], proc)
          /\ UNCHANGED restarted
    /\ UNCHANGED <<environment, appRelaunching, windows, mainWindow, relaunch, runtimeConfig, counters, syncVars>>

----------------------------------------------------------------------------
(* save-runtime-config.                                                    *)

\* The payload is valid and the user, asked, has confirmed; a refusal changes
\* nothing.  The button of the settings window allows one call at a time.
SaveSettings(a) ==
    /\ phase[a] = "up" /\ task[a].save = "idle"
    /\ Goto(a, "save", "write")
    /\ runtimeConfig' = "truncated"
    /\ UNCHANGED <<environment, phase, flags, autoSyncTimer, backendProcess, windows, mainWindow, relaunch, proc, counters, restarted, syncVars>>

\* A faulty handler, which does not wait for the exit.
StopForRelaunchAtOnce(a) ==
    LET p == backendProcess[a]
    IN  /\ task[a].save = "write"
        /\ runtimeConfig' = "whole"
        /\ appRelaunching' = [appRelaunching EXCEPT ![a] = TRUE]
        /\ \/ /\ IF p = None THEN TRUE ELSE proc[p].killed
              /\ Goto(a, "save", "idle")
              /\ relaunch' = [relaunch EXCEPT ![a] = TRUE]
              /\ Quit(a, None, proc)
           \/ /\ p # None /\ ~proc[p].killed
              /\ Goto(a, "save", "idle")
              /\ relaunch' = [relaunch EXCEPT ![a] = TRUE]
              /\ Quit(a, None, [proc EXCEPT ![p].killed = TRUE])
           \/ /\ p # None /\ proc[p].state = "exited" /\ ~proc[p].killed
              /\ Goto(a, "save", "idle")
              /\ UNCHANGED <<closing, proc, backendProcess, relaunch>>
        /\ UNCHANGED <<environment, backendCrashDialogOpen, windows, mainWindow, counters, restarted, syncVars>>

\* The configuration is written and stopBackendProcessForRelaunch begins.  Without
\* a process, or with one that has been sent a signal before, it has nothing to
\* wait for; a signal that cannot be sent, as to a process that has exited, fails.
StopForRelaunch(a) ==
    LET p == backendProcess[a]
    IN  /\ task[a].save = "write"
        /\ runtimeConfig' = "whole"
        /\ appRelaunching' = [appRelaunching EXCEPT ![a] = TRUE]
        /\ \/ /\ IF p = None THEN TRUE ELSE proc[p].killed
              /\ Goto(a, "save", "idle")
              /\ relaunch' = [relaunch EXCEPT ![a] = TRUE]
              /\ Quit(a, None, proc)
           \/ /\ p # None /\ ~proc[p].killed
              /\ Goto(a, "save", "stop")
              /\ proc' = [proc EXCEPT ![p].killed = TRUE]
              /\ UNCHANGED <<closing, backendProcess, relaunch>>
           \/ /\ p # None /\ proc[p].state = "exited" /\ ~proc[p].killed
              /\ Goto(a, "save", "idle")
              /\ UNCHANGED <<closing, proc, backendProcess, relaunch>>
        /\ UNCHANGED <<environment, backendCrashDialogOpen, windows, mainWindow, counters, restarted, syncVars>>

\* The process has not stopped in five seconds: the handler rejects, and
\* appRelaunching stays.
StopTimeout(a) ==
    /\ task[a].save = "stop"
    /\ Goto(a, "save", "idle")
    /\ proc' = [p \in Pid |-> IF proc[p].owner = a /\ proc[p].killed
                              THEN [proc[p] EXCEPT !.note = "refused"] ELSE proc[p]]
    /\ UNCHANGED <<environment, phase, flags, autoSyncTimer, backendProcess, windows, mainWindow, relaunch, runtimeConfig,
                   counters, restarted, syncVars>>

----------------------------------------------------------------------------
(* sync:save-config.                                                       *)

\* writeSyncConfig opens the file with truncation.  The user changes the setting;
\* saving it as it is leaves no trace.
SaveSyncConfig(a, setting) ==
    /\ phase[a] = "up" /\ task[a].saveSync = "idle" /\ syncSaves < MaxSyncSaves
    /\ launches + syncSaves < MaxLaunches
    /\ setting # SettingOf(syncConfig)
    /\ syncSaves' = syncSaves + 1
    /\ syncConfig' = "truncated"
    /\ overlapped' = [b \in App |-> overlapped[b] \/ b # a
                                     \/ \E t \in Starter : task[b][t] = "configure"]
    /\ Goto(a, "saveSync", setting)
    /\ UNCHANGED <<environment, phase, flags, autoSyncTimer, backendProcess, windows, mainWindow, relaunch,
                   proc, runtimeConfig, captured, launches, kills, restarted>>

\* The file is written, and the timer configured with what was sent.
SyncConfigSaved(a) ==
    /\ task[a].saveSync # "idle"
    /\ syncConfig' = task[a].saveSync
    /\ configureAutoSync(a, task[a].saveSync)
    /\ Goto(a, "saveSync", "idle")
    /\ UNCHANGED <<environment, phase, flags, backendProcess, windows, mainWindow, relaunch,
                   proc, runtimeConfig, captured, overlapped, counters, restarted>>

----------------------------------------------------------------------------
(* Windows and the end of an instance.                                     *)

\* The user closes a window; outside macOS the last one quits.
CloseWindow(a, w) ==
    /\ phase[a] = "up" /\ w \in windows[a]
    /\ windows' = [windows EXCEPT ![a] = @ \ {w}]
    /\ mainWindow' = [mainWindow EXCEPT ![a] = IF @ = w THEN "none" ELSE @]
    /\ \/ /\ windows[a] = {w} /\ platform # "darwin"
          /\ Quit(a, backendProcess[a], proc)
       \/ /\ windows[a] # {w} \/ platform = "darwin"
          /\ UNCHANGED <<closing, backendProcess, proc>>
    /\ UNCHANGED <<environment, appRelaunching, backendCrashDialogOpen, task, relaunch, runtimeConfig, counters, restarted, syncVars>>

\* activate, on macOS only.
Activate(a) ==
    /\ platform = "darwin"
    /\ phase[a] = "up" /\ windows[a] = {} /\ ~appClosing[a]
    /\ windows' = [windows EXCEPT ![a] = {"reopened"}]
    /\ mainWindow' = [mainWindow EXCEPT ![a] = "reopened"]
    /\ UNCHANGED <<environment, phase, flags, autoSyncTimer, backendProcess, task, relaunch, proc, runtimeConfig, counters, restarted, syncVars>>

\* The menu.
UserQuit(a) ==
    /\ phase[a] = "up"
    /\ Quit(a, backendProcess[a], proc)
    /\ UNCHANGED <<environment, appRelaunching, backendCrashDialogOpen, windows, mainWindow, task, relaunch,
                   runtimeConfig, counters, restarted, syncVars>>

\* Electron has closed the windows and ends the application.
AppExit(a) ==
    /\ phase[a] = "quitting"
    /\ Ended(a)
    /\ proc' = Orphaned(a, "none")
    /\ UNCHANGED <<environment, relaunch, runtimeConfig, syncConfig, counters>>

\* The system ends the application, without before-quit.
AppKilled(a) ==
    /\ phase[a] # "off" /\ kills < MaxKills
    /\ kills' = kills + 1
    /\ Ended(a)
    /\ proc' = Orphaned(a, "abandoned")
    /\ relaunch' = [relaunch EXCEPT ![a] = FALSE]
    /\ UNCHANGED <<environment, runtimeConfig, syncConfig, launches, syncSaves>>

----------------------------------------------------------------------------
StartStep(a, t) ==
    \/ ReadConfig(a, t) \/ AnswerPrompt(a, t) \/ WritePrompted(a, t) \/ ProbePort(a, t)
    \/ Spawn(a, t) \/ Poll(a, t) \/ ReadSyncConfig(a, t) \/ Configure(a, t) \/ Load(a, t)

SaveStep(a) == StopForRelaunch(a) \/ StopTimeout(a)

Next ==
    \/ \E a \in App :
          \/ Launch(a) \/ AnswerDialog(a) \/ SaveSettings(a) \/ SaveStep(a)
          \/ Activate(a) \/ UserQuit(a) \/ AppExit(a) \/ AppKilled(a)
          \/ \E t \in Starter : StartStep(a, t)
          \/ \E setting \in {"on", "off"} : SaveSyncConfig(a, setting)
          \/ SyncConfigSaved(a)
          \/ \E w \in windows[a] : CloseWindow(a, w)
          \/ \E p \in Pid : OnExit(a, p)
    \/ \E p \in Pid : Listen(p) \/ Exit(p)

\* Every await ends: polls and stops have timeouts, files are read and written,
\* and users answer the dialogs they are shown.  Processes owe nothing.
Fairness ==
    \A a \in App :
        /\ \A t \in Starter : WF_vars(StartStep(a, t))
        /\ WF_vars(AnswerDialog(a))
        /\ WF_vars(SaveStep(a)) /\ WF_vars(SyncConfigSaved(a))
        /\ WF_vars(AppExit(a))

Spec == Init /\ [][Next]_vars /\ Fairness

----------------------------------------------------------------------------
(* Properties.                                                             *)

\* No backend is forgotten.  While an instance is up, a live backend of its own
\* that no signal has been sent is the one it holds in backendProcess, so that
\* quitting will stop it: the exit handler, which clears backendProcess whatever
\* it holds, never clears the successor of the process that exited.  Once the
\* instance has ended, such a backend was spawned after before-quit, or the
\* instance was killed.
BackendsOwned ==
    \A p \in Pid : Alive(p) /\ ~proc[p].killed =>
        \/ \E a \in App : proc[p].owner = a /\ backendProcess[a] = p
        \/ proc[p].note \in {"late", "abandoned"}

\* Saving the settings stops the backend before the application is relaunched:
\* when app.relaunch() has been called, no backend of that instance is alive to
\* take the port from the next one, except one that had already resisted an
\* earlier save, one that the user has stopped by quitting during the save, and
\* one that a start in progress spawned after before-quit.
RelaunchFindsPortFree ==
    \A a \in App, p \in Pid :
        relaunch[a] /\ phase[a] # "off" /\ proc[p].owner = a /\ Alive(p) =>
            proc[p].note \in {"late", "quit", "refused"}

\* A crash of the backend is answered by the dialog: a started instance that is
\* not closing and has no backend shows it.  The exceptions are a backend started
\* from the dialog, which may exit while the dialog's handler still waits for
\* it, and an instance whose relaunch has been given up.
CrashNoticed ==
    \A a \in App :
        phase[a] = "up" /\ task[a].ready = "done" /\ backendProcess[a] = None =>
            backendCrashDialogOpen[a] \/ restarted[a] \/ appRelaunching[a]

\* The timer follows the settings: in a started instance it is armed when, and
\* only when, the file enables it, also after a restart of the backend and after
\* saves.  While one save or one start is between the file and the timer, and
\* once the two have overlapped -- the start then configures what it had read --
\* they may differ.
TimerFollowsConfig ==
    \A a \in App :
        /\ phase[a] = "up" /\ task[a].ready \in {"load", "done"}
        /\ task[a].restart # "configure" /\ task[a].saveSync = "idle" /\ ~overlapped[a]
        => (autoSyncTimer[a] <=> SettingOf(syncConfig) = "on")

\* No handler waits forever, whatever fails: the start of the application ends
\* in a window or in quitting, the crash dialog lowers its flag, and saving the
\* settings is answered.
HandlersEnd ==
    \A a \in App :
        /\ task[a].ready \notin {"idle", "done"} ~> task[a].ready \in {"idle", "done"}
        /\ backendCrashDialogOpen[a] ~> ~backendCrashDialogOpen[a]
        /\ task[a].save # "idle" ~> task[a].save = "idle"

============================================================================
