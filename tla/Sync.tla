-------------------------------- MODULE Sync --------------------------------
(***************************************************************************)
(* The synchronization protocol: the orchestrators of the desktops         *)
(* (desktop/src/sync-orchestrator.ts, sync-api-client.ts), the /sync       *)
(* operations of the backends (backend/src/services/sync.service.ts) and   *)
(* the document operations they call, interleaved with the users of every  *)
(* backend, with lost connections and with crashes.                        *)
(*                                                                         *)
(* A desktop and the local backend it manages carry the same name; Server  *)
(* is the remote backend all desktops synchronize with.  A document is its *)
(* content.md: what it says, `ver` (the instant it was written, so no two  *)
(* differ), and the modification time `time` it carries, which a transfer  *)
(* may change.  The attachments and versions that the code moves and       *)
(* copies one file after the other next to it are not modelled here.       *)
(* Handlers that are running are records in `ops`: a request that lost its *)
(* desktop keeps running on its backend.                                   *)
(***************************************************************************)
EXTENDS SyncPlanner

CONSTANTS
    Desktop,      \* the desktops, each naming its local backend
    Server,       \* the remote backend
    Nobody,       \* owner of a handler whose desktop has gone
    Root,         \* the root document; it need not be in Path
    Subtree,      \* Subtree[p]: p and every path below it
    Granularity,  \* time unit of an archive entry, in clock units
    MaxClock,     \* bound: documents stored by users
    MaxDeletes,   \* bound: documents removed by users
    MaxFaults     \* bound: lost connections and crashes

Backend == Desktop \cup {Server}

Side == {"client", "server"}

Document == [ver : Nat, time : Time]

\* An archive entry, a document and the path it belongs to.
Entry == [path : Path, ver : Nat, time : Time]

\* What put a document in the trash: a user, an action of a synchronization,
\* or the import of a replacement.  The code does not record it.
Cause == {"user", "delete", "import"}

Trashed == [path : Path, ver : Nat, by : Cause]

\* A running handler: "actions" is POST /sync, which deletes once nothing is
\* left to retrieve, "import" is PUT /sync; gap holds the path that an import
\* has removed and not yet copied.
Op == [at : Backend, by : Desktop \cup {Nobody}, stage : {"actions", "import"},
       retrieve : SUBSET Path, delete : SUBSET Path,
       archive : SUBSET Entry, gap : SUBSET Path]

\* The locals of runSync.  Phase "idle" is isSyncing = false.  While a backend
\* takes a snapshot, read holds the paths it has been to, and listed those
\* where it has found a document in a listing of their directory.
Phase == {"idle", "clientSnapshot", "serverSnapshot", "plan",
          "clientActions", "serverActions", "clientImport", "serverImport",
          "clientFinal", "serverFinal", "persist"}

Run == [phase : Phase, snap : SyncState, plan : SyncPlan,
        zip : [Side -> SUBSET Entry], read : SUBSET Path, listed : SUBSET Path]

ASSUME NamesAssumption ==
    /\ Server \notin Desktop
    /\ Nobody \notin Backend
    /\ Absent \notin Document
ASSUME SubtreeAssumption ==
    /\ Subtree \in [Path -> SUBSET Path]
    /\ \A p \in Path : p \in Subtree[p]
    /\ \A p \in Path : \A q \in Subtree[p] : Subtree[q] \subseteq Subtree[p]
    /\ \A p \in Path \ {Root} : Root \notin Subtree[p]
ASSUME BoundsAssumption ==
    /\ Granularity \in Nat \ {0}
    /\ MaxClock \in Nat /\ MaxDeletes \in Nat /\ MaxFaults \in Nat

VARIABLES
    live,            \* live[b][p]: the document of backend b at p, or Absent
    trash,           \* trash[b]: the contents in the trash of b
    syncInProgress,  \* syncInProgress[b]: the flag of SyncService
    ops,             \* the /sync handlers that are running
    run,             \* run[d]: the synchronization of desktop d
    prev,            \* prev[d]: sync.json of desktop d, or NoState
    clock,           \* the current instant, advanced by each store
    deletes,         \* removals by users so far, for MaxDeletes
    faults,          \* faults so far, for MaxFaults
    quiet            \* quiet[d]: nobody else changed d or Server since the run began

vars == <<live, trash, syncInProgress, ops, run, prev, clock, deletes, faults, quiet>>

storeVars == <<live, trash>>
boundVars == <<clock, deletes, faults>>

----------------------------------------------------------------------------
EmptySnapshot == [p \in Path |-> Absent]
NoSnapshots == [client |-> EmptySnapshot, server |-> EmptySnapshot]
NoZips == [side \in Side |-> {}]

Idle == [phase |-> "idle", snap |-> NoSnapshots, plan |-> NoPlan, zip |-> NoZips,
         read |-> {}, listed |-> {}]

\* The snapshot of a backend: the time of every document it holds.
SnapshotOf(b) == [p \in Path |-> IF live[b][p] = Absent THEN Absent ELSE live[b][p].time]

\* The modification time of an archive entry once unpacked: zip entries
\* store it in steps of Granularity.
ZipTime(t) == t - (t % Granularity)

\* Paths are served in lexicographic order: an ancestor before what is below.
Foremost(paths) == {p \in paths : \A q \in paths : p \in Subtree[q] => q = p}

Contents(b, paths) == {p \in paths : live[b][p] # Absent}

\* What moving the documents of these paths adds to the trash.
TrashOf(b, paths, cause) ==
    {[path |-> p, ver |-> live[b][p].ver, by |-> cause] : p \in Contents(b, paths)}

MoveToTrash(b, paths, cause) ==
    /\ trash' = [trash EXCEPT ![b] = @ \cup TrashOf(b, paths, cause)]
    /\ live' = [live EXCEPT ![b] = [p \in Path |-> IF p \in paths THEN Absent ELSE @[p]]]

\* Whoever but d changes b disturbs the runs that work with b.
Disturb(b, by) ==
    quiet' = [d \in Desktop |-> quiet[d] /\ (d = by \/ b \notin {d, Server})]

TypeOK ==
    /\ live \in [Backend -> [Path -> Document \cup {Absent}]]
    /\ trash \in [Backend -> SUBSET Trashed]
    /\ syncInProgress \in [Backend -> BOOLEAN]
    /\ ops \in SUBSET Op
    /\ run \in [Desktop -> Run]
    /\ prev \in [Desktop -> SyncState \cup {NoState}]
    /\ clock \in Nat /\ deletes \in Nat /\ faults \in Nat
    /\ quiet \in [Desktop -> BOOLEAN]

(* Either nothing has ever been synchronized, or every dataset started as  *)
(* a copy of the same documents and their times are persisted.             *)
Init ==
    /\ \E initial \in {s \in SUBSET Path : Path \cap {Root} \subseteq s} :
         /\ live = [b \in Backend |->
                       [p \in Path |-> IF p \in initial THEN [ver |-> 0, time |-> 0]
                                       ELSE Absent]]
         /\ \/ prev = [d \in Desktop |-> NoState]
            \/ LET times == [p \in Path |-> IF p \in initial THEN 0 ELSE Absent]
               IN  prev = [d \in Desktop |-> [client |-> times, server |-> times]]
    /\ trash = [b \in Backend |-> {}]
    /\ syncInProgress = [b \in Backend |-> FALSE]
    /\ ops = {}
    /\ run = [d \in Desktop |-> Idle]
    /\ clock = 0 /\ deletes = 0 /\ faults = 0
    /\ quiet = [d \in Desktop |-> FALSE]

----------------------------------------------------------------------------
(* The orchestrator of desktop d.                                          *)

After == [clientSnapshot |-> "serverSnapshot", serverSnapshot |-> "plan",
          clientActions |-> "serverActions", serverActions |-> "clientImport",
          clientImport |-> "serverImport", serverImport |-> "clientFinal",
          clientFinal |-> "serverFinal", serverFinal |-> "persist"]

ClientPhase == {"clientSnapshot", "clientActions", "clientImport", "clientFinal"}
SnapshotPhase == {"clientSnapshot", "serverSnapshot", "clientFinal", "serverFinal"}
ActionsPhase == {"clientActions", "serverActions"}
ImportPhase == {"clientImport", "serverImport"}

SideOf(phase) == IF phase \in ClientPhase THEN "client" ELSE "server"
Target(d) == IF run[d].phase \in ClientPhase THEN d ELSE Server
Advance(d) == run' = [run EXCEPT ![d].phase = After[@]]

\* Faulty variant: each backend is sent its own archive.
ActingSideSwapped(d) ==
    IF run[d].phase \in {"clientActions", "clientImport"} THEN "client" ELSE "server"

\* The side whose actions the current phase carries out: the actions phases
\* send them, and the import phases upload the archive they produced to the
\* other backend.
ActingSide(d) ==
    IF run[d].phase \in {"clientActions", "serverImport"} THEN "client" ELSE "server"

CarryingOut(d) == run[d].phase \in ActionsPhase \cup ImportPhase

\* The request of the current phase has been sent and not answered.
Waiting(d) == \E o \in ops : o.by = d

\* The manual trigger or the timer, when no run is in progress; both tokens
\* are obtained.
StartSync(d) ==
    /\ run[d].phase = "idle"
    /\ run' = [run EXCEPT ![d].phase = "clientSnapshot"]
    /\ quiet' = [quiet EXCEPT ![d] = \A o \in ops : o.at \notin {d, Server}]
    /\ UNCHANGED <<storeVars, syncInProgress, ops, prev, boundVars>>

\* GET /sync, which no flag guards, lists the directories on its way ...
ListDocuments(d) ==
    LET found == Contents(Target(d), Path \ run[d].read)
    IN  /\ run[d].phase \in SnapshotPhase
        /\ ~(found \subseteq run[d].listed)
        /\ run' = [run EXCEPT ![d].listed = @ \cup found]
        /\ UNCHANGED <<storeVars, syncInProgress, ops, prev, boundVars, quiet>>

\* ... and reads the time of one document after the other, what contains a
\* document before the document.
GetSnapshot(d) ==
    /\ run[d].phase \in SnapshotPhase
    /\ \E p \in Foremost(Path \ run[d].read) :
         LET read == run[d].read \cup {p}
         IN  /\ p \in run[d].listed => live[Target(d)][p] # Absent
             /\ run' = [run EXCEPT
                    ![d].phase = IF read = Path THEN After[@] ELSE @,
                    ![d].snap[SideOf(run[d].phase)][p] = SnapshotOf(Target(d))[p],
                    ![d].read = IF read = Path THEN {} ELSE read,
                    ![d].listed = IF read = Path THEN {} ELSE @]
    /\ UNCHANGED <<storeVars, syncInProgress, ops, prev, boundVars, quiet>>

\* 500: a file that was listed has gone.
SnapshotFails(d) ==
    /\ run[d].phase \in SnapshotPhase
    /\ \E p \in run[d].listed \ run[d].read : live[Target(d)][p] = Absent
    /\ run' = [run EXCEPT ![d] = Idle]
    /\ UNCHANGED <<storeVars, syncInProgress, ops, prev, boundVars, quiet>>

\* The first pair of snapshots is not used again once there is a plan to
\* carry out; without changes it is the pair to persist.
MakePlan(d) ==
    LET plan == planSync(prev[d], run[d].snap.client, run[d].snap.server)
    IN  /\ run[d].phase = "plan"
        /\ run' = [run EXCEPT ![d] =
                      IF HasChanges(plan)
                      THEN [Idle EXCEPT !.phase = "clientActions", !.plan = plan]
                      ELSE [@ EXCEPT !.phase = "persist"]]
        /\ UNCHANGED <<storeVars, syncInProgress, ops, prev, boundVars, quiet>>

\* A backend that is not asked for anything is skipped.
SkipRequest(d) ==
    /\ CarryingOut(d)
    /\ run[d].plan[ActingSide(d)] = NoActions
    /\ Advance(d)
    /\ UNCHANGED <<storeVars, syncInProgress, ops, prev, boundVars, quiet>>

Request(d) ==
    LET request == [at |-> Target(d), by |-> d, stage |-> "import",
                    retrieve |-> {}, delete |-> {}, archive |-> {}, gap |-> {}]
        actions == run[d].plan[ActingSide(d)]
    IN  IF run[d].phase \in ActionsPhase
        THEN [request EXCEPT !.stage = "actions", !.retrieve = actions.retrieve,
                             !.delete = actions.delete]
        ELSE [request EXCEPT !.archive = run[d].zip[ActingSide(d)]]

Requesting(d) ==
    /\ CarryingOut(d)
    /\ run[d].plan[ActingSide(d)] # NoActions
    /\ ~Waiting(d)

\* Faulty variant: the flag is set without being tested.
SendRequestUnguarded(d) ==
    /\ Requesting(d)
    /\ syncInProgress' = [syncInProgress EXCEPT ![Target(d)] = TRUE]
    /\ ops' = ops \cup {Request(d)}
    /\ UNCHANGED <<storeVars, run, prev, boundVars, quiet>>

\* POST or PUT reaches the backend, which sets its flag.
SendRequest(d) ==
    /\ Requesting(d)
    /\ ~syncInProgress[Target(d)]
    /\ syncInProgress' = [syncInProgress EXCEPT ![Target(d)] = TRUE]
    /\ ops' = ops \cup {Request(d)}
    /\ UNCHANGED <<storeVars, run, prev, boundVars, quiet>>

\* Faulty variant: the flag is tested inside the try block whose finally
\* resets it.
RequestRefusedResettingFlag(d) ==
    /\ Requesting(d)
    /\ syncInProgress[Target(d)]
    /\ run' = [run EXCEPT ![d] = Idle]
    /\ syncInProgress' = [syncInProgress EXCEPT ![Target(d)] = FALSE]
    /\ UNCHANGED <<storeVars, ops, prev, boundVars, quiet>>

\* 409 Conflict: the run fails, nothing is persisted.
RequestRefused(d) ==
    /\ Requesting(d)
    /\ syncInProgress[Target(d)]
    /\ run' = [run EXCEPT ![d] = Idle]
    /\ UNCHANGED <<storeVars, syncInProgress, ops, prev, boundVars, quiet>>

\* Faulty variant: only one of the two snapshots is written.
PersistClientOnly(d) ==
    /\ run[d].phase = "persist"
    /\ prev' = [prev EXCEPT ![d] = [client |-> run[d].snap.client]]
    /\ run' = [run EXCEPT ![d] = Idle]
    /\ UNCHANGED <<storeVars, syncInProgress, ops, boundVars, quiet>>

\* The new sync.json replaces the old one by a rename.
Persist(d) ==
    /\ run[d].phase = "persist"
    /\ prev' = [prev EXCEPT ![d] = run[d].snap]
    /\ run' = [run EXCEPT ![d] = Idle]
    /\ UNCHANGED <<storeVars, syncInProgress, ops, boundVars, quiet>>

----------------------------------------------------------------------------
(* The /sync handlers of backend b.                                        *)

Running(b) == {o \in ops : o.at = b}

\* Faulty variant: no finally block.
FinishKeepingFlag(o) ==
    /\ ops' = ops \ {o}
    /\ UNCHANGED syncInProgress

\* The handler o ends: the finally block resets the flag.
Finish(o) ==
    /\ ops' = ops \ {o}
    /\ syncInProgress' = [syncInProgress EXCEPT ![o.at] = FALSE]

Update(o, next) == ops' = (ops \ {o}) \cup {next}

\* The desktop of a handler that ends with an error ends its run.
ReplyError(o) == run' = [d \in Desktop |-> IF d = o.by THEN Idle ELSE run[d]]

Archived(b, p) ==
    [path |-> p, ver |-> live[b][p].ver, time |-> ZipTime(live[b][p].time)]

\* The documents to retrieve are read into the archive one by one, in the
\* order in which the archiver comes to their files.
CreateArchive(b) ==
    \E o \in Running(b) :
        /\ o.stage = "actions"
        /\ \E p \in Contents(b, o.retrieve) :
             Update(o, [o EXCEPT !.retrieve = @ \ {p}, !.archive = @ \cup {Archived(b, p)}])
        /\ UNCHANGED <<storeVars, syncInProgress, run, prev, boundVars, quiet>>

\* A document to retrieve has gone since the snapshot (404), or since the
\* archiver was told of it (500).
ArchiveFails(b) ==
    \E o \in Running(b) :
        /\ o.stage = "actions"
        /\ \E p \in o.retrieve : live[b][p] = Absent
        /\ Finish(o)
        /\ ReplyError(o)
        /\ UNCHANGED <<storeVars, prev, boundVars, quiet>>

\* The archive is complete before anything is deleted.
HasArchived(o) == o.stage = "actions" /\ o.retrieve = {}

\* document_remove(path): the directory with all that is below it; a path
\* that has gone is tolerated.
DeleteDocument(b) ==
    \E o \in Running(b) :
        /\ HasArchived(o)
        /\ \E p \in Foremost(o.delete) :
             /\ p # Root
             /\ MoveToTrash(b, Subtree[p], "delete")
             /\ Update(o, [o EXCEPT !.delete = @ \ {p}])
        /\ Disturb(b, o.by)
        /\ UNCHANGED <<syncInProgress, run, prev, boundVars>>

\* 400 "Root document cannot be deleted".
DeleteRootFails(b) ==
    \E o \in Running(b) :
        /\ HasArchived(o)
        /\ Root \in Foremost(o.delete)
        /\ Finish(o)
        /\ ReplyError(o)
        /\ UNCHANGED <<storeVars, prev, boundVars, quiet>>

\* 200 with the archive.
ReplyArchive(b) ==
    \E o \in Running(b) :
        /\ HasArchived(o)
        /\ o.delete = {}
        /\ Finish(o)
        /\ run' = [d \in Desktop |->
                      IF d = o.by
                      THEN [run[d] EXCEPT !.phase = After[@],
                                          !.zip[ActingSide(d)] = o.archive]
                      ELSE run[d]]
        /\ UNCHANGED <<storeVars, prev, boundVars, quiet>>

Pending(o) == {e.path : e \in o.archive}

\* Faulty variant: the replaced document is unlinked.
RemoveReplacedForGood(b) ==
    \E o \in Running(b) :
        /\ o.stage = "import"
        /\ o.gap = {}
        /\ \E p \in Foremost(Pending(o)) :
             /\ live' = [live EXCEPT ![b][p] = Absent]
             /\ Update(o, [o EXCEPT !.gap = {p}])
        /\ Disturb(b, o.by)
        /\ UNCHANGED <<trash, syncInProgress, run, prev, boundVars>>

\* document_remove(path, true, false): the document alone goes to the trash, by
\* the rename of its content.md.
RemoveReplaced(b) ==
    \E o \in Running(b) :
        /\ o.stage = "import"
        /\ o.gap = {}
        /\ \E p \in Foremost(Pending(o)) :
             /\ MoveToTrash(b, {p}, "import")
             /\ Update(o, [o EXCEPT !.gap = {p}])
        /\ Disturb(b, o.by)
        /\ UNCHANGED <<syncInProgress, run, prev, boundVars>>

\* Faulty variant: without preserveTimestamps the files carry the time of the
\* copy, which is after all edits so far.
CopyImportedNow(b) ==
    \E o \in Running(b) :
        /\ o.stage = "import"
        /\ \E e \in o.archive :
             /\ e.path \in o.gap
             /\ live' = [live EXCEPT ![b][e.path] = [ver |-> e.ver, time |-> clock + 1]]
             /\ Update(o, [o EXCEPT !.gap = {}, !.archive = @ \ {e}])
        /\ Disturb(b, o.by)
        /\ UNCHANGED <<trash, syncInProgress, run, prev, boundVars>>

\* cp with force and preserveTimestamps, from the staged content.md; the copy and
\* the setting of its times are one step.
CopyImported(b) ==
    \E o \in Running(b) :
        /\ o.stage = "import"
        /\ \E e \in o.archive :
             /\ e.path \in o.gap
             /\ live' = [live EXCEPT ![b][e.path] = [ver |-> e.ver, time |-> e.time]]
             /\ Update(o, [o EXCEPT !.gap = {}, !.archive = @ \ {e}])
        /\ Disturb(b, o.by)
        /\ UNCHANGED <<trash, syncInProgress, run, prev, boundVars>>

\* 204 No Content.
ReplyImported(b) ==
    \E o \in Running(b) :
        /\ o.stage = "import"
        /\ o.archive = {}
        /\ Finish(o)
        /\ run' = [d \in Desktop |->
                      IF d = o.by THEN [run[d] EXCEPT !.phase = After[@]] ELSE run[d]]
        /\ UNCHANGED <<storeVars, prev, boundVars, quiet>>

Handler(b) ==
    \/ CreateArchive(b) \/ ArchiveFails(b)
    \/ DeleteDocument(b) \/ DeleteRootFails(b) \/ ReplyArchive(b)
    \/ RemoveReplaced(b) \/ CopyImported(b) \/ ReplyImported(b)

----------------------------------------------------------------------------
(* The users of a backend, through its own document endpoints.             *)

StoreDocument(b, p) ==
    /\ clock < MaxClock
    /\ clock' = clock + 1
    /\ live' = [live EXCEPT ![b][p] = [ver |-> clock + 1, time |-> clock + 1]]
    /\ Disturb(b, Nobody)
    /\ UNCHANGED <<trash, syncInProgress, ops, run, prev, deletes, faults>>

RemoveDocument(b, p) ==
    /\ deletes < MaxDeletes
    /\ p # Root
    /\ Contents(b, Subtree[p]) # {}
    /\ deletes' = deletes + 1
    /\ MoveToTrash(b, Subtree[p], "user")
    /\ Disturb(b, Nobody)
    /\ UNCHANGED <<syncInProgress, ops, run, prev, clock, faults>>

----------------------------------------------------------------------------
(* Failures.                                                               *)

\* The desktop loses a connection or is restarted: its run ends, and the
\* handler that serves it, if any, runs on.
LoseConnection(d) ==
    /\ faults < MaxFaults
    /\ run[d].phase # "idle"
    /\ faults' = faults + 1
    /\ run' = [run EXCEPT ![d] = Idle]
    /\ ops' = {IF o.by = d THEN [o EXCEPT !.by = Nobody] ELSE o : o \in ops}
    /\ UNCHANGED <<storeVars, syncInProgress, prev, clock, deletes, quiet>>

\* A backend restarts, or a file operation of its handler fails.
Crash(b) ==
    /\ faults < MaxFaults
    /\ Running(b) # {}
    /\ faults' = faults + 1
    /\ ops' = ops \ Running(b)
    /\ syncInProgress' = [syncInProgress EXCEPT ![b] = FALSE]
    /\ run' = [d \in Desktop |->
                  IF \E o \in Running(b) : o.by = d THEN Idle ELSE run[d]]
    /\ UNCHANGED <<storeVars, prev, clock, deletes, quiet>>

----------------------------------------------------------------------------
Orchestrator(d) ==
    \/ StartSync(d) \/ ListDocuments(d) \/ GetSnapshot(d) \/ SnapshotFails(d)
    \/ MakePlan(d) \/ SkipRequest(d) \/ SendRequest(d) \/ RequestRefused(d)
    \/ Persist(d)

Next ==
    \/ \E d \in Desktop : Orchestrator(d) \/ LoseConnection(d)
    \/ \E b \in Backend : Handler(b) \/ Crash(b)
    \/ \E b \in Backend, p \in Path : StoreDocument(b, p) \/ RemoveDocument(b, p)

Spec == Init /\ [][Next]_vars

\* The timer of the automatic synchronization keeps starting runs, and the
\* desktop and the handlers go on with what they have begun; users and
\* failures are not obliged to anything.
Fairness ==
    /\ \A d \in Desktop : WF_vars(Orchestrator(d))
    /\ \A b \in Backend : WF_vars(Handler(b))

FairSpec == Spec /\ Fairness

----------------------------------------------------------------------------
(* Properties.                                                             *)

(* A backend runs at most one POST or PUT /sync at a time, and its flag    *)
(* syncInProgress is set exactly while it runs one: no refused request, no *)
(* abandoned handler and no crash leaves it open to a second exchange, or  *)
(* shut to all of them.                                                    *)
ExclusiveExchange ==
    \A b \in Backend :
        /\ syncInProgress[b] <=> Running(b) # {}
        /\ \A o1, o2 \in Running(b) : o1 = o2

\* Every content that backend b holds, in its tree or in its trash.
Held(b) ==
    {<<p, live[b][p].ver>> : p \in Contents(b, Path)}
        \cup {<<t.path, t.ver>> : t \in trash[b]}

\* The contents a step may drop from b: those a user stores over, and those
\* stored at a path that an import has emptied and is about to fill.
Overwritten(b) ==
    {<<p, live[b][p].ver>> : p \in {q \in Contents(b, Path) :
        \/ clock' > clock /\ live'[b][q] = [ver |-> clock', time |-> clock']
        \/ \E o \in Running(b) : q \in o.gap}}

KeepsContent == \A b \in Backend : Held(b) \ Overwritten(b) \subseteq Held(b)'

(* A synchronization never destroys content: what it deletes or replaces   *)
(* on a backend goes to the trash of that backend, whatever fails in the   *)
(* meantime.  The exception is a document stored by a user in the instant  *)
(* between the removal and the copy of an import of the same path.         *)
ContentKept == [][KeepsContent]_vars

SameDocuments(d) ==
    \A p \in Path :
        \/ live[d][p] = Absent /\ live[Server][p] = Absent
        \/ /\ live[d][p] # Absent /\ live[Server][p] # Absent
           /\ live[d][p].ver = live[Server][p].ver

(* A run that succeeds while nobody else changes the two backends leaves   *)
(* them with the same documents -- also when earlier runs were interrupted *)
(* anywhere and users acted in the middle of them.  It holds where a       *)
(* deletion takes no other document along, and where archives keep times   *)
(* exactly or no second desktop brings times of its own.                   *)
QuietSyncConverges ==
    \A d \in Desktop :
        run[d].phase = "persist" /\ quiet[d] => SameDocuments(d)

\* Some user removed a document at this path.
RemovedByUser(p) ==
    \E b \in Backend : \E t \in trash[b] : t.path = p /\ t.by = "user"

\* The removals that a step makes on behalf of a synchronization.
DeletedNow(b) == {t \in trash'[b] \ trash[b] : t.by = "delete"}

(* A synchronization removes a document only where the removal of a user   *)
(* explains it: deletions are propagated, never invented.                  *)
NoInventedDeletion ==
    [][\A b \in Backend : \A t \in DeletedNow(b) : RemovedByUser(t.path)]_vars

(* The same as long as nothing has failed: however users and the exchange  *)
(* interleave, no snapshot of a lone desktop sees an import half done.     *)
NoInventedDeletionUnlessFaults ==
    [][faults = 0 =>
           \A b \in Backend : \A t \in DeletedNow(b) : RemovedByUser(t.path)]_vars

(* Once its desktop has synchronized before, a document that a user removed *)
(* from a backend is not brought back there: only content that the backend *)
(* has never held may be imported at its path.                             *)
NoResurrection ==
    [][\A b \in Backend, p \in Path, d \in Desktop :
           /\ live[b][p] = Absent
           /\ live'[b][p] # Absent
           /\ \E o \in Running(b) : o.by = d /\ p \in o.gap
           /\ prev[d] # NoState
           => \A t \in trash[b] :
                  ~(t.path = p /\ t.by = "user" /\ t.ver = live'[b][p].ver)]_vars

(* A document that both backends hold with the same content is not         *)
(* transferred: equal times are equivalent and archives preserve times.    *)
NoIdleTransfer ==
    \A d \in Desktop :
        run[d].phase = "clientActions" /\ quiet[d] /\ ~Waiting(d) =>
            \A p \in run[d].plan.client.retrieve \cup run[d].plan.server.retrieve :
                \/ live[d][p] = Absent \/ live[Server][p] = Absent
                \/ live[d][p].ver # live[Server][p].ver

(* What an undisturbed run transfers over a document is not older than it: *)
(* whatever was edited, archived, interrupted and imported before, the     *)
(* later of two documents is the one with the later time, although an      *)
(* archive rounds the time of what it transfers.  With several desktops it *)
(* takes archives that keep times exactly.                                 *)
NoStaleTransfer ==
    \A d \in Desktop :
        run[d].phase = "clientActions" /\ quiet[d] /\ ~Waiting(d) =>
            \A p \in Path :
                live[d][p] # Absent /\ live[Server][p] # Absent =>
                    /\ p \in run[d].plan.client.retrieve =>
                           live[d][p].ver >= live[Server][p].ver
                    /\ p \in run[d].plan.server.retrieve =>
                           live[Server][p].ver >= live[d][p].ver

(* Whatever happened before, the backends of a desktop and the server come *)
(* to hold the same documents, again and again.                            *)
AlwaysConvergesAgain == \A d \in Desktop : []<>SameDocuments(d)

(* No backend stays locked by an exchange.                                 *)
FlagIsReleased == \A b \in Backend : syncInProgress[b] ~> ~syncInProgress[b]

============================================================================
