# WikiDocs: TLA+ models, model checking and proofs

WikiDocs is a flat-file Markdown wiki: a NestJS backend over a directory of documents, an Angular
frontend, an Electron desktop that runs a backend of its own and synchronizes it with a remote one,
and a small usage-counting server (Pulse). This directory holds TLA+ modules for its behaviour,
TLC configurations, and TLAPS proofs. Paths below are relative to `src/`.

## 1. Inventory

| Component | State | Operations | Hard behaviour | What makes it correct |
|---|---|---|---|---|
| Synchronization planner (`desktop/src/sync-planner.ts`) | none (pure) | `planSync` | every combination of previous and current snapshots | converges, deletes only what was deleted, keeps what is newer |
| Orchestrator (`desktop/src/sync-orchestrator.ts`, `sync-api-client.ts`) | `isSyncing`, `sync.json`, `autoSyncTimer`, the locals of `runSync` | manual and timed `runSync`, `configureAutoSync` | users act between any two requests; requests fail half-way; restarts | converges when left alone; an interrupted run is repaired by a later one |
| Sync service (`backend/src/services/sync.service.ts`) | `syncInProgress`, temporary archives | `GET`, `POST`, `PUT /sync` | concurrent desktops, abandoned requests, crashes between file operations | one exchange at a time, flag always released, nothing destroyed |
| Document store (`backend/.../document.service.ts`) | document tree, versions, attachments, trash | store, move, remove, recover, empty trash | every operation is several file operations and no lock is taken | no content lost, trash entries distinct, moves never merge |
| Datasets (`datasets`, `accounts`, `pinned`, `settings` services) | three JSON files | read-modify-write behind the guard | two requests between one another's read and write; truncating writes | no lost update, no removed account returning |
| Initialization (`system.service.ts`) | the presence of the files | `initialize` | two at once; a crash in the middle | initialized completely, and never over accounts |
| Release check (`release.service.ts`) | latest version, request in flight | refresh, retrieve | concurrent refreshes | one request at a time |
| Desktop lifecycle (`desktop/src/index.ts`) | backend process, `appClosing`, `appRelaunching`, `backendCrashDialogOpen` | start, crash dialog, relaunch, quit | process exit callbacks against dialogs and timeouts | a stopped backend is noticed; none is forgotten; a relaunch finds the port free; the timer follows the settings |
| Frontend editor and session (`frontend/src/app/app.ts`, `services/session.service.ts`) | current path, document, editor text, mode, dialogs, uploads; tokens and timers | load, edit, save, move, delete, restore a version, paste an image; bootstrap, login, verify, expire | answers arrive in any order; navigation and typing during a request | what is saved belongs to its path; typed text is not dropped; authorizations shown are the token's |
| Pulse (`pulse/src`) | clients, daily and weekly counts | upsert, aggregate | aggregate against upsert | counts match the clients of the period |
| Lists and dialogs of the frontend (`frontend/src/app/components`) | the list last received, flags of requests under way, the file selected | upload, insert, remove, load a version, recover, save an account, search | requests overlap and are answered in any order; others change the same list | what is shown is what the backend holds and what was asked for last; nothing is replaced unasked |
| Search, HTTP layer, guard, environment, other frontend components | none that outlives a request | | | |

**Interactions.** The orchestrator calls `GET /sync` on its local backend and on the remote one, plans, then
sends `POST /sync` (retrieve and delete lists) and `PUT /sync` (the archive of the other side), and writes
`sync.json` from a last pair of snapshots. Backends do not know one another: they share nothing but what desktops
carry. On a backend, the sync service calls the document store like any user request does, and
`GET /sync` and all document endpoints run while a `POST` or `PUT` is in progress. The desktop application starts
its backend as a process, polls it over HTTP, and configures the timer of the orchestrator. The frontend calls the
backend with the token of its session; the guard in front of the endpoints takes the authorizations from that token and
not from the accounts.

The code issues `POST` to both backends and then `PUT` to both (`sync-orchestrator.ts:164-183`), whereas the diagram
in `ARCHITECTURE.md` shows one backend after the other; the model follows the code.

## 2. Modules

| Module | Models | Composes |
|---|---|---|
| `SyncPlanner` | `planSync` as operators on snapshots | |
| `AtomicSync` | the abstract synchronization: plan, exchange and persist in one step, between edits on two flat trees | `SyncPlanner` |
| `AtomicSyncProofs` | proofs that the plan has the properties of `AtomicSync` for every input | `AtomicSync` |
| `Sync` | desktops, the two kinds of backend, users, lost connections and crashes, one action per request, file-visible step of a handler, or fault | `SyncPlanner` |
| `SyncProofs` | the inductive invariants of `Sync` and a theorem for each of its safety properties | `Sync` |
| `SyncArchive` | the names in an archive: what is exported, what is refused, how it is staged; evaluated with `MCSync` | |
| `MCSync` | the trees of documents for TLC | `Sync`, `SyncArchive` |
| `DocumentTree` | the abstract document store: a tree and a trash whose every change is atomic | |
| `DocumentStore` | requests on documents, versions, attachments and the trash as file operations that interleave, with crashes | implements `DocumentTree` |
| `DocumentStoreTypes` | type correctness of `DocumentStore`: what each file operation does, and that the locations stay a tree | `DocumentStore` |
| `DocumentStoreProofs` | the safety theorems of `DocumentStore` and its refinement of `DocumentTree` | `DocumentStoreTypes` |
| `Access` | the authorizations of every endpoint, the guard, and those a token is issued with | |
| `Datasets` | the JSON files, initialization, logins and tokens | `Access` |
| `DatasetsProofs` | the inductive invariants of `Datasets` and a theorem for each of its properties | `Datasets` |
| `DesktopLifecycle` | the desktop application, its backend processes, windows, dialogs and settings | |
| `DesktopLifecycleProofs` | the inductive invariants of `DesktopLifecycle` and its safety theorems | `DesktopLifecycle` |
| `Session` | the session service of a browser as functions on its state | |
| `Frontend` | the application component with router, guard, editor, dialogs and the backend's answers | `Session` |
| `FrontendProofs` | what each function of `Session` and `Frontend` does, the inductive invariant of both and a theorem for each property | `Frontend` |
| `Panels` | the dialogs of attachments and versions, the pages of trash and accounts, the search and the sidebar | |
| `PanelsProofs` | what each handler of `Panels` does, its inductive invariant and its safety theorems | `Panels` |
| `MCDocumentStore`, `MCDatasets`, `MCDesktopLifecycle`, `MCFrontend`, `MCPanels` | initial files, environments and accounts for TLC | the module of that name |

Operators described as faulty are not part of any model: each is a definition with a plausible mistake, used to
confirm that a property notices it.

### SyncPlanner

A snapshot (`Map<string, number>`) is a function from paths to a time or `Absent`; `null` for `sync.json` is
`NoState`. The two symmetric halves of the code's loop are one operator, `DeltaActions(prevOwn, prevOther, own, other)`,
used twice with the roles exchanged; that exchanging the backends exchanges the lists is the theorem `Symmetry`. Sorting the lists is left to the backend model, where an ancestor is served before
what is below it (`Foremost`).

### Sync

* `live[b]` is the tree of a backend: per path, the content `ver` and the modification time `time`
  of its `content.md`. A user's store makes both the current instant, so equal `ver` means the same content, and the
  two are separate because an archive changes the time and not the content.
* `trash[b]` is the set of contents in the trash with who put them there (a history: the code does not record it).
* `syncInProgress[b]` and `ops`: a running `POST` or `PUT` handler is a record: backend, desktop that waits for it
  (or `Nobody`), stage, what is left to retrieve, delete and import, and in `gap` the path an import has removed
  and not copied yet.
* `run[d]` holds the locals of `runSync` and its position, with what the walk of a snapshot has listed and read so far;
  `prev[d]` is `sync.json`.
* `quiet[d]` is a history variable: nobody but `d`'s run has changed its two backends since the run began.
* `clock`, `deletes`, `faults` count stores, removals and failures; `MaxClock`, `MaxDeletes`, `MaxFaults` bound them.

| Action | Code |
|---|---|
| `StartSync` | `runSync` up to the tokens; the timer and the menu both test `isSyncing` |
| `ListDocuments`, `GetSnapshot`, `SnapshotFails` | `getSnapshot` / `sync_snapshot`, before and after the exchange, not guarded by the flag: directories are listed on the way, times read one document after the other, and a file that was listed and has gone ends the run |
| `MakePlan`, `Persist` | `planSync`, the no-changes exit, `writeStateAtomically` |
| `SkipRequest`, `SendRequest`, `RequestRefused` | `postActions` and `putImport`, and the 409 of both |
| `CreateArchive`, `ArchiveFails` | `createArchive`, a document at a time (404 or 500 when one has gone) |
| `DeleteDocument`, `DeleteRootFails`, `ReplyArchive` | the loop of `sync_actions`, with `document_remove` |
| `RemoveReplaced`, `CopyImported`, `ReplyImported` | the loop of `sync_import` |
| `StoreDocument`, `RemoveDocument` | `document_store`, `document_remove` by users |
| `LoseConnection` | a request or its answer lost, a token refused, the desktop restarted: the run ends, its handler goes on |
| `Crash` | a backend restarted, or a file operation of its handler failing (a collision in the trash, a full disk) |

Every document is listed, read, archived, deleted, removed for replacement and copied in a step of its own. A document is here its
`content.md`, whose time is the only one the planner sees: attachments and versions are not in `Sync`, so that the removal of
a document that is replaced is the one rename of its `content.md`, and its copy the one of that file, with its times. The
code moves and copies the other files before or after it, one by one (`document.service.ts:389`, `sync.service.ts:366`); an
import that is interrupted in between leaves a new text beside some of the old attachments, which no later plan notices
since the time is right. The models do not show it. `DocumentStore` has the entries of a removal one by one.

Unpacking and staging an archive happen on temporary files that nothing else reads and are merged with the request.

### SyncArchive

In `Sync` an archive is the set of documents it was made of. `SyncArchive` is where that is justified: names are
sequences of segments, and of the conversions of a name only the change to lower case is kept. Its assumptions, which
TLC evaluates with every run of `MCSync`, say that whatever the backend itself stores is exported, accepted and staged as
the same documents with the same files (`ExportIsImported`); that a directory which was given a name in upper case by
hand is exported all the same and makes the receiver refuse the whole archive (`HandMadeIsRefused`); and that an accepted
archive puts every file below a document of its own, whose `content.md` it has (`AcceptedIsConfined`).

### DocumentStore and DocumentTree

* `dirs` maps a location (a sequence of directory names from `docs` or `trash`) to its files: `content.md`, one
  attachment (there or not: no property looks at its bytes), and `_versions`. `torn` marks a file that a store has
  truncated and not written yet.
* A request occupies a slot `req[r]`; `at` is the file operation that comes next, so every await of
  `document.service.ts` is a point where the others may go on. `Crash` drops all requests and keeps the directories, but for
  copies to a version under way, which it may leave cut off (`CutOff`), that is, `Damaged`.
* A store is mkdir, stat, copy to a version, truncate, write; a move is stat and rename; a removal is a rename, or entry
  by entry without recursion; a recovery looks whether its destination is free and renames; emptying the trash finds an
  entry, fails if it has gone by then, and removes recursively, an entry at a time. Readers (tree, trash) are requests that look twice and may fail in between.
* The millisecond `now` is explicit, since versions and trash entries are named after it.
* Three histories: `alone`, no other request has changed a file since this one began; `seen`, what a store last looked at, as
  long as some version of it is kept; `overlapped`, a store opened or copied what another was writing.
* `DocumentTree` is the store as its clients think of it: new content appears whole, a subtree moves whole to where nothing
  is, only what is in the trash is removed for good, and interrupted or overlapping stores leave `Damaged` content.
  `DocsOf` maps directories to that tree; `Tree == INSTANCE DocumentTree WITH docs <- DocsOf, ...`, and the run `store`
  checks `AtomicTree == Tree!Spec`: each file operation is an abstract step or a stutter.

### Datasets and Access

* `file[f]` is a file's state (`missing`, `empty` after truncation, `whole`, `corrupt`) and its data: `writeFile` is the two
  actions `OpenFile` and `WriteFile`. Requests read, change and write a whole file; `read` is what a request has read.
* Two histories: `outdated`, a file that a request has read was created or written by another since; `lost`, the files
  that such a request has then written.
* `tokens` are the tokens issued and not expired. `Authenticate`, `GuestLogin`, `LocalLogin` issue them from the accounts as
  they are read; a request starts only if `Access!Admits` lets one of the tokens pass, as `app.guard.ts` does.
* `Access` is the table of the decorators of `app.controller.ts`, and the authorizations by role.

### DesktopLifecycle

* One action is the code between two awaits of a handler; `task[a][t]` is what handler `t` (ready, restart, save of the
  settings, save of the synchronization settings) waits for. Dialogs are answered by `AnswerPrompt` and `AnswerDialog`.
* `proc[p]` is a backend process: booting, listening, gone but not yet reported (`OnExit`), whether a signal was sent, and
  in `note` (a history) why the application may have lost it. `backendProcess`, `appClosing`, `appRelaunching`,
  `backendCrashDialogOpen` and `mainWindow` are the variables of `index.ts`.
* `autoSyncTimer`, `captured` and `syncConfig` are the timer, what a start has read of the settings, and the file.
* Several instances may run, since the code takes no single-instance lock; TLC has one, which is launched twice.

### Session and Frontend

* JavaScript runs a handler to its end, so a handler is a function on `[s |-> session, a |-> app]`, composed from the
  functions of what it calls; an action is a click, an answer or a timer. `Session` holds those of `session.service.ts`.
* A text is the path it was loaded from and the number of its last edit. `app` has the page, the pending navigation, the
  document, the editor's text and its initial text, the flag `isSavingDocument`, the dialog, the pending insertions, the
  uploads, and the loads in flight; `session` has the token, its validity, the timer, and the requests in flight.
* The actions of the toolbar are those it enables (`activeActions`), so a click on a disabled one does not happen.
* A write takes effect on the backend when it is answered, or perhaps when its answer is lost. An empty text is refused.
* `login` counts the logins in flight and `app.loading` is the flag of the page that sent the last one: a page that is left and
  entered again may send a second, and the first is answered all the same.
* The flag `redirected` of `WaitComponent` has no variable: the component goes with the page that `LeaveWait` takes away.

### Panels

One of six components per behaviour (`kind`), what the backend holds of its entries (`stored`), and its requests: `reads` for
the list, `writes` for the rest. Handlers are functions as in `Frontend`. A request is served by the backend (`ServeRead`,
`ServeWrite`) some time before it is answered, so that answers cross; one whose answer is lost was served before or never.

| Component | Actions |
|---|---|
| attachments | `ChooseFile`, `Upload`, `ConfirmOverwrite`, `requestDeleteAttachment`, `ConfirmRemoval`, `InsertAttachment`, `CloseAttachments` |
| versions | `loadVersion`, `requestDeleteVersion`, `deleteVersion`, `CloseVersions` |
| trash | `AskAboutEntry`, `ChangeTrash` |
| accounts | `openCreateDialog`, `openEditDialog`, `saveAccount`, `deleteAccount` |
| search, sidebar | `Search`, `ShowDocument` |

`Regular` are the files whose lower-case name is the one the backend stores: of the others (a blank, an accent in the name) the
component never notices that the name is taken, and replaces without asking; `NoSilentOverwrite` leaves them out. An
account created under an existing name replaces the data of that account, which no property forbids.

### Assumptions of the models

* Clocks of the hosts agree, and no two stores of `Sync` happen at the same instant. The planner compares times of
  different hosts, so nothing can be said of it without the first; without the second, equal times would hide an edit.
  (`DocumentStore` has stores in the same millisecond.)
* `sync.json` belongs to one pair of backends. (The file is not keyed by server: pointing the desktop at
  another remote makes it infer deletions from the old one's snapshots.)
* The archive of a backend arrives as it was made: transport corruption is refused by the code and not modelled.
* `rename`, `mkdir` and the removal of one directory are atomic, as the file system makes them; permissions are granted.
* Electron and Node.js behave as stated at the head of `DesktopLifecycle`; Angular's router gives up a pending navigation
  for the next one, and closes dialogs with the browser's history only.
* The frontend's engine is initialized, not in local mode, and its information is loaded.

## 3. Runs

| Run | Question | Bounds | Result |
|---|---|---|---|
| `atomic_sync` | is the plan right for every input? | 2 paths, 3 times, all previous states and snapshots | 65 792 states, holds |
| `sync_faults` | is one desktop safe amid users and faults? | root document above a child, archive times coarser than file times, 2 stores, 1 removal, 1 fault | 1 615 839 states, holds |
| `sync_live` | do backends converge again and are locks released? | 1 path, coarse archive times, 2 stores, 1 removal, 1 fault | 315 534 states, holds |
| `store` | what do interleaved requests and a crash do to documents, versions and trash? | 4 paths of two names, 2 initial trees, 2 requests, 3 instants, 1 crash | 703 776 states, holds |
| `datasets` | what do concurrent requests, logins and initialization keep? | 2 accounts, 2 documents, 2 requests, 2 tokens, 1 document gone or back, 1 crash, 3 modes | 2 068 965 states, holds |
| `desktop` | is the backend process kept, noticed, released, and the timer right? | 1 instance, 2 processes, 2 launches, 1 kill, 1 save of the synchronization settings, macOS and Linux with and without its icon | 276 514 states, holds |
| `frontend` | do texts stay with their documents and authorizations with their token? | 2 documents, a guest and 2 tokens; 1 navigation, 2 edits, 2 writes, 2 logins, 1 expiration, 4 of these in all | 2 947 575 states, holds |
| `panels` | do lists show what the backend holds, and is nothing replaced unasked? | 2 entries, 2 files stored under one name, 2 queries; 3 changes, 2 by others, 1 answer lost, 3 searches | 920 274 states, holds |
| `sync_resurrection` | are removals always propagated? | 1 desktop, 1 path, 1 removal | violated, see findings |
| `sync_zip_times` | are equal documents left alone? | coarse archive times, 1 store | violated |
| `sync_invented_deletion` | are only removals propagated? | 2 desktops, 1 store, no removal, no fault | violated |
| `sync_subtree` | does a run converge on a tree? | parent and child, 1 store, 1 removal | violated |

**Why the bounds are enough.** A conflict needs two stores (one on each side) or a store and a removal; a stale
plan needs one of them inside a run; recovery needs one fault and a second run, and runs are not bounded. Paths
interact only through `Subtree` and the order of a list, so two paths, one above the other, show all of it; where
no tree matters one path is used. Initial states are every set of equal documents on all backends, either never
synchronized or synchronized just before, which the code reaches by copying a dataset or by a first run.
Granularity 2 makes every odd time change in an archive; Granularity 1 is an archive with exact times.

`NoIdleTransfer` is only checked where it fails, with the archive times that the code produces; with exact times it is a
theorem. Two desktops occur in `sync_invented_deletion` only: with coarse archive times they need not converge, since an edit
less than one archive unit later than a copy can come out equal in time to it (see what the proofs found); with exact times
they do, by `QuietRunsConverge`. `sync_live` has no root document among its paths: a root missing from one snapshot is
planned for deletion on the other side, which refuses it at every run (`DeleteRootFails`), so nothing converges.

`store`: two requests are what it takes for a look and a change to be separated by another's change, and a crash in
either is a third party; four paths give a parent, a child, a sibling whose name begins with the other's, and the root;
the two trees differ in what is taken where a trash entry would go. Three instants let names coincide or not.
`datasets`: the same for two readings and writings; two accounts are one that acts and one that is acted on, and a third
change only repeats what two can do to one file. `desktop`: two processes are an old backend and its successor, two
launches an application and its relaunch. Several instances at once are allowed by the module and left to a later, larger
instance. `frontend`: one navigation, one expiration and two logins race two edits and two writes; of these seven events four
happen in a behaviour, in every combination and order. The loads and verifications are not bounded. `panels`: a removal, an upload
and a third write are what it takes for one's refresh to lower the other's flag and to let the user act in between. `DocumentStore`, `Datasets`,
`DesktopLifecycle`, `Frontend` and `Panels` may stop when all bounds are reached, hence `CHECK_DEADLOCK FALSE`.

**What the properties say.**

* `PlanIsUnambiguous`, `PlanConverges`, `ModificationSurvives`, `DeletionHasCause`, `SyncIsIdempotent`,
  and the theorem `Symmetry`: of a plan, for arbitrary inputs. `ModificationSurvives` leaves out one case on purpose: a document
  stored on a backend at a path which that backend's persisted snapshot lacks, while the persisted snapshot of the
  other backend has it and that backend has lost it. The code treats the missing time as "not modified"
  (`sync-planner.ts:101`) and deletes the new document; the two persisted snapshots differ only if users acted during
  the previous run.
* `ExclusiveExchange`: at most one exchange per backend, and the flag is set exactly during one.
* `QuietSyncConverges`: a run that succeeds with nobody else acting during it leaves equal documents, whatever
  happened before, including half-finished runs and outdated `sync.json`. It holds where removing a document takes no
  others along (`sync_subtree` shows the other case) and with one desktop or exact archive times.
* `ContentKept`: a synchronization destroys nothing: content leaves a tree only for the trash. The exception, stated in
  the property, is what a user stores at a path between an import's removal and its copy: the copy overwrites it.
* `NoInventedDeletionUnlessFaults`: with one desktop and no fault, what a synchronization deletes was removed by a user.
* `NoStaleTransfer`: a run that nobody disturbs transfers no older document over a newer one, although archives round
  times down and earlier runs may have been interrupted anywhere.
* `NoIdleTransfer`: equal documents are not transferred; violated, see the findings, but for exact archive times.
* `AlwaysConvergesAgain`, `FlagIsReleased`: liveness.
* `DocumentStore`: `ContentKept`, content leaves tree, versions and trash only where somebody asks for it, with the
  windows of the code spelled out (content that came in after a store looked, names of the same millisecond); a versioned
  store keeps what it replaces even across a crash. `DamageHasCause`, a truncated or mixed file has a store under way, a
  crash or an overlap behind it. `AloneNeverFails`, a request nobody disturbs does not answer 500 half-way, except where the
  destination of a move or the name of a trash entry is taken and only the rename or mkdir notices. `AtomicTree`, the
  refinement. All of them look at the contents of `content.md` and versions; that a removal entry by entry parts a document
  from its attachment for a moment, or by a crash for good, is in the model and in no property.
* `Datasets`: `UpdatesAreExact`, a change of one account, role, password or pin changes that alone. `RemovedStaysRemoved`, a
  removed account comes back only by storing it, or by a request under way during the removal. `AuthorityIsGranted`, nobody
  holds an authorization that no administrator gave with a role. `FilesAreSound`,
  `InitializedIsComplete` and `AccountsOutliveInitialization` say what holds unless writes overlapped or a crash ended one:
  each names the exception that the missing lock makes. Lost updates are such an exception: the properties bound them to the
  requests that another has overtaken. That no document is pinned twice holds without one.
* `DesktopLifecycle`: `BackendsOwned`, no live backend is forgotten by its instance, but for one spawned after before-quit and
  those of a killed instance. `RelaunchFindsPortFree`, the
  backend is gone before `app.relaunch()`; the exceptions it names are real: a second save finds the first one's victim
  "killed" and does not wait for it. `CrashNoticed`, a started instance without a backend shows the dialog, but for one whose
  relaunch was given up (`appRelaunching` stays set) and for a backend that exits while the dialog that started it still waits.
  `TimerFollowsConfig`, the timer is armed exactly when the file enables it, unless a save overlapped a start, which
  then configures what it had read. `HandlersEnd`, liveness.
* `Frontend`: `OneWrite`, the flag is raised exactly while a write is in flight. `SavedTextBelongs`, a document is saved with
  a text that came from it, unless a text arrived on another page, which nothing prevents (an unanswered load
  of a page that was left, a version chosen in a dialog behind which the page changed), or an earlier login is answered behind
  the dialog of an image and changes the page. `TypedTextKept`, text that has been typed and not saved stays in the editor until the backend holds it, whatever else is answered, refused, lost, verified or expires. It may go when the
  user gives it up (discards it, restores a version, leaves the page at once or by a navigation that has waited); when the
  session ends, that is, the token expires and the bootstrap that follows fails, on which the application goes to the login
  and drops the text without asking (`session.service.ts:148`, `app.ts:682`); and when an answer overtakes it: of a load in flight
  when editing began, of an earlier login, of a move or a removal, or of a save that was sent before the text was typed, which
  closes the editor and loads what was saved (`app.ts:536`). These are the ways the code has; the property says there are no
  others. `SessionSettles`, once all is answered the session is ready, valid exactly with a token, and
  the page shows that token's authorizations, unless the session changed while an answer was awaited, since
  answers are taken for whatever token is current.
* `Panels`: `ListIsCurrent`, once all is answered a list is the backend's and belongs to what was asked for last, with the
  exceptions of the code spelled out (changes by others, an answer lost where the component does not look again, two lists of
  attachments crossing, a dialog closed while an attachment is being removed). `NoSilentOverwrite`, an upload replaces an
  attachment only where the user agreed or the list could not show it.

**Fairness.** `Orchestrator(d)` is weakly fair: the timer of `configureAutoSync` fires again and again and a run in
progress is a promise chain that continues. `Handler(b)` is weakly fair: file operations end. Users and faults are
not fair. In `DesktopLifecycle` every await ends, since polls and stops have timeouts, files are read and written and the
user answers the dialogs shown; an application that quits ends some time later; processes owe nothing. The other
modules state no fairness and are checked for safety. Convergence is `[]<>` and not `<>[]`: with coarse archive times a document is transferred again in
every run, and is absent from its target for a moment each time.

**Findings.** Four places where the code departs from `ARCHITECTURE.md`, each with a run whose trace shows it:
a removal made between import and final snapshot is undone by the next run (`sync_resurrection`); archives do not
preserve times (`sync_zip_times`); a snapshot taken during an import shows a document missing and another desktop
deletes its copy (`sync_invented_deletion`); propagating a removal of a parent removes a child the plan keeps
(`sync_subtree`). The crash variant of the third (a backend restarting between removal and copy) violates
`NoInventedDeletion` with one desktop too.

## 4. Proofs

The proofs leave every constant arbitrary: any number of requests, desktops, instances, paths and accounts, any time unit,
any bounds. Their assumptions are those named in the modules, which TLC evaluates with every run of the module, and each
is a fact about values or about what the program starts from:

| Assumption | Says |
|---|---|
| `NamesAssumption`, `SubtreeAssumption`, `BoundsAssumption` of `Sync` | names are distinct; `Subtree[p]` contains `p` and, with a path, all that is below it; the root document is below no other; the time unit is positive, bounds are naturals |
| `AbsentIsNoTime`, `NoStateIsNoState`, `MaxTimeIsTime` of the planner and `AtomicSync` | the markers are no times and no states |
| `DocumentStoreAssumption` | a path is a sequence of names, contents are numbered, the markers are none of them, bounds are naturals |
| `InitialDirsAssumption` | the initial directories are a tree with both roots; nothing in them is truncated or damaged yet |
| `DatasetsAssumption`, `InitialFilesAssumption` | roles and modes are those of the code, `Nothing` is no account or document; the backend starts with all its files, whole, or with none |
| `LifecycleAssumption` | `None` is no instance and no process, the settings are on or off, bounds are naturals |
| `FrontendAssumption` | `Home` is a document, the routes of the application (`applicationPaths`, `app.ts:72`) and `None` are none, a guest's token authorizes to read and no more (`accounts.service.ts:117`), bounds are naturals |
| `PanelsAssumption` | the backend makes one entry of every file, the account of the session is an entry, `None` is no entry, file or query, bounds are naturals |

`AtomicSyncProofs`: the type invariant is inductive by itself, and each property of a plan follows from it in one
state, because a plan only depends on its inputs. `FirstPlan` and `LaterPlan` state membership of one path in each of
the four lists; the theorems split on the first or a later synchronization and combine those facts path by path.

### Synchronization

`Inv == TypeOK /\ ExclusiveExchange /\ ReplyIsAwaited` is inductive by itself; it says who runs what for whom.

* Neither of the first two is inductive alone: an answer moves its run to `After[phase]`, which is only a phase when
  the run was waiting; and a handler that ends resets the flag, which is right only if no other is running.
* `ReplyIsAwaited` is there for the induction only. A handler with a desktop is the one request of that desktop's current
  phase, as the promise chain of the code has it, and the plan has actions for that phase (or `SkipRequest` could leave the
  phase while a request is under way).
* Each of `TypeStep`, `ExclusiveStep`, `ReplyStep` has a step per action or group of actions that change the same
  variables; `HandlerGoesOn`, `UpdateExclusive`, `FinishExclusive`, `KeepAwaited`, `UpdateAwaited`, `FinishAwaited`
  are what those groups have in common.
* `NothingIsDestroyed` proves the action property `ContentKept` from `Inv`: `MovedContent` for the three actions that
  use the trash, `WrittenContent` for the two that overwrite, and the rest leave trees and trash alone.

What a synchronization achieves needs more than that: snapshots, plan, archives and trees over a whole run. `SyncInv` adds
the following, which `SyncInvariance` proves together with `Inv`. `Archives`, `Deletes`, `Replaces`, `Copies` and `Ends` say
what a step of a handler does to its record, the trees and the run that waits; the proofs cite them and open the
actions again only for what these leave unchanged.

* `PlanInv`: what runs and handlers have of a plan, whoever interferes. No path is both retrieved from one side and deleted or
  retrieved on the other (`Unambiguous`), archives have planned documents only, a handler's lists are those of its run's
  plan, a root document that was to be deleted has stopped the run, and at most one document at a time is out of its place in an import.
* `QuietInv`: what a run that nobody disturbs knows of its two backends (`QuietRun`, a predicate on trees, run and handlers, so
  that its lemmas speak of values and not of steps). The snapshots are the trees' times, as far as
  they have been read; unlisted documents have equal times; what is
  to be deleted is missing opposite; what has been answered is deleted, or in the archive as it is; what has been imported is
  the same on both sides. This is said of a path only if it is `Free`, with no planned deletion above it. Before the first
  request, every transfer goes from the later time to the earlier (`Forward`).
* `QuietRunsAgree` follows for any number of desktops, any tree and any time unit: such a run persists the true snapshots, and at
  every free path the trees have the same document, or documents of the same time.
* `TimeInv` and `AloneInv` say what times tell. A time is that of the content or, by an archive, earlier, and never with exact
  times. With one desktop, of two documents at a path, the later content still has its own time: archives only travel from where a
  document is at least as new, also those of abandoned requests (`Leaving`). So equal times are equal contents
  (`TimesTell`), and `QuietRunsConverge` proves `QuietSyncConverges`. Its hypotheses are those whose absence refutes it: a document
  below a deleted one is not free (`sync_subtree`), and two desktops with coarse times defeat `TimesTell`.
* `TransfersAreNotStale`: with the same hypothesis on times, an undisturbed run transfers no older document over a newer one, in
  any tree. `ExactTimesSaveTransfers`: with exact times it transfers none over an equal one (`NoIdleTransfer`).
* `CauseInv` is for a lone desktop before the first fault. A time in `sync.json` or in a snapshot is `Explained`: the document is
  there, an import is about to put it back, or a user removed it or a document it was below. A snapshot is taken when no request
  is under way, so a document it misses was removed by a user, and so was everything the plan deletes.
  `DeletionsExplained` says so of every removal of a synchronization in any tree, and `NoDeletionIsInvented` proves
  `NoInventedDeletionUnlessFaults` where a removal takes no others along. A second desktop or a fault lets a snapshot fall into an import (`sync_invented_deletion`).

### Document store

`DocumentStoreTypes` proves `TypeOK` from `TypeInv`, which is inductive:

* `PlacesInv`: the locations are a tree (`IsTree`): every prefix of a location is one, and what is directly in the trash is
  named after an instant and a document. This is what a rename, a recursive mkdir and an rm must preserve, and the rename only
  does because of `CanRename`: not below itself, not onto a directory with something in it.
* `FilesInv`: every directory holds files of the right kinds. `RequestsInv`: a request is at an operation of its kind
  (`Operations`), and its locations have the shape (`Shape`) that its kind gives them: a destination in the tree, a source in the
  trash, and so on. Without the shapes, a move could not be told from a recovery and `PlacesInv` is not preserved.
* For every file operation there is one lemma with all its effects (`...Effect`) and one that says it preserves the types
  (`...Type`); later proofs cite the first and never open the action again.

`DocumentStoreProofs` builds on them:

* `DamageNeedsCause`. `DamageInv` has four parts: an open file that has not been removed is there (`WritersInv`), a
  truncated file is open (`TornInv`), one request at a time has a file open unless stores overlapped (`ExclusiveInv`), and nothing
  kept is a mixture (`UndamagedInv`). Steps fall in three groups: those that leave every `content.md` alone (`Quiet`), those
  that carry it along, together with the requests that have it open (`Carried`, with `Still` and the renames), and
  the three steps of a store that remain.
* `NothingIsLost` needs `SeenInv`: what a store with versioning has looked at is still a version somewhere when it opens the
  file. See the finding below.
* `AloneSucceeds` proves `AloneNeverFails` from `AloneInv`: a request that nobody disturbed finds, at each
  operation, what that operation relies on (`Relies`), since it has looked or made it itself.
* `StoreIsAtomic` is the refinement, `Spec => AtomicTree`. `FreshInv` says that what a store will write is in no file yet, so that
  new content is new to the tree as well. Each file operation is then shown to be the store, the move of a subtree, the removal or
  the damage of the abstract tree, or not to be visible in it; `DocsOf` is pushed through `Renamed` by lemmas on prefixes.

### Datasets

`TypeInv` (files, requests, session) is inductive and gives `TypeOK`; each property of the run has a theorem.

* `AuthorityOnlyByGrant` from `AuthorityInv`: the roles in the file, those that any request has read and is
  about to write back, and those of the tokens have all been granted; a profile that stores the role it read earlier
  is the case it is needed for.
* `InitializationIsComplete` and `InitializationReplacesNothing` from `CreationInv`: which files exist while an initialization is at
  each of its steps.
* `FilesStaySound` from `OverlapInv`: what a request has read is what the file holds until `outdated` is raised (`Current`),
  and a request that opened a file and is not outdated finds it empty (`Alone`).
* `RequestsDoWhatTheyAskFor` and `AccountsStayRemoved` are action properties that follow from the same invariants and from
  what each change does to accounts and pins (`UpdatesAreExact` for every list of pins and every set of accounts).

### Desktop lifecycle

* `TypeCorrect` holds for any number of instances, `Waits` being what each handler can wait for.
* `BackendInv` is inductive: an instance's process is its own (`InstanceInv`), and a process without an instance was told to
  stop or belonged to an instance that was killed (`OrphanInv`). `NoBackendForgotten` and `PortFreeForRelaunch` follow in one state.
* `CrashesAreNoticed` strengthens it by `CrashInv`: the flag of the dialog is up while its handler is at work, and an instance
  that has lost its backend asks or was told; `TimerIsConfigured` by
  `TimerInv`, about what a start has captured and which saves overlap it.

### Panels

Handlers are functions on `x = [p |-> panel, r |-> reads, w |-> writes]`, so the proof first computes them: a lemma for each says
field by field what it makes of any such state (`RequestedEffect`, `SubmittedEffect`, `ListedEffect`, `AnsweredEffect`, ...), and
`Steps` sums the 27 actions up in nine kinds of step, each a predicate on the variables. The invariants are shown kind by kind.

* `ControlInv`: on the pages that wait (`versions`, `trash`, `accounts`), one request at a time is under way, a flag says so and no
  dialog is open meanwhile (`OneRequest`); a dialog that has been closed waits for no list (`ClosedInv`). It is proved together with
  `TypeInv`, since what a dialog may confirm is typed by who may open it.
* `ListsAreCurrent` from `CurrentInv` and `QueryInv`. Without an excuse, either a change has been made whose answer will bring a
  refresh (`Unheard`), or every list that was served is the backend's and one is awaited, or the component shows it already. For the
  search only the request of the last number counts as awaited (`Awaited`), and every request is for a query of its own number.
* `UploadsReplaceNothingUnasked` from `UploadInv`: an attachment may be missing from the list only while an upload's answer or a list is
  awaited (`NothingHidden`), two uploads under way excuse each other (`UploadsOverlap`), and so an open upload onto a name that is
  taken is excused (`ReplacesNothing`). The last needs the first at the instant a file is sent, when the list is consulted.

### Frontend

Router, session and application call each other back within one event, so the handlers of `Session` and `Frontend` are functions
on `x = [s |-> session, a |-> app]`. The proof computes them from the inside out: the methods of the session (`LoggedInEffect`,
`TimerFiredEffect`, ...), then navigation with its guard (`ArrivedEffect`, `AccessResolvedEffect`, `NavigatedEffect`), which ends in one
of few ways: the application stays, enters a document, is sent to the login, or waits for the session. The lemmas `...View`,
`...Token`, `...Session` and `...Keeps` say what these leave of the invariants for any `x`; then there is one lemma per action or
group of actions (`...Step`), and `NextKeeps` puts them together.

* `OneWrite` needs `SavingInv`: the removal is sent by its dialog without looking at the flag again, so its dialog, like those of
  image and versions, must not be open while a write is in flight; it opens only without one, and nothing is sent behind it.
* `SavedTextBelongs` needs `TextInv` (whose text is shown and edited), and `DialogInv` for the image that is pasted into a
  new document and saved by its dialog, behind which the page may have changed. Both hold until a text arrives on another page.
* `SessionSettles` from `SessionInv`: what each stage of a verification and of the bootstrap leaves open, until the session changes while
  an answer is awaited. Who is at the login or on the way to a document may not write (`TokenInv`, `ViewInv`), so that the
  returns to the login leave no editor open; `LoginInv` carries that over a login in flight.
* `TypedTextsSurvive` proves `TypedTextKept` from the same facts, for every action that may come while somebody types: the editor
  keeps the text, or the step is one of those that the property names.

The invariant of a part is dropped only with the history variable that its property names (`crossed \/ TextInv(x0)`,
`overlap \/ SessionInv(x0)`).

### What the proofs found

Where an inductive step failed, either a history recorded too little, a property lacked an exception that the code makes, or an
assumption was missing. The behaviours that show it are mostly longer than the bounds of the runs.

* `outdated` must be raised by the creation of a file (`OpenFile`) as well as by a writing, and in every request that has read
  or tested that file and still has to write it (`HasRead`), an initialization's included: otherwise two that
  overlapped take themselves for undisturbed, and `FilesAreSound` and `UpdatesAreExact` would need further exceptions.
* `seen` must be given up with the last version that keeps it (`StillSeen`): a store looks and copies, its directory is moved
  away, the version is removed at the new place, the directory is moved back, and the store opens a file whose old
  content no version keeps. Four requests are more than the run `store` has; the proof finds it at `SeenInv`. The loss is one
  that a request asked for, by removing the version.
* `TypedTextKept` counts the dialog of a new page among the ways to give a text up. Its confirmation with the path of the current page starts
  editing again from the stored text (`app.ts:781`). The dialog is opened while viewing, but an editor can open behind it: the
  user leaves a page while its image is being written, asks on the other page for a new one at the old path, and a late answer for the
  other page shows a document; the dialog is opened once more, the awaited load opens the editor (`pendingEditPath`), and the
  answer of the write inserts the image, which the confirmation drops. Six counted events show it, the run `frontend` has four.
* `SavedTextBelongs` needs the exception for a login that was sent before another one. Its answer takes the user to the first page
  while a document is shown; the dialog of an image stays open over it and its confirmation saves a text of the page that was left.
* `QuietSyncConverges` needs one desktop or exact times. With two desktops, a time unit of 2 and a single path, TLC finds
  three backends with a document of time 0; one desktop stores at 1 and synchronizes, which leaves the server's copy at time 0. Equal times
  are equal documents for the plan, so the other desktop keeps the old content until somebody edits again.
* With two desktops and archive times, an older document can overwrite a newer one although no user acts during the run, which
  `NoStaleTransfer` says never happens. TLC finds it on one path with a unit of 4: the second desktop stores at 1, the first stores at 2 and
  synchronizes, which leaves the server's copy at time 0, and to the second the server's looks the older. `ARCHITECTURE.md:729` has the
  latest document transferred and `:750` the times of files preserved; `sync.service.ts:299` sets the time that the archive gave,
  which has two-second resolution. It takes edits within one unit; the lost copy is in the trash (`ContentKept`).
* `SubtreeAssumption` had to say that trees are transitive and that the root is below nothing: what is below a removed document
  has that removal as its cause only if trees are transitive, and the removal of a document leaves the root alone only by the second.
* `SessionSettles` depends on what a guest may do: the argument that nobody edits at the login needs that a guest's token does not
  authorize to write, and that the guard admits it to a document needs that it authorizes to read. The assumption is now in
  `FrontendAssumption`.

**Only model-checked:**

* The liveness properties `AlwaysConvergesAgain`, `FlagIsReleased` and `HandlersEnd`, which need fairness and `ENABLED`.
* What a recursive operator computes: the assumptions of `SyncArchive` over its bounded names.

## 5. Hazards without a property

Forty hazards are listed with the code; four have no property because the code is exposed to them. A backend that stops
between the removal and the copy of an import makes the next synchronization delete the other copy, and for a root
document blocks synchronization; a token keeps its authorizations until it expires, whatever happens to
its account; a desktop configuration cut off while it is written stops every later start; a name in upper case in the
datasets makes the other side refuse every archive with it.

Smaller ones seen on the way and left out of the models: the answer of a pin request marks whatever document is shown by
then; a synchronization with changes reloads the window and with it drops unsaved text; a reference to an
image is saved before its upload fails.

Of the others, some bite in a case that the code does not prevent: updates of accounts that overlap, a second save of the
settings during a relaunch, typing during a save. The properties named there hold with that case as an exception, which
they state, and say that nothing else leads to the damage; the hazard's note says which case it is.

## 6. Plan

1. *(done)* Planner, atomic synchronization and its proofs; the protocol, its runs and its theorems; the document store and
   its refinement; the datasets with guard and tokens; the desktop lifecycle; the frontend with its session and
   its panels.
2. *(done)* The safety properties of the synchronization, the document store, the datasets, the desktop lifecycle, the frontend and the panels, and the
   refinement of `DocumentTree`, as theorems.
3. `Sync` implements `AtomicSync` when users are quiet during runs. `QuietRunsAgree` states what such a run ends with; open is the mapping
   of a run that is disturbed or fails, of which `AtomicSync` has no step.

**Not modelled.** Search and rendering change nothing. Routing, schemas, logging and token signatures are stateless. The
release check is a cached answer shown in a dialog. Pulse counts in a database whose transactions do the work. Menus,
the settings window and the choice of directories of the desktop, and the forms of the frontend, hold what a
request returned until they are closed; the tree of destinations loads each node once. The frontend's uninitialized and local modes replace the bootstrap token by another
and open no further interleaving.
