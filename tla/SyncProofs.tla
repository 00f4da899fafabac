----------------------------- MODULE SyncProofs -----------------------------
(***************************************************************************)
(* Proofs about the synchronization protocol, for any number of desktops,  *)
(* any tree of documents, any time unit of archives and any number of      *)
(* edits and faults: the bounds of the runs are constants here.            *)
(*                                                                         *)
(* Inv says who runs what for whom.  PlanInv adds what runs and handlers   *)
(* have of a plan, QuietInv what an undisturbed run knows of its backends, *)
(* TimeInv how old contents and times are, and for a lone desktop AloneInv *)
(* says what is under way between its backends and CauseInv what explains  *)
(* the deletions it asks for.  SyncInv is all of it.                       *)
(***************************************************************************)
EXTENDS Sync, TLAPS

(* What the awaits of runSync mean here, where desktops and handlers meet  *)
(* in `ops`: a desktop has at most one request under way, the one that its *)
(* phase sent to the backend of that phase.                                *)
ReplyIsAwaited ==
    /\ \A o \in ops : o.by # Nobody =>
          /\ run[o.by].phase \in IF o.stage = "import" THEN ImportPhase ELSE ActionsPhase
          /\ o.at = Target(o.by)
          /\ run[o.by].plan[ActingSide(o.by)] # NoActions
    /\ \A o1, o2 \in ops : o1.by = o2.by /\ o1.by # Nobody => o1 = o2

(* The inductive invariant.  Neither type correctness nor mutual exclusion *)
(* is inductive without ReplyIsAwaited: a reply moves its run to the phase *)
(* After the current one, which is a phase only while the run is waiting.  *)
Inv == TypeOK /\ ExclusiveExchange /\ ReplyIsAwaited

----------------------------------------------------------------------------
(* Types of the expressions that the actions are built from.               *)

LEMMA PlanType ==
    ASSUME NEW previous, NEW c, NEW s
    PROVE  planSync(previous, c, s) \in SyncPlan
BY DEF planSync, MergeActions, DeltaActions, SyncPlan, Actions

LEMMA IdleType == Idle \in Run
BY DEF Idle, Run, Phase, NoSnapshots, EmptySnapshot, SyncState, Snapshot,
       NoPlan, NoActions, SyncPlan, Actions, NoZips

LEMMA AfterType ==
    ASSUME NEW phase \in SnapshotPhase \cup ActionsPhase \cup ImportPhase
    PROVE  After[phase] \in Phase
BY DEF After, Phase, SnapshotPhase, ActionsPhase, ImportPhase

LEMMA SnapshotType ==
    ASSUME TypeOK, NEW b \in Backend
    PROVE  SnapshotOf(b) \in Snapshot
BY DEF TypeOK, SnapshotOf, Snapshot, Document

LEMMA MoveType ==
    ASSUME TypeOK, NEW b \in Backend, NEW paths \in SUBSET Path, NEW cause \in Cause,
           MoveToTrash(b, paths, cause)
    PROVE  /\ live' \in [Backend -> [Path -> Document \cup {Absent}]]
           /\ trash' \in [Backend -> SUBSET Trashed]
<1>1. TrashOf(b, paths, cause) \subseteq Trashed
  <2> SUFFICES ASSUME NEW p \in paths, live[b][p] # Absent
               PROVE  [path |-> p, ver |-> live[b][p].ver, by |-> cause] \in Trashed
    BY DEF TrashOf, Contents
  <2>1. live[b][p] \in Document
    BY DEF TypeOK
  <2>2. QED
    BY <2>1 DEF Document, Trashed
<1>2. QED
  BY <1>1 DEF TypeOK, MoveToTrash

LEMMA DisturbType ==
    ASSUME TypeOK, NEW b, NEW by, Disturb(b, by)
    PROVE  quiet' \in [Desktop -> BOOLEAN]
BY DEF Disturb, TypeOK

LEMMA ZipTimeType == \A t \in Time : ZipTime(t) \in Time
BY BoundsAssumption DEF ZipTime, Time

LEMMA TargetType == \A d \in Desktop : Target(d) \in Backend
BY DEF Target, Backend

LEMMA RunningType ==
    ASSUME TypeOK, NEW b, NEW o \in Running(b)
    PROVE  o \in Op /\ o \in ops /\ o.at = b
BY DEF TypeOK, Running

LEMMA RequestType ==
    ASSUME TypeOK, NEW d \in Desktop
    PROVE  /\ Request(d) \in Op
           /\ Request(d).at = Target(d)
           /\ Request(d).by = d
           /\ Request(d).stage = IF run[d].phase \in ActionsPhase THEN "actions" ELSE "import"
<1>1. run[d].plan[ActingSide(d)] \in Actions /\ run[d].zip[ActingSide(d)] \in SUBSET Entry
  BY DEF TypeOK, Run, SyncPlan, Side, ActingSide
<1>2. QED
  BY <1>1, TargetType DEF Request, Op, Actions

LEMMA PendingType ==
    ASSUME NEW o \in Op
    PROVE  Foremost(Pending(o)) \subseteq Path
<1>1. \A e \in o.archive : e.path \in Path
  BY DEF Op, Entry
<1>2. QED
  BY <1>1 DEF Pending, Foremost

LEMMA UpdateType ==
    ASSUME TypeOK, NEW o, NEW next \in Op, Update(o, next)
    PROVE  ops' \in SUBSET Op
BY DEF TypeOK, Update

LEMMA FinishType ==
    ASSUME TypeOK, NEW o, Finish(o)
    PROVE  ops' \in SUBSET Op /\ syncInProgress' \in [Backend -> BOOLEAN]
BY DEF TypeOK, Finish

LEMMA ReplyErrorType ==
    ASSUME TypeOK, NEW o, ReplyError(o)
    PROVE  run' \in [Desktop -> Run]
BY IdleType DEF TypeOK, ReplyError

LEMMA AdvancedType ==
    ASSUME TypeOK, NEW d \in Desktop,
           run[d].phase \in SnapshotPhase \cup ActionsPhase \cup ImportPhase
    PROVE  [run[d] EXCEPT !.phase = After[@]] \in Run
<1>1. run[d] \in Run
  BY DEF TypeOK
<1>2. QED
  BY <1>1, AfterType DEF Run

----------------------------------------------------------------------------
(* Every step of a run preserves the types, one lemma per action whose     *)
(* effect on run is more than a change of phase.                           *)

\* The times that d goes by once it knows that of p.
Stamped(d, p) ==
    [run[d].snap EXCEPT ![SideOf(run[d].phase)][p] = SnapshotOf(Target(d))[p]]

\* GetSnapshot(d) reads p, after which the paths in read have been read.
Reads(d, p, read) ==
    /\ run[d].phase \in SnapshotPhase
    /\ read = run[d].read \cup {p}
    /\ \/ /\ read = Path
          /\ run'[d] = [run[d] EXCEPT !.phase = After[@], !.snap = Stamped(d, p),
                                      !.read = {}, !.listed = {}]
       \/ /\ read # Path
          /\ run'[d] = [run[d] EXCEPT !.snap = Stamped(d, p), !.read = read]

LEMMA ReadStep ==
    ASSUME TypeOK, NEW d \in Desktop, GetSnapshot(d)
    PROVE  \E p \in Path \ run[d].read, read \in SUBSET Path : Reads(d, p, read)
<1>1. PICK p \in Path \ run[d].read :
        LET read == run[d].read \cup {p}
        IN  run' = [run EXCEPT
               ![d].phase = IF read = Path THEN After[@] ELSE @,
               ![d].snap[SideOf(run[d].phase)][p] = SnapshotOf(Target(d))[p],
               ![d].read = IF read = Path THEN {} ELSE read,
               ![d].listed = IF read = Path THEN {} ELSE @]
  BY DEF GetSnapshot, Foremost
<1>2. run[d] \in Run
  BY DEF TypeOK
<1>3. PICK read \in SUBSET Path : read = run[d].read \cup {p}
  BY <1>2 DEF Run
<1>4. /\ read = run[d].read \cup {p}
      /\ run' = [run EXCEPT
             ![d].phase = IF read = Path THEN After[@] ELSE @,
             ![d].snap[SideOf(run[d].phase)][p] = SnapshotOf(Target(d))[p],
             ![d].read = IF read = Path THEN {} ELSE read,
             ![d].listed = IF read = Path THEN {} ELSE @]
  BY <1>1, <1>3
<1>5. run'[d] = [run[d] EXCEPT !.phase = IF read = Path THEN After[@] ELSE @,
                               !.snap = Stamped(d, p),
                               !.read = IF read = Path THEN {} ELSE read,
                               !.listed = IF read = Path THEN {} ELSE @]
  BY <1>4 DEF TypeOK, Stamped
<1>6. CASE read = Path
  BY <1>4, <1>5, <1>6 DEF GetSnapshot, Reads
<1>7. CASE read # Path
  <2>1. run'[d] = [run[d] EXCEPT !.snap = Stamped(d, p), !.read = read]
    BY <1>2, <1>5, <1>7 DEF Run
  <2>. QED  BY <1>4, <1>7, <2>1 DEF GetSnapshot, Reads
<1>. QED  BY <1>6, <1>7

LEMMA GetSnapshotType ==
    ASSUME TypeOK, NEW d \in Desktop, GetSnapshot(d)
    PROVE  TypeOK'
<1>1. run[d] \in Run /\ After[run[d].phase] \in Phase
  BY AfterType DEF GetSnapshot, TypeOK
<1>2. PICK p \in Path \ run[d].read, read \in SUBSET Path : Reads(d, p, read)
  BY ReadStep
<1>3. Stamped(d, p) \in SyncState
  <2>1. SnapshotOf(Target(d)) \in Snapshot
    BY TargetType, SnapshotType
  <2>. QED  BY <1>1, <2>1 DEF Run, SyncState, Snapshot, Stamped
<1>4. run'[d] \in Run
  <2>1. read \in SUBSET Path
    BY <1>1, <1>2 DEF Reads, Run
  <2>2. run'[d] = [run[d] EXCEPT !.phase = run'[d].phase, !.snap = Stamped(d, p),
                                 !.read = run'[d].read, !.listed = run'[d].listed]
    BY <1>1, <1>2 DEF Reads, Run
  <2>3. run'[d].phase \in Phase /\ run'[d].read \in SUBSET Path /\ run'[d].listed \in SUBSET Path
    BY <1>1, <1>2, <2>1 DEF Reads, Run
  <2>. QED  BY <1>1, <1>3, <2>2, <2>3 DEF Run
<1>5. run' \in [Desktop -> Run]
  BY <1>4 DEF GetSnapshot, TypeOK
<1>6. QED
  BY <1>5 DEF GetSnapshot, TypeOK, storeVars, boundVars

LEMMA ListDocumentsType ==
    ASSUME TypeOK, NEW d \in Desktop, ListDocuments(d)
    PROVE  TypeOK'
<1>1. PICK found \in SUBSET Path : run' = [run EXCEPT ![d].listed = @ \cup found]
  BY DEF ListDocuments, Contents
<1>2. [run[d] EXCEPT !.listed = @ \cup found] \in Run
  BY DEF TypeOK, Run
<1>3. run' \in [Desktop -> Run]
  BY <1>1, <1>2 DEF TypeOK
<1>4. QED
  BY <1>3 DEF ListDocuments, TypeOK, storeVars, boundVars

LEMMA MakePlanType ==
    ASSUME TypeOK, NEW d \in Desktop, MakePlan(d)
    PROVE  TypeOK'
<1> DEFINE plan == planSync(prev[d], run[d].snap.client, run[d].snap.server)
<1>1. plan \in SyncPlan
  BY PlanType
<1> HIDE DEF plan
<1>2. [Idle EXCEPT !.phase = "clientActions", !.plan = plan] \in Run
  BY <1>1, IdleType DEF Run, Phase
<1>3. run[d] \in Run /\ [run[d] EXCEPT !.phase = "persist"] \in Run
  BY DEF TypeOK, Run, Phase
<1>4. run' \in [Desktop -> Run]
  BY <1>2, <1>3 DEF MakePlan, TypeOK, plan
<1>5. QED
  BY <1>4 DEF MakePlan, TypeOK, storeVars, boundVars

LEMMA ArchivedType ==
    ASSUME TypeOK, NEW b \in Backend, NEW o \in Op, NEW p \in Contents(b, o.retrieve)
    PROVE  p \in Path /\ p \in o.retrieve /\ Archived(b, p) \in Entry
<1>1. p \in Path /\ p \in o.retrieve /\ live[b][p] \in Document
  BY DEF Contents, Op, TypeOK
<1>2. QED
  BY <1>1, ZipTimeType DEF Document, Entry, Archived

LEMMA CreateArchiveType ==
    ASSUME TypeOK, NEW b \in Backend, CreateArchive(b)
    PROVE  TypeOK'
<1>1. PICK o, p :
        /\ o \in Running(b) /\ p \in Contents(b, o.retrieve)
        /\ Update(o, [o EXCEPT !.retrieve = @ \ {p}, !.archive = @ \cup {Archived(b, p)}])
        /\ UNCHANGED <<storeVars, syncInProgress, run, prev, boundVars, quiet>>
  BY DEF CreateArchive
<1>2. o \in Op
  BY <1>1, RunningType
<1>3. Archived(b, p) \in Entry
  BY <1>1, <1>2, ArchivedType
<1>4. [o EXCEPT !.retrieve = @ \ {p}, !.archive = @ \cup {Archived(b, p)}] \in Op
  BY <1>2, <1>3 DEF Op
<1>5. ops' \in SUBSET Op
  BY <1>1, <1>4, UpdateType
<1>6. QED
  BY <1>1, <1>5 DEF TypeOK, storeVars, boundVars

LEMMA DeleteDocumentType ==
    ASSUME TypeOK, NEW b \in Backend, DeleteDocument(b)
    PROVE  TypeOK'
<1>1. PICK o \in Running(b), p \in Path :
        /\ MoveToTrash(b, Subtree[p], "delete")
        /\ Update(o, [o EXCEPT !.delete = @ \ {p}])
        /\ Disturb(b, o.by)
        /\ UNCHANGED <<syncInProgress, run, prev, boundVars>>
  BY RunningType DEF DeleteDocument, Foremost, Op
<1>2. o \in Op
  BY RunningType
<1>3. /\ live' \in [Backend -> [Path -> Document \cup {Absent}]]
      /\ trash' \in [Backend -> SUBSET Trashed]
  BY <1>1, <1>2, MoveType, SubtreeAssumption DEF Cause
<1>4. [o EXCEPT !.delete = @ \ {p}] \in Op
  BY <1>2 DEF Op
<1>5. ops' \in SUBSET Op /\ quiet' \in [Desktop -> BOOLEAN]
  BY <1>1, <1>4, UpdateType, DisturbType
<1>6. QED
  BY <1>1, <1>3, <1>5 DEF TypeOK, boundVars

LEMMA RemoveReplacedType ==
    ASSUME TypeOK, NEW b \in Backend, RemoveReplaced(b)
    PROVE  TypeOK'
<1>1. PICK o \in Running(b), p \in Path :
        /\ MoveToTrash(b, {p}, "import")
        /\ Update(o, [o EXCEPT !.gap = {p}])
        /\ Disturb(b, o.by)
        /\ UNCHANGED <<syncInProgress, run, prev, boundVars>>
  BY RunningType, PendingType DEF RemoveReplaced
<1>2. o \in Op
  BY RunningType
<1>3. /\ live' \in [Backend -> [Path -> Document \cup {Absent}]]
      /\ trash' \in [Backend -> SUBSET Trashed]
  BY <1>1, <1>2, MoveType DEF Cause
<1>4. [o EXCEPT !.gap = {p}] \in Op
  BY <1>2 DEF Op
<1>5. ops' \in SUBSET Op /\ quiet' \in [Desktop -> BOOLEAN]
  BY <1>1, <1>4, UpdateType, DisturbType
<1>6. QED
  BY <1>1, <1>3, <1>5 DEF TypeOK, boundVars

LEMMA CopyImportedType ==
    ASSUME TypeOK, NEW b \in Backend, CopyImported(b)
    PROVE  TypeOK'
<1>1. PICK o \in Running(b), e \in Entry :
        /\ live' = [live EXCEPT ![b][e.path] = [ver |-> e.ver, time |-> e.time]]
        /\ Update(o, [o EXCEPT !.gap = {}, !.archive = @ \ {e}])
        /\ Disturb(b, o.by)
        /\ UNCHANGED <<trash, syncInProgress, run, prev, boundVars>>
  BY RunningType DEF CopyImported, Op
<1>2. o \in Op
  BY RunningType
<1>3. live' \in [Backend -> [Path -> Document \cup {Absent}]]
  BY <1>1, <1>2 DEF TypeOK, Entry, Document
<1>4. [o EXCEPT !.gap = {}, !.archive = @ \ {e}] \in Op
  BY <1>2 DEF Op
<1>5. ops' \in SUBSET Op /\ quiet' \in [Desktop -> BOOLEAN]
  BY <1>1, <1>4, UpdateType, DisturbType
<1>6. QED
  BY <1>1, <1>3, <1>5 DEF TypeOK, boundVars

LEMMA ReplyArchiveType ==
    ASSUME TypeOK, ReplyIsAwaited, NEW b \in Backend, ReplyArchive(b)
    PROVE  TypeOK'
<1>1. PICK o \in Running(b) :
        /\ o.stage = "actions"
        /\ Finish(o)
        /\ run' = [d \in Desktop |->
                      IF d = o.by
                      THEN [run[d] EXCEPT !.phase = After[@],
                                          !.zip[ActingSide(d)] = o.archive]
                      ELSE run[d]]
        /\ UNCHANGED <<storeVars, prev, boundVars, quiet>>
  BY DEF ReplyArchive, HasArchived
<1>2. o \in Op /\ o \in ops
  BY RunningType
<1>3. run' \in [Desktop -> Run]
  <2> SUFFICES ASSUME NEW d \in Desktop, d = o.by
               PROVE  [run[d] EXCEPT !.phase = After[@],
                                     !.zip[ActingSide(d)] = o.archive] \in Run
    BY <1>1 DEF TypeOK
  <2>1. run[d].phase \in ActionsPhase
    BY <1>1, <1>2, NamesAssumption DEF ReplyIsAwaited, Backend
  <2>2. run[d] \in Run /\ After[run[d].phase] \in Phase
    BY <2>1, AfterType DEF TypeOK
  <2>3. [run[d].zip EXCEPT ![ActingSide(d)] = o.archive] \in [Side -> SUBSET Entry]
    BY <1>2, <2>2 DEF Run, Op
  <2>4. QED
    BY <2>2, <2>3 DEF Run
<1>4. QED
  BY <1>1, <1>3, FinishType DEF TypeOK, storeVars, boundVars

LEMMA ReplyImportedType ==
    ASSUME TypeOK, ReplyIsAwaited, NEW b \in Backend, ReplyImported(b)
    PROVE  TypeOK'
<1>1. PICK o \in Running(b) :
        /\ o.stage = "import"
        /\ Finish(o)
        /\ run' = [d \in Desktop |->
                      IF d = o.by THEN [run[d] EXCEPT !.phase = After[@]] ELSE run[d]]
        /\ UNCHANGED <<storeVars, prev, boundVars, quiet>>
  BY DEF ReplyImported
<1>2. run' \in [Desktop -> Run]
  <2> SUFFICES ASSUME NEW d \in Desktop, d = o.by
               PROVE  [run[d] EXCEPT !.phase = After[@]] \in Run
    BY <1>1 DEF TypeOK
  <2>1. run[d].phase \in ImportPhase
    BY <1>1, RunningType, NamesAssumption DEF ReplyIsAwaited, Backend
  <2>2. QED
    BY <2>1, AdvancedType
<1>3. QED
  BY <1>1, <1>2, FinishType DEF TypeOK, storeVars, boundVars

LEMMA TypeStep ==
    ASSUME TypeOK, ReplyIsAwaited, [Next]_vars
    PROVE  TypeOK'
<1>1. ASSUME NEW d \in Desktop, StartSync(d)
      PROVE  TypeOK'
  <2>1. [run[d] EXCEPT !.phase = "clientSnapshot"] \in Run
    BY DEF TypeOK, Run, Phase
  <2>2. QED
    BY <1>1, <2>1 DEF StartSync, TypeOK, storeVars, boundVars
<1>2. ASSUME NEW d \in Desktop, SkipRequest(d)
      PROVE  TypeOK'
  <2>1. [run[d] EXCEPT !.phase = After[@]] \in Run
    BY <1>2, AdvancedType DEF SkipRequest, CarryingOut
  <2>2. QED
    BY <1>2, <2>1 DEF SkipRequest, Advance, TypeOK, storeVars, boundVars
<1>3. ASSUME NEW d \in Desktop, SendRequest(d)
      PROVE  TypeOK'
  BY <1>3, RequestType, TargetType DEF SendRequest, TypeOK, storeVars, boundVars
<1>4. ASSUME NEW d \in Desktop, SnapshotFails(d) \/ RequestRefused(d)
      PROVE  TypeOK'
  BY <1>4, IdleType DEF SnapshotFails, RequestRefused, TypeOK, storeVars, boundVars
<1>5. ASSUME NEW d \in Desktop, Persist(d)
      PROVE  TypeOK'
  BY <1>5, IdleType DEF Persist, TypeOK, Run, storeVars, boundVars
<1>6. ASSUME NEW d \in Desktop, LoseConnection(d)
      PROVE  TypeOK'
  <2>1. \A o \in ops : [o EXCEPT !.by = Nobody] \in Op
    BY DEF TypeOK, Op
  <2>2. ops' \in SUBSET Op
    BY <1>6, <2>1 DEF LoseConnection, TypeOK
  <2>3. QED
    BY <1>6, <2>2, IdleType DEF LoseConnection, TypeOK, storeVars
<1>7. ASSUME NEW b \in Backend, ArchiveFails(b) \/ DeleteRootFails(b)
      PROVE  TypeOK'
  BY <1>7, FinishType, ReplyErrorType
  DEF ArchiveFails, DeleteRootFails, TypeOK, storeVars, boundVars
<1>8. ASSUME NEW b \in Backend, Crash(b)
      PROVE  TypeOK'
  BY <1>8, IdleType DEF Crash, TypeOK, storeVars
<1>9. ASSUME NEW b \in Backend, NEW p \in Path, StoreDocument(b, p)
      PROVE  TypeOK'
  <2>1. [ver |-> clock + 1, time |-> clock + 1] \in Document
    BY DEF TypeOK, Document, Time
  <2>2. live' \in [Backend -> [Path -> Document \cup {Absent}]]
    BY <1>9, <2>1 DEF StoreDocument, TypeOK
  <2>3. QED
    BY <1>9, <2>2, DisturbType DEF StoreDocument, TypeOK
<1>10. ASSUME NEW b \in Backend, NEW p \in Path, RemoveDocument(b, p)
       PROVE  TypeOK'
  <2>1. /\ live' \in [Backend -> [Path -> Document \cup {Absent}]]
        /\ trash' \in [Backend -> SUBSET Trashed]
    BY <1>10, MoveType, SubtreeAssumption DEF RemoveDocument, Cause
  <2>2. QED
    BY <1>10, <2>1, DisturbType DEF RemoveDocument, TypeOK
<1>11. CASE UNCHANGED vars
  BY <1>11 DEF vars, TypeOK
<1>12. QED
  BY <1>1, <1>2, <1>3, <1>4, <1>5, <1>6, <1>7, <1>8, <1>9, <1>10, <1>11,
     ListDocumentsType, GetSnapshotType, MakePlanType, CreateArchiveType, DeleteDocumentType,
     RemoveReplacedType, CopyImportedType, ReplyArchiveType, ReplyImportedType
  DEF Next, Orchestrator, Handler

LEMMA InitInv == Init => Inv
<1> SUFFICES ASSUME Init PROVE Inv
  OBVIOUS
<1>1. TypeOK
  <2> DEFINE times(initial) == [p \in Path |-> IF p \in initial THEN 0 ELSE Absent]
  <2>1. PICK initial \in SUBSET Path :
          /\ live = [b \in Backend |->
                        [p \in Path |-> IF p \in initial THEN [ver |-> 0, time |-> 0]
                                        ELSE Absent]]
          /\ \/ prev = [d \in Desktop |-> NoState]
             \/ prev = [d \in Desktop |-> [client |-> times(initial), server |-> times(initial)]]
    BY DEF Init
  <2>2. live \in [Backend -> [Path -> Document \cup {Absent}]]
    BY <2>1 DEF Document, Time
  <2>3. times(initial) \in Snapshot
    BY DEF Snapshot, Time
  <2> HIDE DEF times
  <2>4. prev \in [Desktop -> SyncState \cup {NoState}]
    BY <2>1, <2>3 DEF SyncState
  <2>5. QED
    BY <2>2, <2>4, IdleType DEF Init, TypeOK
<1>2. ExclusiveExchange /\ ReplyIsAwaited
  BY DEF Init, ExclusiveExchange, ReplyIsAwaited, Running
<1>3. QED
  BY <1>1, <1>2 DEF Inv

(* A handler that goes on keeps its backend, its desktop and its request.  *)
LEMMA HandlerGoesOn ==
    ASSUME TypeOK, NEW b \in Backend,
           \/ CreateArchive(b) \/ DeleteDocument(b)
           \/ RemoveReplaced(b) \/ CopyImported(b)
    PROVE  \E o, next :
              /\ o \in Running(b)
              /\ Update(o, next)
              /\ next.at = b /\ next.by = o.by
              /\ next.stage = "import" <=> o.stage = "import"
              /\ UNCHANGED <<syncInProgress, run>>
<1>1. CASE CreateArchive(b)
  <2>1. PICK o, retrieve, archive :
          /\ o \in Running(b)
          /\ Update(o, [o EXCEPT !.retrieve = retrieve, !.archive = archive])
          /\ UNCHANGED <<syncInProgress, run>>
    BY <1>1 DEF CreateArchive
  <2> DEFINE next == [o EXCEPT !.retrieve = retrieve, !.archive = archive]
  <2>2. next.at = b /\ next.by = o.by /\ next.stage = o.stage
    BY <2>1, RunningType DEF Op
  <2>3. QED
    BY <2>1, <2>2
<1>2. CASE DeleteDocument(b)
  <2>1. PICK o, p : /\ o \in Running(b)
                    /\ Update(o, [o EXCEPT !.delete = @ \ {p}])
                    /\ UNCHANGED <<syncInProgress, run>>
    BY <1>2 DEF DeleteDocument
  <2> DEFINE next == [o EXCEPT !.delete = @ \ {p}]
  <2>2. next.at = b /\ next.by = o.by /\ next.stage = o.stage
    BY <2>1, RunningType DEF Op
  <2>3. QED
    BY <2>1, <2>2
<1>3. CASE RemoveReplaced(b)
  <2>1. PICK o, p : /\ o \in Running(b)
                    /\ Update(o, [o EXCEPT !.gap = {p}])
                    /\ UNCHANGED <<syncInProgress, run>>
    BY <1>3 DEF RemoveReplaced
  <2> DEFINE next == [o EXCEPT !.gap = {p}]
  <2>2. next.at = b /\ next.by = o.by /\ next.stage = o.stage
    BY <2>1, RunningType DEF Op
  <2>3. QED
    BY <2>1, <2>2
<1>4. CASE CopyImported(b)
  <2>1. PICK o, e : /\ o \in Running(b)
                    /\ Update(o, [o EXCEPT !.gap = {}, !.archive = @ \ {e}])
                    /\ UNCHANGED <<syncInProgress, run>>
    BY <1>4 DEF CopyImported
  <2> DEFINE next == [o EXCEPT !.gap = {}, !.archive = @ \ {e}]
  <2>2. next.at = b /\ next.by = o.by /\ next.stage = o.stage
    BY <2>1, RunningType DEF Op
  <2>3. QED
    BY <2>1, <2>2
<1>5. QED
  BY <1>1, <1>2, <1>3, <1>4

----------------------------------------------------------------------------
(* Mutual exclusion.  The flags and the handlers change together: a        *)
(* request sets the flag it found free, and what ends a handler -- its     *)
(* reply, its failure, a crash -- resets the flag of the only one there is.*)

LEMMA UpdateExclusive ==
    ASSUME TypeOK, ExclusiveExchange, NEW b \in Backend, NEW o \in Running(b),
           NEW next, next.at = b, Update(o, next), syncInProgress' = syncInProgress
    PROVE  ExclusiveExchange'
BY DEF ExclusiveExchange, Running, Update

LEMMA FinishExclusive ==
    ASSUME TypeOK, ExclusiveExchange, NEW b \in Backend, NEW o \in Running(b), Finish(o)
    PROVE  ExclusiveExchange'
<1>1. o \in ops /\ o.at = b /\ Running(b)' = {}
  BY DEF ExclusiveExchange, Running, Finish
<1>2. ASSUME NEW c \in Backend, c # b
      PROVE  Running(c)' = Running(c) /\ syncInProgress'[c] = syncInProgress[c]
  BY <1>1, <1>2 DEF Running, Finish, TypeOK
<1>3. syncInProgress'[b] = FALSE
  BY <1>1 DEF Finish, TypeOK
<1>4. QED
  BY <1>1, <1>2, <1>3 DEF ExclusiveExchange

LEMMA ExclusiveStep ==
    ASSUME Inv, [Next]_vars
    PROVE  ExclusiveExchange'
<1> USE DEF Inv
<1>1. ASSUME UNCHANGED <<ops, syncInProgress>>
      PROVE  ExclusiveExchange'
  BY <1>1 DEF ExclusiveExchange, Running
<1>2. ASSUME NEW d \in Desktop, SendRequest(d)
      PROVE  ExclusiveExchange'
  <2>1. PICK c \in Backend, request \in Op :
          request.at = c /\ c = Target(d) /\ request = Request(d)
    BY RequestType, TargetType
  <2>2. /\ ~syncInProgress[c] /\ syncInProgress' = [syncInProgress EXCEPT ![c] = TRUE]
        /\ ops' = ops \cup {request}
    BY <1>2, <2>1 DEF SendRequest
  <2>3. Running(c)' = {request} /\ syncInProgress'[c] = TRUE
    BY <2>1, <2>2 DEF ExclusiveExchange, Running, TypeOK
  <2>4. ASSUME NEW b \in Backend, b # c
        PROVE  Running(b)' = Running(b) /\ syncInProgress'[b] = syncInProgress[b]
    BY <2>1, <2>2, <2>4 DEF Running, TypeOK
  <2>5. QED
    BY <2>3, <2>4 DEF ExclusiveExchange
<1>3. ASSUME NEW d \in Desktop, LoseConnection(d)
      PROVE  ExclusiveExchange'
  <2> DEFINE orphan(o) == IF o.by = d THEN [o EXCEPT !.by = Nobody] ELSE o
  <2>1. ASSUME NEW b \in Backend
        PROVE  Running(b)' = {orphan(o) : o \in Running(b)}
    <3>1. \A o \in ops : orphan(o).at = o.at
      BY DEF TypeOK, Op
    <3>2. ops' = {orphan(o) : o \in ops}
      BY <1>3 DEF LoseConnection
    <3> HIDE DEF orphan
    <3>3. QED
      BY <3>1, <3>2 DEF Running
  <2> HIDE DEF orphan
  <2>2. syncInProgress' = syncInProgress
    BY <1>3 DEF LoseConnection
  <2>3. QED
    BY <2>1, <2>2 DEF ExclusiveExchange
<1>4. ASSUME NEW b \in Backend, Crash(b)
      PROVE  ExclusiveExchange'
  <2>1. Running(b)' = {} /\ syncInProgress'[b] = FALSE
    BY <1>4 DEF Crash, Running, TypeOK
  <2>2. ASSUME NEW c \in Backend, c # b
        PROVE  Running(c)' = Running(c) /\ syncInProgress'[c] = syncInProgress[c]
    BY <1>4, <2>2 DEF Crash, Running, TypeOK
  <2>3. QED
    BY <2>1, <2>2 DEF ExclusiveExchange
<1>5. ASSUME NEW b \in Backend,
             \/ CreateArchive(b) \/ DeleteDocument(b)
             \/ RemoveReplaced(b) \/ CopyImported(b)
      PROVE  ExclusiveExchange'
  BY <1>5, HandlerGoesOn, UpdateExclusive
<1>6. ASSUME NEW b \in Backend,
             \/ ArchiveFails(b) \/ DeleteRootFails(b)
             \/ ReplyArchive(b) \/ ReplyImported(b)
      PROVE  ExclusiveExchange'
  <2>1. PICK o \in Running(b) : Finish(o)
    BY <1>6 DEF ArchiveFails, DeleteRootFails, ReplyArchive, ReplyImported
  <2>2. QED
    BY <2>1, FinishExclusive
<1>7. ASSUME NEW d \in Desktop,
              \/ StartSync(d) \/ ListDocuments(d) \/ GetSnapshot(d) \/ SnapshotFails(d)
              \/ MakePlan(d) \/ SkipRequest(d) \/ RequestRefused(d) \/ Persist(d)
       PROVE  UNCHANGED <<ops, syncInProgress>>
  BY <1>7 DEF StartSync, ListDocuments, GetSnapshot, SnapshotFails, MakePlan, SkipRequest, RequestRefused, Persist
<1>8. ASSUME NEW b \in Backend, NEW p \in Path, StoreDocument(b, p) \/ RemoveDocument(b, p)
       PROVE  UNCHANGED <<ops, syncInProgress>>
  BY <1>8 DEF StoreDocument, RemoveDocument
<1>9. UNCHANGED vars => UNCHANGED <<ops, syncInProgress>>
  BY DEF vars
<1>10. QED
  BY <1>1, <1>2, <1>3, <1>4, <1>5, <1>6, <1>7, <1>8, <1>9
  DEF Next, Orchestrator, Handler

----------------------------------------------------------------------------
(* Replies.  A run changes only while it has no request under way, or with *)
(* the handler that ends; and a run that ends leaves its handler to Nobody.*)

LEMMA NotWaiting ==
    ASSUME ReplyIsAwaited, NEW d \in Desktop,
           ~CarryingOut(d) \/ run[d].plan[ActingSide(d)] = NoActions
    PROVE  \A o \in ops : o.by # d
BY NamesAssumption DEF ReplyIsAwaited, CarryingOut, Backend

LEMMA KeepAwaited ==
    ASSUME ReplyIsAwaited, ops' \subseteq ops,
           \A o \in ops' : o.by # Nobody => run'[o.by] = run[o.by]
    PROVE  ReplyIsAwaited'
BY DEF ReplyIsAwaited, Target, ActingSide

LEMMA UpdateAwaited ==
    ASSUME ReplyIsAwaited, NEW o \in ops, NEW next, Update(o, next), run' = run,
           next.by = o.by, next.at = o.at, next.stage = "import" <=> o.stage = "import"
    PROVE  ReplyIsAwaited'
BY DEF ReplyIsAwaited, Target, ActingSide, Update

LEMMA FinishAwaited ==
    ASSUME ReplyIsAwaited, NEW o \in ops, Finish(o),
           \A d \in Desktop : d # o.by => run'[d] = run[d], ops \in SUBSET Op
    PROVE  ReplyIsAwaited'
<1>1. ops' = ops \ {o}
  BY DEF Finish
<1>2. ASSUME NEW other \in ops', other.by # Nobody
      PROVE  run'[other.by] = run[other.by]
  <2>1. other \in ops /\ other # o /\ other.by \in Desktop
    BY <1>1, <1>2 DEF Op
  <2>2. other.by # o.by
    BY <1>2, <2>1 DEF ReplyIsAwaited
  <2>3. QED
    BY <2>1, <2>2
<1>3. QED
  BY <1>1, <1>2, KeepAwaited

LEMMA ReplyStep ==
    ASSUME Inv, [Next]_vars
    PROVE  ReplyIsAwaited'
<1> USE DEF Inv
<1>1. ASSUME NEW d \in Desktop,
             \/ StartSync(d) \/ ListDocuments(d) \/ GetSnapshot(d) \/ SnapshotFails(d)
             \/ MakePlan(d) \/ SkipRequest(d) \/ RequestRefused(d) \/ Persist(d)
      PROVE  ReplyIsAwaited'
  <2>1. /\ ops' = ops
        /\ \A c \in Desktop : c # d => run'[c] = run[c]
    BY <1>1 DEF StartSync, ListDocuments, GetSnapshot, SnapshotFails, MakePlan, SkipRequest, Advance, RequestRefused,
                Persist, TypeOK
  <2>2. \A o \in ops : o.by # d
    <3>1. CASE RequestRefused(d)
      BY <3>1 DEF RequestRefused, Requesting, Waiting
    <3>2. CASE SkipRequest(d)
      BY <3>2, NotWaiting DEF SkipRequest
    <3>3. CASE \/ StartSync(d) \/ ListDocuments(d) \/ GetSnapshot(d)
               \/ SnapshotFails(d) \/ MakePlan(d) \/ Persist(d)
      <4>1. ~CarryingOut(d)
        BY <3>3 DEF StartSync, ListDocuments, GetSnapshot, SnapshotFails, MakePlan, Persist, CarryingOut,
                    SnapshotPhase, ActionsPhase, ImportPhase
      <4>2. QED
        BY <4>1, NotWaiting
    <3>4. QED
      BY <1>1, <3>1, <3>2, <3>3
  <2>3. \A o \in ops : o.by # Nobody => o.by \in Desktop
    BY DEF TypeOK, Op
  <2>4. QED
    BY <2>1, <2>2, <2>3, KeepAwaited
<1>2. ASSUME NEW d \in Desktop, SendRequest(d)
      PROVE  ReplyIsAwaited'
  <2>1. PICK request : /\ request.at = Target(d) /\ request.by = d
                       /\ request.stage = IF run[d].phase \in ActionsPhase
                                          THEN "actions" ELSE "import"
                       /\ ops' = ops \cup {request}
    BY <1>2, RequestType DEF SendRequest
  <2>2. \A o \in ops : o.by # d
    BY <1>2 DEF SendRequest, Requesting, Waiting
  <2>3. /\ run' = run
        /\ run[d].phase \in ActionsPhase \cup ImportPhase
        /\ run[d].plan[ActingSide(d)] # NoActions
    BY <1>2 DEF SendRequest, Requesting, CarryingOut
  <2>4. QED
    BY <2>1, <2>2, <2>3 DEF ReplyIsAwaited, Target, ActingSide
<1>3. ASSUME NEW d \in Desktop, LoseConnection(d)
      PROVE  ReplyIsAwaited'
  <2>1. ASSUME NEW o \in ops', o.by # Nobody
        PROVE  o \in ops /\ o.by \in Desktop /\ o.by # d
    BY <1>3, <2>1 DEF LoseConnection, TypeOK, Op
  <2>2. \A c \in Desktop : c # d => run'[c] = run[c]
    BY <1>3 DEF LoseConnection, TypeOK
  <2>3. QED
    BY <2>1, <2>2 DEF ReplyIsAwaited, Target, ActingSide
<1>4. ASSUME NEW b \in Backend, Crash(b)
      PROVE  ReplyIsAwaited'
  <2>1. ops' = ops \ Running(b)
    BY <1>4 DEF Crash
  <2>2. ASSUME NEW o \in ops', o.by # Nobody
        PROVE  run'[o.by] = run[o.by]
    <3>1. o \in ops /\ o \notin Running(b) /\ o.by \in Desktop
      BY <2>1, <2>2 DEF TypeOK, Op
    <3>2. \A other \in Running(b) : other.by # o.by
      BY <2>2, <3>1 DEF ReplyIsAwaited, Running
    <3>3. QED
      BY <1>4, <3>1, <3>2 DEF Crash
  <2>3. QED
    BY <2>1, <2>2, KeepAwaited
<1>5. ASSUME NEW b \in Backend,
             \/ CreateArchive(b) \/ DeleteDocument(b)
             \/ RemoveReplaced(b) \/ CopyImported(b)
      PROVE  ReplyIsAwaited'
  <2>1. PICK o, next :
              /\ o \in Running(b)
              /\ Update(o, next)
              /\ next.at = b /\ next.by = o.by
              /\ next.stage = "import" <=> o.stage = "import"
              /\ run' = run
    BY <1>5, HandlerGoesOn
  <2>2. QED
    BY <2>1, RunningType, UpdateAwaited
<1>6. ASSUME NEW b \in Backend,
             \/ ArchiveFails(b) \/ DeleteRootFails(b)
             \/ ReplyArchive(b) \/ ReplyImported(b)
      PROVE  ReplyIsAwaited'
  <2>1. PICK o \in Running(b) :
          Finish(o) /\ \A d \in Desktop : d # o.by => run'[d] = run[d]
    BY <1>6 DEF ArchiveFails, DeleteRootFails, ReplyArchive, ReplyImported, ReplyError
  <2>2. o \in ops /\ ops \in SUBSET Op
    BY RunningType DEF TypeOK
  <2>3. QED
    BY <2>1, <2>2, FinishAwaited
<1>7. ASSUME NEW b \in Backend, NEW p \in Path, StoreDocument(b, p) \/ RemoveDocument(b, p)
      PROVE  ReplyIsAwaited'
  BY <1>7, KeepAwaited DEF StoreDocument, RemoveDocument
<1>8. CASE UNCHANGED vars
  BY <1>8, KeepAwaited DEF vars
<1>9. QED
  BY <1>1, <1>2, <1>3, <1>4, <1>5, <1>6, <1>7, <1>8
  DEF Next, Orchestrator, Handler

----------------------------------------------------------------------------
(* The inductive invariant holds of every reachable state.                 *)
LEMMA Invariance == Spec => []Inv
<1>1. Init => Inv
  BY InitInv
<1>2. Inv /\ [Next]_vars => Inv'
  BY TypeStep, ExclusiveStep, ReplyStep DEF Inv
<1>3. QED
  BY <1>1, <1>2, PTL DEF Spec

(* The state keeps its shape: every desktop, whatever it receives and      *)
(* whenever it is interrupted, is in a phase of runSync, and sync.json     *)
(* holds two snapshots or is missing.                                      *)
THEOREM TypeCorrect == Spec => []TypeOK
BY Invariance, PTL DEF Inv

(* Two POST or PUT /sync never run together on a backend, for any number   *)
(* of desktops, and the flag tells exactly whether one is running: after   *)
(* every error, lost connection and restart the next request is accepted.  *)
THEOREM MutualExclusion == Spec => []ExclusiveExchange
BY Invariance, PTL DEF Inv

----------------------------------------------------------------------------
(* Content.  A document leaves the tree of a backend in four actions: two  *)
(* of them move it, with others, to the trash, and two write over it.      *)

LEMMA UntouchedContent ==
    ASSUME UNCHANGED storeVars
    PROVE  KeepsContent
BY DEF KeepsContent, Held, Contents, storeVars

LEMMA MovedContent ==
    ASSUME TypeOK, NEW b \in Backend, NEW paths \in SUBSET Path, NEW cause,
           MoveToTrash(b, paths, cause)
    PROVE  KeepsContent
<1> SUFFICES ASSUME NEW c \in Backend, NEW x \in Held(c)
             PROVE  x \in Held(c)'
  BY DEF KeepsContent
<1>1. trash[c] \subseteq trash'[c]
  BY DEF MoveToTrash, TypeOK
<1>2. CASE x \in {<<t.path, t.ver>> : t \in trash[c]}
  BY <1>1, <1>2 DEF Held
<1>3. CASE x \in {<<p, live[c][p].ver>> : p \in Contents(c, Path)}
  <2>1. PICK p \in Path : live[c][p] # Absent /\ x = <<p, live[c][p].ver>>
    BY <1>3 DEF Contents
  <2>2. CASE c = b /\ p \in paths
    <3> DEFINE t == [path |-> p, ver |-> live[b][p].ver, by |-> cause]
    <3>1. t \in TrashOf(b, paths, cause)
      BY <2>1, <2>2 DEF TrashOf, Contents
    <3>2. t \in trash'[c]
      BY <2>2, <3>1 DEF MoveToTrash, TypeOK
    <3>3. x = <<t.path, t.ver>>
      BY <2>1, <2>2
    <3> HIDE DEF t
    <3>4. QED
      BY <3>2, <3>3 DEF Held
  <2>3. CASE ~(c = b /\ p \in paths)
    <3>1. live'[c][p] = live[c][p]
      BY <2>3 DEF MoveToTrash, TypeOK
    <3>2. QED
      BY <2>1, <3>1 DEF Held, Contents
  <2>4. QED
    BY <2>2, <2>3
<1>4. QED
  BY <1>2, <1>3 DEF Held

LEMMA WrittenContent ==
    ASSUME TypeOK, NEW b \in Backend, NEW p \in Path, NEW document,
           live' = [live EXCEPT ![b][p] = document], trash' = trash,
           \/ clock' > clock /\ document = [ver |-> clock', time |-> clock']
           \/ \E o \in Running(b) : p \in o.gap
    PROVE  KeepsContent
<1> SUFFICES ASSUME NEW c \in Backend, NEW x \in Held(c), x \notin Overwritten(c)
             PROVE  x \in Held(c)'
  BY DEF KeepsContent
<1>1. CASE x \in {<<t.path, t.ver>> : t \in trash[c]}
  BY <1>1 DEF Held
<1>2. CASE x \in {<<q, live[c][q].ver>> : q \in Contents(c, Path)}
  <2>1. PICK q \in Contents(c, Path) : x = <<q, live[c][q].ver>>
    BY <1>2
  <2>2. ~(c = b /\ q = p)
    <3> SUFFICES ASSUME c = b, q = p
                 PROVE  FALSE
      OBVIOUS
    <3>1. live'[b][p] = document
      BY DEF TypeOK
    <3>2. QED
      BY <2>1, <3>1 DEF Overwritten
  <2>3. live'[c][q] = live[c][q] /\ q \in Path /\ live[c][q] # Absent
    BY <2>1, <2>2 DEF TypeOK, Contents
  <2>4. QED
    BY <2>1, <2>3 DEF Held, Contents
<1>3. QED
  BY <1>1, <1>2 DEF Held

(* Whatever a synchronization deletes or replaces is in the trash of the   *)
(* same backend afterwards, for any tree of documents, any number of       *)
(* desktops and any number of faults.                                      *)
THEOREM NothingIsDestroyed == Spec => ContentKept
<1>1. Inv /\ [Next]_vars => [KeepsContent]_vars
  <2> SUFFICES ASSUME TypeOK, Next
               PROVE  KeepsContent
    BY DEF Inv
  <2>1. ASSUME NEW d \in Desktop, Orchestrator(d) \/ LoseConnection(d)
        PROVE  UNCHANGED storeVars
    BY <2>1 DEF Orchestrator, StartSync, ListDocuments, GetSnapshot, SnapshotFails, MakePlan, SkipRequest, SendRequest,
                RequestRefused, Persist, LoseConnection, storeVars
  <2>2. ASSUME NEW b \in Backend,
               \/ CreateArchive(b) \/ ArchiveFails(b) \/ DeleteRootFails(b)
               \/ ReplyArchive(b) \/ ReplyImported(b) \/ Crash(b)
        PROVE  UNCHANGED storeVars
    BY <2>2 DEF CreateArchive, ArchiveFails, DeleteRootFails, ReplyArchive, ReplyImported,
                Crash, storeVars
  <2>3. ASSUME NEW b \in Backend, DeleteDocument(b)
        PROVE  KeepsContent
    <3>1. PICK o \in Running(b), p \in Path : MoveToTrash(b, Subtree[p], "delete")
      BY <2>3, RunningType DEF DeleteDocument, Foremost, Op
    <3>2. QED
      BY <3>1, MovedContent, SubtreeAssumption
  <2>4. ASSUME NEW b \in Backend, RemoveReplaced(b)
        PROVE  KeepsContent
    <3>1. PICK o \in Running(b), p \in Path : MoveToTrash(b, {p}, "import")
      BY <2>4, RunningType, PendingType DEF RemoveReplaced
    <3>2. QED
      BY <3>1, MovedContent
  <2>5. ASSUME NEW b \in Backend, CopyImported(b)
        PROVE  KeepsContent
    <3>1. PICK o \in Running(b), e \in Entry :
            /\ e.path \in o.gap
            /\ live' = [live EXCEPT ![b][e.path] = [ver |-> e.ver, time |-> e.time]]
            /\ trash' = trash
      BY <2>5, RunningType DEF CopyImported, Op
    <3>2. e.path \in Path
      BY DEF Entry
    <3>3. QED
      BY <3>1, <3>2, WrittenContent
  <2>6. ASSUME NEW b \in Backend, NEW p \in Path, StoreDocument(b, p)
        PROVE  KeepsContent
    <3>1. /\ clock' > clock
          /\ live' = [live EXCEPT ![b][p] = [ver |-> clock', time |-> clock']]
          /\ trash' = trash
      BY <2>6 DEF StoreDocument, TypeOK
    <3>2. QED
      BY <3>1, WrittenContent
  <2>7. ASSUME NEW b \in Backend, NEW p \in Path, RemoveDocument(b, p)
        PROVE  KeepsContent
    BY <2>7, MovedContent, SubtreeAssumption DEF RemoveDocument
  <2>8. QED
    BY <2>1, <2>2, <2>3, <2>4, <2>5, <2>6, <2>7, UntouchedContent DEF Next, Handler
<1>2. QED
  BY <1>1, Invariance, PTL DEF Spec, ContentKept

----------------------------------------------------------------------------
(* What a run knows of its plan, whatever the backends hold.               *)

Opposite(side) == IF side = "client" THEN "server" ELSE "client"

BackendOf(d, side) == IF side = "client" THEN d ELSE Server

\* The side whose actions a phase carries out, and the backend it asks.
Acting(phase) == IF phase \in {"clientActions", "serverImport"} THEN "client" ELSE "server"

\* The phases of a run that has a plan, those in which a side has answered its actions,
\* and those in which its archive has been imported by the other.
Planned == Phase \ {"idle", "clientSnapshot", "serverSnapshot", "plan"}

Answered(side) ==
    Planned \ (IF side = "client" THEN {"clientActions"} ELSE {"clientActions", "serverActions"})

Imported(side) ==
    {"clientFinal", "serverFinal", "persist"} \cup
        (IF side = "server" THEN {"serverImport"} ELSE {})

Paths(archive) == {e.path : e \in archive}

Unambiguous(plan) ==
    /\ plan.client.retrieve \cap plan.server.retrieve = {}
    /\ \A s1, s2 \in Side : plan[s1].retrieve \cap plan[s2].delete = {}

RunInv(r) ==
    /\ r.phase = "idle" => r = Idle
    /\ r.phase \notin SnapshotPhase => r.read = {}
    /\ r.phase \notin Planned => r.plan = NoPlan /\ r.zip = NoZips
    /\ Unambiguous(r.plan)
    /\ \A side \in Side : r.phase \in Answered(side) => Root \notin r.plan[side].delete
    /\ \A side \in Side : Paths(r.zip[side]) \subseteq r.plan[side].retrieve

\* What a handler holds, and what it has of the plan of the run that waits for it.
HandlerInv(o) ==
    /\ o.stage # "import" => o.gap = {}
    /\ o.gap \subseteq Paths(o.archive) /\ \A p, q \in o.gap : p = q

AwaitedInv(o, r) ==
    LET side == Acting(r.phase)
    IN  /\ o.stage = "actions" =>
              /\ o.retrieve \cup Paths(o.archive) = r.plan[side].retrieve
              /\ o.delete \subseteq r.plan[side].delete
              /\ Root \in r.plan[side].delete => Root \in o.delete
        /\ o.stage = "import" => o.archive \subseteq r.zip[side]

PlanInv ==
    /\ \A d \in Desktop : RunInv(run[d])
    /\ \A o \in ops : HandlerInv(o)
    /\ \A o \in ops : o.by # Nobody => AwaitedInv(o, run[o.by])

LEMMA Disjoint ==
    ASSUME NEW previous \in SyncState \cup {NoState}, NEW c \in Snapshot, NEW s \in Snapshot
    PROVE  Unambiguous(planSync(previous, c, s))
<1> DEFINE plan == planSync(previous, c, s)
<1>1. \A p \in Path : c[p] \in Nat \cup {Absent} /\ s[p] \in Nat \cup {Absent}
  BY DEF Snapshot, Time
<1>2. ASSUME NEW p \in Path, Outdated(c, s, p), Outdated(s, c, p)
      PROVE  FALSE
  <2>1. c[p] \in Nat /\ s[p] \in Nat /\ c[p] > s[p] /\ s[p] > c[p]
    BY <1>1, <1>2 DEF Outdated, Later
  <2>. QED  BY <2>1
<1>3. CASE previous = NoState
  <2>1. plan = [client |-> MergeActions(c, s), server |-> MergeActions(s, c)]
    BY <1>3 DEF planSync
  <2>2. MergeActions(c, s).retrieve \cap MergeActions(s, c).retrieve = {}
    BY <1>2 DEF MergeActions
  <2>3. MergeActions(c, s).delete = {} /\ MergeActions(s, c).delete = {}
    BY DEF MergeActions
  <2>. QED  BY <2>1, <2>2, <2>3 DEF Unambiguous, Side
<1>4. CASE previous # NoState
  <2> DEFINE a == DeltaActions(previous.client, previous.server, c, s)
             b == DeltaActions(previous.server, previous.client, s, c)
  <2>1. plan = [client |-> a, server |-> b]
    BY <1>4 DEF planSync
  <2>2. a.retrieve \cap b.retrieve = {}
    BY <1>2 DEF DeltaActions, Deleted, Later
  <2>3. /\ a.retrieve \cap a.delete = {} /\ a.retrieve \cap b.delete = {}
        /\ b.retrieve \cap a.delete = {} /\ b.retrieve \cap b.delete = {}
    BY DEF DeltaActions, Deleted, Later
  <2> HIDE DEF a, b
  <2>. QED  BY <2>1, <2>2, <2>3 DEF Unambiguous, Side
<1>. QED  BY <1>3, <1>4

LEMMA NoneDisjoint == Unambiguous(NoPlan)
BY DEF Unambiguous, NoPlan, NoActions, Side

LEMMA IdleRun == RunInv(Idle)
BY NoneDisjoint DEF RunInv, SnapshotPhase, NoPlan, NoActions, Idle, Planned, NoZips, Paths, Side

LEMMA PhaseOf ==
    /\ ActionsPhase \subseteq Planned /\ ImportPhase \subseteq Planned
    /\ "persist" \in Planned /\ Planned \subseteq Phase
    /\ ActionsPhase \cap SnapshotPhase = {} /\ ImportPhase \cap SnapshotPhase = {}
    /\ ActionsPhase \cap ImportPhase = {}
    /\ "idle" \notin Planned /\ "plan" \notin Planned /\ "clientSnapshot" \notin Planned
    /\ "serverSnapshot" \notin Planned
BY DEF Planned, Phase, ActionsPhase, ImportPhase, SnapshotPhase

\* The sides that have answered, and whose archive has been imported, after each phase.
LEMMA Progress ==
    ASSUME NEW phase \in ActionsPhase \cup ImportPhase, NEW side \in Side
    PROVE  /\ Acting(phase) \in Side
           /\ phase \in Planned /\ After[phase] \in Planned /\ After[phase] # "clientActions"
           /\ phase \notin SnapshotPhase
           /\ After[phase] \notin {"plan", "serverSnapshot", "serverFinal", "persist"}
           /\ phase \in ActionsPhase =>
                 /\ After[phase] \in Answered(side) <=> (phase \in Answered(side) \/ side = Acting(phase))
                 /\ After[phase] \notin Imported(side) /\ phase \notin Imported(side)
           /\ phase \in ImportPhase =>
                 /\ phase \in Answered(side) /\ After[phase] \in Answered(side)
                 /\ After[phase] \in Imported(side) <=> (phase \in Imported(side) \/ side = Acting(phase))
                 /\ phase \notin Imported(Acting(phase))
<1>1. CASE phase = "clientActions"
  BY <1>1 DEF ActionsPhase, ImportPhase, Planned, Phase, After, Acting, Answered, Imported, Side, SnapshotPhase
<1>2. CASE phase = "serverActions"
  BY <1>2 DEF ActionsPhase, ImportPhase, Planned, Phase, After, Acting, Answered, Imported, Side, SnapshotPhase
<1>3. CASE phase = "clientImport"
  BY <1>3 DEF ActionsPhase, ImportPhase, Planned, Phase, After, Acting, Answered, Imported, Side, SnapshotPhase
<1>4. CASE phase = "serverImport"
  BY <1>4 DEF ActionsPhase, ImportPhase, Planned, Phase, After, Acting, Answered, Imported, Side, SnapshotPhase
<1>. QED  BY <1>1, <1>2, <1>3, <1>4 DEF ActionsPhase, ImportPhase

\* A run that advances.
LEMMA AdvancedRun ==
    ASSUME NEW r, NEW s, RunInv(r), s.plan = r.plan, s.zip = r.zip,
           r.phase \in Planned <=> s.phase \in Planned, s.phase # "idle",
           s.phase \notin SnapshotPhase => s.read = {},
           \A side \in Side : s.phase \in Answered(side) =>
               r.phase \in Answered(side) \/ Root \notin r.plan[side].delete
    PROVE  RunInv(s)
BY DEF RunInv

\* Handlers that stay, or leave, with runs that stay.
LEMMA AwaitedStays ==
    ASSUME PlanInv, ops \in SUBSET Op, ops' \subseteq ops,
           \A o \in ops' : o.by # Nobody => run'[o.by] = run[o.by],
           \A d \in Desktop : RunInv(run'[d])
    PROVE  PlanInv'
<1>1. \A o \in ops' : HandlerInv(o)
  BY DEF PlanInv
<1>2. \A o \in ops' : o.by # Nobody => AwaitedInv(o, run'[o.by])
  BY DEF PlanInv
<1>. QED  BY <1>1, <1>2 DEF PlanInv

\* What a request brings to its backend.
LEMMA RequestEffect ==
    ASSUME TypeOK, NEW d \in Desktop, run[d].phase \in ActionsPhase \cup ImportPhase,
           NEW side, side = Acting(run[d].phase)
    PROVE  /\ side \in Side
           /\ Request(d).at = IF run[d].phase \in ActionsPhase THEN BackendOf(d, side)
                              ELSE BackendOf(d, Opposite(side))
           /\ Request(d).by = d /\ Request(d).gap = {}
           /\ run[d].phase \in ActionsPhase =>
                 /\ Request(d).stage = "actions" /\ Request(d).archive = {}
                 /\ Request(d).retrieve = run[d].plan[side].retrieve
                 /\ Request(d).delete = run[d].plan[side].delete
           /\ run[d].phase \in ImportPhase =>
                 Request(d).stage = "import" /\ Request(d).archive = run[d].zip[side]
<1>1. ActingSide(d) = side /\ side \in Side
  BY DEF ActingSide, Acting, Side
<1>2. Target(d) = IF run[d].phase \in ActionsPhase THEN BackendOf(d, side)
                  ELSE BackendOf(d, Opposite(side))
  BY DEF Target, ActionsPhase, ImportPhase, ClientPhase, BackendOf, Opposite, Acting
<1>. QED  BY <1>1, <1>2, PhaseOf DEF Request

LEMMA PlanInvInit == Init => PlanInv
<1> SUFFICES ASSUME Init
             PROVE  PlanInv
  OBVIOUS
<1>. QED  BY IdleRun DEF Init, PlanInv

----------------------------------------------------------------------------
(* What the actions do, in the terms of the invariants below.              *)

LEMMA OpsFacts ==
    ASSUME Inv
    PROVE  /\ ops \in SUBSET Op
           /\ \A o \in ops : o.by # Nobody => o.by \in Desktop
           /\ \A o1, o2 \in ops : o1.by = o2.by /\ o1.by # Nobody => o1 = o2
           /\ \A o1, o2 \in ops : o1.at = o2.at => o1 = o2
           /\ \A o \in ops : o.at \in Backend
           /\ \A d \in Desktop : d # Nobody /\ d # Server
BY NamesAssumption DEF Inv, TypeOK, ExclusiveExchange, ReplyIsAwaited, Op, Running, Backend

\* A run that goes on by itself has no request under way.
LEMMA OwnStep ==
    ASSUME Inv, NEW d \in Desktop,
           \/ StartSync(d) \/ ListDocuments(d) \/ GetSnapshot(d) \/ SnapshotFails(d)
           \/ MakePlan(d) \/ SkipRequest(d) \/ RequestRefused(d) \/ Persist(d)
    PROVE  /\ \A o \in ops : o.by # d
           /\ \A c \in Desktop : c # d => run'[c] = run[c]
           /\ UNCHANGED <<ops, live, trash, clock, faults>>
<1>1. \A o \in ops : o.by # d
  <2>1. CASE RequestRefused(d)
    BY <2>1 DEF RequestRefused, Requesting, Waiting
  <2>2. CASE SkipRequest(d)
    BY <2>2, NotWaiting DEF SkipRequest, Inv
  <2>3. CASE \/ StartSync(d) \/ ListDocuments(d) \/ GetSnapshot(d)
               \/ SnapshotFails(d) \/ MakePlan(d) \/ Persist(d)
    <3>1. ~CarryingOut(d)
      BY <2>3 DEF StartSync, ListDocuments, GetSnapshot, SnapshotFails, MakePlan, Persist, CarryingOut,
                  SnapshotPhase, ActionsPhase, ImportPhase
    <3>. QED  BY <3>1, NotWaiting DEF Inv
  <2>. QED  BY <2>1, <2>2, <2>3
<1>2. \A c \in Desktop : c # d => run'[c] = run[c]
  BY DEF StartSync, ListDocuments, GetSnapshot, SnapshotFails, MakePlan, SkipRequest, Advance, RequestRefused,
         Persist, TypeOK, Inv
<1>3. UNCHANGED <<ops, live, trash, clock, faults>>
  BY DEF StartSync, ListDocuments, GetSnapshot, SnapshotFails, MakePlan, SkipRequest, RequestRefused, Persist,
         storeVars, boundVars
<1>. QED  BY <1>1, <1>2, <1>3

LEMMA OwnRun ==
    ASSUME Inv, NEW d \in Desktop
    PROVE  /\ StartSync(d) => run[d].phase = "idle"
                              /\ run'[d] = [run[d] EXCEPT !.phase = "clientSnapshot"]
           /\ ListDocuments(d) =>
                 /\ run[d].phase \in SnapshotPhase
                 /\ \E listed : run'[d] = [run[d] EXCEPT !.listed = listed]
           /\ SnapshotFails(d) => run'[d] = Idle
           /\ SkipRequest(d) =>
                 /\ run[d].phase \in ActionsPhase \cup ImportPhase
                 /\ run[d].plan[Acting(run[d].phase)] = NoActions
                 /\ run'[d] = [run[d] EXCEPT !.phase = After[@]]
           /\ RequestRefused(d) => run'[d] = Idle
           /\ Persist(d) => run[d].phase = "persist" /\ run'[d] = Idle
BY DEF Inv, TypeOK, StartSync, ListDocuments, GetSnapshot, SnapshotFails, SkipRequest, Advance, RequestRefused, Persist,
       ActingSide, Acting, CarryingOut

LEMMA PlanRun ==
    ASSUME Inv, NEW d \in Desktop, MakePlan(d)
    PROVE  LET plan == planSync(prev[d], run[d].snap.client, run[d].snap.server)
           IN  /\ run[d].phase = "plan"
               /\ plan \in SyncPlan
               /\ \/ /\ HasChanges(plan)
                     /\ run'[d] = [Idle EXCEPT !.phase = "clientActions", !.plan = plan]
                  \/ ~HasChanges(plan) /\ run'[d] = [run[d] EXCEPT !.phase = "persist"]
<1> DEFINE plan == planSync(prev[d], run[d].snap.client, run[d].snap.server)
<1>1. plan \in SyncPlan
  BY PlanType
<1>2. run' = [run EXCEPT ![d] = IF HasChanges(plan)
                                THEN [Idle EXCEPT !.phase = "clientActions", !.plan = plan]
                                ELSE [@ EXCEPT !.phase = "persist"]]
      /\ run[d].phase = "plan"
  BY DEF MakePlan
<1> HIDE DEF plan
<1>3. run \in [Desktop -> Run]
  BY DEF Inv, TypeOK
<1>. QED  BY <1>1, <1>2, <1>3 DEF plan

LEMMA SendStep ==
    ASSUME Inv, NEW d \in Desktop, SendRequest(d)
    PROVE  /\ run[d].phase \in ActionsPhase \cup ImportPhase
           /\ \A o \in ops : o.by # d
           /\ \A o \in ops : o.at # Target(d)
           /\ ops' = ops \cup {Request(d)}
           /\ UNCHANGED <<live, trash, run, prev, clock, faults, quiet>>
<1>1. ~syncInProgress[Target(d)] /\ Target(d) \in Backend
  BY TargetType DEF SendRequest
<1>2. \A o \in ops : o.at # Target(d)
  BY <1>1 DEF Inv, ExclusiveExchange, Running
<1>. QED  BY <1>2 DEF SendRequest, Requesting, CarryingOut, Waiting, storeVars, boundVars

\* A handler that ends, and the run that waited for it.
Ends(b, o) ==
    /\ o.at = b
    /\ ops' = ops \ {o}
    /\ \A d \in Desktop : d # o.by => run'[d] = run[d]
    /\ UNCHANGED <<live, trash, prev, clock, faults, quiet>>
    /\ \/ \A d \in Desktop : d = o.by => run'[d] = Idle
       \/ /\ o.stage = "actions" /\ o.retrieve = {} /\ o.delete = {}
          /\ \A d \in Desktop : d = o.by =>
                /\ run[d].phase \in ActionsPhase
                /\ run'[d] = [run[d] EXCEPT !.phase = After[@],
                                 !.zip[Acting(run[d].phase)] = o.archive]
       \/ /\ o.stage = "import" /\ o.archive = {}
          /\ \A d \in Desktop : d = o.by =>
                run[d].phase \in ImportPhase /\ run'[d] = [run[d] EXCEPT !.phase = After[@]]

LEMMA EndStep ==
    ASSUME Inv, NEW b \in Backend,
           ArchiveFails(b) \/ DeleteRootFails(b) \/ ReplyArchive(b) \/ ReplyImported(b)
    PROVE  \E o \in ops : Ends(b, o)
<1>1. \A o \in ops : o.by \in Desktop =>
         run[o.by].phase \in IF o.stage = "import" THEN ImportPhase ELSE ActionsPhase
  BY NamesAssumption DEF Inv, ReplyIsAwaited, Backend
<1>2. \A d \in Desktop : ActingSide(d) = Acting(run[d].phase)
  BY DEF ActingSide, Acting
<1>3. CASE ArchiveFails(b) \/ DeleteRootFails(b)
  <2>1. PICK o \in Running(b) : /\ Finish(o) /\ ReplyError(o)
                                /\ UNCHANGED <<storeVars, prev, boundVars, quiet>>
    BY <1>3 DEF ArchiveFails, DeleteRootFails
  <2>. QED  BY <2>1 DEF Ends, Running, Finish, ReplyError, storeVars, boundVars
<1>4. CASE ReplyArchive(b)
  <2>1. PICK o \in Running(b) :
           /\ o.stage = "actions" /\ o.retrieve = {} /\ o.delete = {} /\ Finish(o)
           /\ run' = [d \in Desktop |->
                         IF d = o.by
                         THEN [run[d] EXCEPT !.phase = After[@],
                                             !.zip[ActingSide(d)] = o.archive]
                         ELSE run[d]]
           /\ UNCHANGED <<storeVars, prev, boundVars, quiet>>
    BY <1>4 DEF ReplyArchive, HasArchived
  <2>2. o \in ops /\ o.at = b
    BY DEF Running
  <2>3. \A d \in Desktop : d = o.by =>
           /\ run[d].phase \in ActionsPhase
           /\ run'[d] = [run[d] EXCEPT !.phase = After[@],
                            !.zip[Acting(run[d].phase)] = o.archive]
    BY <1>1, <1>2, <2>1, <2>2
  <2>4. \A d \in Desktop : d # o.by => run'[d] = run[d]
    BY <2>1
  <2>. QED  BY <2>1, <2>2, <2>3, <2>4 DEF Ends, Finish, storeVars, boundVars
<1>5. CASE ReplyImported(b)
  <2>1. PICK o \in Running(b) :
           /\ o.stage = "import" /\ o.archive = {} /\ Finish(o)
           /\ run' = [d \in Desktop |->
                         IF d = o.by THEN [run[d] EXCEPT !.phase = After[@]] ELSE run[d]]
           /\ UNCHANGED <<storeVars, prev, boundVars, quiet>>
    BY <1>5 DEF ReplyImported
  <2>2. o \in ops /\ o.at = b
    BY DEF Running
  <2>3. \A d \in Desktop : d = o.by =>
           /\ run[d].phase \in ImportPhase
           /\ run'[d] = [run[d] EXCEPT !.phase = After[@]]
    BY <1>1, <2>1, <2>2
  <2>4. \A d \in Desktop : d # o.by => run'[d] = run[d]
    BY <2>1
  <2>. QED  BY <2>1, <2>2, <2>3, <2>4 DEF Ends, Finish, storeVars, boundVars
<1>. QED  BY <1>3, <1>4, <1>5

\* A run that is cut off, and its handler.
LEMMA LossStep ==
    ASSUME Inv, NEW d \in Desktop, LoseConnection(d)
    PROVE  /\ run'[d] = Idle /\ \A c \in Desktop : c # d => run'[c] = run[c]
           /\ \A o \in ops' : \/ o \in ops /\ o.by # d
                              \/ \E x \in ops : x.by = d /\ o = [x EXCEPT !.by = Nobody]
           /\ \A o \in ops : o.by # d => o \in ops'
           /\ \A o \in ops' : o.by # Nobody => o \in ops /\ o.by # d
           /\ faults' = faults + 1
           /\ UNCHANGED <<live, trash, prev, clock, quiet>>
<1>1. \A o \in ops : o \in Op /\ [o EXCEPT !.by = Nobody].by = Nobody
  BY OpsFacts DEF Op
<1>2. ops' = {IF o.by = d THEN [o EXCEPT !.by = Nobody] ELSE o : o \in ops}
  BY DEF LoseConnection
<1>. QED  BY <1>1, <1>2 DEF Inv, TypeOK, LoseConnection, storeVars

LEMMA CrashStep ==
    ASSUME Inv, NEW b \in Backend, Crash(b)
    PROVE  /\ ops' = {o \in ops : o.at # b}
           /\ faults' = faults + 1
           /\ \A d \in Desktop : \/ run'[d] = Idle /\ \A o \in ops' : o.by # d
                                 \/ run'[d] = run[d] /\ \A o \in ops : o.by = d => o \in ops'
           /\ UNCHANGED <<live, trash, prev, clock, quiet>>
<1>1. ops' = {o \in ops : o.at # b}
  BY DEF Crash, Running
<1>2. ASSUME NEW d \in Desktop
      PROVE  \/ run'[d] = Idle /\ \A o \in ops' : o.by # d
             \/ run'[d] = run[d] /\ \A o \in ops : o.by = d => o \in ops'
  <2>1. CASE \E o \in Running(b) : o.by = d
    BY <1>1, <2>1, OpsFacts DEF Crash, Running
  <2>2. CASE ~ \E o \in Running(b) : o.by = d
    BY <1>1, <2>2 DEF Crash, Running
  <2>. QED  BY <2>1, <2>2
<1>. QED  BY <1>1, <1>2 DEF Crash, storeVars

----------------------------------------------------------------------------
(* The handlers that go on.                                                *)

Archives(b, o, n, p) ==
    /\ o.at = b /\ o.stage = "actions" /\ ops' = (ops \ {o}) \cup {n}
    /\ n.at = b /\ n.by = o.by /\ n.stage = "actions"
    /\ p \in o.retrieve /\ live[b][p] # Absent /\ n.retrieve = o.retrieve \ {p}
    /\ n.archive = o.archive \cup {Archived(b, p)}
    /\ n.delete = o.delete /\ n.gap = o.gap
    /\ UNCHANGED <<live, trash, run, prev, clock, faults, quiet>>

Deletes(b, o, n, p) ==
    /\ o.at = b /\ o.stage = "actions" /\ ops' = (ops \ {o}) \cup {n}
    /\ n.at = b /\ n.by = o.by /\ n.stage = "actions"
    /\ o.retrieve = {} /\ n.retrieve = {}
    /\ p \in o.delete /\ p # Root /\ n.delete = o.delete \ {p}
    /\ n.archive = o.archive /\ n.gap = o.gap
    /\ MoveToTrash(b, Subtree[p], "delete")
    /\ Disturb(b, o.by)
    /\ UNCHANGED <<run, prev, clock, faults>>

Replaces(b, o, n, p) ==
    /\ o.at = b /\ o.stage = "import" /\ ops' = (ops \ {o}) \cup {n}
    /\ n.at = b /\ n.by = o.by /\ n.stage = "import"
    /\ o.gap = {} /\ p \in Paths(o.archive) /\ n.gap = {p}
    /\ n.archive = o.archive
    /\ MoveToTrash(b, {p}, "import")
    /\ Disturb(b, o.by)
    /\ UNCHANGED <<run, prev, clock, faults>>

Copies(b, o, n, e) ==
    /\ o.at = b /\ o.stage = "import" /\ ops' = (ops \ {o}) \cup {n}
    /\ n.at = b /\ n.by = o.by /\ n.stage = "import"
    /\ e \in o.archive /\ e.path \in o.gap
    /\ n.gap = {} /\ n.archive = o.archive \ {e}
    /\ live' = [live EXCEPT ![b][e.path] = [ver |-> e.ver, time |-> e.time]]
    /\ Disturb(b, o.by)
    /\ UNCHANGED <<trash, run, prev, clock, faults>>

LEMMA ArchiveStep ==
    ASSUME Inv, NEW b \in Backend, CreateArchive(b)
    PROVE  \E o \in ops, n \in Op, p \in Path : Archives(b, o, n, p)
<1>1. PICK o, p :
         /\ o \in Running(b) /\ p \in Contents(b, o.retrieve)
         /\ o.stage = "actions"
         /\ Update(o, [o EXCEPT !.retrieve = @ \ {p}, !.archive = @ \cup {Archived(b, p)}])
         /\ UNCHANGED <<storeVars, syncInProgress, run, prev, boundVars, quiet>>
  BY DEF CreateArchive
<1>2. o \in Op /\ o \in ops /\ o.at = b
  BY <1>1, RunningType DEF Inv
<1>3. p \in Path /\ p \in o.retrieve /\ Archived(b, p) \in Entry
  BY <1>1, <1>2, ArchivedType DEF Inv
<1>4. PICK n : n = [o EXCEPT !.retrieve = @ \ {p}, !.archive = @ \cup {Archived(b, p)}]
  OBVIOUS
<1>5. /\ n \in Op /\ n.at = b /\ n.by = o.by /\ n.stage = "actions"
      /\ n.delete = o.delete /\ n.gap = o.gap /\ n.retrieve = o.retrieve \ {p}
      /\ n.archive = o.archive \cup {Archived(b, p)}
  BY <1>1, <1>2, <1>3, <1>4 DEF Op
<1>6. ops' = (ops \ {o}) \cup {n}
  BY <1>1, <1>4 DEF Update
<1>7. live[b][p] # Absent
  BY <1>1 DEF Contents
<1>. QED  BY <1>1, <1>2, <1>3, <1>5, <1>6, <1>7 DEF Archives, storeVars, boundVars

LEMMA DeleteStep ==
    ASSUME Inv, NEW b \in Backend, DeleteDocument(b)
    PROVE  \E o \in ops, n \in Op, p \in Path : Deletes(b, o, n, p)
<1>1. PICK o, p :
         /\ o \in Running(b) /\ p \in Foremost(o.delete)
         /\ o.stage = "actions" /\ o.retrieve = {} /\ p # Root
         /\ MoveToTrash(b, Subtree[p], "delete")
         /\ Update(o, [o EXCEPT !.delete = @ \ {p}])
         /\ Disturb(b, o.by)
         /\ UNCHANGED <<syncInProgress, run, prev, boundVars>>
  BY DEF DeleteDocument, HasArchived
<1>2. o \in Op /\ o \in ops /\ o.at = b /\ p \in o.delete /\ p \in Path
  BY <1>1, RunningType DEF Inv, Foremost, Op
<1>3. PICK n : n = [o EXCEPT !.delete = @ \ {p}]
  OBVIOUS
<1>4. /\ n \in Op /\ n.at = b /\ n.by = o.by /\ n.stage = "actions"
      /\ n.delete = o.delete \ {p} /\ n.retrieve = {} /\ n.archive = o.archive /\ n.gap = o.gap
  BY <1>1, <1>2, <1>3 DEF Op
<1>5. ops' = (ops \ {o}) \cup {n}
  BY <1>1, <1>3 DEF Update
<1>. QED  BY <1>1, <1>2, <1>4, <1>5 DEF Deletes, boundVars

LEMMA ReplaceStep ==
    ASSUME Inv, NEW b \in Backend, RemoveReplaced(b)
    PROVE  \E o \in ops, n \in Op, p \in Path : Replaces(b, o, n, p)
<1>1. PICK o, p :
         /\ o \in Running(b) /\ p \in Foremost(Pending(o))
         /\ o.stage = "import" /\ o.gap = {}
         /\ MoveToTrash(b, {p}, "import")
         /\ Update(o, [o EXCEPT !.gap = {p}])
         /\ Disturb(b, o.by)
         /\ UNCHANGED <<syncInProgress, run, prev, boundVars>>
  BY DEF RemoveReplaced
<1>2. o \in Op /\ o \in ops /\ o.at = b /\ p \in Path
  BY <1>1, RunningType, PendingType DEF Inv
<1>3. p \in Paths(o.archive)
  BY <1>1 DEF Foremost, Pending, Paths
<1>4. PICK n : n = [o EXCEPT !.gap = {p}]
  OBVIOUS
<1>5. /\ n \in Op /\ n.at = b /\ n.by = o.by /\ n.stage = "import"
      /\ n.gap = {p} /\ n.archive = o.archive
  BY <1>1, <1>2, <1>4 DEF Op
<1>6. ops' = (ops \ {o}) \cup {n}
  BY <1>1, <1>4 DEF Update
<1>. QED  BY <1>1, <1>2, <1>3, <1>5, <1>6 DEF Replaces, boundVars

LEMMA CopyStep ==
    ASSUME Inv, NEW b \in Backend, CopyImported(b)
    PROVE  \E o \in ops, n \in Op, e \in Entry : Copies(b, o, n, e)
<1>1. PICK o, e :
         /\ o \in Running(b) /\ e \in o.archive
         /\ o.stage = "import" /\ e.path \in o.gap
         /\ live' = [live EXCEPT ![b][e.path] = [ver |-> e.ver, time |-> e.time]]
         /\ Update(o, [o EXCEPT !.gap = {}, !.archive = @ \ {e}])
         /\ Disturb(b, o.by)
         /\ UNCHANGED <<trash, syncInProgress, run, prev, boundVars>>
  BY DEF CopyImported
<1>2. o \in Op /\ o \in ops /\ o.at = b /\ e \in Entry
  BY <1>1, RunningType DEF Inv, Op
<1>3. PICK n : n = [o EXCEPT !.gap = {}, !.archive = @ \ {e}]
  OBVIOUS
<1>4. /\ n \in Op /\ n.at = b /\ n.by = o.by /\ n.stage = "import"
      /\ n.gap = {} /\ n.archive = o.archive \ {e}
  BY <1>1, <1>2, <1>3 DEF Op
<1>5. ops' = (ops \ {o}) \cup {n}
  BY <1>1, <1>3 DEF Update
<1>. QED  BY <1>1, <1>2, <1>4, <1>5 DEF Copies, boundVars

\* The other handlers keep what they hold and await.
LEMMA UpdateKeeps ==
    ASSUME Inv, PlanInv, run' = run, NEW o \in ops, NEW n \in Op,
           ops' = (ops \ {o}) \cup {n}, HandlerInv(n), n.by = o.by,
           n.by # Nobody => AwaitedInv(n, run[n.by])
    PROVE  PlanInv'
<1>1. \A x \in ops' : HandlerInv(x)
  BY DEF PlanInv
<1>2. \A x \in ops' : x.by # Nobody => AwaitedInv(x, run'[x.by])
  BY DEF PlanInv
<1>. QED  BY <1>1, <1>2 DEF PlanInv

\* A handler works on what it has of the plan, or of the archive, and never on more.
LEMMA WorkKeepsPlan ==
    ASSUME Inv, PlanInv, NEW b \in Backend,
           CreateArchive(b) \/ DeleteDocument(b) \/ RemoveReplaced(b) \/ CopyImported(b)
    PROVE  PlanInv'
<1>1. CASE CreateArchive(b)
  <2>1. PICK o \in ops, n \in Op, p \in Path : Archives(b, o, n, p)
    BY <1>1, ArchiveStep
  <2>2. /\ Paths(n.archive) = Paths(o.archive) \cup {p}
        /\ n.retrieve \cup Paths(n.archive) = o.retrieve \cup Paths(o.archive)
    <3>1. n.archive = o.archive \cup {Archived(b, p)} /\ Archived(b, p).path = p
      BY <2>1 DEF Archives, Archived
    <3>2. Paths(n.archive) = Paths(o.archive) \cup {p}
      BY <3>1 DEF Paths
    <3>. QED  BY <2>1, <3>2 DEF Archives
  <2>3. HandlerInv(o) /\ (o.by # Nobody => AwaitedInv(o, run[o.by]))
    BY DEF PlanInv
  <2>4. HandlerInv(n) /\ (n.by # Nobody => AwaitedInv(n, run[n.by]))
    BY <2>1, <2>2, <2>3 DEF Archives, HandlerInv, AwaitedInv
  <2>. QED  BY <2>1, <2>4, UpdateKeeps DEF Archives
<1>2. CASE DeleteDocument(b)
  <2>1. PICK o \in ops, n \in Op, p \in Path : Deletes(b, o, n, p)
    BY <1>2, DeleteStep
  <2>2. HandlerInv(o) /\ (o.by # Nobody => AwaitedInv(o, run[o.by]))
    BY DEF PlanInv
  <2>3. HandlerInv(n) /\ (n.by # Nobody => AwaitedInv(n, run[n.by]))
    BY <2>1, <2>2 DEF Deletes, HandlerInv, AwaitedInv
  <2>. QED  BY <2>1, <2>3, UpdateKeeps DEF Deletes
<1>3. CASE RemoveReplaced(b)
  <2>1. PICK o \in ops, n \in Op, p \in Path : Replaces(b, o, n, p)
    BY <1>3, ReplaceStep
  <2>2. HandlerInv(o) /\ (o.by # Nobody => AwaitedInv(o, run[o.by]))
    BY DEF PlanInv
  <2>3. HandlerInv(n) /\ (n.by # Nobody => AwaitedInv(n, run[n.by]))
    BY <2>1, <2>2 DEF Replaces, HandlerInv, AwaitedInv
  <2>. QED  BY <2>1, <2>3, UpdateKeeps DEF Replaces
<1>4. CASE CopyImported(b)
  <2>1. PICK o \in ops, n \in Op, e \in Entry : Copies(b, o, n, e)
    BY <1>4, CopyStep
  <2>2. HandlerInv(o) /\ (o.by # Nobody => AwaitedInv(o, run[o.by]))
    BY DEF PlanInv
  <2>3. HandlerInv(n) /\ (n.by # Nobody => AwaitedInv(n, run[n.by]))
    BY <2>1, <2>2 DEF Copies, HandlerInv, AwaitedInv
  <2>. QED  BY <2>1, <2>3, UpdateKeeps DEF Copies
<1>. QED  BY <1>1, <1>2, <1>3, <1>4

\* A run's own steps keep its plan and its archives, or take new ones.
LEMMA OwnRunInv ==
    ASSUME Inv, PlanInv, NEW d \in Desktop,
           \/ StartSync(d) \/ ListDocuments(d) \/ GetSnapshot(d) \/ SnapshotFails(d)
           \/ MakePlan(d) \/ SkipRequest(d) \/ RequestRefused(d) \/ Persist(d)
    PROVE  RunInv(run'[d])
<1> DEFINE r == run[d]  s == run'[d]
<1>1. RunInv(r) /\ r \in Run
  BY DEF PlanInv, Inv, TypeOK
<1>2. CASE StartSync(d)
  <2>1. r.phase = "idle" /\ s = [r EXCEPT !.phase = "clientSnapshot"]
    BY <1>2, OwnRun
  <2> HIDE DEF r, s
  <2>2. s.plan = r.plan /\ s.zip = r.zip /\ s.phase = "clientSnapshot"
    BY <1>1, <2>1 DEF Run
  <2>5. s.phase \in SnapshotPhase
    BY <2>2 DEF SnapshotPhase
  <2>3. \A side \in Side : s.phase \notin Answered(side)
    BY <2>2 DEF Answered, Planned
  <2>4. r.phase \notin Planned /\ s.phase \notin Planned /\ s.phase # "idle"
    BY <2>1, <2>2, PhaseOf
  <2>. QED  BY <1>1, <2>2, <2>3, <2>4, <2>5, AdvancedRun DEF s
<1>3. CASE GetSnapshot(d)
  <2>1. PICK p \in Path \ r.read, read \in SUBSET Path : Reads(d, p, read)
    BY <1>3, ReadStep DEF Inv
  <2>2. r.phase \in SnapshotPhase
    BY <2>1 DEF Reads
  <2>3. CASE s = [r EXCEPT !.phase = After[@], !.snap = Stamped(d, p),
                           !.read = {}, !.listed = {}]
    <3> HIDE DEF r, s
    <3>1. s.plan = r.plan /\ s.zip = r.zip /\ s.phase = After[r.phase] /\ s.read = {}
      BY <1>1, <2>3 DEF Run
    <3>2. (r.phase \in Planned <=> s.phase \in Planned) /\ s.phase # "idle"
      BY <2>2, <3>1 DEF SnapshotPhase, After, Planned, Phase
    <3>3. \A side \in Side : s.phase \in Answered(side) => r.phase \in Answered(side)
      BY <2>2, <3>1 DEF SnapshotPhase, After, Answered, Planned, Phase
    <3>. QED  BY <1>1, <3>1, <3>2, <3>3, AdvancedRun DEF s
  <2>4. CASE s = [r EXCEPT !.snap = Stamped(d, p), !.read = read]
    <3> HIDE DEF r, s
    <3>1. s.plan = r.plan /\ s.zip = r.zip /\ s.phase = r.phase
      BY <1>1, <2>4 DEF Run
    <3>2. s.phase # "idle"
      BY <2>2, <3>1 DEF SnapshotPhase
    <3>. QED  BY <1>1, <2>2, <3>1, <3>2, AdvancedRun DEF s
  <2>. QED  BY <2>1, <2>3, <2>4 DEF Reads
<1>7. CASE ListDocuments(d)
  <2>1. PICK listed : r.phase \in SnapshotPhase /\ s = [r EXCEPT !.listed = listed]
    BY <1>7, OwnRun
  <2> HIDE DEF r, s
  <2>2. s.plan = r.plan /\ s.zip = r.zip /\ s.phase = r.phase /\ s.phase # "idle"
    BY <1>1, <2>1 DEF Run, SnapshotPhase
  <2>. QED  BY <1>1, <2>1, <2>2, AdvancedRun DEF s
<1>4. CASE MakePlan(d)
  <2> DEFINE plan == planSync(prev[d], r.snap.client, r.snap.server)
  <2>1. CASE HasChanges(plan) /\ s = [Idle EXCEPT !.phase = "clientActions", !.plan = plan]
    <3>1. Unambiguous(plan)
      <4>1. r.snap.client \in Snapshot /\ r.snap.server \in Snapshot
        BY <1>1 DEF Run, SyncState
      <4>2. prev[d] \in SyncState \cup {NoState}
        BY DEF Inv, TypeOK
      <4>. QED  BY <4>1, <4>2, Disjoint
    <3> HIDE DEF plan
    <3>2. /\ s.plan = plan /\ s.zip = NoZips /\ s.phase = "clientActions"
          /\ s.read = {}
      BY <2>1 DEF Idle
    <3> HIDE DEF s, r
    <3>3. s.phase \in Planned /\ \A side \in Side : s.phase \notin Answered(side)
      BY <3>2 DEF Answered, Planned, Phase, Side
    <3>. QED  BY <3>1, <3>2, <3>3, PhaseOf DEF RunInv, NoZips, Paths, s
  <2>2. CASE s = [r EXCEPT !.phase = "persist"]
    <3>1. /\ s.plan = r.plan /\ s.zip = r.zip /\ s.phase = "persist" /\ r.phase = "plan"
          /\ s.read = {}
      BY <1>1, <1>4, <2>2, PlanRun DEF Run, RunInv, SnapshotPhase
    <3> HIDE DEF s, r
    <3>2. r.plan = NoPlan /\ r.zip = NoZips
      BY <1>1, <3>1, PhaseOf DEF RunInv
    <3>3. RunInv(s)
      BY <3>1, <3>2, NoneDisjoint, PhaseOf
      DEF RunInv, NoZips, Paths, Side, NoPlan, NoActions
    <3>. QED  BY <3>3 DEF s
  <2>. QED  BY <1>4, <2>1, <2>2, PlanRun
<1>5. CASE SkipRequest(d)
  <2>0. s = [r EXCEPT !.phase = After[@]] /\ r.phase \in ActionsPhase \cup ImportPhase
    BY <1>5, OwnRun
  <2> HIDE DEF r, s
  <2>1. s.plan = r.plan /\ s.zip = r.zip /\ s.phase = After[r.phase] /\ s.read = {}
    BY <1>1, <2>0, PhaseOf DEF Run, RunInv
  <2>2. (r.phase \in Planned <=> s.phase \in Planned) /\ s.phase # "idle"
    BY <2>0, <2>1 DEF ActionsPhase, ImportPhase, After, Planned, Phase
  <2>3. Root \notin r.plan[Acting(r.phase)].delete
    <3>1. r.plan[Acting(r.phase)] = NoActions
      BY <1>5, OwnRun DEF r
    <3>. QED  BY <3>1 DEF NoActions
  <2>. QED  BY <1>1, <2>0, <2>1, <2>2, <2>3, Progress, AdvancedRun DEF s
<1>6. CASE SnapshotFails(d) \/ RequestRefused(d) \/ Persist(d)
  BY <1>6, OwnRun, IdleRun
<1>. QED  BY <1>2, <1>3, <1>4, <1>5, <1>6, <1>7

\* A reply brings a run what it asked for.
LEMMA ReplyRunInv ==
    ASSUME NEW r \in Run, RunInv(r), NEW o \in Op, NEW s
    PROVE  /\ r.phase \in ActionsPhase /\ o.stage = "actions" /\ o.retrieve = {} /\ o.delete = {} /\ AwaitedInv(o, r)
              /\ s = [r EXCEPT !.phase = After[@], !.zip[Acting(r.phase)] = o.archive]
              => RunInv(s)
           /\ r.phase \in ImportPhase /\ s = [r EXCEPT !.phase = After[@]] => RunInv(s)
<1>1. ASSUME r.phase \in ActionsPhase, o.stage = "actions", AwaitedInv(o, r),
             s = [r EXCEPT !.phase = After[@], !.zip[Acting(r.phase)] = o.archive],
             o.delete = {}
      PROVE  RunInv(s)
  <2>1. /\ s.plan = r.plan /\ s.phase = After[r.phase]
        /\ s.zip = [r.zip EXCEPT ![Acting(r.phase)] = o.archive] /\ s.read = {}
    BY <1>1, PhaseOf DEF Run, RunInv
  <2>2. s.phase \in Planned /\ s.phase # "idle"
    BY <1>1, <2>1 DEF ActionsPhase, After, Planned, Phase
  <2>3. \A side \in Side : Paths(s.zip[side]) \subseteq r.plan[side].retrieve
    BY <1>1, <2>1 DEF RunInv, AwaitedInv, Run
  <2>4. Root \notin r.plan[Acting(r.phase)].delete
    BY <1>1 DEF AwaitedInv
  <2>5. \A side \in Side : s.phase \in Answered(side) => Root \notin s.plan[side].delete
    BY <1>1, <2>1, <2>4, Progress DEF RunInv
  <2>. QED  BY <2>1, <2>2, <2>3, <2>5 DEF RunInv
<1>2. ASSUME r.phase \in ImportPhase, s = [r EXCEPT !.phase = After[@]]
      PROVE  RunInv(s)
  <2>1. s.plan = r.plan /\ s.phase = After[r.phase] /\ s.zip = r.zip /\ s.read = {}
    BY <1>2, PhaseOf DEF Run, RunInv
  <2>2. s.phase \in Planned /\ r.phase \in Planned /\ s.phase # "idle"
    BY <1>2, <2>1 DEF ImportPhase, After, Planned, Phase
  <2>. QED  BY <1>2, <2>1, <2>2, Progress, AdvancedRun
<1>. QED  BY <1>1, <1>2

LEMMA PlanStep ==
    ASSUME Inv, PlanInv, [Next]_vars
    PROVE  PlanInv'
<1>1. /\ ops \in SUBSET Op /\ \A d \in Desktop : RunInv(run[d])
      /\ run \in [Desktop -> Run]
  BY OpsFacts DEF PlanInv, Inv, TypeOK
<1>2. ASSUME NEW d \in Desktop,
             \/ StartSync(d) \/ ListDocuments(d) \/ GetSnapshot(d) \/ SnapshotFails(d)
             \/ MakePlan(d) \/ SkipRequest(d) \/ RequestRefused(d) \/ Persist(d)
      PROVE  PlanInv'
  <2>1. /\ ops' = ops /\ \A o \in ops : o.by # d
        /\ \A c \in Desktop : c # d => run'[c] = run[c]
    BY <1>2, OwnStep
  <2>2. \A c \in Desktop : RunInv(run'[c])
    BY <1>1, <1>2, <2>1, OwnRunInv
  <2>. QED  BY <1>1, <2>1, <2>2, OpsFacts, AwaitedStays
<1>3. ASSUME NEW d \in Desktop, SendRequest(d)
      PROVE  PlanInv'
  <2>1. /\ run[d].phase \in ActionsPhase \cup ImportPhase
        /\ ops' = ops \cup {Request(d)} /\ run' = run
    BY <1>3, SendStep
  <2>2. PICK side : side = Acting(run[d].phase)
    OBVIOUS
  <2>3. /\ Request(d).by = d /\ Request(d).gap = {}
        /\ run[d].phase \in ActionsPhase =>
              /\ Request(d).stage = "actions" /\ Request(d).archive = {}
              /\ Request(d).retrieve = run[d].plan[side].retrieve
              /\ Request(d).delete = run[d].plan[side].delete
        /\ run[d].phase \in ImportPhase =>
              Request(d).stage = "import" /\ Request(d).archive = run[d].zip[side]
    BY <2>1, <2>2, RequestEffect DEF Inv
  <2>4. HandlerInv(Request(d)) /\ AwaitedInv(Request(d), run[d])
    BY <2>1, <2>2, <2>3, PhaseOf DEF HandlerInv, AwaitedInv, Paths
  <2>5. \A x \in ops' : HandlerInv(x)
    BY <2>1, <2>4 DEF PlanInv
  <2>6. \A x \in ops' : x.by # Nobody => AwaitedInv(x, run'[x.by])
    BY <2>1, <2>3, <2>4 DEF PlanInv
  <2>. QED  BY <1>1, <2>1, <2>5, <2>6 DEF PlanInv
<1>4. ASSUME NEW d \in Desktop, LoseConnection(d)
      PROVE  PlanInv'
  <2>1. /\ run'[d] = Idle /\ \A c \in Desktop : c # d => run'[c] = run[c]
        /\ \A o \in ops' : \/ o \in ops /\ o.by # d
                           \/ \E x \in ops : x.by = d /\ o = [x EXCEPT !.by = Nobody]
    BY <1>4, LossStep
  <2>2. \A c \in Desktop : RunInv(run'[c])
    BY <1>1, <2>1, IdleRun
  <2>3. ASSUME NEW o \in ops'
        PROVE  HandlerInv(o) /\ (o.by # Nobody => AwaitedInv(o, run'[o.by]))
    <3>1. CASE o \in ops /\ o.by # d
      BY <2>1, <3>1, OpsFacts DEF PlanInv
    <3>2. CASE \E x \in ops : x.by = d /\ o = [x EXCEPT !.by = Nobody]
      <4>1. PICK x \in ops : o = [x EXCEPT !.by = Nobody]
        BY <3>2
      <4>2. /\ o.by = Nobody /\ o.stage = x.stage /\ o.gap = x.gap
            /\ o.archive = x.archive
        BY <1>1, <4>1 DEF Op
      <4>. QED  BY <4>2 DEF PlanInv, HandlerInv
    <3>. QED  BY <2>1, <3>1, <3>2
  <2>. QED  BY <2>2, <2>3 DEF PlanInv
<1>5. ASSUME NEW b \in Backend, Crash(b)
      PROVE  PlanInv'
  <2>1. /\ ops' = {o \in ops : o.at # b}
        /\ \A d \in Desktop : \/ run'[d] = Idle /\ \A o \in ops' : o.by # d
                              \/ run'[d] = run[d] /\ \A o \in ops : o.by = d => o \in ops'
    BY <1>5, CrashStep
  <2>2. \A c \in Desktop : RunInv(run'[c])
    BY <1>1, <2>1, IdleRun
  <2>. QED  BY <1>1, <2>1, <2>2, OpsFacts, AwaitedStays
<1>6. ASSUME NEW b \in Backend,
             ArchiveFails(b) \/ DeleteRootFails(b) \/ ReplyArchive(b) \/ ReplyImported(b)
      PROVE  PlanInv'
  <2>1. PICK o \in ops : Ends(b, o)
    BY <1>6, EndStep
  <2>2. ASSUME NEW d \in Desktop, d = o.by
        PROVE  RunInv(run'[d])
    <3>1. AwaitedInv(o, run[d]) /\ d # Nobody
      BY <2>2, OpsFacts DEF PlanInv
    <3>. QED  BY <1>1, <2>1, <2>2, <3>1, IdleRun, ReplyRunInv DEF Ends
  <2>3. \A c \in Desktop : RunInv(run'[c])
    BY <1>1, <2>1, <2>2 DEF Ends
  <2>4. \A x \in ops' : x.by # Nobody => run'[x.by] = run[x.by]
    BY <2>1, OpsFacts DEF Ends
  <2>. QED  BY <1>1, <2>1, <2>3, <2>4, AwaitedStays DEF Ends
<1>7. ASSUME NEW b \in Backend, NEW p \in Path, StoreDocument(b, p) \/ RemoveDocument(b, p)
      PROVE  PlanInv'
  BY <1>1, <1>7, AwaitedStays DEF StoreDocument, RemoveDocument
<1>8. CASE UNCHANGED vars
  BY <1>1, <1>8, AwaitedStays DEF vars
<1>. QED  BY <1>2, <1>3, <1>4, <1>5, <1>6, <1>7, <1>8, WorkKeepsPlan
          DEF Next, Orchestrator, Handler

----------------------------------------------------------------------------
(* What a run knows of its two backends while nobody else changes them.    *)
(* The documents of both are docs[side][path].                             *)

Live(d) == [side \in Side |-> live[BackendOf(d, side)]]

Mine(d) == {o \in ops : o.by = d}

TimesOf(tree) == [p \in Path |-> IF tree[p] = Absent THEN Absent ELSE tree[p].time]

Listed(plan, p) ==
    \E side \in Side : p \in plan[side].retrieve \cup plan[side].delete

\* p is not below a document that the plan deletes.
Free(plan, p) ==
    \A side \in Side : \A q \in plan[side].delete : p \in Subtree[q] => p = q

Alike(docs, p) ==
    \/ docs["client"][p] = Absent /\ docs["server"][p] = Absent
    \/ /\ docs["client"][p] # Absent /\ docs["server"][p] # Absent
       /\ docs["client"][p].time = docs["server"][p].time

SameAt(docs, p) ==
    \/ docs["client"][p] = Absent /\ docs["server"][p] = Absent
    \/ /\ docs["client"][p] # Absent /\ docs["server"][p] # Absent
       /\ docs["client"][p].ver = docs["server"][p].ver

\* An archive of documents of a side as they are there, and one of all it is to export.
Exact(docs, plan, side, archive) ==
    \A e \in archive : Free(plan, e.path) => e.ver = docs[side][e.path].ver

Captures(docs, plan, side, archive) ==
    plan[side].retrieve \subseteq Paths(archive) /\ Exact(docs, plan, side, archive)

\* What a run knows of the actions of a side, as far as it has come.
QuietSide(docs, r, side) ==
    /\ \A p \in r.plan[side].delete : docs[Opposite(side)][p] = Absent
    /\ \A p \in r.plan[side].retrieve : Free(r.plan, p) => docs[side][p] # Absent
    /\ r.phase \in Answered(side) =>
          /\ \A p \in r.plan[side].delete : docs[side][p] = Absent
          /\ Captures(docs, r.plan, side, r.zip[side])
    /\ r.phase \in Imported(side) =>
          \A p \in r.plan[side].retrieve : Free(r.plan, p) => SameAt(docs, p)

\* What it knows of the handler it waits for.
QuietOp(docs, r, o) ==
    LET side == Acting(r.phase)
    IN  /\ o.stage = "actions" =>
              /\ \A p \in r.plan[side].delete \ o.delete : docs[side][p] = Absent
              /\ Exact(docs, r.plan, side, o.archive)
        /\ o.stage = "import" =>
              \A p \in r.plan[side].retrieve \ Paths(o.archive) :
                  Free(r.plan, p) => SameAt(docs, p)

\* A transfer goes from a later time to an earlier one, or to no document.
Forward(docs, plan) ==
    \A side \in Side : \A p \in plan[side].retrieve :
        docs[Opposite(side)][p] # Absent =>
            docs[side][p] # Absent /\ docs[side][p].time > docs[Opposite(side)][p].time

\* What a snapshot has read is as it was read.
Seen(docs, r) ==
    r.phase \in SnapshotPhase =>
        \A p \in r.read : r.snap[SideOf(r.phase)][p] = TimesOf(docs[SideOf(r.phase)])[p]

QuietRun(docs, r, mine) ==
    /\ Seen(docs, r)
    /\ r.phase \in {"serverSnapshot", "plan", "serverFinal", "persist"} =>
          r.snap.client = TimesOf(docs["client"])
    /\ r.phase \in {"plan", "persist"} => r.snap.server = TimesOf(docs["server"])
    /\ r.phase \in Planned =>
          /\ \A p \in Path : Free(r.plan, p) /\ ~Listed(r.plan, p) => Alike(docs, p)
          /\ \A side \in Side : QuietSide(docs, r, side)
          /\ \A o \in mine : QuietOp(docs, r, o)
    /\ r.phase = "clientActions" /\ mine = {} => Forward(docs, r.plan)

QuietInv == \A d \in Desktop : quiet[d] => QuietRun(Live(d), run[d], Mine(d))

Docs == [Side -> [Path -> Document \cup {Absent}]]

\* The plan and the times it was made from.
Plans(plan, c, s) ==
    /\ \A p \in plan["client"].delete : s[p] = Absent
    /\ \A p \in plan["server"].delete : c[p] = Absent
    /\ \A p \in plan["client"].retrieve : c[p] # Absent /\ (s[p] = Absent \/ c[p] > s[p])
    /\ \A p \in plan["server"].retrieve : s[p] # Absent /\ (c[p] = Absent \/ s[p] > c[p])
    /\ \A p \in Path : ~Listed(plan, p) => c[p] = s[p]

LEMMA PlannedActions ==
    ASSUME NEW previous, NEW c \in Snapshot, NEW s \in Snapshot
    PROVE  Plans(planSync(previous, c, s), c, s)
<1>1. \A p \in Path : /\ c[p] = Absent \/ c[p] \in Nat
                      /\ s[p] = Absent \/ s[p] \in Nat
  BY DEF Snapshot, Time
<1>2. CASE previous = NoState
  <2> DEFINE a == MergeActions(c, s)
             b == MergeActions(s, c)
  <2>1. planSync(previous, c, s) = [client |-> a, server |-> b]
    BY <1>2 DEF planSync
  <2>2. a.delete = {} /\ b.delete = {}
    BY DEF MergeActions
  <2>3. \A p \in a.retrieve : c[p] # Absent /\ (s[p] = Absent \/ c[p] > s[p])
    BY DEF MergeActions, Later, Outdated
  <2>4. \A p \in b.retrieve : s[p] # Absent /\ (c[p] = Absent \/ s[p] > c[p])
    BY DEF MergeActions, Later, Outdated
  <2>5. ASSUME NEW p \in Path, p \notin a.retrieve, p \notin b.retrieve
        PROVE  c[p] = s[p]
    BY <1>1, <2>5 DEF MergeActions, Later, Outdated
  <2> HIDE DEF a, b
  <2>. QED  BY <2>1, <2>2, <2>3, <2>4, <2>5 DEF Plans, Listed, Side
<1>3. CASE previous # NoState
  <2> DEFINE a == DeltaActions(previous.client, previous.server, c, s)
             b == DeltaActions(previous.server, previous.client, s, c)
  <2>1. planSync(previous, c, s) = [client |-> a, server |-> b]
    BY <1>3 DEF planSync
  <2>2. (\A p \in a.delete : s[p] = Absent) /\ (\A p \in b.delete : c[p] = Absent)
    BY DEF DeltaActions, Deleted
  <2>3. \A p \in a.retrieve : c[p] # Absent /\ (s[p] = Absent \/ c[p] > s[p])
    BY DEF DeltaActions, Deleted, Later, Outdated
  <2>4. \A p \in b.retrieve : s[p] # Absent /\ (c[p] = Absent \/ s[p] > c[p])
    BY DEF DeltaActions, Deleted, Later, Outdated
  <2>5. ASSUME NEW p \in Path, p \notin a.retrieve, p \notin a.delete,
               p \notin b.retrieve, p \notin b.delete
        PROVE  c[p] = s[p]
    BY <1>1, <2>5 DEF DeltaActions, Deleted, Later, Outdated
  <2> HIDE DEF a, b
  <2>. QED  BY <2>1, <2>2, <2>3, <2>4, <2>5 DEF Plans, Listed, Side
<1>. QED  BY <1>2, <1>3

LEMMA SameTimes ==
    ASSUME NEW docs \in Docs, NEW p \in Path,
           TimesOf(docs["client"])[p] = TimesOf(docs["server"])[p]
    PROVE  Alike(docs, p)
<1>1. \A side \in Side : docs[side][p] # Absent => docs[side][p].time \in Nat
  BY DEF Docs, Document, Time
<1>2. \A side \in Side : docs[side][p] # Absent => docs[side][p].time # Absent
  BY <1>1, AbsentIsNoTime DEF Time
<1>. QED  BY <1>2 DEF TimesOf, Alike, Side

\* A run r of a snapshot reads p, whereby it becomes s.
Observes(docs, r, s, p, read, side, snap) ==
    /\ r.phase \in SnapshotPhase /\ read = r.read \cup {p}
    /\ side = SideOf(r.phase)
    /\ snap = [r.snap EXCEPT ![side][p] = TimesOf(docs[side])[p]]
    /\ \/ /\ read = Path
          /\ s = [r EXCEPT !.phase = After[@], !.snap = snap, !.read = {}, !.listed = {}]
       \/ read # Path /\ s = [r EXCEPT !.snap = snap, !.read = read]

LEMMA SnapshotQuiet ==
    ASSUME NEW docs, NEW r \in Run, NEW s \in Run, QuietRun(docs, r, {}),
           NEW p \in Path, NEW read \in SUBSET Path, NEW side, NEW snap,
           Observes(docs, r, s, p, read, side, snap)
    PROVE  QuietRun(docs, s, {})
<1>0. /\ r.phase \in SnapshotPhase /\ read = r.read \cup {p}
      /\ side = SideOf(r.phase)
      /\ snap = [r.snap EXCEPT ![side][p] = TimesOf(docs[side])[p]]
      /\ \/ /\ read = Path
            /\ s = [r EXCEPT !.phase = After[@], !.snap = snap, !.read = {}, !.listed = {}]
         \/ read # Path /\ s = [r EXCEPT !.snap = snap, !.read = read]
  BY DEF Observes
<1>1. /\ side \in Side /\ r.snap \in SyncState /\ r.read \subseteq Path
      /\ s.plan = r.plan /\ s.zip = r.zip /\ s.snap = snap /\ snap \in SyncState
  BY <1>0 DEF Run, SideOf, Side
<1>2. /\ \A q \in read : snap[side][q] = TimesOf(docs[side])[q]
      /\ \A s1 \in Side : s1 # side => snap[s1] = r.snap[s1]
  <2>1. \A q \in r.read : r.snap[side][q] = TimesOf(docs[side])[q]
    BY <1>0 DEF QuietRun, Seen
  <2>. QED  BY <1>0, <1>1, <2>1 DEF SyncState, Snapshot, Side
<1>3. CASE read = Path
  <2>1. s.phase = After[r.phase] /\ s.read = {}
    BY <1>0, <1>3 DEF Run
  <2>2. s.snap[side] = TimesOf(docs[side])
    <3>1. snap[side] = [q \in Path |-> snap[side][q]]
      BY <1>1 DEF SyncState, Snapshot, Side
    <3>2. TimesOf(docs[side]) = [q \in Path |-> TimesOf(docs[side])[q]]
      BY DEF TimesOf
    <3>3. \A q \in Path : snap[side][q] = TimesOf(docs[side])[q]
      BY <1>2, <1>3
    <3>4. snap[side] = TimesOf(docs[side])
      BY <3>1, <3>2, <3>3
    <3>. QED  BY <1>1, <3>4
  <2>3. Seen(docs, s)
    BY <2>1 DEF Seen
  <2>4. CASE r.phase = "clientSnapshot"
    <3>1. s.phase = "serverSnapshot" /\ side = "client"
      BY <1>0, <2>1, <2>4 DEF After, SideOf, ClientPhase
    <3>. QED  BY <2>2, <2>3, <3>1, PhaseOf DEF QuietRun
  <2>5. CASE r.phase = "serverSnapshot"
    <3>1. s.phase = "plan" /\ side = "server"
      BY <1>0, <2>1, <2>5 DEF After, SideOf, ClientPhase
    <3>2. s.snap.client = r.snap.client /\ r.snap.client = TimesOf(docs["client"])
      BY <1>1, <1>2, <2>5, <3>1 DEF QuietRun, Side
    <3>. QED  BY <2>2, <2>3, <3>1, <3>2, PhaseOf DEF QuietRun
  <2>6. ASSUME r.phase \in {"clientFinal", "serverFinal"}
        PROVE  r.phase \in Planned /\ \A s1 \in Side : QuietSide(docs, s, s1)
    <3>1. /\ r.phase \in Planned
          /\ \A s1 \in Side : r.phase \in Answered(s1) /\ r.phase \in Imported(s1)
      BY <2>6 DEF Answered, Imported, Planned, Phase
    <3>. QED  BY <1>1, <3>1 DEF QuietSide, QuietRun
  <2>7. CASE r.phase = "clientFinal"
    <3>1. s.phase = "serverFinal" /\ side = "client"
      BY <1>0, <2>1, <2>7 DEF After, SideOf, ClientPhase
    <3>. QED  BY <1>1, <2>2, <2>3, <2>6, <2>7, <3>1 DEF QuietRun
  <2>8. CASE r.phase = "serverFinal"
    <3>1. s.phase = "persist" /\ side = "server"
      BY <1>0, <2>1, <2>8 DEF After, SideOf, ClientPhase
    <3>2. s.snap.client = r.snap.client /\ r.snap.client = TimesOf(docs["client"])
      BY <1>1, <1>2, <2>8, <3>1 DEF QuietRun, Side
    <3>. QED  BY <1>1, <2>2, <2>3, <2>6, <2>8, <3>1, <3>2 DEF QuietRun
  <2>. QED  BY <1>0, <2>4, <2>5, <2>7, <2>8 DEF SnapshotPhase
<1>4. CASE read # Path
  <2>1. s.phase = r.phase /\ s.read = read
    BY <1>0, <1>4 DEF Run
  <2>2. Seen(docs, s)
    BY <1>0, <1>1, <1>2, <2>1 DEF Seen
  <2>3. r.phase \in {"serverSnapshot", "serverFinal"} => s.snap.client = r.snap.client
    BY <1>0, <1>1, <1>2 DEF SideOf, ClientPhase, Side, SyncState
  <2>4. \A s1 \in Side : QuietSide(docs, r, s1) => QuietSide(docs, s, s1)
    BY <1>1, <2>1 DEF QuietSide
  <2>5. r.phase \notin {"plan", "persist", "clientActions"}
    BY <1>0 DEF SnapshotPhase
  <2>. QED  BY <1>1, <2>1, <2>2, <2>3, <2>4, <2>5 DEF QuietRun
<1>. QED  BY <1>3, <1>4

\* A listing brings nothing that a run goes by.
LEMMA ListQuiet ==
    ASSUME NEW docs, NEW r \in Run, NEW s, NEW listed, QuietRun(docs, r, {}),
           s = [r EXCEPT !.listed = listed]
    PROVE  QuietRun(docs, s, {})
<1>1. /\ s.phase = r.phase /\ s.plan = r.plan /\ s.zip = r.zip /\ s.snap = r.snap
      /\ s.read = r.read
  BY DEF Run
<1>2. \A side \in Side : QuietSide(docs, r, side) => QuietSide(docs, s, side)
  BY <1>1 DEF QuietSide
<1>. QED  BY <1>1, <1>2 DEF QuietRun, Seen

LEMMA PlanQuiet ==
    ASSUME NEW docs \in Docs, NEW r \in Run, NEW s, NEW previous, QuietRun(docs, r, {}),
           r.phase = "plan", r.plan = NoPlan, r.zip = NoZips,
           NEW plan, plan = planSync(previous, r.snap.client, r.snap.server),
           \/ s = [Idle EXCEPT !.phase = "clientActions", !.plan = plan]
           \/ ~HasChanges(plan) /\ s = [r EXCEPT !.phase = "persist"]
    PROVE  QuietRun(docs, s, {})
<1> DEFINE c == r.snap.client  v == r.snap.server
<1>1. c = TimesOf(docs["client"]) /\ v = TimesOf(docs["server"])
  BY DEF QuietRun
<1>2. c \in Snapshot /\ v \in Snapshot
  BY DEF Run, SyncState
<1>3. \A p \in Path :
         /\ c[p] = IF docs["client"][p] = Absent THEN Absent ELSE docs["client"][p].time
         /\ v[p] = IF docs["server"][p] = Absent THEN Absent ELSE docs["server"][p].time
         /\ docs["client"][p] # Absent => c[p] # Absent /\ c[p] \in Nat
         /\ docs["server"][p] # Absent => v[p] # Absent /\ v[p] \in Nat
  <2>1. \A p \in Path :
           /\ docs["client"][p] # Absent => docs["client"][p].time \in Time
           /\ docs["server"][p] # Absent => docs["server"][p].time \in Time
    BY DEF Docs, Document, Side
  <2>2. \A p \in Path :
           /\ c[p] = IF docs["client"][p] = Absent THEN Absent ELSE docs["client"][p].time
           /\ v[p] = IF docs["server"][p] = Absent THEN Absent ELSE docs["server"][p].time
    BY <1>1 DEF TimesOf
  <2> HIDE DEF c, v
  <2>. QED  BY <2>1, <2>2, AbsentIsNoTime DEF Time
<1> HIDE DEF c, v
<1>4. plan = planSync(previous, c, v)
  BY DEF c, v
<1>5. Plans(plan, c, v)
  BY <1>2, <1>4, PlannedActions
<1>6. /\ plan["client"].delete \subseteq Path /\ plan["server"].delete \subseteq Path
      /\ plan["client"].retrieve \subseteq Path /\ plan["server"].retrieve \subseteq Path
  BY PlanType DEF SyncPlan, Actions
<1>7. \A p \in Path : ~Listed(plan, p) => Alike(docs, p)
  BY <1>1, <1>5, SameTimes DEF Plans
<1>8. CASE s = [Idle EXCEPT !.phase = "clientActions", !.plan = plan]
  <2>1. s.phase = "clientActions" /\ s.plan = plan
    BY <1>8 DEF Idle
  <2>2. /\ s.phase \in Planned
        /\ \A side \in Side : s.phase \notin Answered(side) /\ s.phase \notin Imported(side)
    BY <2>1 DEF Planned, Phase, Answered, Imported, Side
  <2>3. \A side \in Side : QuietSide(docs, s, side)
    <3>1. QuietSide(docs, s, "client")
      BY <1>3, <1>5, <1>6, <2>1, <2>2 DEF Plans, QuietSide, Opposite, Side
    <3>2. QuietSide(docs, s, "server")
      BY <1>3, <1>5, <1>6, <2>1, <2>2 DEF Plans, QuietSide, Opposite, Side
    <3>. QED  BY <3>1, <3>2 DEF Side
  <2>4. Forward(docs, plan)
    BY <1>3, <1>5, <1>6 DEF Plans, Forward, Opposite, Side
  <2>. QED  BY <1>7, <2>1, <2>2, <2>3, <2>4 DEF QuietRun, Seen, SnapshotPhase
<1>9. CASE ~HasChanges(plan) /\ s = [r EXCEPT !.phase = "persist"]
  <2>1. /\ s.phase = "persist" /\ s.plan = plan /\ s.zip = NoZips /\ s.snap = r.snap
        /\ plan = NoPlan
    BY <1>9 DEF Run, HasChanges
  <2>2. s.phase \in Planned
    BY <2>1, PhaseOf
  <2>3. \A side \in Side : s.plan[side].retrieve = {} /\ s.plan[side].delete = {}
    BY <2>1 DEF NoPlan, NoActions, Side
  <2>4. \A side \in Side : QuietSide(docs, s, side)
    BY <2>1, <2>3 DEF QuietSide, Captures, Exact, NoZips, Paths
  <2>. QED  BY <1>1, <1>7, <2>1, <2>2, <2>4 DEF QuietRun, Seen, SnapshotPhase, c, v
<1>. QED  BY <1>8, <1>9

LEMMA SkipQuiet ==
    ASSUME NEW docs, NEW r \in Run, NEW s, QuietRun(docs, r, {}), RunInv(r),
           r.phase \in ActionsPhase \cup ImportPhase,
           r.plan[Acting(r.phase)] = NoActions,
           s = [r EXCEPT !.phase = After[@]]
    PROVE  QuietRun(docs, s, {})
<1>1. /\ s.phase = After[r.phase] /\ s.plan = r.plan /\ s.zip = r.zip /\ s.snap = r.snap
      /\ s.read = {}
  BY PhaseOf DEF Run, RunInv
<1>2. PICK side \in Side : side = Acting(r.phase)
  BY Progress DEF Side
<1>3. r.plan[side].retrieve = {} /\ r.plan[side].delete = {} /\ Paths(r.zip[side]) = {}
  BY <1>2 DEF NoActions, RunInv
<1>4. r.zip[side] = {}
  BY <1>3 DEF Paths
<1>5. ASSUME NEW s1 \in Side
      PROVE  QuietSide(docs, s, s1)
  <2>1. QuietSide(docs, r, s1)
    BY Progress DEF QuietRun
  <2>2. CASE s1 = side
    BY <1>1, <1>3, <1>4, <2>2 DEF QuietSide, Captures, Exact
  <2>3. CASE s1 # side
    <3>1. /\ After[r.phase] \in Answered(s1) => r.phase \in Answered(s1)
          /\ After[r.phase] \in Imported(s1) => r.phase \in Imported(s1)
      BY <1>2, <2>3, Progress
    <3>. QED  BY <1>1, <2>1, <3>1 DEF QuietSide
  <2>. QED  BY <2>2, <2>3
<1>. QED  BY <1>1, <1>5, Progress DEF QuietRun, Seen

LEMMA SendQuiet ==
    ASSUME NEW docs, NEW r \in Run, QuietRun(docs, r, {}), NEW request \in Op,
           r.phase \in ActionsPhase \cup ImportPhase,
           r.phase \in ActionsPhase =>
               /\ request.stage = "actions" /\ request.archive = {}
               /\ request.delete = r.plan[Acting(r.phase)].delete,
           r.phase \in ImportPhase =>
               request.stage = "import" /\ request.archive = r.zip[Acting(r.phase)]
    PROVE  QuietRun(docs, r, {request})
<1>1. PICK side \in Side : side = Acting(r.phase)
  BY Progress DEF Side
<1>2. QuietOp(docs, r, request)
  <2>1. CASE r.phase \in ActionsPhase
    BY <2>1, PhaseOf DEF QuietOp, Exact
  <2>2. CASE r.phase \in ImportPhase
    <3>1. r.phase \in Answered(side) /\ r.phase \in Planned
      BY <2>2, Progress
    <3>2. r.plan[side].retrieve \subseteq Paths(r.zip[side])
      BY <3>1 DEF QuietRun, QuietSide, Captures
    <3>. QED  BY <1>1, <2>2, <3>2 DEF QuietOp
  <2>. QED  BY <2>1, <2>2
<1>. QED  BY <1>2 DEF QuietRun

LEMMA ArchiveQuiet ==
    ASSUME NEW docs, NEW r \in Run, NEW o \in Op, NEW n \in Op, QuietRun(docs, r, {o}),
           r.phase \in ActionsPhase, o.stage = "actions", n.stage = "actions",
           n.delete = o.delete, NEW e, n.archive = o.archive \cup {e},
           e.ver = docs[Acting(r.phase)][e.path].ver
    PROVE  QuietRun(docs, r, {n})
<1>1. QuietOp(docs, r, o)
  BY PhaseOf DEF QuietRun
<1>2. QuietOp(docs, r, n)
  BY <1>1 DEF QuietOp, Exact
<1>. QED  BY <1>2 DEF QuietRun

\* The documents of a side are gone from some paths.
Without(docs, side, paths) ==
    [docs EXCEPT ![side] = [p \in Path |-> IF p \in paths THEN Absent ELSE @[p]]]

LEMMA WithoutAt ==
    ASSUME NEW docs \in Docs, NEW side \in Side, NEW paths,
           NEW s1 \in Side, NEW p \in Path
    PROVE  Without(docs, side, paths)[s1][p] =
               IF s1 = side /\ p \in paths THEN Absent ELSE docs[s1][p]
BY DEF Without, Docs

LEMMA PlanPaths ==
    ASSUME NEW r \in Run, RunInv(r), NEW side \in Side
    PROVE  /\ r.plan[side].delete \subseteq Path /\ r.plan[side].retrieve \subseteq Path
           /\ \A s1 \in Side : r.plan[side].retrieve \cap r.plan[s1].delete = {}
           /\ \A s1 \in Side : s1 # side => r.plan[side].retrieve \cap r.plan[s1].retrieve = {}
           /\ Paths(r.zip[side]) \subseteq r.plan[side].retrieve
           /\ Opposite(side) \in Side /\ Opposite(side) # side /\ Opposite(Opposite(side)) = side
           /\ \A s1 \in Side : s1 # side <=> s1 = Opposite(side)
<1>1. r.plan \in SyncPlan
  BY DEF Run
<1>2. side = "client" \/ side = "server"
  BY DEF Side
<1>. QED  BY <1>1, <1>2 DEF SyncPlan, Actions, RunInv, Unambiguous, Opposite, Side

LEMMA DeleteQuiet ==
    ASSUME NEW docs \in Docs, NEW r \in Run, NEW o \in Op, NEW n \in Op, NEW p \in Path,
           RunInv(r), AwaitedInv(o, r), QuietRun(docs, r, {o}),
           r.phase \in ActionsPhase, o.stage = "actions", p \in o.delete,
           n.stage = "actions", n.delete = o.delete \ {p}, n.archive = o.archive,
           NEW after, after = Without(docs, Acting(r.phase), Subtree[p])
    PROVE  QuietRun(after, r, {n})
<1>1. PICK side \in Side : side = Acting(r.phase)
  BY Progress DEF Side
<1>2. p \in r.plan[side].delete /\ Paths(o.archive) \subseteq r.plan[side].retrieve
  BY <1>1 DEF AwaitedInv
<1>3. /\ r.phase \in Planned
      /\ r.phase \notin {"plan", "serverSnapshot", "serverFinal", "persist"}
      /\ r.phase \notin SnapshotPhase
      /\ \A s1 \in Side : r.phase \notin Imported(s1)
  BY Progress DEF ActionsPhase
\* Nothing that is not listed, or is to be exported, is removed with p.
<1>4. ASSUME NEW q \in Path, Free(r.plan, q), q \notin r.plan[side].delete, NEW s1 \in Side
      PROVE  after[s1][q] = docs[s1][q]
  <2>1. q # p /\ q \notin Subtree[p]
    BY <1>2, <1>4 DEF Free
  <2>. QED  BY <1>1, <2>1, WithoutAt
<1>5. ASSUME NEW q \in Path, NEW s1 \in Side, docs[s1][q] = Absent
      PROVE  after[s1][q] = Absent
  BY <1>1, <1>5, WithoutAt
<1>6. after[side][p] = Absent
  BY <1>1, WithoutAt, SubtreeAssumption
<1>7. ASSUME NEW q \in Path, Free(r.plan, q), ~Listed(r.plan, q)
      PROVE  Alike(after, q)
  <2>1. Alike(docs, q)
    BY <1>3, <1>7 DEF QuietRun
  <2>2. q \notin r.plan[side].delete
    BY <1>7 DEF Listed
  <2>. QED  BY <1>4, <1>7, <2>1, <2>2 DEF Alike, Side
<1>8. ASSUME NEW archive, NEW s1 \in Side, Exact(docs, r.plan, s1, archive),
             Paths(archive) \subseteq r.plan[s1].retrieve
      PROVE  Exact(after, r.plan, s1, archive)
  <2>1. ASSUME NEW e \in archive, Free(r.plan, e.path)
        PROVE  e.ver = after[s1][e.path].ver
    <3>1. e.path \in Path /\ e.path \notin r.plan[side].delete
      BY <1>8, PlanPaths DEF Paths
    <3>. QED  BY <1>4, <1>8, <2>1, <3>1 DEF Exact
  <2>. QED  BY <1>8, <2>1 DEF Exact
<1>9. ASSUME NEW s1 \in Side
      PROVE  QuietSide(after, r, s1)
  <2>1. QuietSide(docs, r, s1)
    BY <1>3 DEF QuietRun
  <2>2. \A q \in r.plan[s1].delete : after[Opposite(s1)][q] = Absent
    BY <1>5, <2>1, PlanPaths DEF QuietSide
  <2>3. \A q \in r.plan[s1].retrieve : Free(r.plan, q) => after[s1][q] # Absent
    <3>1. \A q \in r.plan[s1].retrieve : q \in Path /\ q \notin r.plan[side].delete
      BY PlanPaths
    <3>. QED  BY <1>4, <2>1, <3>1 DEF QuietSide
  <2>4. r.phase \in Answered(s1) =>
           /\ \A q \in r.plan[s1].delete : after[s1][q] = Absent
           /\ Captures(after, r.plan, s1, r.zip[s1])
    BY <1>5, <1>8, <2>1, PlanPaths DEF QuietSide, Captures
  <2>. QED  BY <1>3, <2>2, <2>3, <2>4 DEF QuietSide
<1>10. QuietOp(after, r, n)
  <2>1. /\ \A q \in r.plan[side].delete \ o.delete : docs[side][q] = Absent
        /\ Exact(docs, r.plan, side, o.archive)
    BY <1>1, <1>3 DEF QuietRun, QuietOp
  <2>2. \A q \in r.plan[side].delete \ n.delete : after[side][q] = Absent
    BY <1>5, <1>6, <2>1, PlanPaths
  <2>3. Exact(after, r.plan, side, n.archive)
    BY <1>2, <1>8, <2>1
  <2>. QED  BY <1>1, <2>2, <2>3 DEF QuietOp
<1>. QED  BY <1>3, <1>7, <1>9, <1>10 DEF QuietRun, Seen

LEMMA AnswerQuiet ==
    ASSUME NEW docs, NEW r \in Run, NEW o \in Op, NEW s, RunInv(r),
           AwaitedInv(o, r), QuietRun(docs, r, {o}),
           r.phase \in ActionsPhase, o.stage = "actions", o.retrieve = {}, o.delete = {},
           s = [r EXCEPT !.phase = After[@], !.zip[Acting(r.phase)] = o.archive]
    PROVE  QuietRun(docs, s, {})
<1>1. PICK side \in Side : side = Acting(r.phase)
  BY Progress DEF Side
<1>2. /\ s.phase = After[r.phase] /\ s.plan = r.plan
      /\ s.zip = [r.zip EXCEPT ![side] = o.archive] /\ r.zip \in [Side -> SUBSET Entry]
      /\ s.read = {}
  BY <1>1, Progress DEF Run, RunInv
<1>3. /\ \A q \in r.plan[side].delete : docs[side][q] = Absent
      /\ Captures(docs, r.plan, side, o.archive)
  BY <1>1, Progress DEF QuietRun, QuietOp, AwaitedInv, Captures
<1>4. ASSUME NEW s1 \in Side
      PROVE  QuietSide(docs, s, s1)
  <2>1. QuietSide(docs, r, s1)
    BY Progress DEF QuietRun
  <2>2. /\ s.phase \notin Imported(s1)
        /\ s.phase \in Answered(s1) => r.phase \in Answered(s1) \/ s1 = side
    BY <1>1, <1>2, Progress
  <2>3. CASE s1 = side
    BY <1>2, <1>3, <2>1, <2>2, <2>3 DEF QuietSide
  <2>4. CASE s1 # side
    <3>1. s.zip[s1] = r.zip[s1]
      BY <1>2, <2>4
    <3>. QED  BY <1>2, <2>1, <2>2, <2>4, <3>1 DEF QuietSide
  <2>. QED  BY <2>3, <2>4
<1>. QED  BY <1>2, <1>4, Progress DEF QuietRun, Seen

LEMMA ReplaceQuiet ==
    ASSUME NEW docs \in Docs, NEW r \in Run, NEW o \in Op, NEW n \in Op, NEW p \in Path,
           RunInv(r), AwaitedInv(o, r), QuietRun(docs, r, {o}),
           r.phase \in ImportPhase, o.stage = "import", p \in Paths(o.archive),
           n.stage = "import", n.archive = o.archive,
           NEW after, after = Without(docs, Opposite(Acting(r.phase)), {p})
    PROVE  QuietRun(after, r, {n})
<1>1. PICK side \in Side : side = Acting(r.phase)
  BY Progress DEF Side
<1>2. p \in r.plan[side].retrieve
  <2>1. Paths(o.archive) \subseteq Paths(r.zip[side])
    BY <1>1 DEF AwaitedInv, Paths
  <2>. QED  BY <2>1, PlanPaths
<1>3. /\ r.phase \in Planned
      /\ r.phase \notin {"plan", "serverSnapshot", "serverFinal", "persist", "clientActions"}
      /\ r.phase \notin SnapshotPhase
      /\ r.phase \notin Imported(side)
  BY <1>1, Progress DEF ImportPhase
<1>4. ASSUME NEW q \in Path, NEW s1 \in Side, q # p \/ s1 = side
      PROVE  after[s1][q] = docs[s1][q]
  BY <1>1, <1>4, WithoutAt, PlanPaths
<1>5. ASSUME NEW q \in Path, NEW s1 \in Side, docs[s1][q] = Absent
      PROVE  after[s1][q] = Absent
  BY <1>1, <1>5, WithoutAt, PlanPaths
<1>6. ASSUME NEW q \in Path, Free(r.plan, q), ~Listed(r.plan, q)
      PROVE  Alike(after, q)
  <2>1. Alike(docs, q)
    BY <1>3, <1>6 DEF QuietRun
  <2>2. q # p
    BY <1>2, <1>6 DEF Listed
  <2>. QED  BY <1>4, <2>1, <2>2 DEF Alike, Side
<1>7. ASSUME NEW s1 \in Side, NEW q \in r.plan[s1].retrieve
      PROVE  /\ q \in Path /\ after[s1][q] = docs[s1][q]
             /\ s1 # side => q # p
  <2>1. q \in Path /\ (s1 # side => q # p)
    BY <1>2, PlanPaths
  <2>. QED  BY <1>4, <2>1
<1>8. ASSUME NEW q \in Path, SameAt(docs, q), q # p
      PROVE  SameAt(after, q)
  BY <1>4, <1>8 DEF SameAt, Side
<1>9. ASSUME NEW s1 \in Side
      PROVE  QuietSide(after, r, s1)
  <2>1. QuietSide(docs, r, s1)
    BY <1>3 DEF QuietRun
  <2>2. \A q \in r.plan[s1].delete : after[Opposite(s1)][q] = Absent
    BY <1>5, <2>1, PlanPaths DEF QuietSide
  <2>3. \A q \in r.plan[s1].retrieve : Free(r.plan, q) => after[s1][q] # Absent
    BY <1>7, <2>1 DEF QuietSide
  <2>4. r.phase \in Answered(s1) =>
           /\ \A q \in r.plan[s1].delete : after[s1][q] = Absent
           /\ Captures(after, r.plan, s1, r.zip[s1])
    <3>1. \A e \in r.zip[s1] : e.path \in r.plan[s1].retrieve
      BY PlanPaths DEF Paths
    <3>2. \A q \in r.plan[s1].delete : q \in Path
      BY PlanPaths
    <3>. QED  BY <1>5, <1>7, <2>1, <3>1, <3>2 DEF QuietSide, Captures, Exact
  <2>5. r.phase \in Imported(s1) =>
           \A q \in r.plan[s1].retrieve : Free(r.plan, q) => SameAt(after, q)
    BY <1>3, <1>7, <1>8, <2>1 DEF QuietSide
  <2>. QED  BY <2>2, <2>3, <2>4, <2>5 DEF QuietSide
<1>10. QuietOp(after, r, n)
  <2>1. \A q \in r.plan[side].retrieve \ Paths(o.archive) : Free(r.plan, q) => SameAt(docs, q)
    BY <1>1, <1>3 DEF QuietRun, QuietOp
  <2>. QED  BY <1>1, <1>7, <1>8, <2>1 DEF QuietOp
<1>. QED  BY <1>3, <1>6, <1>9, <1>10 DEF QuietRun, Seen

\* A document is copied to a side.
With(docs, side, p, document) == [docs EXCEPT ![side][p] = document]

LEMMA WithAt ==
    ASSUME NEW docs \in Docs, NEW side \in Side, NEW p \in Path, NEW document,
           NEW s1 \in Side, NEW q \in Path
    PROVE  With(docs, side, p, document)[s1][q] =
               IF s1 = side /\ q = p THEN document ELSE docs[s1][q]
BY DEF With, Docs

LEMMA CopyQuiet ==
    ASSUME NEW docs \in Docs, NEW r \in Run, NEW o \in Op, NEW n \in Op, NEW e \in Entry,
           RunInv(r), AwaitedInv(o, r), QuietRun(docs, r, {o}),
           r.phase \in ImportPhase, o.stage = "import", e \in o.archive,
           n.stage = "import", n.archive = o.archive \ {e},
           NEW after, after = With(docs, Opposite(Acting(r.phase)), e.path,
                                   [ver |-> e.ver, time |-> e.time])
    PROVE  QuietRun(after, r, {n})
<1> DEFINE p == e.path  document == [ver |-> e.ver, time |-> e.time]
<1>1. PICK side \in Side : side = Acting(r.phase)
  BY Progress DEF Side
<1>2. p \in r.plan[side].retrieve /\ p \in Path /\ e \in r.zip[side]
  <2>1. e \in r.zip[side]
    BY <1>1 DEF AwaitedInv
  <2>. QED  BY <2>1, PlanPaths DEF Paths
<1>3. /\ r.phase \in Planned
      /\ r.phase \notin {"plan", "serverSnapshot", "serverFinal", "persist", "clientActions"}
      /\ r.phase \notin SnapshotPhase
      /\ r.phase \notin Imported(side) /\ r.phase \in Answered(side)
  BY <1>1, Progress DEF ImportPhase
<1>0. document # Absent /\ document.ver = e.ver
  BY NamesAssumption DEF Entry, Document
<1> HIDE DEF document
<1>4. ASSUME NEW q \in Path, NEW s1 \in Side, q # p \/ s1 = side
      PROVE  after[s1][q] = docs[s1][q]
  BY <1>1, <1>2, <1>4, WithAt, PlanPaths DEF document
<1>5. after[Opposite(side)][p] = document
  BY <1>1, <1>2, WithAt, PlanPaths DEF document
<1> HIDE DEF p
<1>6. ASSUME NEW q \in Path, Free(r.plan, q), ~Listed(r.plan, q)
      PROVE  Alike(after, q)
  <2>1. Alike(docs, q)
    BY <1>3, <1>6 DEF QuietRun
  <2>2. q # p
    BY <1>2, <1>6 DEF Listed
  <2>. QED  BY <1>4, <2>1, <2>2 DEF Alike, Side
<1>7. ASSUME NEW s1 \in Side, NEW q \in r.plan[s1].retrieve
      PROVE  /\ q \in Path /\ after[s1][q] = docs[s1][q]
             /\ s1 # side => q # p
  <2>1. q \in Path /\ (s1 # side => q # p)
    BY <1>2, PlanPaths
  <2>. QED  BY <1>4, <2>1
<1>8. ASSUME NEW q \in Path, SameAt(docs, q), q # p
      PROVE  SameAt(after, q)
  BY <1>4, <1>8 DEF SameAt, Side
<1>9. ASSUME NEW s1 \in Side
      PROVE  QuietSide(after, r, s1)
  <2>1. QuietSide(docs, r, s1)
    BY <1>3 DEF QuietRun
  <2>2. \A q \in r.plan[s1].delete : q \in Path /\ q # p
    BY <1>2, PlanPaths
  <2>3. \A q \in r.plan[s1].delete : after[Opposite(s1)][q] = Absent
    <3>1. Opposite(s1) \in Side
      BY PlanPaths
    <3>. QED  BY <1>4, <2>1, <2>2, <3>1 DEF QuietSide
  <2>4. \A q \in r.plan[s1].retrieve : Free(r.plan, q) => after[s1][q] # Absent
    BY <1>7, <2>1 DEF QuietSide
  <2>5. r.phase \in Answered(s1) =>
           /\ \A q \in r.plan[s1].delete : after[s1][q] = Absent
           /\ Captures(after, r.plan, s1, r.zip[s1])
    <3>1. \A x \in r.zip[s1] : x.path \in r.plan[s1].retrieve
      BY PlanPaths DEF Paths
    <3>. QED  BY <1>4, <1>7, <2>1, <2>2, <3>1 DEF QuietSide, Captures, Exact
  <2>6. r.phase \in Imported(s1) =>
           \A q \in r.plan[s1].retrieve : Free(r.plan, q) => SameAt(after, q)
    BY <1>3, <1>7, <1>8, <2>1 DEF QuietSide
  <2>. QED  BY <2>3, <2>4, <2>5, <2>6 DEF QuietSide
<1>10. QuietOp(after, r, n)
  <2>1. \A q \in r.plan[side].retrieve \ Paths(o.archive) : Free(r.plan, q) => SameAt(docs, q)
    BY <1>1, <1>3 DEF QuietRun, QuietOp
  <2>2. Paths(o.archive) \subseteq Paths(n.archive) \cup {p}
    BY DEF Paths, p
  <2>3. ASSUME Free(r.plan, p)
        PROVE  SameAt(after, p)
    <3>1. docs[side][p] # Absent /\ e.ver = docs[side][p].ver
      BY <1>2, <1>3, <2>3 DEF QuietRun, QuietSide, Captures, Exact, p
    <3>2. after[side][p] = docs[side][p]
      BY <1>2, <1>4
    <3>3. after[side][p] # Absent /\ after[Opposite(side)][p] # Absent
          /\ after[side][p].ver = after[Opposite(side)][p].ver
      BY <1>0, <1>5, <3>1, <3>2
    <3>. QED  BY <3>3 DEF SameAt, Opposite, Side
  <2>4. ASSUME NEW q \in r.plan[side].retrieve \ Paths(n.archive), Free(r.plan, q)
        PROVE  SameAt(after, q)
    BY <1>7, <1>8, <2>1, <2>2, <2>3, <2>4
  <2>. QED  BY <1>1, <2>4 DEF QuietOp
<1>. QED  BY <1>3, <1>6, <1>9, <1>10 DEF QuietRun, Seen

LEMMA ImportedQuiet ==
    ASSUME NEW docs, NEW r \in Run, NEW o \in Op, NEW s, RunInv(r), QuietRun(docs, r, {o}),
           r.phase \in ImportPhase, o.stage = "import", o.archive = {},
           s = [r EXCEPT !.phase = After[@]]
    PROVE  QuietRun(docs, s, {})
<1>1. PICK side \in Side : side = Acting(r.phase)
  BY Progress DEF Side
<1>2. s.phase = After[r.phase] /\ s.plan = r.plan /\ s.zip = r.zip /\ s.read = {}
  BY Progress DEF Run, RunInv
<1>3. \A q \in r.plan[side].retrieve : Free(r.plan, q) => SameAt(docs, q)
  BY <1>1, Progress DEF QuietRun, QuietOp, Paths
<1>4. ASSUME NEW s1 \in Side
      PROVE  QuietSide(docs, s, s1)
  <2>1. QuietSide(docs, r, s1)
    BY Progress DEF QuietRun
  <2>2. /\ r.phase \in Answered(s1)
        /\ s.phase \in Imported(s1) => r.phase \in Imported(s1) \/ s1 = side
    BY <1>1, <1>2, Progress
  <2>. QED  BY <1>2, <1>3, <2>1, <2>2 DEF QuietSide
<1>. QED  BY <1>2, <1>4, Progress DEF QuietRun, Seen

LEMMA LiveType ==
    ASSUME TypeOK, NEW d \in Desktop
    PROVE  /\ Live(d) \in Docs
           /\ \A side \in Side : /\ BackendOf(d, side) \in Backend
                                 /\ Live(d)[side] = live[BackendOf(d, side)]
                                 /\ SnapshotOf(BackendOf(d, side)) = TimesOf(Live(d)[side])
<1>1. \A side \in Side : /\ BackendOf(d, side) \in Backend
                         /\ Live(d)[side] = live[BackendOf(d, side)]
  BY DEF BackendOf, Backend, Live
<1>2. \A side \in Side : SnapshotOf(BackendOf(d, side)) = TimesOf(Live(d)[side])
  BY <1>1 DEF SnapshotOf, TimesOf
<1>3. \A side \in Side : live[BackendOf(d, side)] \in [Path -> Document \cup {Absent}]
  BY <1>1 DEF TypeOK
<1>. QED  BY <1>1, <1>2, <1>3 DEF Live, Docs

\* The backend at which the handler of a run works.
LEMMA MineAt ==
    ASSUME Inv, NEW d \in Desktop, NEW o \in ops, o.by = d
    PROVE  /\ Mine(d) = {o} /\ o \in Op
           /\ run[d].phase \in IF o.stage = "import" THEN ImportPhase ELSE ActionsPhase
           /\ o.at = BackendOf(d, IF o.stage = "import" THEN Opposite(Acting(run[d].phase))
                                  ELSE Acting(run[d].phase))
<1>1. /\ run[d].phase \in IF o.stage = "import" THEN ImportPhase ELSE ActionsPhase
      /\ o.at = Target(d)
  BY OpsFacts DEF Inv, ReplyIsAwaited
<1>2. Target(d) = BackendOf(d, IF o.stage = "import" THEN Opposite(Acting(run[d].phase))
                               ELSE Acting(run[d].phase))
  BY <1>1 DEF Target, BackendOf, Opposite, Acting, ClientPhase, ActionsPhase, ImportPhase
<1>. QED  BY <1>1, <1>2, OpsFacts DEF Mine

LEMMA IdleQuiet == \A docs, mine : QuietRun(docs, Idle, mine)
BY PhaseOf DEF QuietRun, Seen, SnapshotPhase, Idle

\* A run that a step leaves alone, with its backends and its handler.
LEMMA ElsewhereQuiet ==
    ASSUME QuietInv, NEW d \in Desktop, quiet[d],
           NEW docs, NEW r, NEW mine, docs = Live(d), r = run[d], mine = Mine(d)
    PROVE  QuietRun(docs, r, mine)
BY DEF QuietInv

\* What the users and the handlers of others do to the backends of d disturbs d.
LEMMA Undisturbed ==
    ASSUME TypeOK, NEW b \in Backend, NEW by, Disturb(b, by), NEW d \in Desktop, quiet'[d], d # by,
           \A c \in Backend : c # b => live'[c] = live[c]
    PROVE  quiet[d] /\ Live(d)' = Live(d)
<1>1. quiet[d] /\ b # d /\ b # Server
  BY DEF Disturb
<1>2. live'[d] = live[d] /\ live'[Server] = live[Server]
  BY <1>1 DEF Backend
<1>3. \A side \in Side : live'[BackendOf(d, side)] = live[BackendOf(d, side)]
  BY <1>2 DEF BackendOf
<1>. QED  BY <1>1, <1>3 DEF Live

LEMMA MovedLive ==
    ASSUME TypeOK, NEW b \in Backend, NEW paths, NEW cause, MoveToTrash(b, paths, cause)
    PROVE  /\ \A c \in Backend : c # b => live'[c] = live[c]
           /\ live'[b] = [p \in Path |-> IF p \in paths THEN Absent ELSE live[b][p]]
BY DEF MoveToTrash, TypeOK

LEMMA MovedDocs ==
    ASSUME TypeOK, NEW d \in Desktop, NEW side \in Side, NEW paths, NEW cause,
           MoveToTrash(BackendOf(d, side), paths, cause)
    PROVE  Live(d)' = Without(Live(d), side, paths)
<1>1. /\ BackendOf(d, side) \in Backend
      /\ \A s1 \in Side : s1 # side => BackendOf(d, s1) \in Backend
                                       /\ BackendOf(d, s1) # BackendOf(d, side)
  BY NamesAssumption DEF BackendOf, Backend, Side
<1>2. /\ \A s1 \in Side : s1 # side => live'[BackendOf(d, s1)] = live[BackendOf(d, s1)]
      /\ live'[BackendOf(d, side)] =
            [p \in Path |-> IF p \in paths THEN Absent ELSE live[BackendOf(d, side)][p]]
  BY <1>1, MovedLive
<1>. QED  BY <1>2 DEF Live, Without

LEMMA CopiedDocs ==
    ASSUME TypeOK, NEW d \in Desktop, NEW side \in Side, NEW p \in Path, NEW document,
           live' = [live EXCEPT ![BackendOf(d, side)][p] = document]
    PROVE  Live(d)' = With(Live(d), side, p, document)
<1>1. /\ BackendOf(d, side) \in Backend
      /\ \A s1 \in Side : s1 # side => BackendOf(d, s1) \in Backend
                                       /\ BackendOf(d, s1) # BackendOf(d, side)
  BY NamesAssumption DEF BackendOf, Backend, Side
<1>2. /\ \A s1 \in Side : s1 # side => live'[BackendOf(d, s1)] = live[BackendOf(d, s1)]
      /\ live'[BackendOf(d, side)] = [live[BackendOf(d, side)] EXCEPT ![p] = document]
  BY <1>1 DEF TypeOK
<1>. QED  BY <1>2 DEF Live, With

LEMMA OwnQuiet ==
    ASSUME Inv, PlanInv, QuietInv, NEW d \in Desktop, quiet'[d],
           \/ StartSync(d) \/ ListDocuments(d) \/ GetSnapshot(d) \/ SnapshotFails(d)
           \/ MakePlan(d) \/ SkipRequest(d) \/ RequestRefused(d) \/ Persist(d)
    PROVE  QuietRun(Live(d), run'[d], {})
<1>1. run[d] \in Run /\ RunInv(run[d]) /\ Live(d) \in Docs /\ Mine(d) = {}
  BY OwnStep, LiveType DEF PlanInv, Inv, TypeOK, Mine
<1>2. ~StartSync(d) => QuietRun(Live(d), run[d], {})
  <2>1. ~StartSync(d) => quiet[d]
    BY DEF ListDocuments, GetSnapshot, SnapshotFails, MakePlan, SkipRequest, RequestRefused,
           Persist
  <2>. QED  BY <1>1, <2>1 DEF QuietInv
<1>3. CASE StartSync(d)
  <2>1. run[d].read = {} /\ run'[d] = [run[d] EXCEPT !.phase = "clientSnapshot"]
    BY <1>1, <1>3, OwnRun DEF RunInv, SnapshotPhase
  <2>2. run'[d].phase = "clientSnapshot" /\ run'[d].read = {}
    BY <1>1, <2>1 DEF Run
  <2>. QED  BY <2>2, PhaseOf DEF QuietRun, Seen
<1>4. CASE GetSnapshot(d) /\ ~StartSync(d)
  <2>0. PICK side : side = SideOf(run[d].phase)
    OBVIOUS
  <2>1. PICK p \in Path \ run[d].read, read \in SUBSET Path : Reads(d, p, read)
    BY <1>4, ReadStep DEF Inv
  <2>2. side \in Side /\ Target(d) = BackendOf(d, side)
    BY <2>0 DEF SideOf, Side, Target, BackendOf
  <2>3. SnapshotOf(Target(d)) = TimesOf(Live(d)[side])
    BY <2>2, LiveType DEF Inv
  <2>4. run'[d] \in Run
    BY <1>4, GetSnapshotType DEF Inv, TypeOK
  <2>5. PICK snap : /\ snap = [run[d].snap EXCEPT ![side][p] = TimesOf(Live(d)[side])[p]]
                    /\ snap = Stamped(d, p)
    BY <2>0, <2>3 DEF Stamped
  <2>6. /\ run[d].phase \in SnapshotPhase /\ read = run[d].read \cup {p} /\ p \in Path
        /\ \/ /\ read = Path
              /\ run'[d] = [run[d] EXCEPT !.phase = After[@], !.snap = snap,
                                          !.read = {}, !.listed = {}]
           \/ read # Path /\ run'[d] = [run[d] EXCEPT !.snap = snap, !.read = read]
    BY <2>1, <2>5 DEF Reads
  <2>7. QuietRun(Live(d), run[d], {})
    BY <1>2, <1>4
  <2>8. Observes(Live(d), run[d], run'[d], p, read, side, snap)
    BY <2>0, <2>5, <2>6 DEF Observes
  <2>. QED  BY <1>1, <2>4, <2>7, <2>8, SnapshotQuiet
<1>5. CASE ListDocuments(d) /\ ~StartSync(d)
  <2>1. PICK listed : run'[d] = [run[d] EXCEPT !.listed = listed]
    BY <1>5, OwnRun
  <2>. QED  BY <1>1, <1>2, <1>5, <2>1, ListQuiet
<1>6. CASE MakePlan(d) /\ ~StartSync(d)
  <2> DEFINE plan == planSync(prev[d], run[d].snap.client, run[d].snap.server)
  <2>1. /\ run[d].phase = "plan"
        /\ \/ run'[d] = [Idle EXCEPT !.phase = "clientActions", !.plan = plan]
           \/ ~HasChanges(plan) /\ run'[d] = [run[d] EXCEPT !.phase = "persist"]
    BY <1>6, PlanRun
  <2> HIDE DEF plan
  <2>2. run[d].plan = NoPlan /\ run[d].zip = NoZips
    BY <1>1, <2>1, PhaseOf DEF RunInv
  <2>. QED  BY <1>1, <1>2, <1>6, <2>1, <2>2, PlanQuiet DEF plan
<1>7. CASE SkipRequest(d) /\ ~StartSync(d)
  BY <1>1, <1>2, <1>7, OwnRun, SkipQuiet
<1>8. CASE SnapshotFails(d) \/ RequestRefused(d) \/ Persist(d)
  <2>1. run'[d] = Idle
    BY <1>8, OwnRun
  <2>. QED  BY <2>1, IdleQuiet
<1>. QED  BY <1>3, <1>4, <1>6, <1>7, <1>8, <1>5

\* The handler that a quiet run waits for.
LEMMA MineQuiet ==
    ASSUME Inv, PlanInv, QuietInv, NEW d \in Desktop, quiet[d], NEW o \in ops, o.by = d
    PROVE  /\ run[d] \in Run /\ RunInv(run[d]) /\ AwaitedInv(o, run[d]) /\ o \in Op
           /\ QuietRun(Live(d), run[d], {o}) /\ Live(d) \in Docs
<1>1. Mine(d) = {o} /\ o \in Op
  BY MineAt
<1>. QED  BY <1>1, OpsFacts, LiveType DEF PlanInv, QuietInv, Inv, TypeOK

LEMMA WorkQuiet ==
    ASSUME Inv, PlanInv, QuietInv, NEW d \in Desktop, quiet'[d], NEW b \in Backend,
           CreateArchive(b) \/ DeleteDocument(b) \/ RemoveReplaced(b) \/ CopyImported(b),
           NEW docs, docs = Live(d)', NEW mine, mine = Mine(d)'
    PROVE  QuietRun(docs, run[d], mine)
<1> DEFINE side == Acting(run[d].phase)
<1>1. ASSUME NEW o \in ops, NEW n, ops' = (ops \ {o}) \cup {n}, n.by = o.by
      PROVE  mine = IF o.by = d THEN {n} ELSE Mine(d)
  <2>1. o.by = d => Mine(d) = {o}
    BY MineAt
  <2>. QED  BY <1>1, <2>1 DEF Mine
<1>2. CASE CreateArchive(b)
  <2>1. PICK o \in ops, n \in Op, p \in Path : Archives(b, o, n, p)
    BY <1>2, ArchiveStep
  <2>2. docs = Live(d) /\ quiet[d]
    BY <2>1 DEF Archives, Live
  <2>3. CASE o.by # d
    BY <1>1, <2>1, <2>2, <2>3, ElsewhereQuiet DEF Archives
  <2>4. CASE o.by = d
    <3>1. run[d].phase \in ActionsPhase /\ b = BackendOf(d, side)
      BY <2>1, <2>4, MineAt DEF Archives
    <3>2. side \in Side /\ Live(d)[side] = live[b]
      BY <3>1, Progress, LiveType DEF Inv, Side
    <3>3. PICK e : e = Archived(b, p)
      OBVIOUS
    <3>4. /\ n.archive = o.archive \cup {e}
          /\ e.ver = Live(d)[side][e.path].ver
      BY <2>1, <3>2, <3>3 DEF Archives, Archived
    <3>5. /\ run[d] \in Run /\ o \in Op /\ QuietRun(Live(d), run[d], {o})
      BY <2>2, <2>4, MineQuiet
    <3>6. mine = {n} /\ o.stage = "actions" /\ n.stage = "actions" /\ n.delete = o.delete
      BY <1>1, <2>1, <2>4 DEF Archives
    <3>. QED  BY <2>2, <3>1, <3>4, <3>5, <3>6, ArchiveQuiet
  <2>. QED  BY <2>3, <2>4
<1>3. CASE DeleteDocument(b)
  <2>1. PICK o \in ops, n \in Op, p \in Path : Deletes(b, o, n, p)
    BY <1>3, DeleteStep
  <2>2. CASE o.by # d
    <3>1. \A c \in Backend : c # b => live'[c] = live[c]
      BY <2>1, MovedLive DEF Deletes, Inv
    <3>2. quiet[d] /\ Live(d)' = Live(d)
      BY <2>1, <2>2, <3>1, Undisturbed DEF Deletes, Inv
    <3>. QED  BY <1>1, <2>1, <2>2, <3>2, ElsewhereQuiet DEF Deletes
  <2>3. CASE o.by = d
    <3>1. run[d].phase \in ActionsPhase /\ b = BackendOf(d, side) /\ quiet[d]
      BY <2>1, <2>3, MineAt DEF Deletes, Disturb
    <3>2. side \in Side
      BY DEF Acting, Side
    <3>3. docs = Without(Live(d), side, Subtree[p])
      BY <2>1, <3>1, <3>2, MovedDocs DEF Deletes, Inv
    <3>4. /\ run[d] \in Run /\ RunInv(run[d]) /\ AwaitedInv(o, run[d]) /\ o \in Op
          /\ QuietRun(Live(d), run[d], {o}) /\ Live(d) \in Docs
      BY <2>3, <3>1, MineQuiet
    <3>5. /\ mine = {n} /\ o.stage = "actions" /\ p \in o.delete /\ n.stage = "actions"
          /\ n.delete = o.delete \ {p} /\ n.archive = o.archive
      BY <1>1, <2>1, <2>3 DEF Deletes
    <3>6. QuietRun(docs, run[d], {n})
      BY <3>1, <3>3, <3>4, <3>5, DeleteQuiet
    <3>. QED  BY <3>5, <3>6
  <2>. QED  BY <2>2, <2>3
<1>4. CASE RemoveReplaced(b)
  <2>1. PICK o \in ops, n \in Op, p \in Path : Replaces(b, o, n, p)
    BY <1>4, ReplaceStep
  <2>2. CASE o.by # d
    <3>1. \A c \in Backend : c # b => live'[c] = live[c]
      BY <2>1, MovedLive DEF Replaces, Inv
    <3>2. quiet[d] /\ Live(d)' = Live(d)
      BY <2>1, <2>2, <3>1, Undisturbed DEF Replaces, Inv
    <3>. QED  BY <1>1, <2>1, <2>2, <3>2, ElsewhereQuiet DEF Replaces
  <2>3. CASE o.by = d
    <3>1. run[d].phase \in ImportPhase /\ b = BackendOf(d, Opposite(side)) /\ quiet[d]
      BY <2>1, <2>3, MineAt DEF Replaces, Disturb
    <3>2. Opposite(side) \in Side
      BY DEF Opposite, Side
    <3>3. docs = Without(Live(d), Opposite(side), {p})
      BY <2>1, <3>1, <3>2, MovedDocs DEF Replaces, Inv
    <3>4. /\ run[d] \in Run /\ RunInv(run[d]) /\ AwaitedInv(o, run[d]) /\ o \in Op
          /\ QuietRun(Live(d), run[d], {o}) /\ Live(d) \in Docs
      BY <2>3, <3>1, MineQuiet
    <3>5. /\ mine = {n} /\ o.stage = "import" /\ p \in Paths(o.archive)
          /\ n.stage = "import" /\ n.archive = o.archive
      BY <1>1, <2>1, <2>3 DEF Replaces
    <3>. QED  BY <3>1, <3>3, <3>4, <3>5, ReplaceQuiet
  <2>. QED  BY <2>2, <2>3
<1>5. CASE CopyImported(b)
  <2>1. PICK o \in ops, n \in Op, e \in Entry : Copies(b, o, n, e)
    BY <1>5, CopyStep
  <2>2. e.path \in Path
    BY DEF Entry
  <2>3. CASE o.by # d
    <3>1. \A c \in Backend : c # b => live'[c] = live[c]
      BY <2>1, <2>2 DEF Copies, Inv, TypeOK
    <3>2. quiet[d] /\ Live(d)' = Live(d)
      BY <2>1, <2>3, <3>1, Undisturbed DEF Copies, Inv
    <3>. QED  BY <1>1, <2>1, <2>3, <3>2, ElsewhereQuiet DEF Copies
  <2>4. CASE o.by = d
    <3>1. run[d].phase \in ImportPhase /\ b = BackendOf(d, Opposite(side)) /\ quiet[d]
      BY <2>1, <2>4, MineAt DEF Copies, Disturb
    <3>2. Opposite(side) \in Side
      BY DEF Opposite, Side
    <3>3. docs = With(Live(d), Opposite(side), e.path, [ver |-> e.ver, time |-> e.time])
      BY <2>1, <2>2, <3>1, <3>2, CopiedDocs DEF Copies, Inv
    <3>4. /\ run[d] \in Run /\ RunInv(run[d]) /\ AwaitedInv(o, run[d]) /\ o \in Op
          /\ QuietRun(Live(d), run[d], {o}) /\ Live(d) \in Docs
      BY <2>4, <3>1, MineQuiet
    <3>5. /\ mine = {n} /\ o.stage = "import" /\ e \in o.archive
          /\ n.stage = "import" /\ n.archive = o.archive \ {e}
      BY <1>1, <2>1, <2>4 DEF Copies
    <3>6. QuietRun(docs, run[d], {n})
      BY <3>1, <3>3, <3>4, <3>5, CopyQuiet
    <3>. QED  BY <3>5, <3>6
  <2>. QED  BY <2>3, <2>4
<1>. QED  BY <1>2, <1>3, <1>4, <1>5

LEMMA QuietStep ==
    ASSUME Inv, PlanInv, QuietInv, [Next]_vars
    PROVE  QuietInv'
<1> SUFFICES ASSUME NEW d \in Desktop, quiet'[d],
                    NEW docs, docs = Live(d)', NEW r, r = run'[d], NEW mine, mine = Mine(d)'
             PROVE  QuietRun(docs, r, mine)
  BY DEF QuietInv
<1>1. ASSUME NEW c \in Desktop,
             \/ StartSync(c) \/ ListDocuments(c) \/ GetSnapshot(c) \/ SnapshotFails(c)
             \/ MakePlan(c) \/ SkipRequest(c) \/ RequestRefused(c) \/ Persist(c)
      PROVE  QuietRun(docs, r, mine)
  <2>1. /\ docs = Live(d) /\ mine = Mine(d)
        /\ \A o \in ops : o.by # c
        /\ c # d => r = run[d]
    BY <1>1, OwnStep DEF Live, Mine
  <2>2. CASE c = d
    <3>1. Mine(d) = {}
      BY <2>1, <2>2 DEF Mine
    <3>. QED  BY <1>1, <2>1, <2>2, <3>1, OwnQuiet
  <2>3. CASE c # d
    <3>1. quiet[d]
      BY <1>1, <2>3 DEF StartSync, ListDocuments, GetSnapshot, SnapshotFails, MakePlan, SkipRequest, RequestRefused,
                        Persist, Inv, TypeOK
    <3>. QED  BY <2>1, <2>3, <3>1, ElsewhereQuiet
  <2>. QED  BY <2>2, <2>3
<1>2. ASSUME NEW c \in Desktop, SendRequest(c)
      PROVE  QuietRun(docs, r, mine)
  <2>1. /\ run[c].phase \in ActionsPhase \cup ImportPhase
        /\ \A o \in ops : o.by # c
        /\ ops' = ops \cup {Request(c)}
        /\ docs = Live(d) /\ r = run[d] /\ quiet[d]
    BY <1>2, SendStep DEF Live
  <2>2. Request(c) \in Op /\ Request(c).by = c
    BY RequestType DEF Inv
  <2>3. CASE c # d
    <3>1. mine = Mine(d)
      BY <2>1, <2>2, <2>3 DEF Mine
    <3>. QED  BY <2>1, <3>1, ElsewhereQuiet
  <2>4. CASE c = d
    <3>1. mine = {Request(d)} /\ Mine(d) = {}
      BY <2>1, <2>2, <2>4 DEF Mine
    <3>2. QuietRun(Live(d), run[d], {}) /\ run[d] \in Run
      BY <2>1, <3>1 DEF QuietInv, Inv, TypeOK
    <3>3. /\ run[d].phase \in ActionsPhase =>
                /\ Request(d).stage = "actions" /\ Request(d).archive = {}
                /\ Request(d).delete = run[d].plan[Acting(run[d].phase)].delete
          /\ run[d].phase \in ImportPhase =>
                /\ Request(d).stage = "import"
                /\ Request(d).archive = run[d].zip[Acting(run[d].phase)]
      BY <2>1, <2>4, RequestEffect DEF Inv
    <3>. QED  BY <2>1, <2>2, <2>4, <3>1, <3>2, <3>3, SendQuiet
  <2>. QED  BY <2>3, <2>4
<1>3. ASSUME NEW c \in Desktop, LoseConnection(c)
      PROVE  QuietRun(docs, r, mine)
  <2>1. /\ run'[c] = Idle /\ (c # d => run'[d] = run[d])
        /\ \A o \in ops : o.by # c => o \in ops'
    BY <1>3, LossStep
  <2>0. docs = Live(d) /\ quiet[d]
    BY <1>3, LossStep DEF Live
  <2>2. CASE c = d
    BY <2>1, <2>2, IdleQuiet
  <2>3. CASE c # d
    <3>2. \A o \in ops' : o.by = d => o \in ops
      BY <1>3, LossStep, OpsFacts
    <3>3. mine = Mine(d)
      BY <2>1, <2>3, <3>2 DEF Mine
    <3>. QED  BY <2>0, <2>1, <2>3, <3>3, ElsewhereQuiet
  <2>. QED  BY <2>2, <2>3
<1>4. ASSUME NEW b \in Backend, Crash(b)
      PROVE  QuietRun(docs, r, mine)
  <2>1. /\ ops' = {o \in ops : o.at # b}
        /\ \/ r = Idle
           \/ r = run[d] /\ \A o \in ops : o.by = d => o \in ops'
        /\ docs = Live(d) /\ quiet[d]
    BY <1>4, CrashStep DEF Live
  <2>2. CASE r = Idle
    BY <2>2, IdleQuiet
  <2>3. CASE r = run[d] /\ \A o \in ops : o.by = d => o \in ops'
    <3>1. mine = Mine(d)
      BY <2>1, <2>3 DEF Mine
    <3>. QED  BY <2>1, <2>3, <3>1, ElsewhereQuiet
  <2>. QED  BY <2>1, <2>2, <2>3
<1>5. ASSUME NEW b \in Backend,
             ArchiveFails(b) \/ DeleteRootFails(b) \/ ReplyArchive(b) \/ ReplyImported(b)
      PROVE  QuietRun(docs, r, mine)
  <2>1. PICK o \in ops : Ends(b, o)
    BY <1>5, EndStep
  <2>2. docs = Live(d) /\ quiet[d] /\ ops' = ops \ {o}
    BY <2>1 DEF Ends, Live
  <2>3. CASE o.by # d
    <3>1. mine = Mine(d) /\ r = run[d]
      BY <2>1, <2>2, <2>3 DEF Mine, Ends
    <3>. QED  BY <2>2, <3>1, ElsewhereQuiet
  <2>4. CASE o.by = d
    <3>1. mine = {}
      BY <2>2, <2>4, OpsFacts DEF Mine
    <3>2. /\ run[d] \in Run /\ RunInv(run[d]) /\ AwaitedInv(o, run[d]) /\ o \in Op
          /\ QuietRun(Live(d), run[d], {o})
      BY <2>2, <2>4, MineQuiet
    <3>3. \/ r = Idle
          \/ /\ o.stage = "actions" /\ o.retrieve = {} /\ o.delete = {} /\ run[d].phase \in ActionsPhase
             /\ r = [run[d] EXCEPT !.phase = After[@],
                                   !.zip[Acting(run[d].phase)] = o.archive]
          \/ /\ o.stage = "import" /\ o.archive = {} /\ run[d].phase \in ImportPhase
             /\ r = [run[d] EXCEPT !.phase = After[@]]
      BY <2>1, <2>4 DEF Ends
    <3>4. CASE r = Idle
      BY <3>4, IdleQuiet
    <3>5. CASE /\ o.stage = "actions" /\ o.retrieve = {} /\ o.delete = {} /\ run[d].phase \in ActionsPhase
               /\ r = [run[d] EXCEPT !.phase = After[@],
                                     !.zip[Acting(run[d].phase)] = o.archive]
      <4>1. QuietRun(Live(d), r, {})
        BY <3>2, <3>5, AnswerQuiet
      <4>. QED  BY <2>2, <3>1, <4>1
    <3>6. CASE /\ o.stage = "import" /\ o.archive = {} /\ run[d].phase \in ImportPhase
               /\ r = [run[d] EXCEPT !.phase = After[@]]
      BY <2>2, <3>1, <3>2, <3>6, ImportedQuiet
    <3>. QED  BY <3>3, <3>4, <3>5, <3>6
  <2>. QED  BY <2>3, <2>4
<1>6. ASSUME NEW b \in Backend,
             CreateArchive(b) \/ DeleteDocument(b) \/ RemoveReplaced(b) \/ CopyImported(b)
      PROVE  QuietRun(docs, r, mine)
  <2>1. r = run[d]
    BY <1>6 DEF CreateArchive, DeleteDocument, RemoveReplaced, CopyImported
  <2>. QED  BY <1>6, <2>1, WorkQuiet
<1>7. ASSUME NEW b \in Backend, NEW p \in Path, StoreDocument(b, p) \/ RemoveDocument(b, p)
      PROVE  QuietRun(docs, r, mine)
  <2>1. /\ mine = Mine(d) /\ r = run[d] /\ Disturb(b, Nobody)
    BY <1>7 DEF StoreDocument, RemoveDocument, Mine
  <2>2. \A c \in Backend : c # b => live'[c] = live[c]
    BY <1>7, MovedLive DEF StoreDocument, RemoveDocument, Inv, TypeOK
  <2>3. d # Nobody
    BY OpsFacts
  <2>4. quiet[d] /\ Live(d)' = Live(d)
    BY <2>1, <2>2, <2>3, Undisturbed DEF Inv
  <2>. QED  BY <2>1, <2>4, ElsewhereQuiet
<1>8. CASE UNCHANGED vars
  <2>1. docs = Live(d) /\ r = run[d] /\ mine = Mine(d) /\ quiet[d]
    BY <1>8 DEF vars, Live, Mine
  <2>. QED  BY <2>1, ElsewhereQuiet
<1>. QED  BY <1>1, <1>2, <1>3, <1>4, <1>5, <1>6, <1>7, <1>8 DEF Next, Orchestrator, Handler

LEMMA QuietInvInit == Init => QuietInv
BY DEF Init, QuietInv

LEMMA QuietInvariance == Spec => [](Inv /\ PlanInv /\ QuietInv)
<1>1. Init => Inv /\ PlanInv /\ QuietInv
  BY InitInv, PlanInvInit, QuietInvInit
<1>2. Inv /\ PlanInv /\ QuietInv /\ [Next]_vars => (Inv /\ PlanInv /\ QuietInv)'
  BY TypeStep, ExclusiveStep, ReplyStep, PlanStep, QuietStep DEF Inv
<1>. QED  BY <1>1, <1>2, PTL DEF Spec

(* A run that is about to persist, with nobody else at work meanwhile: the *)
(* snapshots it persists are what the two backends hold, and at every path *)
(* that is not below a deleted one the backends hold nothing, the same     *)
(* document, or documents of the same time.                                *)
QuietRunAgrees ==
    \A d \in Desktop : run[d].phase = "persist" /\ quiet[d] =>
        /\ run[d].snap.client = SnapshotOf(d)
        /\ run[d].snap.server = SnapshotOf(Server)
        /\ \A p \in Path : Free(run[d].plan, p) => SameAt(Live(d), p) \/ Alike(Live(d), p)

LEMMA QuietAgrees == Inv /\ QuietInv => QuietRunAgrees
<1> SUFFICES ASSUME Inv, QuietInv, NEW d \in Desktop, run[d].phase = "persist", quiet[d]
             PROVE  /\ run[d].snap.client = SnapshotOf(d)
                    /\ run[d].snap.server = SnapshotOf(Server)
                    /\ \A p \in Path : Free(run[d].plan, p) =>
                          SameAt(Live(d), p) \/ Alike(Live(d), p)
  BY DEF QuietRunAgrees
<1>1. QuietRun(Live(d), run[d], Mine(d))
  BY DEF QuietInv
<1>2. /\ run[d].phase \in Planned
      /\ \A side \in Side : run[d].phase \in Answered(side) /\ run[d].phase \in Imported(side)
  BY DEF Planned, Phase, Answered, Imported
<1>3. /\ SnapshotOf(d) = TimesOf(Live(d)["client"])
      /\ SnapshotOf(Server) = TimesOf(Live(d)["server"])
  BY LiveType DEF Inv, BackendOf, Side
<1>4. ASSUME NEW p \in Path, Free(run[d].plan, p)
      PROVE  SameAt(Live(d), p) \/ Alike(Live(d), p)
  <2>1. \A side \in Side : QuietSide(Live(d), run[d], side)
    BY <1>1, <1>2 DEF QuietRun
  <2>2. CASE ~Listed(run[d].plan, p)
    BY <1>1, <1>2, <1>4, <2>2 DEF QuietRun
  <2>3. CASE \E side \in Side : p \in run[d].plan[side].retrieve
    BY <1>2, <1>4, <2>1, <2>3 DEF QuietSide
  <2>4. ASSUME NEW side \in Side, p \in run[d].plan[side].delete
        PROVE  SameAt(Live(d), p)
    <3>1. Live(d)[side][p] = Absent /\ Live(d)[Opposite(side)][p] = Absent
      BY <1>2, <2>1, <2>4 DEF QuietSide
    <3>. QED  BY <3>1 DEF SameAt, Opposite, Side
  <2>. QED  BY <2>2, <2>3, <2>4 DEF Listed
<1>. QED  BY <1>1, <1>3, <1>4 DEF QuietRun

(* Every run that is not disturbed persists what the two backends hold,    *)
(* and they agree, whatever its last answers left behind and however the   *)
(* runs before it ended, for any number of desktops and any tree.          *)
THEOREM QuietRunsAgree == Spec => []QuietRunAgrees
BY QuietInvariance, QuietAgrees, PTL

----------------------------------------------------------------------------
(* Times and contents.                                                     *)

\* A content was written before now, and its time is that of the writing, unless it
\* came from an archive: then it is earlier.
Dated(x, now) ==
    /\ x.ver \in Nat /\ x.time \in Nat
    /\ x.ver <= now /\ x.time <= x.ver
    /\ Granularity = 1 => x.time = x.ver

TimeInv ==
    /\ \A b \in Backend, p \in Path : live[b][p] # Absent => Dated(live[b][p], clock)
    /\ \A o \in ops : \A e \in o.archive : Dated(e, clock)
    /\ \A d \in Desktop, side \in Side : \A e \in run[d].zip[side] : Dated(e, clock)

LEMMA DatedLater ==
    ASSUME NEW now \in Nat, NEW later \in Nat, now <= later, NEW x, Dated(x, now)
    PROVE  Dated(x, later)
BY DEF Dated

LEMMA ZippedDated ==
    ASSUME NEW now \in Nat, NEW x, Dated(x, now), NEW e,
           e.ver = x.ver, e.time = ZipTime(x.time)
    PROVE  Dated(e, now)
<1>1. x.time \in Nat /\ e.time \in Nat /\ e.time <= x.time
  <2>1. x.time % Granularity \in Nat
    BY BoundsAssumption DEF Dated
  <2>2. ZipTime(x.time) \in Nat
    BY ZipTimeType DEF Dated, Time
  <2>. QED  BY <2>1, <2>2 DEF Dated, ZipTime
<1>2. Granularity = 1 => e.time = x.time
  BY <1>1 DEF ZipTime
<1>. QED  BY <1>1, <1>2 DEF Dated

\* Archives are made by CreateArchive only: a handler has what it had, or what a run
\* sends to it, and a run what it had, or what its handler answers.
Flow ==
    /\ \A o \in ops' :
          \/ o.archive = {}
          \/ \E x \in ops : /\ o.archive \subseteq x.archive
                            /\ o.at = x.at /\ o.stage = x.stage
                            /\ o.by = x.by \/ o.by = Nobody
          \/ \E c \in Desktop, side \in Side :
                /\ o.stage = "import" /\ o.at = BackendOf(c, Opposite(side))
                /\ o.archive \subseteq run[c].zip[side]
    /\ \A d \in Desktop, side \in Side :
          \/ run'[d].zip[side] \subseteq run[d].zip[side]
          \/ \E x \in ops : /\ x.by = d /\ x.stage = "actions" /\ x.at = BackendOf(d, side)
                            /\ run'[d].zip[side] \subseteq x.archive

LEMMA SameFlow ==
    ASSUME ops' \subseteq ops,
           \A d \in Desktop, side \in Side : run'[d].zip[side] \subseteq run[d].zip[side]
    PROVE  Flow
BY DEF Flow

LEMMA UpdateFlow ==
    ASSUME run' = run, NEW o \in ops, NEW n, ops' = (ops \ {o}) \cup {n},
           n.archive \subseteq o.archive, n.at = o.at, n.stage = o.stage, n.by = o.by
    PROVE  Flow
BY DEF Flow

LEMMA IdleZips == \A side \in Side : Idle.zip[side] = {} /\ NoZips[side] = {}
BY DEF Idle, NoZips

LEMMA FlowStep ==
    ASSUME Inv, [Next]_vars, \A b \in Backend : ~CreateArchive(b)
    PROVE  Flow
<1>1. ASSUME NEW d \in Desktop,
             \/ StartSync(d) \/ ListDocuments(d) \/ GetSnapshot(d) \/ SnapshotFails(d)
             \/ MakePlan(d) \/ SkipRequest(d) \/ RequestRefused(d) \/ Persist(d)
      PROVE  Flow
  <2>1. ops' = ops /\ \A c \in Desktop : c # d => run'[c] = run[c]
    BY <1>1, OwnStep
  <2>2. run'[d].zip \in {run[d].zip, NoZips}
    <3>1. run[d] \in Run
      BY DEF Inv, TypeOK
    <3>2. CASE StartSync(d)
      <4>1. run'[d] = [run[d] EXCEPT !.phase = "clientSnapshot"]
        BY <3>2, OwnRun
      <4>. QED  BY <3>1, <4>1 DEF Run
    <3>3. CASE GetSnapshot(d)
      <4>1. PICK p, read : Reads(d, p, read)
        BY <3>3, ReadStep DEF Inv
      <4>. QED  BY <3>1, <4>1 DEF Run, Reads
    <3>7. CASE ListDocuments(d)
      <4>1. PICK listed : run'[d] = [run[d] EXCEPT !.listed = listed]
        BY <3>7, OwnRun
      <4>. QED  BY <3>1, <4>1 DEF Run
    <3>4. CASE MakePlan(d)
      <4>1. PICK plan :
               \/ run'[d] = [Idle EXCEPT !.phase = "clientActions", !.plan = plan]
               \/ run'[d] = [run[d] EXCEPT !.phase = "persist"]
        BY <3>4, PlanRun
      <4>. QED  BY <3>1, <4>1 DEF Run, Idle
    <3>5. CASE SkipRequest(d)
      <4>1. run'[d] = [run[d] EXCEPT !.phase = After[@]]
        BY <3>5, OwnRun
      <4>. QED  BY <3>1, <4>1 DEF Run
    <3>6. CASE SnapshotFails(d) \/ RequestRefused(d) \/ Persist(d)
      <4>1. run'[d] = Idle
        BY <3>6, OwnRun
      <4>. QED  BY <4>1 DEF Idle
    <3>. QED  BY <1>1, <3>2, <3>3, <3>4, <3>5, <3>6, <3>7
  <2>3. \A c \in Desktop, side \in Side : run'[c].zip[side] \subseteq run[c].zip[side]
    BY <2>1, <2>2, IdleZips
  <2>. QED  BY <2>1, <2>3, SameFlow
<1>2. ASSUME NEW d \in Desktop, SendRequest(d)
      PROVE  Flow
  <2>1. /\ run[d].phase \in ActionsPhase \cup ImportPhase
        /\ ops' = ops \cup {Request(d)} /\ run' = run
    BY <1>2, SendStep
  <2>2. PICK side \in Side : side = Acting(run[d].phase)
    BY DEF Acting, Side
  <2>3. \/ Request(d).archive = {}
        \/ /\ Request(d).stage = "import" /\ Request(d).archive = run[d].zip[side]
           /\ Request(d).at = BackendOf(d, Opposite(side))
    BY <2>1, <2>2, RequestEffect, PhaseOf DEF Inv
  <2>. QED  BY <2>1, <2>3 DEF Flow
<1>3. ASSUME NEW d \in Desktop, LoseConnection(d)
      PROVE  Flow
  <2>1. run'[d] = Idle /\ \A c \in Desktop : c # d => run'[c] = run[c]
    BY <1>3, LossStep
  <2>2. \A c \in Desktop, side \in Side : run'[c].zip[side] \subseteq run[c].zip[side]
    BY <2>1, IdleZips
  <2>3. \A o \in ops' : \E x \in ops : /\ o.archive = x.archive /\ o.at = x.at
                                       /\ o.stage = x.stage /\ o.by \in {x.by, Nobody}
    <3>1. \A x \in ops : LET o == [x EXCEPT !.by = Nobody]
                         IN  /\ o.archive = x.archive /\ o.at = x.at
                             /\ o.stage = x.stage /\ o.by = Nobody
      BY OpsFacts DEF Op
    <3>2. ops' = {IF x.by = d THEN [x EXCEPT !.by = Nobody] ELSE x : x \in ops}
      BY <1>3 DEF LoseConnection
    <3>. QED  BY <3>1, <3>2
  <2>. QED  BY <2>2, <2>3 DEF Flow
<1>4. ASSUME NEW b \in Backend, Crash(b)
      PROVE  Flow
  <2>1. ops' \subseteq ops /\ \A d \in Desktop : run'[d] = Idle \/ run'[d] = run[d]
    BY <1>4, CrashStep
  <2>2. \A c \in Desktop, side \in Side : run'[c].zip[side] \subseteq run[c].zip[side]
    BY <2>1, IdleZips
  <2>. QED  BY <2>1, <2>2, SameFlow
<1>5. ASSUME NEW b \in Backend,
             ArchiveFails(b) \/ DeleteRootFails(b) \/ ReplyArchive(b) \/ ReplyImported(b)
      PROVE  Flow
  <2>1. PICK o \in ops : Ends(b, o)
    BY <1>5, EndStep
  <2>2. ops' \subseteq ops
    BY <2>1 DEF Ends
  <2>3. ASSUME NEW d \in Desktop, NEW side \in Side
        PROVE  \/ run'[d].zip[side] \subseteq run[d].zip[side]
               \/ /\ o.by = d /\ o.stage = "actions" /\ o.at = BackendOf(d, side)
                  /\ run'[d].zip[side] \subseteq o.archive
    <3>1. run[d] \in Run
      BY DEF Inv, TypeOK
    <3>2. CASE d # o.by
      BY <2>1, <3>2 DEF Ends
    <3>3. CASE run'[d] = Idle
      BY <3>3, IdleZips
    <3>4. CASE /\ o.stage = "actions" /\ d = o.by
               /\ run'[d] = [run[d] EXCEPT !.phase = After[@],
                                           !.zip[Acting(run[d].phase)] = o.archive]
      <4>1. o.at = BackendOf(d, Acting(run[d].phase))
        BY <3>4, MineAt
      <4>2. run'[d].zip = [run[d].zip EXCEPT ![Acting(run[d].phase)] = o.archive]
        BY <3>1, <3>4 DEF Run
      <4>. QED  BY <3>1, <3>4, <4>1, <4>2 DEF Run
    <3>5. CASE run'[d] = [run[d] EXCEPT !.phase = After[@]]
      BY <3>1, <3>5 DEF Run
    <3>. QED  BY <2>1, <3>2, <3>3, <3>4, <3>5 DEF Ends
  <2>. QED  BY <2>2, <2>3 DEF Flow
<1>6. ASSUME NEW b \in Backend, DeleteDocument(b) \/ RemoveReplaced(b) \/ CopyImported(b)
      PROVE  Flow
  <2>1. CASE DeleteDocument(b)
    <3>1. PICK o \in ops, n \in Op, p \in Path : Deletes(b, o, n, p)
      BY <2>1, DeleteStep
    <3>. QED  BY <3>1, UpdateFlow DEF Deletes
  <2>2. CASE RemoveReplaced(b)
    <3>1. PICK o \in ops, n \in Op, p \in Path : Replaces(b, o, n, p)
      BY <2>2, ReplaceStep
    <3>. QED  BY <3>1, UpdateFlow DEF Replaces
  <2>3. CASE CopyImported(b)
    <3>1. PICK o \in ops, n \in Op, e \in Entry : Copies(b, o, n, e)
      BY <2>3, CopyStep
    <3>. QED  BY <3>1, UpdateFlow DEF Copies
  <2>. QED  BY <1>6, <2>1, <2>2, <2>3
<1>7. ASSUME NEW b \in Backend, NEW p \in Path, StoreDocument(b, p) \/ RemoveDocument(b, p)
      PROVE  Flow
  BY <1>7, SameFlow DEF StoreDocument, RemoveDocument
<1>8. CASE UNCHANGED vars
  BY <1>8, SameFlow DEF vars
<1>. QED  BY <1>1, <1>2, <1>3, <1>4, <1>5, <1>6, <1>7, <1>8 DEF Next, Orchestrator, Handler

\* Documents stay or go, but in two actions.
Fewer == \A b \in Backend, p \in Path : live'[b][p] \in {live[b][p], Absent}

LEMMA FewerStep ==
    ASSUME Inv, [Next]_vars, \A b \in Backend : ~CopyImported(b),
           \A b \in Backend, p \in Path : ~StoreDocument(b, p)
    PROVE  Fewer /\ clock' = clock
<1>1. ASSUME UNCHANGED <<live, clock>>
      PROVE  Fewer /\ clock' = clock
  BY <1>1 DEF Fewer
<1>2. ASSUME NEW b \in Backend, NEW paths, NEW cause, MoveToTrash(b, paths, cause)
      PROVE  Fewer
  <2>1. /\ \A c \in Backend : c # b => live'[c] = live[c]
        /\ live'[b] = [p \in Path |-> IF p \in paths THEN Absent ELSE live[b][p]]
    BY <1>2, MovedLive DEF Inv
  <2>. QED  BY <2>1 DEF Fewer
<1>3. ASSUME NEW d \in Desktop, Orchestrator(d) \/ LoseConnection(d)
      PROVE  UNCHANGED <<live, clock>>
  BY <1>3 DEF Orchestrator, StartSync, ListDocuments, GetSnapshot, SnapshotFails, MakePlan, SkipRequest, SendRequest,
              RequestRefused, Persist, LoseConnection, storeVars, boundVars
<1>4. ASSUME NEW b \in Backend,
             \/ CreateArchive(b) \/ ArchiveFails(b) \/ DeleteRootFails(b)
             \/ ReplyArchive(b) \/ ReplyImported(b) \/ Crash(b)
      PROVE  UNCHANGED <<live, clock>>
  BY <1>4 DEF CreateArchive, ArchiveFails, DeleteRootFails, ReplyArchive, ReplyImported,
              Crash, storeVars, boundVars
<1>5. ASSUME NEW b \in Backend, DeleteDocument(b)
      PROVE  Fewer /\ clock' = clock
  BY <1>2, <1>5 DEF DeleteDocument, boundVars
<1>6. ASSUME NEW b \in Backend, RemoveReplaced(b)
      PROVE  Fewer /\ clock' = clock
  BY <1>2, <1>6 DEF RemoveReplaced, boundVars
<1>7. ASSUME NEW b \in Backend, NEW p \in Path, RemoveDocument(b, p)
      PROVE  Fewer /\ clock' = clock
  BY <1>2, <1>7 DEF RemoveDocument
<1>8. UNCHANGED vars => UNCHANGED <<live, clock>>
  BY DEF vars
<1>. QED  BY <1>1, <1>3, <1>4, <1>5, <1>6, <1>7, <1>8 DEF Next, Handler

LEMMA TimeStep ==
    ASSUME Inv, TimeInv, [Next]_vars
    PROVE  TimeInv'
<1>1. clock \in Nat /\ clock' \in Nat /\ clock' >= clock
  <2>1. clock' = clock \/ clock' = clock + 1
    BY FewerStep DEF CopyImported, StoreDocument, boundVars
  <2>. QED  BY <2>1 DEF Inv, TypeOK
<1>2. /\ \A b \in Backend, p \in Path : live[b][p] # Absent => Dated(live[b][p], clock')
      /\ \A o \in ops : \A e \in o.archive : Dated(e, clock')
      /\ \A d \in Desktop, side \in Side : \A e \in run[d].zip[side] : Dated(e, clock')
  BY <1>1, DatedLater DEF TimeInv
<1>3. ASSUME Flow
      PROVE  /\ \A o \in ops' : \A e \in o.archive : Dated(e, clock')
             /\ \A d \in Desktop, side \in Side : \A e \in run'[d].zip[side] : Dated(e, clock')
  BY <1>2, <1>3 DEF Flow
<1>4. ASSUME Fewer
      PROVE  \A b \in Backend, p \in Path : live'[b][p] # Absent => Dated(live'[b][p], clock')
  BY <1>2, <1>4 DEF Fewer
<1>5. ASSUME NEW b \in Backend, CreateArchive(b)
      PROVE  TimeInv'
  <2>1. PICK o \in ops, n \in Op, p \in Path : Archives(b, o, n, p)
    BY <1>5, ArchiveStep
  <2>2. ASSUME NEW e \in n.archive
        PROVE  Dated(e, clock')
    <3>1. CASE e \in o.archive
      BY <1>2, <3>1
    <3>2. CASE e = Archived(b, p)
      <4>1. live[b][p] # Absent /\ e.ver = live[b][p].ver /\ e.time = ZipTime(live[b][p].time)
        BY <2>1, <3>2 DEF Archives, Archived
      <4>. QED  BY <1>1, <1>2, <4>1, ZippedDated
    <3>. QED  BY <2>1, <3>1, <3>2 DEF Archives
  <2>3. \A x \in ops' : \A e \in x.archive : Dated(e, clock')
    BY <1>2, <2>1, <2>2 DEF Archives
  <2>4. live' = live /\ run' = run
    BY <2>1 DEF Archives
  <2>. QED  BY <1>2, <2>3, <2>4 DEF TimeInv
<1>6. ASSUME NEW b \in Backend, CopyImported(b), Flow
      PROVE  TimeInv'
  <2>1. PICK o \in ops, n \in Op, e \in Entry : Copies(b, o, n, e)
    BY <1>6, CopyStep
  <2>2. Dated([ver |-> e.ver, time |-> e.time], clock')
    BY <1>2, <2>1 DEF Copies, Dated
  <2>3. \A c \in Backend, p \in Path :
           live'[c][p] \in {live[c][p], [ver |-> e.ver, time |-> e.time]}
    BY <2>1 DEF Copies, Inv, TypeOK
  <2>4. \A c \in Backend, p \in Path : live'[c][p] # Absent => Dated(live'[c][p], clock')
    BY <1>2, <2>2, <2>3
  <2>. QED  BY <1>3, <1>6, <2>4 DEF TimeInv
<1>7. ASSUME NEW b \in Backend, NEW q \in Path, StoreDocument(b, q), Flow
      PROVE  TimeInv'
  <2>1. Dated([ver |-> clock + 1, time |-> clock + 1], clock')
    BY <1>1, <1>7 DEF StoreDocument, Dated
  <2>2. \A c \in Backend, p \in Path :
           live'[c][p] \in {live[c][p], [ver |-> clock + 1, time |-> clock + 1]}
    BY <1>7 DEF StoreDocument, Inv, TypeOK
  <2>3. \A c \in Backend, p \in Path : live'[c][p] # Absent => Dated(live'[c][p], clock')
    BY <1>2, <2>1, <2>2
  <2>. QED  BY <1>3, <1>7, <2>3 DEF TimeInv
<1>8. ASSUME Flow, Fewer
      PROVE  TimeInv'
  BY <1>3, <1>4, <1>8 DEF TimeInv
<1>. QED  BY <1>5, <1>6, <1>7, <1>8, FlowStep, FewerStep

LEMMA TimeInvInit == Init => TimeInv
<1> SUFFICES ASSUME Init
             PROVE  TimeInv
  OBVIOUS
<1>1. ASSUME NEW b \in Backend, NEW p \in Path, live[b][p] # Absent
      PROVE  Dated(live[b][p], clock)
  <2>1. live[b][p] = [ver |-> 0, time |-> 0] /\ clock = 0
    BY <1>1 DEF Init
  <2>. QED  BY <2>1 DEF Dated
<1>. QED  BY <1>1, IdleZips DEF Init, TimeInv

----------------------------------------------------------------------------
(* A lone desktop: what is under way between its backends.                 *)

\* An archive may have made the document earlier than its content, but the later of two
\* documents keeps its time.
Newer(x, other) == x.ver > other.ver => x.time = x.ver

\* Archives of a side on their way to the other.
Leaving(d, side) ==
    run[d].zip[side]
        \cup UNION {o.archive : o \in {x \in ops :
                \/ x.at = BackendOf(d, Opposite(side)) /\ x.stage = "import"
                \/ x.at = BackendOf(d, side) /\ x.stage = "actions" /\ x.by = d}}

AloneInv(d) ==
    /\ \A p \in Path, side \in Side :
          LET own   == live[BackendOf(d, side)][p]
              other == live[BackendOf(d, Opposite(side))][p]
          IN  own # Absent /\ other # Absent => Newer(own, other)
    /\ \A side \in Side : \A e \in Leaving(d, side) :
          LET own == live[BackendOf(d, side)][e.path]
          IN  own # Absent => own.ver >= e.ver /\ Newer(own, e)
    /\ \A e \in Leaving(d, "client"), f \in Leaving(d, "server") : e.path # f.path

LEMMA LeavingFrom ==
    ASSUME NEW d \in Desktop, NEW side \in Side, NEW e
    PROVE  e \in Leaving(d, side) <=>
               \/ e \in run[d].zip[side]
               \/ \E x \in ops : /\ e \in x.archive
                                 /\ \/ x.at = BackendOf(d, Opposite(side)) /\ x.stage = "import"
                                    \/ x.at = BackendOf(d, side) /\ x.stage = "actions" /\ x.by = d
BY DEF Leaving

LEMMA LeavingTo ==
    ASSUME NEW d \in Desktop, NEW side \in Side, NEW e
    PROVE  e \in Leaving(d, side)' <=>
               \/ e \in run'[d].zip[side]
               \/ \E x \in ops' : /\ e \in x.archive
                                  /\ \/ x.at = BackendOf(d, Opposite(side)) /\ x.stage = "import"
                                     \/ x.at = BackendOf(d, side) /\ x.stage = "actions" /\ x.by = d
BY DEF Leaving

LEMMA BackendNames ==
    ASSUME NEW d \in Desktop
    PROVE  /\ \A side \in Side : /\ BackendOf(d, side) \in Backend /\ Opposite(side) \in Side
                                 /\ Opposite(Opposite(side)) = side /\ Opposite(side) # side
           /\ \A s1, s2 \in Side : /\ BackendOf(d, s1) = BackendOf(d, s2) => s1 = s2
                                   /\ s1 # s2 => s1 = Opposite(s2)
           /\ d # Nobody
           /\ Desktop = {d} => \A b \in Backend : \E side \in Side : b = BackendOf(d, side)
BY NamesAssumption DEF BackendOf, Backend, Side, Opposite

LEMMA LeavingShrinks ==
    ASSUME NEW d, Desktop = {d}, Flow, NEW side \in Side
    PROVE  Leaving(d, side)' \subseteq Leaving(d, side)
<1> SUFFICES ASSUME NEW e \in Leaving(d, side)'
             PROVE  e \in Leaving(d, side)
  OBVIOUS
<1>1. d \in Desktop
  OBVIOUS
<1>2. CASE e \in run'[d].zip[side]
  BY <1>1, <1>2, LeavingFrom DEF Flow
<1>3. ASSUME NEW o \in ops', e \in o.archive,
             \/ o.at = BackendOf(d, Opposite(side)) /\ o.stage = "import"
             \/ o.at = BackendOf(d, side) /\ o.stage = "actions" /\ o.by = d
      PROVE  e \in Leaving(d, side)
  <2>1. CASE \E x \in ops : /\ o.archive \subseteq x.archive
                            /\ o.at = x.at /\ o.stage = x.stage
                            /\ o.by = x.by \/ o.by = Nobody
    BY <1>1, <1>3, <2>1, LeavingFrom, BackendNames
  <2>2. CASE \E c \in Desktop, s1 \in Side :
                /\ o.stage = "import" /\ o.at = BackendOf(c, Opposite(s1))
                /\ o.archive \subseteq run[c].zip[s1]
    <3>1. PICK s1 \in Side : /\ o.stage = "import" /\ o.at = BackendOf(d, Opposite(s1))
                             /\ o.archive \subseteq run[d].zip[s1]
      BY <2>2
    <3>2. s1 = side
      BY <1>1, <1>3, <3>1, BackendNames
    <3>. QED  BY <1>1, <1>3, <3>1, <3>2, LeavingFrom
  <2>. QED  BY <1>3, <2>1, <2>2 DEF Flow
<1>. QED  BY <1>1, <1>2, <1>3, LeavingTo

\* Documents that stay or go, archives that stay or go.
LEMMA AloneStays ==
    ASSUME NEW d, Desktop = {d}, AloneInv(d), Fewer,
           \A side \in Side : Leaving(d, side)' \subseteq Leaving(d, side),
           \A side \in Side : \A e \in Leaving(d, side) : e.path \in Path
    PROVE  AloneInv(d)'
<1>1. \A b \in Backend, p \in Path : live'[b][p] # Absent => live'[b][p] = live[b][p]
  BY DEF Fewer
<1>2. \A side \in Side : BackendOf(d, side) \in Backend /\ Opposite(side) \in Side
  BY BackendNames
<1>3. ASSUME NEW p \in Path, NEW side \in Side,
             live'[BackendOf(d, side)][p] # Absent,
             live'[BackendOf(d, Opposite(side))][p] # Absent
      PROVE  Newer(live'[BackendOf(d, side)][p], live'[BackendOf(d, Opposite(side))][p])
  BY <1>1, <1>2, <1>3 DEF AloneInv
<1>4. ASSUME NEW side \in Side, NEW e \in Leaving(d, side)',
             live'[BackendOf(d, side)][e.path] # Absent
      PROVE  /\ live'[BackendOf(d, side)][e.path].ver >= e.ver
             /\ Newer(live'[BackendOf(d, side)][e.path], e)
  BY <1>1, <1>2, <1>4 DEF AloneInv
<1>5. \A e \in Leaving(d, "client")', f \in Leaving(d, "server")' : e.path # f.path
  BY DEF AloneInv, Side
<1>. QED  BY <1>3, <1>4, <1>5 DEF AloneInv

LEMMA LeavingType ==
    ASSUME TypeOK, NEW d \in Desktop, NEW side \in Side, NEW e \in Leaving(d, side)
    PROVE  e \in Entry /\ e.path \in Path
<1>1. run[d].zip[side] \subseteq Entry /\ \A x \in ops : x.archive \subseteq Entry
  BY DEF TypeOK, Run, Op
<1>2. e \in Entry
  BY <1>1, LeavingFrom
<1>. QED  BY <1>2 DEF Entry

\* What leaves a backend is what it holds, and goes where nothing comes from.
LEMMA ArchiveAlone ==
    ASSUME Inv, PlanInv, TimeInv, NEW d, Desktop = {d}, AloneInv(d),
           NEW b \in Backend, CreateArchive(b)
    PROVE  AloneInv(d)'
<1>0. d \in Desktop
  OBVIOUS
<1>1. PICK o \in ops, n \in Op, p \in Path : Archives(b, o, n, p)
  BY ArchiveStep
<1>2. live' = live /\ run' = run /\ ops' = (ops \ {o}) \cup {n}
  BY <1>1 DEF Archives
<1>3. PICK entry : entry = Archived(b, p)
  OBVIOUS
<1>4. /\ n.archive = o.archive \cup {entry}
      /\ entry.path = p /\ p \in o.retrieve /\ entry.ver = live[b][p].ver
  BY <1>1, <1>3 DEF Archives, Archived
<1>5. /\ o.at = b /\ o.stage = "actions"
      /\ n.at = b /\ n.stage = "actions" /\ n.by = o.by
  BY <1>1 DEF Archives
\* Only a handler that the run waits for adds to what leaves, and to one side.
<1>6. ASSUME NEW side \in Side, NEW e \in Leaving(d, side)', e \notin Leaving(d, side)
      PROVE  /\ e = entry /\ o.by = d /\ b = BackendOf(d, side)
             /\ run[d].phase \in ActionsPhase /\ side = Acting(run[d].phase)
  <2>1. PICK x \in ops' : /\ e \in x.archive
                          /\ \/ x.at = BackendOf(d, Opposite(side)) /\ x.stage = "import"
                             \/ x.at = BackendOf(d, side) /\ x.stage = "actions" /\ x.by = d
    BY <1>0, <1>2, <1>6, LeavingTo, LeavingFrom
  <2>2. x = n
    BY <1>0, <1>2, <1>6, <2>1, LeavingFrom
  <2>3. o.by = d /\ b = BackendOf(d, side)
    BY <1>5, <2>1, <2>2
  <2>4. /\ run[d].phase \in ActionsPhase
        /\ BackendOf(d, side) = BackendOf(d, Acting(run[d].phase))
    BY <1>0, <1>5, <2>3, MineAt
  <2>5. Acting(run[d].phase) \in Side
    BY DEF Acting, Side
  <2>6. e \notin o.archive
    BY <1>0, <1>5, <1>6, <2>3, LeavingFrom
  <2>. QED  BY <1>0, <1>4, <2>1, <2>2, <2>3, <2>4, <2>5, <2>6, BackendNames
<1>7. ASSUME NEW side \in Side, NEW e \in Leaving(d, side)',
             live[BackendOf(d, side)][e.path] # Absent
      PROVE  /\ live[BackendOf(d, side)][e.path].ver >= e.ver
             /\ Newer(live[BackendOf(d, side)][e.path], e)
  <2>1. CASE e \in Leaving(d, side)
    BY <1>7, <2>1 DEF AloneInv
  <2>2. CASE e \notin Leaving(d, side)
    <3>1. e = entry /\ b = BackendOf(d, side)
      BY <1>6, <1>7, <2>2
    <3>2. e.ver = live[BackendOf(d, side)][e.path].ver /\ e.path \in Path
      BY <1>4, <3>1
    <3>3. Dated(live[BackendOf(d, side)][e.path], clock)
      BY <1>7, <3>1, <3>2 DEF TimeInv
    <3>. QED  BY <3>2, <3>3 DEF Newer, Dated
  <2>. QED  BY <2>1, <2>2
\* What else leaves the other side is of the run's plan as well.
<1>8. ASSUME NEW side \in Side, NEW e \in Leaving(d, side)', e \notin Leaving(d, side),
             NEW f \in Leaving(d, Opposite(side))'
      PROVE  e.path # f.path
  <2>1. /\ e = entry /\ o.by = d /\ b = BackendOf(d, side)
        /\ run[d].phase \in ActionsPhase /\ side = Acting(run[d].phase)
    BY <1>6, <1>8
  <2>2. Opposite(side) \in Side /\ Opposite(side) # side /\ Opposite(Opposite(side)) = side
    BY <1>0, BackendNames
  <2>3. f \in Leaving(d, Opposite(side))
    BY <1>6, <2>1, <2>2
  <2>4. f \in run[d].zip[Opposite(side)]
    <3>1. ASSUME NEW x \in ops, f \in x.archive,
                 \/ x.at = b /\ x.stage = "import"
                 \/ x.at # b /\ x.stage = "actions" /\ x.by = d
          PROVE  FALSE
      <4>1. x = o
        BY <1>0, <1>5, <2>1, <3>1, OpsFacts, BackendNames
      <4>. QED  BY <1>5, <3>1, <4>1
    <3>2. BackendOf(d, Opposite(side)) # b
      BY <1>0, <2>1, <2>2, BackendNames
    <3>. QED  BY <1>0, <2>1, <2>2, <2>3, <3>1, <3>2, LeavingFrom
  <2>5. RunInv(run[d]) /\ AwaitedInv(o, run[d]) /\ run[d] \in Run
    BY <1>0, <2>1, BackendNames DEF PlanInv, Inv, TypeOK
  <2>6. e.path \in run[d].plan[side].retrieve
    BY <1>4, <1>5, <2>1, <2>5 DEF AwaitedInv
  <2>7. f.path \in run[d].plan[Opposite(side)].retrieve
    BY <2>2, <2>4, <2>5 DEF RunInv, Paths
  <2>. QED  BY <2>2, <2>5, <2>6, <2>7, PlanPaths
<1>9. ASSUME NEW e \in Leaving(d, "client")', NEW f \in Leaving(d, "server")'
      PROVE  e.path # f.path
  <2>1. Opposite("client") = "server" /\ Opposite("server") = "client"
        /\ "client" \in Side /\ "server" \in Side
    BY DEF Opposite, Side
  <2>2. CASE e \notin Leaving(d, "client")
    BY <1>8, <2>1, <2>2
  <2>3. CASE f \notin Leaving(d, "server")
    BY <1>8, <2>1, <2>3
  <2>4. CASE e \in Leaving(d, "client") /\ f \in Leaving(d, "server")
    BY <2>4 DEF AloneInv
  <2>. QED  BY <2>2, <2>3, <2>4
<1>. QED  BY <1>2, <1>7, <1>9 DEF AloneInv

\* A copy is not newer than what it is a copy of, and nothing of its path comes back.
LEMMA CopyAlone ==
    ASSUME Inv, PlanInv, NEW d, Desktop = {d}, AloneInv(d), Flow,
           NEW b \in Backend, CopyImported(b)
    PROVE  AloneInv(d)'
<1>0. d \in Desktop
  OBVIOUS
<1>1. PICK o \in ops, n \in Op, x \in Entry : Copies(b, o, n, x)
  BY CopyStep
<1>2. PICK to \in Side : b = BackendOf(d, to)
  BY <1>0, BackendNames
<1>3. PICK side \in Side : side = Opposite(to) /\ to = Opposite(side) /\ to # side
  BY <1>0, BackendNames
<1>4. x \in Leaving(d, side) /\ x.path \in Path
  BY <1>0, <1>1, <1>2, <1>3, LeavingFrom DEF Copies, Entry
<1> DEFINE document == [ver |-> x.ver, time |-> x.time]
<1>5. /\ live'[b][x.path] = document
      /\ \A c \in Backend, p \in Path : c # b \/ p # x.path => live'[c][p] = live[c][p]
  BY <1>1, <1>4 DEF Copies, Inv, TypeOK
<1>6. document.ver = x.ver /\ document.time = x.time
  OBVIOUS
<1> HIDE DEF document
<1>7. \A s1 \in Side : /\ BackendOf(d, s1) \in Backend /\ Opposite(s1) \in Side
                       /\ s1 = to \/ s1 = side
                       /\ BackendOf(d, s1) = b <=> s1 = to
  BY <1>0, <1>2, <1>3, BackendNames
<1>8. \A s1 \in Side : /\ Leaving(d, s1)' \subseteq Leaving(d, s1)
                       /\ \A e \in Leaving(d, s1) : e.path \in Path /\ e \in Entry
  BY <1>0, LeavingShrinks, LeavingType DEF Inv
<1>9. live[BackendOf(d, side)][x.path] # Absent =>
         /\ live[BackendOf(d, side)][x.path].ver >= x.ver
         /\ Newer(live[BackendOf(d, side)][x.path], x)
  BY <1>4 DEF AloneInv
<1>10. ASSUME NEW p \in Path, NEW s1 \in Side,
              live'[BackendOf(d, s1)][p] # Absent, live'[BackendOf(d, Opposite(s1))][p] # Absent
       PROVE  Newer(live'[BackendOf(d, s1)][p], live'[BackendOf(d, Opposite(s1))][p])
  <2>1. CASE p # x.path
    BY <1>5, <1>7, <1>10, <2>1 DEF AloneInv
  <2>2. CASE p = x.path
    <3>1. /\ live'[BackendOf(d, to)][p] = document
          /\ live'[BackendOf(d, side)][p] = live[BackendOf(d, side)][p]
      BY <1>2, <1>3, <1>5, <1>7, <2>2
    <3>2. live[BackendOf(d, side)][p] # Absent
      BY <1>3, <1>7, <1>10, <3>1
    <3>3. live[BackendOf(d, side)][p].ver \in Nat /\ x.ver \in Nat
      BY <1>4, <1>7, <3>2 DEF Inv, TypeOK, Document, Entry
    <3>4. Newer(document, live[BackendOf(d, side)][p]) /\ Newer(live[BackendOf(d, side)][p], document)
      BY <1>6, <1>9, <2>2, <3>2, <3>3 DEF Newer
    <3>. QED  BY <1>3, <1>7, <3>1, <3>4
  <2>. QED  BY <2>1, <2>2
<1>11. ASSUME NEW s1 \in Side, NEW e \in Leaving(d, s1)',
              live'[BackendOf(d, s1)][e.path] # Absent
       PROVE  /\ live'[BackendOf(d, s1)][e.path].ver >= e.ver
              /\ Newer(live'[BackendOf(d, s1)][e.path], e)
  <2>1. s1 = to => e.path # x.path
    <3>1. ASSUME s1 = to
          PROVE  e.path # x.path
      <4>1. e \in Leaving(d, to) /\ x \in Leaving(d, side)
        BY <1>4, <1>8, <3>1
      <4>. QED  BY <1>3, <4>1 DEF AloneInv, Side
    <3>. QED  BY <3>1
  <2>2. live'[BackendOf(d, s1)][e.path] = live[BackendOf(d, s1)][e.path]
    BY <1>5, <1>7, <1>8, <2>1
  <2>. QED  BY <1>8, <1>11, <2>2 DEF AloneInv
<1>12. \A e \in Leaving(d, "client")', f \in Leaving(d, "server")' : e.path # f.path
  BY <1>8 DEF AloneInv, Side
<1>. QED  BY <1>10, <1>11, <1>12 DEF AloneInv

\* What a user stores is newer than all there is, and keeps its time.
LEMMA StoreAlone ==
    ASSUME Inv, TimeInv, NEW d, Desktop = {d}, AloneInv(d), Flow,
           NEW b \in Backend, NEW q \in Path, StoreDocument(b, q)
    PROVE  AloneInv(d)'
<1>0. d \in Desktop
  OBVIOUS
<1> DEFINE document == [ver |-> clock + 1, time |-> clock + 1]
<1>1. /\ live'[b][q] = document
      /\ \A c \in Backend, p \in Path : c # b \/ p # q => live'[c][p] = live[c][p]
  BY DEF StoreDocument, Inv, TypeOK
<1>2. document.ver = clock + 1 /\ document.time = clock + 1 /\ clock \in Nat
  BY DEF Inv, TypeOK
<1> HIDE DEF document
<1>3. \A s1 \in Side : /\ BackendOf(d, s1) \in Backend /\ Opposite(s1) \in Side
                       /\ BackendOf(d, s1) # BackendOf(d, Opposite(s1))
  BY <1>0, BackendNames
<1>4. \A s1 \in Side : /\ Leaving(d, s1)' \subseteq Leaving(d, s1)
                       /\ \A e \in Leaving(d, s1) : e.path \in Path
  BY <1>0, LeavingShrinks, LeavingType DEF Inv
<1>5. \A s1 \in Side : \A e \in Leaving(d, s1) : Dated(e, clock)
  BY <1>0, LeavingFrom DEF TimeInv
<1>6. \A c \in Backend, p \in Path :
         \/ live'[c][p] = live[c][p] /\ (live[c][p] # Absent => Dated(live[c][p], clock))
         \/ live'[c][p] = document
  BY <1>1 DEF TimeInv
<1>7. ASSUME NEW p \in Path, NEW s1 \in Side,
             live'[BackendOf(d, s1)][p] # Absent, live'[BackendOf(d, Opposite(s1))][p] # Absent
      PROVE  Newer(live'[BackendOf(d, s1)][p], live'[BackendOf(d, Opposite(s1))][p])
  <2>1. CASE live'[BackendOf(d, s1)][p] = document
    BY <1>2, <2>1 DEF Newer
  <2>2. CASE live'[BackendOf(d, s1)][p] # document /\ live'[BackendOf(d, Opposite(s1))][p] = document
    <3>1. Dated(live'[BackendOf(d, s1)][p], clock)
      BY <1>3, <1>6, <1>7, <2>2
    <3>. QED  BY <1>2, <2>2, <3>1 DEF Newer, Dated
  <2>3. CASE live'[BackendOf(d, s1)][p] # document /\ live'[BackendOf(d, Opposite(s1))][p] # document
    BY <1>3, <1>6, <1>7, <2>3 DEF AloneInv
  <2>. QED  BY <2>1, <2>2, <2>3
<1>8. ASSUME NEW s1 \in Side, NEW e \in Leaving(d, s1)',
             live'[BackendOf(d, s1)][e.path] # Absent
      PROVE  /\ live'[BackendOf(d, s1)][e.path].ver >= e.ver
             /\ Newer(live'[BackendOf(d, s1)][e.path], e)
  <2>1. e \in Leaving(d, s1) /\ e.path \in Path /\ Dated(e, clock)
    BY <1>4, <1>5
  <2>2. CASE live'[BackendOf(d, s1)][e.path] = document
    BY <1>2, <2>1, <2>2 DEF Newer, Dated
  <2>3. CASE live'[BackendOf(d, s1)][e.path] # document
    BY <1>3, <1>6, <1>8, <2>1, <2>3 DEF AloneInv
  <2>. QED  BY <2>2, <2>3
<1>9. \A e \in Leaving(d, "client")', f \in Leaving(d, "server")' : e.path # f.path
  BY <1>4 DEF AloneInv, Side
<1>. QED  BY <1>7, <1>8, <1>9 DEF AloneInv

LEMMA AloneStep ==
    ASSUME Inv, PlanInv, TimeInv, NEW d, Desktop = {d}, AloneInv(d), [Next]_vars
    PROVE  AloneInv(d)'
<1>1. CASE \E b \in Backend : CreateArchive(b)
  BY <1>1, ArchiveAlone
<1>2. CASE ~ \E b \in Backend : CreateArchive(b)
  <2>1. Flow
    BY <1>2, FlowStep
  <2>2. \A side \in Side : /\ Leaving(d, side)' \subseteq Leaving(d, side)
                           /\ \A e \in Leaving(d, side) : e.path \in Path
    BY <2>1, LeavingShrinks, LeavingType DEF Inv
  <2>. QED  BY <2>1, <2>2, CopyAlone, StoreAlone, FewerStep, AloneStays
<1>. QED  BY <1>1, <1>2

LEMMA AloneInit ==
    ASSUME Init, NEW d, Desktop = {d}
    PROVE  AloneInv(d)
<1>1. \A side \in Side : Leaving(d, side) = {}
  BY IdleZips DEF Init, Leaving
<1>2. ASSUME NEW p \in Path, NEW side \in Side,
             live[BackendOf(d, side)][p] # Absent, live[BackendOf(d, Opposite(side))][p] # Absent
      PROVE  Newer(live[BackendOf(d, side)][p], live[BackendOf(d, Opposite(side))][p])
  <2>1. \A b \in Backend : live[b][p] \in {Absent, [ver |-> 0, time |-> 0]}
    BY DEF Init
  <2>. QED  BY <1>2, <2>1, BackendNames DEF Newer
<1>. QED  BY <1>1, <1>2 DEF AloneInv, Side

----------------------------------------------------------------------------
(* A lone desktop: what explains the deletions it asks for.                *)

\* A user removed the document at p, or one it was below.
RemovedAbove(p) == \E q \in Path \ {Root} : p \in Subtree[q] /\ RemovedByUser(q)

\* b holds the document at p, or is about to, or lost it to a user.
Explained(b, p) ==
    \/ live[b][p] # Absent
    \/ RemovedAbove(p)
    \/ \E o \in ops : o.at = b /\ p \in o.gap

\* The times that d goes by: of the last successful run, and of the current one.
Remembered(d, side, p) ==
    \/ run[d].snap[side][p] # Absent
    \/ prev[d] # NoState /\ prev[d][side][p] # Absent

Missed(d, side, p) ==
    prev[d] # NoState /\ prev[d][side][p] # Absent /\ run[d].snap[side][p] = Absent

\* The phases in which the snapshot to plan from is at hand, and where it is so far.
Taken(side) == IF side = "client" THEN {"serverSnapshot", "plan"} ELSE {"plan"}
First(side) == IF side = "client" THEN "clientSnapshot" ELSE "serverSnapshot"

TakenAt(r, side, p) == r.phase \in Taken(side) \/ (r.phase = First(side) /\ p \in r.read)

CauseInv(d) ==
    faults = 0 =>
        /\ \A o \in ops : o.by = d
        /\ \A side \in Side, p \in Path :
              /\ Remembered(d, side, p) => Explained(BackendOf(d, side), p)
              /\ TakenAt(run[d], side, p) /\ Missed(d, side, p) => RemovedAbove(p)
              /\ p \in run[d].plan[side].delete => RemovedAbove(p)

\* The trash only grows: what a user removed stays removed by a user.
LEMMA TrashGrows ==
    ASSUME Inv, [Next]_vars
    PROVE  /\ \A b \in Backend : trash[b] \subseteq trash'[b]
           /\ \A p \in Path : RemovedAbove(p) => RemovedAbove(p)'
<1>1. ASSUME NEW b \in Backend, NEW paths, NEW cause, MoveToTrash(b, paths, cause)
      PROVE  \A c \in Backend : trash[c] \subseteq trash'[c]
  BY <1>1 DEF MoveToTrash, Inv, TypeOK
<1>2. ASSUME NEW d \in Desktop, Orchestrator(d) \/ LoseConnection(d)
      PROVE  trash' = trash
  BY <1>2 DEF Orchestrator, StartSync, ListDocuments, GetSnapshot, SnapshotFails, MakePlan, SkipRequest, SendRequest,
              RequestRefused, Persist, LoseConnection, storeVars
<1>3. ASSUME NEW b \in Backend,
             \/ CreateArchive(b) \/ ArchiveFails(b) \/ DeleteRootFails(b)
             \/ ReplyArchive(b) \/ CopyImported(b) \/ ReplyImported(b) \/ Crash(b)
      PROVE  trash' = trash
  BY <1>3 DEF CreateArchive, ArchiveFails, DeleteRootFails, ReplyArchive, CopyImported,
              ReplyImported, Crash, storeVars
<1>4. ASSUME NEW b \in Backend, DeleteDocument(b) \/ RemoveReplaced(b)
      PROVE  \A c \in Backend : trash[c] \subseteq trash'[c]
  BY <1>1, <1>4 DEF DeleteDocument, RemoveReplaced
<1>5. ASSUME NEW b \in Backend, NEW p \in Path, StoreDocument(b, p) \/ RemoveDocument(b, p)
      PROVE  \A c \in Backend : trash[c] \subseteq trash'[c]
  BY <1>1, <1>5 DEF StoreDocument, RemoveDocument
<1>6. UNCHANGED vars => trash' = trash
  BY DEF vars
<1>7. \A b \in Backend : trash[b] \subseteq trash'[b]
  BY <1>2, <1>3, <1>4, <1>5, <1>6 DEF Next, Handler
<1>. QED  BY <1>7 DEF RemovedAbove, RemovedByUser

\* What is below a document that a user's removal explains, it explains too.
LEMMA RemovedBelow ==
    ASSUME NEW p \in Path, NEW q \in Subtree[p], RemovedAbove(p)
    PROVE  RemovedAbove(q)
<1>1. PICK r \in Path \ {Root} : p \in Subtree[r] /\ RemovedByUser(r)
  BY DEF RemovedAbove
<1>2. q \in Subtree[r]
  BY <1>1, SubtreeAssumption
<1>. QED  BY <1>1, <1>2 DEF RemovedAbove

\* What a step leaves of what a run and sync.json remember.
SameMemory(d) ==
    /\ prev'[d] = prev[d] /\ run'[d].snap = run[d].snap /\ run'[d].plan = run[d].plan
    /\ \A side \in Side, p \in Path : TakenAt(run'[d], side, p) => TakenAt(run[d], side, p)

Forgets(d) == run'[d] = Idle /\ (prev'[d] = prev[d] \/ prev'[d] = run[d].snap)

LEMMA MemoryStep ==
    ASSUME Inv, PlanInv, NEW d \in Desktop, [Next]_vars, ~GetSnapshot(d), ~MakePlan(d)
    PROVE  SameMemory(d) \/ Forgets(d)
<1>0. run[d] \in Run /\ prev \in [Desktop -> SyncState \cup {NoState}] /\ RunInv(run[d])
  BY DEF Inv, PlanInv, TypeOK
<1>1. ASSUME run'[d] = run[d], prev'[d] = prev[d]
      PROVE  SameMemory(d)
  BY <1>1 DEF SameMemory
<1>2. CASE StartSync(d)
  <2>1. /\ run'[d] = [run[d] EXCEPT !.phase = "clientSnapshot"] /\ prev' = prev
        /\ run[d].read = {}
    BY <1>0, <1>2, OwnRun DEF StartSync, RunInv, SnapshotPhase
  <2>2. /\ run'[d].phase = "clientSnapshot" /\ run'[d].read = {}
        /\ run'[d].snap = run[d].snap /\ run'[d].plan = run[d].plan
    BY <1>0, <2>1 DEF Run
  <2>. QED  BY <2>1, <2>2 DEF SameMemory, TakenAt, Taken
<1>3. CASE SkipRequest(d)
  <2>1. /\ run'[d] = [run[d] EXCEPT !.phase = After[@]] /\ prev' = prev
        /\ run[d].phase \in ActionsPhase \cup ImportPhase
    BY <1>3, OwnRun DEF SkipRequest
  <2>2. /\ run'[d].phase = After[run[d].phase]
        /\ run'[d].snap = run[d].snap /\ run'[d].plan = run[d].plan
    BY <1>0, <2>1 DEF Run
  <2>3. After[run[d].phase] \notin {"plan", "clientSnapshot", "serverSnapshot"}
    BY <2>1, Progress, PhaseOf DEF Side
  <2>. QED  BY <2>1, <2>2, <2>3 DEF SameMemory, TakenAt, Taken, First
<1>4. CASE SendRequest(d)
  BY <1>1, <1>4, SendStep
<1>5. CASE RequestRefused(d)
  BY <1>5, OwnRun DEF RequestRefused, Forgets
<1>6. CASE Persist(d)
  BY <1>0, <1>6, OwnRun DEF Persist, Forgets
<1>7. ASSUME NEW c \in Desktop, c # d, Orchestrator(c)
      PROVE  SameMemory(d)
  <2>1. run'[d] = run[d]
    BY <1>7, OwnStep, SendStep DEF Orchestrator
  <2>2. prev'[d] = prev[d]
    BY <1>0, <1>7 DEF Orchestrator, StartSync, ListDocuments, GetSnapshot, SnapshotFails, MakePlan, SkipRequest, SendRequest,
                RequestRefused, Persist
  <2>. QED  BY <1>1, <2>1, <2>2
<1>8. ASSUME NEW c \in Desktop, LoseConnection(c)
      PROVE  SameMemory(d) \/ Forgets(d)
  BY <1>1, <1>8, LossStep DEF Forgets
<1>9. ASSUME NEW b \in Backend, Crash(b)
      PROVE  SameMemory(d) \/ Forgets(d)
  BY <1>1, <1>9, CrashStep DEF Forgets
<1>10. ASSUME NEW b \in Backend,
              ArchiveFails(b) \/ DeleteRootFails(b) \/ ReplyArchive(b) \/ ReplyImported(b)
       PROVE  SameMemory(d) \/ Forgets(d)
  <2>1. PICK o \in ops : Ends(b, o)
    BY <1>10, EndStep
  <2>2. prev'[d] = prev[d]
    BY <2>1 DEF Ends
  <2>3. CASE d # o.by
    BY <1>1, <2>1, <2>2, <2>3 DEF Ends
  <2>4. CASE run'[d] = Idle
    BY <2>2, <2>4 DEF Forgets
  <2>5. ASSUME run[d].phase \in ActionsPhase \cup ImportPhase, NEW zip,
               run'[d] = [run[d] EXCEPT !.phase = After[@], !.zip = zip]
        PROVE  SameMemory(d)
    <3>1. /\ run'[d].phase = After[run[d].phase]
          /\ run'[d].snap = run[d].snap /\ run'[d].plan = run[d].plan
      BY <1>0, <2>5 DEF Run
    <3>2. After[run[d].phase] \notin {"plan", "clientSnapshot", "serverSnapshot"}
      BY <2>5, Progress, PhaseOf DEF Side
    <3>. QED  BY <2>2, <3>1, <3>2 DEF SameMemory, TakenAt, Taken, First
  <2>6. ASSUME run[d].phase \in ImportPhase, run'[d] = [run[d] EXCEPT !.phase = After[@]]
        PROVE  SameMemory(d)
    <3>1. run'[d] = [run[d] EXCEPT !.phase = After[@], !.zip = run[d].zip]
      BY <1>0, <2>6 DEF Run
    <3>. QED  BY <2>5, <2>6, <3>1
  <2>. QED  BY <2>1, <2>3, <2>4, <2>5, <2>6 DEF Ends
<1>11. ASSUME NEW b \in Backend,
              CreateArchive(b) \/ DeleteDocument(b) \/ RemoveReplaced(b) \/ CopyImported(b)
       PROVE  SameMemory(d)
  BY <1>1, <1>11 DEF CreateArchive, DeleteDocument, RemoveReplaced, CopyImported
<1>12. ASSUME NEW b \in Backend, NEW p \in Path, StoreDocument(b, p) \/ RemoveDocument(b, p)
       PROVE  SameMemory(d)
  BY <1>1, <1>12 DEF StoreDocument, RemoveDocument
<1>13. UNCHANGED vars => SameMemory(d)
  BY <1>1 DEF vars
<1>14. CASE ListDocuments(d)
  <2>1. PICK listed : run'[d] = [run[d] EXCEPT !.listed = listed]
    BY <1>14, OwnRun
  <2>2. /\ run'[d].phase = run[d].phase /\ run'[d].read = run[d].read
        /\ run'[d].snap = run[d].snap /\ run'[d].plan = run[d].plan
    BY <1>0, <2>1 DEF Run
  <2>. QED  BY <1>14, <2>2 DEF ListDocuments, SameMemory, TakenAt
<1>15. CASE SnapshotFails(d)
  BY <1>15, OwnRun DEF SnapshotFails, Forgets
<1>. QED  BY <1>2, <1>3, <1>4, <1>5, <1>6, <1>7, <1>8, <1>9, <1>10, <1>11, <1>12, <1>13,
             <1>14, <1>15
          DEF Next, Orchestrator, Handler

\* A document that is moved away is in the trash, with the cause.
LEMMA MovedAway ==
    ASSUME TypeOK, NEW b \in Backend, NEW paths, NEW cause, MoveToTrash(b, paths, cause),
           NEW c \in Backend, NEW p \in Path, live[c][p] # Absent, live'[c][p] = Absent
    PROVE  c = b /\ p \in paths /\ \E t \in trash'[b] : t.path = p /\ t.by = cause
<1>1. c = b /\ p \in paths
  <2>1. /\ \A a \in Backend : a # b => live'[a] = live[a]
        /\ live'[b] = [q \in Path |-> IF q \in paths THEN Absent ELSE live[b][q]]
    BY MovedLive
  <2>. QED  BY <2>1
<1>2. PICK t : t = [path |-> p, ver |-> live[b][p].ver, by |-> cause]
  OBVIOUS
<1>3. t \in TrashOf(b, paths, cause)
  BY <1>1, <1>2 DEF TrashOf, Contents
<1>4. trash'[b] = trash[b] \cup TrashOf(b, paths, cause)
  BY DEF MoveToTrash, TypeOK
<1>. QED  BY <1>1, <1>2, <1>3, <1>4

\* Handlers of others, or of runs that have gone, are the work of faults.
LEMMA FaultStep ==
    ASSUME Inv, [Next]_vars, faults' = 0
    PROVE  /\ faults = 0
           /\ \A d \in Desktop : ~LoseConnection(d)
           /\ \A b \in Backend : ~Crash(b)
<1>1. faults' \in {faults, faults + 1} /\ faults \in Nat
  BY DEF Next, Orchestrator, Handler, vars, boundVars, StartSync, ListDocuments, GetSnapshot, SnapshotFails, MakePlan,
         SkipRequest, SendRequest, RequestRefused, Persist, LoseConnection, Crash,
         CreateArchive, ArchiveFails, DeleteDocument, DeleteRootFails, ReplyArchive,
         RemoveReplaced, CopyImported, ReplyImported, StoreDocument, RemoveDocument,
         Inv, TypeOK
<1>2. faults + 1 # 0
  BY <1>1
<1>. QED  BY <1>1, <1>2 DEF LoseConnection, Crash

\* What goes is a replacement under way, or removed by a user at the source.
LEMMA ExplainedStep ==
    ASSUME Inv, PlanInv, NEW d, Desktop = {d}, CauseInv(d), [Next]_vars, faults' = 0,
           NEW b \in Backend, NEW p \in Path, Explained(b, p)
    PROVE  Explained(b, p)'
<1>0. d \in Desktop /\ faults = 0 /\ \A o \in ops : o.by = d
  BY FaultStep DEF CauseInv
<1>1. RemovedAbove(p) => RemovedAbove(p)'
  BY TrashGrows
<1>2. ASSUME live' = live, \A o \in ops : o.gap # {} => \E x \in ops' : x.at = o.at /\ x.gap = o.gap
      PROVE  Explained(b, p)'
  BY <1>1, <1>2 DEF Explained
<1>3. ASSUME NEW c \in Desktop, Orchestrator(c)
      PROVE  Explained(b, p)'
  <2>1. live' = live /\ ops \subseteq ops'
    BY <1>3, OwnStep, SendStep DEF Orchestrator
  <2>. QED  BY <1>2, <2>1
<1>4. ASSUME NEW c \in Backend,
             ArchiveFails(c) \/ DeleteRootFails(c) \/ ReplyArchive(c) \/ ReplyImported(c)
      PROVE  Explained(b, p)'
  <2>1. PICK o \in ops : Ends(c, o)
    BY <1>4, EndStep
  <2>2. o.gap = {}
    <3>1. o.gap = {} \/ (o.stage = "import" /\ o.gap \subseteq Paths(o.archive))
      BY DEF PlanInv, HandlerInv
    <3>2. ASSUME o.archive = {}
          PROVE  o.gap = {}
      BY <3>1, <3>2 DEF Paths
    <3>3. ASSUME run'[d] = Idle, o.stage = "import"
          PROVE  o.gap = {}
      <4>1. ArchiveFails(c) \/ DeleteRootFails(c) => FALSE
        <5>1. ASSUME NEW x \in Running(c), x.stage # "import"
              PROVE  FALSE
          BY <2>1, <3>3, <5>1 DEF Running, Inv, ExclusiveExchange, Ends
        <5>. QED  BY <5>1 DEF ArchiveFails, DeleteRootFails, HasArchived
      <4>2. \A x \in Running(c) : x = o
        BY <2>1 DEF Running, Inv, ExclusiveExchange, Ends
      <4>3. o.archive = {}
        BY <1>4, <3>3, <4>1, <4>2 DEF ReplyArchive, ReplyImported, HasArchived
      <4>. QED  BY <3>2, <4>3
    <3>. QED  BY <1>0, <2>1, <3>1, <3>2, <3>3 DEF Ends
  <2>. QED  BY <1>2, <2>1, <2>2 DEF Ends
<1>5. ASSUME NEW c \in Backend, CreateArchive(c)
      PROVE  Explained(b, p)'
  <2>1. PICK o \in ops, n \in Op, q \in Path : Archives(c, o, n, q)
    BY <1>5, ArchiveStep
  <2>. QED  BY <1>2, <2>1 DEF Archives
<1>6. ASSUME NEW c \in Backend, DeleteDocument(c)
      PROVE  Explained(b, p)'
  <2>1. PICK o \in ops, n \in Op, q \in Path : Deletes(c, o, n, q)
    BY <1>6, DeleteStep
  <2>2. \A x \in ops : x.gap # {} => \E y \in ops' : y.at = x.at /\ y.gap = x.gap
    BY <2>1 DEF Deletes
  <2>3. RemovedAbove(q)
    <3>1. AwaitedInv(o, run[d]) /\ o.by = d
      BY <1>0, BackendNames DEF PlanInv
    <3>2. Acting(run[d].phase) \in Side
      BY DEF Acting, Side
    <3>3. q \in run[d].plan[Acting(run[d].phase)].delete
      BY <2>1, <3>1 DEF AwaitedInv, Deletes
    <3>. QED  BY <1>0, <3>2, <3>3 DEF CauseInv
  <2>4. ASSUME live[b][p] # Absent, live'[b][p] = Absent
        PROVE  RemovedAbove(p)'
    <3>1. MoveToTrash(c, Subtree[q], "delete")
      BY <2>1 DEF Deletes
    <3>2. p \in Subtree[q]
      BY <2>4, <3>1, MovedAway DEF Inv
    <3>. QED  BY <1>1, <2>3, <3>2, RemovedBelow
  <2>. QED  BY <1>1, <2>2, <2>4 DEF Explained
<1>7. ASSUME NEW c \in Backend, RemoveReplaced(c)
      PROVE  Explained(b, p)'
  <2>1. PICK o \in ops, n \in Op, q \in Path : Replaces(c, o, n, q)
    BY <1>7, ReplaceStep
  <2>2. \A x \in ops : x.gap # {} => x \in ops'
    BY <2>1 DEF Replaces
  <2>3. ASSUME live[b][p] # Absent, live'[b][p] = Absent
        PROVE  b = c /\ p \in n.gap /\ n \in ops' /\ n.at = c
    <3>1. MoveToTrash(c, {q}, "import")
      BY <2>1 DEF Replaces
    <3>2. b = c /\ p \in {q}
      BY <2>3, <3>1, MovedAway DEF Inv
    <3>. QED  BY <2>1, <3>2 DEF Replaces
  <2>. QED  BY <1>1, <2>2, <2>3 DEF Explained
<1>8. ASSUME NEW c \in Backend, CopyImported(c)
      PROVE  Explained(b, p)'
  <2>1. PICK o \in ops, n \in Op, e \in Entry : Copies(c, o, n, e)
    BY <1>8, CopyStep
  <2>2. \A x \in ops : x # o => x \in ops'
    BY <2>1 DEF Copies
  <2>3. live[b][p] # Absent => live'[b][p] # Absent
    BY <2>1, NamesAssumption DEF Copies, Inv, TypeOK, Entry, Document
  <2>4. ASSUME o.at = b, p \in o.gap
        PROVE  live'[b][p] # Absent
    <3>1. p = e.path /\ b = c
      BY <2>1, <2>4 DEF Copies, PlanInv, HandlerInv
    <3>2. live'[b][p] = [ver |-> e.ver, time |-> e.time]
      BY <2>1, <3>1 DEF Copies, Inv, TypeOK
    <3>3. live'[b][p] \in Document
      BY <3>2 DEF Entry, Document
    <3>. QED  BY <3>3, NamesAssumption
  <2>. QED  BY <1>1, <2>2, <2>3, <2>4 DEF Explained
<1>9. ASSUME NEW c \in Backend, NEW q \in Path, StoreDocument(c, q)
      PROVE  Explained(b, p)'
  <2>1. [ver |-> clock + 1, time |-> clock + 1] \in Document
    BY DEF Inv, TypeOK, Document, Time
  <2>2. live[b][p] # Absent => live'[b][p] # Absent
    BY <1>9, <2>1, NamesAssumption DEF StoreDocument, Inv, TypeOK
  <2>3. ops' = ops
    BY <1>9 DEF StoreDocument
  <2>. QED  BY <1>1, <2>2, <2>3 DEF Explained
<1>10. ASSUME NEW c \in Backend, NEW q \in Path, RemoveDocument(c, q)
       PROVE  Explained(b, p)'
  <2>1. MoveToTrash(c, Subtree[q], "user") /\ ops' = ops /\ q # Root
    BY <1>10 DEF RemoveDocument
  <2>2. ASSUME live[b][p] # Absent, live'[b][p] = Absent
        PROVE  RemovedAbove(p)'
    <3>1. /\ b = c /\ p \in Subtree[q]
          /\ \E t \in trash'[b] : t.path = p /\ t.by = "user"
      BY <2>1, <2>2, MovedAway DEF Inv
    <3>2. p # Root /\ p \in Subtree[p]
      BY <2>1, <3>1, SubtreeAssumption
    <3>. QED  BY <3>1, <3>2 DEF RemovedAbove, RemovedByUser
  <2>. QED  BY <1>1, <2>1, <2>2 DEF Explained
<1>11. UNCHANGED vars => Explained(b, p)'
  BY <1>2 DEF vars
<1>. QED  BY <1>3, <1>4, <1>5, <1>6, <1>7, <1>8, <1>9, <1>10, <1>11, FaultStep DEF Next, Handler

\* Only a desktop sends requests, and only a fault takes one from it.
LEMMA OwnerStep ==
    ASSUME Inv, [Next]_vars, \A d \in Desktop : ~LoseConnection(d), NEW o \in ops'
    PROVE  o.by \in Desktop \/ \E x \in ops : o.by = x.by
<1>1. ASSUME NEW d \in Desktop, Orchestrator(d)
      PROVE  o \in ops \/ o.by \in Desktop
  <2>1. CASE SendRequest(d)
    BY <2>1, SendStep, RequestType DEF Inv
  <2>2. CASE ~SendRequest(d)
    BY <1>1, <2>2, OwnStep DEF Orchestrator
  <2>. QED  BY <2>1, <2>2
<1>2. ASSUME NEW b \in Backend,
             ArchiveFails(b) \/ DeleteRootFails(b) \/ ReplyArchive(b) \/ ReplyImported(b)
      PROVE  o \in ops
  BY <1>2, EndStep DEF Ends
<1>3. ASSUME NEW b \in Backend,
             CreateArchive(b) \/ DeleteDocument(b) \/ RemoveReplaced(b) \/ CopyImported(b)
      PROVE  \E x \in ops : o.by = x.by
  <2>1. CASE CreateArchive(b)
    <3>1. PICK x \in ops, n \in Op, p \in Path : Archives(b, x, n, p)
      BY <2>1, ArchiveStep
    <3>. QED  BY <3>1 DEF Archives
  <2>2. CASE DeleteDocument(b)
    <3>1. PICK x \in ops, n \in Op, p \in Path : Deletes(b, x, n, p)
      BY <2>2, DeleteStep
    <3>. QED  BY <3>1 DEF Deletes
  <2>3. CASE RemoveReplaced(b)
    <3>1. PICK x \in ops, n \in Op, p \in Path : Replaces(b, x, n, p)
      BY <2>3, ReplaceStep
    <3>. QED  BY <3>1 DEF Replaces
  <2>4. CASE CopyImported(b)
    <3>1. PICK x \in ops, n \in Op, e \in Entry : Copies(b, x, n, e)
      BY <2>4, CopyStep
    <3>. QED  BY <3>1 DEF Copies
  <2>. QED  BY <1>3, <2>1, <2>2, <2>3, <2>4
<1>4. ASSUME NEW b \in Backend, Crash(b)
      PROVE  o \in ops
  BY <1>4, CrashStep
<1>5. ASSUME NEW b \in Backend, NEW p \in Path, StoreDocument(b, p) \/ RemoveDocument(b, p)
      PROVE  o \in ops
  BY <1>5 DEF StoreDocument, RemoveDocument
<1>6. UNCHANGED vars => o \in ops
  BY DEF vars
<1>. QED  BY <1>1, <1>2, <1>3, <1>4, <1>5, <1>6 DEF Next, Handler

\* What the deletions of a plan are made from.
LEMMA PlannedDeletes ==
    ASSUME NEW previous, NEW c, NEW s, NEW side \in Side,
           NEW p, p \in planSync(previous, c, s)[side].delete
    PROVE  /\ previous # NoState /\ p \in Path
           /\ previous[Opposite(side)][p] # Absent
           /\ side = "client" => s[p] = Absent
           /\ side = "server" => c[p] = Absent
<1>1. previous # NoState
  BY DEF planSync, MergeActions, Side
<1>2. CASE side = "client"
  BY <1>1, <1>2 DEF planSync, DeltaActions, Deleted, Opposite
<1>3. CASE side = "server"
  BY <1>1, <1>3 DEF planSync, DeltaActions, Deleted, Opposite
<1>. QED  BY <1>1, <1>2, <1>3 DEF Side

\* A run knows of a backend what was there when nothing was under way.
LEMMA CauseStep ==
    ASSUME Inv, PlanInv, NEW d, Desktop = {d}, CauseInv(d), [Next]_vars
    PROVE  CauseInv(d)'
<1> SUFFICES ASSUME faults' = 0
             PROVE  /\ \A o \in ops' : o.by = d
                    /\ \A side \in Side, p \in Path :
                          /\ Remembered(d, side, p)' => Explained(BackendOf(d, side), p)'
                          /\ TakenAt(run'[d], side, p) /\ Missed(d, side, p)' => RemovedAbove(p)'
                          /\ p \in run'[d].plan[side].delete => RemovedAbove(p)'
  BY DEF CauseInv, TakenAt
<1>0. /\ d \in Desktop /\ d # Nobody /\ faults = 0 /\ \A o \in ops : o.by = d
      /\ ~LoseConnection(d)
      /\ run[d] \in Run /\ RunInv(run[d])
      /\ \A side \in Side, p \in Path :
            /\ Remembered(d, side, p) => Explained(BackendOf(d, side), p)
            /\ TakenAt(run[d], side, p) /\ Missed(d, side, p) => RemovedAbove(p)
            /\ p \in run[d].plan[side].delete => RemovedAbove(p)
  BY FaultStep, BackendNames DEF CauseInv, PlanInv, Inv, TypeOK
<1>1. \A p \in Path : RemovedAbove(p) => RemovedAbove(p)'
  BY TrashGrows
<1>2. ASSUME NEW side \in Side, NEW p \in Path, Explained(BackendOf(d, side), p)
      PROVE  Explained(BackendOf(d, side), p)'
  <2>1. BackendOf(d, side) \in Backend
    BY <1>0, BackendNames
  <2>2. PICK b \in Backend : b = BackendOf(d, side)
    BY <2>1
  <2>3. Explained(b, p)'
    BY <1>2, <2>2, ExplainedStep
  <2>. QED  BY <2>2, <2>3 DEF BackendOf
<1>3. \A o \in ops' : o.by = d
  BY <1>0, FaultStep, OwnerStep
<1>4. CASE SameMemory(d)
  BY <1>0, <1>1, <1>2, <1>3, <1>4 DEF SameMemory, Remembered, Missed
<1>5. CASE Forgets(d)
  <2>1. \A side \in Side, p \in Path :
           /\ Idle.snap[side][p] = Absent /\ ~TakenAt(Idle, side, p)
           /\ Idle.plan[side].delete = {}
    BY DEF Idle, NoSnapshots, EmptySnapshot, NoPlan, NoActions, Side, TakenAt, Taken
  <2>2. ASSUME NEW side \in Side, NEW p \in Path, Remembered(d, side, p)'
        PROVE  Remembered(d, side, p)
    BY <1>5, <2>1, <2>2 DEF Forgets, Remembered
  <2>. QED  BY <1>0, <1>2, <1>3, <1>5, <2>1, <2>2 DEF Forgets
\* Nothing is under way when d takes a snapshot: what it does not find has been removed.
<1>6. CASE GetSnapshot(d)
  <2>1. ops = {} /\ ops' = ops /\ live' = live
    BY <1>0, <1>6, OwnStep
  <2>2. PICK own \in Side : own = SideOf(run[d].phase)
    BY DEF SideOf, Side
  <2>3. PICK p \in Path, read \in SUBSET Path : Reads(d, p, read)
    BY <1>0, <1>6, ReadStep DEF Inv
  <2>4. /\ run'[d].plan = run[d].plan /\ run'[d].snap = Stamped(d, p)
        /\ run'[d].phase = IF read = Path THEN After[run[d].phase] ELSE run[d].phase
        /\ run'[d].read = IF read = Path THEN {} ELSE read
        /\ run[d].phase \in SnapshotPhase /\ read = run[d].read \cup {p}
        /\ run[d].snap \in SyncState
    BY <1>0, <2>3 DEF Run, Reads
  <2>5. prev'[d] = prev[d]
    BY <1>6 DEF GetSnapshot
  <2>6. /\ run'[d].snap[own][p] = SnapshotOf(Target(d))[p]
        /\ \A side \in Side, q \in Path : side # own \/ q # p =>
              run'[d].snap[side][q] = run[d].snap[side][q]
    BY <2>2, <2>4 DEF SyncState, Snapshot, Stamped, Side
  <2>7. run'[d].snap[own][p] = Absent <=> live[BackendOf(d, own)][p] = Absent
    <3>1. Target(d) = BackendOf(d, own) /\ BackendOf(d, own) \in Backend
      BY <1>0, <2>2, BackendNames DEF Target, SideOf, BackendOf
    <3>2. live[BackendOf(d, own)][p] # Absent => live[BackendOf(d, own)][p].time # Absent
      BY <3>1, AbsentIsNoTime DEF Inv, TypeOK, Document, Time
    <3>. QED  BY <2>6, <3>1, <3>2 DEF SnapshotOf
  <2>8. ASSUME NEW side \in Side, NEW q \in Path, side # own \/ q # p,
               TakenAt(run'[d], side, q)
        PROVE  TakenAt(run[d], side, q)
    BY <2>2, <2>4, <2>8
       DEF TakenAt, Taken, First, Side, SnapshotPhase, After, SideOf, ClientPhase
  <2>9. ASSUME NEW side \in Side, NEW q \in Path
        PROVE  /\ Remembered(d, side, q)' => Explained(BackendOf(d, side), q)
               /\ TakenAt(run'[d], side, q) /\ Missed(d, side, q)' => RemovedAbove(q)
    <3>1. CASE side # own \/ q # p
      BY <1>0, <2>5, <2>6, <2>8, <3>1 DEF Remembered, Missed
    <3>2. CASE side = own /\ q = p
      BY <1>0, <2>1, <2>5, <2>7, <3>2 DEF Remembered, Missed, Explained
    <3>. QED  BY <3>1, <3>2
  <2>. QED  BY <1>0, <1>1, <1>2, <1>3, <2>4, <2>9
<1>7. CASE MakePlan(d)
  <2> DEFINE plan == planSync(prev[d], run[d].snap.client, run[d].snap.server)
  <2>1. /\ run[d].phase = "plan"
        /\ \/ run'[d] = [Idle EXCEPT !.phase = "clientActions", !.plan = plan]
           \/ run'[d] = [run[d] EXCEPT !.phase = "persist"]
    BY <1>0, <1>7, PlanRun
  <2>2. ASSUME NEW side \in Side, NEW p \in plan[side].delete
        PROVE  RemovedAbove(p)
    <3>1. Missed(d, Opposite(side), p) /\ p \in Path
        <4>1. p \in planSync(prev[d], run[d].snap.client, run[d].snap.server)[side].delete
        BY <2>2
      <4>2. CASE side = "client"
        <5>1. Opposite(side) = "server"
          BY <4>2 DEF Opposite
        <5>2. Missed(d, "server", p) /\ p \in Path
          BY <4>1, <4>2, <5>1, PlannedDeletes DEF Missed
        <5>. QED  BY <5>1, <5>2
      <4>3. CASE side = "server"
        <5>1. Opposite(side) = "client"
          BY <4>3 DEF Opposite
        <5>2. Missed(d, "client", p) /\ p \in Path
          BY <4>1, <4>3, <5>1, PlannedDeletes DEF Missed
        <5>. QED  BY <5>1, <5>2
      <4>. QED  BY <4>2, <4>3 DEF Side
    <3>2. Opposite(side) \in Side /\ TakenAt(run[d], Opposite(side), p)
      BY <2>1 DEF Opposite, Side, TakenAt, Taken
    <3>. QED  BY <1>0, <3>1, <3>2
  <2> HIDE DEF plan
  <2>3. /\ run'[d].phase \in {"clientActions", "persist"}
        /\ run'[d].snap \in {run[d].snap, NoSnapshots}
        /\ run'[d].plan \in {run[d].plan, plan}
    BY <1>0, <2>1 DEF Run, Idle
  <2>4. /\ prev'[d] = prev[d]
        /\ \A side \in Side, p \in Path : NoSnapshots[side][p] = Absent
        /\ \A side \in Side, p \in Path : ~TakenAt(run'[d], side, p)
    BY <1>7, <2>3 DEF MakePlan, NoSnapshots, EmptySnapshot, Side, TakenAt, Taken, First
  <2>5. ASSUME NEW side \in Side, NEW p \in Path, Remembered(d, side, p)'
        PROVE  Remembered(d, side, p)
    BY <2>3, <2>4, <2>5 DEF Remembered
  <2>. QED  BY <1>0, <1>1, <1>2, <1>3, <2>2, <2>3, <2>4, <2>5
<1>. QED  BY <1>0, <1>4, <1>5, <1>6, <1>7, MemoryStep

LEMMA CauseInit ==
    ASSUME Init, NEW d, Desktop = {d}
    PROVE  CauseInv(d)
<1>1. d \in Desktop /\ run[d] = Idle /\ ops = {}
  BY DEF Init
<1>2. \A side \in Side, p \in Path :
         /\ Idle.snap[side][p] = Absent /\ ~TakenAt(Idle, side, p)
         /\ Idle.plan[side].delete = {}
  BY DEF Idle, NoSnapshots, EmptySnapshot, NoPlan, NoActions, Side, TakenAt, Taken
<1>3. PICK initial \in SUBSET Path :
         /\ live = [b \in Backend |->
                       [p \in Path |-> IF p \in initial THEN [ver |-> 0, time |-> 0]
                                       ELSE Absent]]
         /\ \/ prev = [c \in Desktop |-> NoState]
            \/ LET times == [p \in Path |-> IF p \in initial THEN 0 ELSE Absent]
               IN  prev = [c \in Desktop |-> [client |-> times, server |-> times]]
  BY DEF Init
<1>4. ASSUME NEW side \in Side, NEW p \in Path, Remembered(d, side, p)
      PROVE  live[BackendOf(d, side)][p] # Absent
  <2> DEFINE times == [q \in Path |-> IF q \in initial THEN 0 ELSE Absent]
  <2>1. prev[d] # NoState /\ prev[d][side][p] # Absent
    BY <1>1, <1>2, <1>4 DEF Remembered
  <2>2. prev[d] = [client |-> times, server |-> times]
    BY <1>1, <1>3, <2>1
  <2>3. prev[d][side] = times
    <3> HIDE DEF times
    <3>. QED  BY <2>2 DEF Side
  <2>4. p \in initial
    BY <2>1, <2>3
  <2>5. [ver |-> 0, time |-> 0] \in Document
    BY DEF Document, Time
  <2>6. BackendOf(d, side) \in Backend
    BY <1>1, BackendNames
  <2>7. live[BackendOf(d, side)][p] = [ver |-> 0, time |-> 0]
    BY <1>3, <2>4, <2>6
  <2>. QED  BY <2>5, <2>7, NamesAssumption
<1>. QED  BY <1>1, <1>2, <1>4 DEF CauseInv, Explained

\* What a synchronization deletes is below what a user removed.
Explains == faults = 0 => \A b \in Backend : \A t \in DeletedNow(b) : RemovedAbove(t.path)

LEMMA DeletionsStep ==
    ASSUME Inv, PlanInv, NEW d, Desktop = {d}, CauseInv(d), [Next]_vars
    PROVE  Explains
<1> SUFFICES ASSUME faults = 0, NEW b \in Backend, NEW t \in DeletedNow(b)
             PROVE  RemovedAbove(t.path)
  BY DEF Explains
<1>1. t \in trash'[b] /\ t \notin trash[b] /\ t.by = "delete"
  BY DEF DeletedNow
<1>2. ASSUME NEW c \in Backend, NEW paths, NEW cause, MoveToTrash(c, paths, cause)
      PROVE  cause = "delete" /\ t.path \in paths
  <2>1. t \in TrashOf(c, paths, cause)
    BY <1>1, <1>2 DEF MoveToTrash, Inv, TypeOK
  <2>. QED  BY <1>1, <2>1 DEF TrashOf, Contents
<1>3. trash' # trash
  BY <1>1
<1>4. \/ \E c \in Backend : DeleteDocument(c) \/ RemoveReplaced(c)
      \/ \E c \in Backend, p \in Path : RemoveDocument(c, p)
  BY <1>3 DEF Next, Orchestrator, Handler, vars, StartSync, ListDocuments, GetSnapshot, SnapshotFails, MakePlan, SkipRequest,
              SendRequest, RequestRefused, Persist, LoseConnection, CreateArchive, ArchiveFails,
              DeleteRootFails, ReplyArchive, CopyImported, ReplyImported, Crash, StoreDocument,
              storeVars
<1>5. ASSUME NEW c \in Backend, RemoveReplaced(c)
      PROVE  FALSE
  <2>1. PICK o \in ops, n \in Op, p \in Path : Replaces(c, o, n, p)
    BY <1>5, ReplaceStep
  <2>2. MoveToTrash(c, {p}, "import")
    BY <2>1 DEF Replaces
  <2>. QED  BY <1>2, <2>2
<1>6. ASSUME NEW c \in Backend, NEW p \in Path, RemoveDocument(c, p)
      PROVE  FALSE
  <2>1. MoveToTrash(c, Subtree[p], "user")
    BY <1>6 DEF RemoveDocument
  <2>. QED  BY <1>2, <2>1
<1>7. ASSUME NEW c \in Backend, DeleteDocument(c)
      PROVE  RemovedAbove(t.path)
  <2>1. PICK o \in ops, n \in Op, p \in Path : Deletes(c, o, n, p)
    BY <1>7, DeleteStep
  <2>2. MoveToTrash(c, Subtree[p], "delete")
    BY <2>1 DEF Deletes
  <2>3. t.path \in Subtree[p]
    BY <1>2, <2>2
  <2>4. AwaitedInv(o, run[d]) /\ o.by = d
    BY BackendNames DEF PlanInv, CauseInv
  <2>5. Acting(run[d].phase) \in Side
    BY DEF Acting, Side
  <2>6. p \in run[d].plan[Acting(run[d].phase)].delete
    BY <2>1, <2>4 DEF AwaitedInv, Deletes
  <2>7. RemovedAbove(p)
    BY <2>5, <2>6 DEF CauseInv
  <2>. QED  BY <2>3, <2>7, RemovedBelow
<1>. QED  BY <1>4, <1>5, <1>6, <1>7

(* All of it together.                                                     *)
SyncInv ==
    /\ Inv /\ PlanInv /\ QuietInv /\ TimeInv
    /\ \A d \in Desktop : Desktop = {d} => AloneInv(d) /\ CauseInv(d)

LEMMA SyncInvariance == Spec => []SyncInv
<1>1. Init => SyncInv
  BY InitInv, PlanInvInit, QuietInvInit, TimeInvInit, AloneInit, CauseInit DEF SyncInv
<1>2. SyncInv /\ [Next]_vars => SyncInv'
  <2> SUFFICES ASSUME SyncInv, [Next]_vars
               PROVE  SyncInv'
    OBVIOUS
  <2>1. Inv' /\ PlanInv' /\ QuietInv' /\ TimeInv'
    BY TypeStep, ExclusiveStep, ReplyStep, PlanStep, QuietStep, TimeStep DEF Inv, SyncInv
  <2>2. ASSUME NEW d \in Desktop, Desktop = {d}
        PROVE  AloneInv(d)' /\ CauseInv(d)'
    BY <2>2, AloneStep, CauseStep DEF SyncInv
  <2>. QED  BY <2>1, <2>2 DEF SyncInv
<1>. QED  BY <1>1, <1>2, PTL DEF Spec

\* Where a time can be relied on: archives keep times exactly, or there is one desktop.
TimesAreTrue == Granularity = 1 \/ \E d \in Desktop : Desktop = {d}

\* Then the later of two documents at a path is not the older content, and documents of
\* the same time are the same content.
LEMMA TimesTell ==
    ASSUME SyncInv, TimesAreTrue, NEW d \in Desktop, NEW p \in Path, NEW side \in Side,
           NEW own, own = Live(d)[side][p], NEW other, other = Live(d)[Opposite(side)][p],
           own # Absent, other # Absent
    PROVE  /\ own.time = other.time => own.ver = other.ver
           /\ own.time > other.time => own.ver >= other.ver
<1>1. /\ own = live[BackendOf(d, side)][p] /\ other = live[BackendOf(d, Opposite(side))][p]
      /\ BackendOf(d, side) \in Backend /\ BackendOf(d, Opposite(side)) \in Backend
  BY LiveType, BackendNames DEF SyncInv, Inv
<1>2. Dated(own, clock) /\ Dated(other, clock)
  BY <1>1 DEF SyncInv, TimeInv
<1>3. CASE Granularity = 1
  BY <1>2, <1>3 DEF Dated
<1>4. CASE Desktop = {d}
  <2>1. Opposite(side) \in Side /\ Opposite(Opposite(side)) = side
    BY BackendNames
  <2>2. Newer(own, other) /\ Newer(other, own)
    BY <1>1, <1>4, <2>1 DEF SyncInv, AloneInv
  <2>. QED  BY <1>2, <2>2 DEF Newer, Dated
<1>. QED  BY <1>3, <1>4 DEF TimesAreTrue

LEMMA QuietConverges ==
    ASSUME SyncInv, TimesAreTrue, \A p \in Path \ {Root} : Subtree[p] = {p}
    PROVE  QuietSyncConverges
<1> SUFFICES ASSUME NEW d \in Desktop, run[d].phase = "persist", quiet[d]
             PROVE  SameDocuments(d)
  BY DEF QuietSyncConverges
<1>0. Live(d)["client"] = live[d] /\ Live(d)["server"] = live[Server]
  BY LiveType DEF SyncInv, Inv, BackendOf, Side
<1> SUFFICES ASSUME NEW p \in Path
             PROVE  SameAt(Live(d), p)
  BY <1>0 DEF SameDocuments, SameAt
<1>1. Free(run[d].plan, p)
  <2>1. \A side \in Side : run[d].plan[side].delete \subseteq Path \ {Root}
    <3>1. RunInv(run[d]) /\ run[d] \in Run
      BY DEF SyncInv, PlanInv, Inv, TypeOK
    <3>2. \A side \in Side : run[d].phase \in Answered(side)
      BY DEF Answered, Planned, Phase
    <3>3. \A side \in Side : run[d].plan[side].delete \subseteq Path
      BY <3>1, PlanPaths
    <3>. QED  BY <3>1, <3>2, <3>3 DEF RunInv
  <2>. QED  BY <2>1 DEF Free
<1>2. SameAt(Live(d), p) \/ Alike(Live(d), p)
  BY <1>1, QuietAgrees DEF SyncInv, QuietRunAgrees
<1>3. ASSUME Alike(Live(d), p), Live(d)["client"][p] # Absent
      PROVE  SameAt(Live(d), p)
  <2>1. "client" \in Side /\ Opposite("client") = "server"
    BY DEF Side, Opposite
  <2>2. /\ Live(d)["server"][p] # Absent
        /\ Live(d)["client"][p].time = Live(d)["server"][p].time
    BY <1>3 DEF Alike
  <2>3. Live(d)["client"][p].ver = Live(d)["server"][p].ver
    BY <1>3, <2>1, <2>2, TimesTell
  <2>. QED  BY <1>3, <2>2, <2>3 DEF SameAt
<1>. QED  BY <1>2, <1>3 DEF Alike, SameAt

(* A run that succeeds while nobody else changes its backends leaves them  *)
(* with the same documents, whatever was interrupted before it, for any    *)
(* number of edits and faults: where deleting a document takes no others   *)
(* along, and either archives keep times exactly or there is one desktop.  *)
(* Without the one TLC finds a document lost below a deleted one, without  *)
(* the other different documents of the same time.                         *)
THEOREM QuietRunsConverge ==
    ASSUME TimesAreTrue, \A p \in Path \ {Root} : Subtree[p] = {p}
    PROVE  Spec => []QuietSyncConverges
<1>1. SyncInv => QuietSyncConverges
  BY QuietConverges
<1>. QED  BY <1>1, SyncInvariance, PTL

LEMMA TransferForward ==
    ASSUME SyncInv, TimesAreTrue
    PROVE  NoStaleTransfer
<1> SUFFICES ASSUME NEW d \in Desktop, run[d].phase = "clientActions", quiet[d], ~Waiting(d),
                    NEW p \in Path, live[d][p] # Absent, live[Server][p] # Absent
             PROVE  /\ p \in run[d].plan.client.retrieve => live[d][p].ver >= live[Server][p].ver
                    /\ p \in run[d].plan.server.retrieve => live[Server][p].ver >= live[d][p].ver
  BY DEF NoStaleTransfer
<1>1. Live(d)["client"] = live[d] /\ Live(d)["server"] = live[Server]
  BY LiveType DEF SyncInv, Inv, BackendOf, Side
<1>2. Forward(Live(d), run[d].plan)
  <2>1. Mine(d) = {}
    BY DEF Waiting, Mine
  <2>. QED  BY <2>1 DEF SyncInv, QuietInv, QuietRun
<1>3. /\ "client" \in Side /\ Opposite("client") = "server"
      /\ "server" \in Side /\ Opposite("server") = "client"
  BY DEF Side, Opposite
<1>4. ASSUME p \in run[d].plan.client.retrieve
      PROVE  live[d][p].ver >= live[Server][p].ver
  <2>1. live[d][p].time > live[Server][p].time
    BY <1>1, <1>2, <1>3, <1>4 DEF Forward
  <2>. QED  BY <1>1, <1>3, <2>1, TimesTell
<1>5. ASSUME p \in run[d].plan.server.retrieve
      PROVE  live[Server][p].ver >= live[d][p].ver
  <2>1. live[Server][p].time > live[d][p].time
    BY <1>1, <1>2, <1>3, <1>5 DEF Forward
  <2>. QED  BY <1>1, <1>3, <2>1, TimesTell
<1>. QED  BY <1>4, <1>5

(* Where times can be relied on, for any tree, no undisturbed run          *)
(* transfers an older document over a newer one.  With two desktops and    *)
(* archive times TLC finds one that does, after edits within a time unit.  *)
THEOREM TransfersAreNotStale ==
    ASSUME TimesAreTrue
    PROVE  Spec => []NoStaleTransfer
<1>1. SyncInv => NoStaleTransfer
  BY TransferForward
<1>. QED  BY <1>1, SyncInvariance, PTL

LEMMA TransferNeeded ==
    ASSUME SyncInv, Granularity = 1
    PROVE  NoIdleTransfer
<1> SUFFICES ASSUME NEW d \in Desktop, run[d].phase = "clientActions", quiet[d], ~Waiting(d),
                    NEW p \in run[d].plan.client.retrieve \cup run[d].plan.server.retrieve,
                    live[d][p] # Absent, live[Server][p] # Absent
             PROVE  live[d][p].ver # live[Server][p].ver
  BY DEF NoIdleTransfer
<1>0. /\ run[d] \in Run /\ RunInv(run[d]) /\ "client" \in Side /\ "server" \in Side
  BY DEF SyncInv, Inv, TypeOK, PlanInv, Side
<1>1. Live(d)["client"] = live[d] /\ Live(d)["server"] = live[Server] /\ p \in Path
  <2>1. p \in Path
    BY <1>0, PlanPaths
  <2>. QED  BY <2>1, LiveType DEF SyncInv, Inv, BackendOf, Side
<1>2. Forward(Live(d), run[d].plan)
  <2>1. Mine(d) = {}
    BY DEF Waiting, Mine
  <2>. QED  BY <2>1 DEF SyncInv, QuietInv, QuietRun
<1>3. Dated(live[d][p], clock) /\ Dated(live[Server][p], clock)
  BY <1>1 DEF SyncInv, TimeInv, Backend
<1>4. \/ live[d][p].time > live[Server][p].time
      \/ live[Server][p].time > live[d][p].time
  BY <1>1, <1>2 DEF Forward, Side, Opposite
<1>. QED  BY <1>3, <1>4 DEF Dated

(* Archive times are the only reason why documents that are the same are   *)
(* transferred again: with archives that keep times none is.               *)
THEOREM ExactTimesSaveTransfers ==
    ASSUME Granularity = 1
    PROVE  Spec => []NoIdleTransfer
<1>1. SyncInv => NoIdleTransfer
  BY TransferNeeded
<1>. QED  BY <1>1, SyncInvariance, PTL

\* Deletions are propagated, never invented: what a synchronization moves to the trash,
\* in any tree, is what a user removed or was below it.
DeletionsHaveCause == [][Explains]_vars

(* As long as nothing has failed, that is so for a lone desktop, on both   *)
(* backends: no interleaving of the exchange with the users, who edit and  *)
(* remove documents in the middle of it, makes it delete what nobody did.  *)
(* After a fault, or with two desktops, TLC finds a deletion without cause *)
(* (a snapshot of a backend whose import is half done).                    *)
THEOREM DeletionsExplained ==
    ASSUME NEW d, Desktop = {d}
    PROVE  Spec => DeletionsHaveCause
<1>1. SyncInv /\ [Next]_vars => [Explains]_vars
  BY DeletionsStep DEF SyncInv
<1>. QED  BY <1>1, SyncInvariance, PTL DEF Spec, DeletionsHaveCause

(* Where deleting a document takes no others along, the user removed the   *)
(* document at that very path.                                             *)
THEOREM NoDeletionIsInvented ==
    ASSUME NEW d, Desktop = {d}, \A p \in Path \ {Root} : Subtree[p] = {p}
    PROVE  Spec => NoInventedDeletionUnlessFaults
<1>1. ASSUME Explains, faults = 0, NEW b \in Backend, NEW t \in DeletedNow(b)
      PROVE  RemovedByUser(t.path)
  <2>1. PICK q \in Path \ {Root} : t.path \in Subtree[q] /\ RemovedByUser(q)
    BY <1>1 DEF Explains, RemovedAbove
  <2>. QED  BY <2>1
<1>2. [Explains]_vars =>
         [faults = 0 =>
             \A b \in Backend : \A t \in DeletedNow(b) : RemovedByUser(t.path)]_vars
  BY <1>1
<1>. QED  BY <1>2, DeletionsExplained, PTL DEF DeletionsHaveCause, NoInventedDeletionUnlessFaults

=============================================================================
