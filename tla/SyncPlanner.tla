---------------------------- MODULE SyncPlanner ----------------------------
(***************************************************************************)
(* The pure planning algorithm of the desktop synchronization,             *)
(* planSync() of desktop/src/sync-planner.ts: from the snapshots persisted *)
(* after the previous synchronization and the current snapshots of the two *)
(* backends, it computes for each backend the documents to export to the   *)
(* other one (retrieve) and the documents to remove (delete).              *)
(*                                                                         *)
(* A snapshot maps every path to the time of the document there, or to     *)
(* Absent: the two Map<string, number> built from a SnapshotContract, with *)
(* undefined written Absent.  The lists of an ActionsContract are sets;    *)
(* the order in which a backend serves them is modelled by the backends.   *)
(***************************************************************************)
EXTENDS Naturals

CONSTANTS
    Path,      \* the normalized document paths
    Absent,    \* "no document at this path" (undefined in the code)
    NoState    \* "no previous state" (null: sync.json missing or unreadable)

Time == Nat

Snapshot == [Path -> Time \cup {Absent}]

SyncState == [client : Snapshot, server : Snapshot]

Actions == [retrieve : SUBSET Path, delete : SUBSET Path]

SyncPlan == [client : Actions, server : Actions]

ASSUME AbsentIsNoTime == Absent \notin Time
ASSUME NoStateIsNoState == NoState \notin SyncState

NoActions == [retrieve |-> {}, delete |-> {}]

NoPlan == [client |-> NoActions, server |-> NoActions]

----------------------------------------------------------------------------
\* Faulty variant: equal times count as later.
LaterOrEqual(time, reference) ==
    /\ time # Absent
    /\ reference # Absent
    /\ time >= reference

(* Both times are defined and the first is greater: every comparison of    *)
(* the code is guarded by `!== undefined` on both sides.                   *)
Later(time, reference) ==
    /\ time # Absent
    /\ reference # Absent
    /\ time > reference

\* Faulty variant: any path the backend lacks counts as deleted there.
Missing(prev, curr, p) == curr[p] = Absent

(* The path was in the previous snapshot of this backend and is gone.      *)
Deleted(prev, curr, p) == prev[p] # Absent /\ curr[p] = Absent

\* Faulty variant: the times are not compared.
OutdatedIfMissing(own, other, p) == own[p] # Absent /\ other[p] = Absent

(* The document at p is exported from own because other lacks it or holds  *)
(* an earlier one; equal times transfer nothing.                           *)
Outdated(own, other, p) ==
    /\ own[p] # Absent
    /\ other[p] = Absent \/ Later(own[p], other[p])

(* First synchronization: a merge that deletes nothing.                    *)
MergeActions(own, other) ==
    [retrieve |-> {p \in Path : Outdated(own, other, p)}, delete |-> {}]

\* Faulty variant: a deletion is propagated over a later modification.
DeltaActionsForced(prevOwn, prevOther, own, other) ==
    LET goneThere == {p \in Path : /\ Deleted(prevOther, other, p)
                                   /\ ~Deleted(prevOwn, own, p)}
        unharmed  == {p \in Path : /\ ~Deleted(prevOther, other, p)
                                   /\ ~Deleted(prevOwn, own, p)}
    IN  [retrieve |-> {p \in unharmed : Outdated(own, other, p)},
         delete   |-> goneThere]

\* Faulty variant: a modified document is exported and deleted as well (the
\* `continue` of the code is missing).
DeltaActionsFallingThrough(prevOwn, prevOther, own, other) ==
    LET goneThere == {p \in Path : /\ Deleted(prevOther, other, p)
                                   /\ ~Deleted(prevOwn, own, p)}
    IN  [retrieve |-> {p \in Path : Outdated(own, other, p)},
         delete   |-> goneThere]

(* Later synchronizations, for the backend `own`: a path deleted on the    *)
(* other backend is exported back when own modified it since the previous  *)
(* snapshot and is deleted here otherwise -- even when own never had it --  *)
(* and any other path is exported when the other backend is outdated.      *)
DeltaActions(prevOwn, prevOther, own, other) ==
    LET goneThere == {p \in Path : /\ Deleted(prevOther, other, p)
                                   /\ ~Deleted(prevOwn, own, p)}
        modified  == {p \in Path : Later(own[p], prevOwn[p])}
        unharmed  == {p \in Path : /\ ~Deleted(prevOther, other, p)
                                   /\ ~Deleted(prevOwn, own, p)}
    IN  [retrieve |-> (goneThere \cap modified)
                          \cup {p \in unharmed : Outdated(own, other, p)},
         delete   |-> goneThere \ modified]

(* planSync(previousState, currentClient, currentServer).                  *)
planSync(previous, client, server) ==
    IF previous = NoState
    THEN [client |-> MergeActions(client, server),
          server |-> MergeActions(server, client)]
    ELSE [client |-> DeltaActions(previous.client, previous.server, client, server),
          server |-> DeltaActions(previous.server, previous.client, server, client)]

(* plan.hasChanges *)
HasChanges(plan) == plan # NoPlan

============================================================================
