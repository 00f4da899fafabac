-------------------------- MODULE AtomicSyncProofs --------------------------
(***************************************************************************)
(* Proofs about the planner, for every set of paths and all times: the     *)
(* invariants of AtomicSync follow from its type invariant alone, so they  *)
(* hold of planSync for all inputs of the right types.                     *)
(***************************************************************************)
EXTENDS AtomicSync, TLAPS

(* The two snapshots after the exchange are snapshots again.               *)
LEMMA AppliedType ==
    ASSUME NEW own \in Snapshot, NEW other \in Snapshot,
           NEW ownActions, NEW otherActions
    PROVE  Applied(own, other, ownActions, otherActions) \in Snapshot
BY DEF Applied, Snapshot

(* Every state of AtomicSync holds snapshots and a previous state.         *)
THEOREM TypeCorrect == Spec => []TypeOK
<1>1. Init => TypeOK
  BY MaxTimeIsTime DEF Init, TypeOK, BoundedSnapshot, Snapshot, SyncState, Time
<1>2. TypeOK /\ [Next]_vars => TypeOK'
  <2> SUFFICES ASSUME TypeOK, [Next]_vars PROVE TypeOK'
    OBVIOUS
  <2>1. CASE Synchronize
    <3>1. ClientAfter \in Snapshot /\ ServerAfter \in Snapshot
      BY AppliedType DEF TypeOK, ClientAfter, ServerAfter
    <3>2. QED
      BY <2>1, <3>1 DEF Synchronize, TypeOK, SyncState
  <2>2. ASSUME NEW p \in Path, NEW t \in 0..MaxTime,
               StoreOnClient(p, t) \/ StoreOnServer(p, t)
        PROVE  TypeOK'
    <3>1. t \in Time
      BY MaxTimeIsTime DEF Time
    <3>2. QED
      BY <2>2, <3>1 DEF StoreOnClient, StoreOnServer, TypeOK, Snapshot
  <2>3. ASSUME NEW p \in Path, RemoveFromClient(p) \/ RemoveFromServer(p)
        PROVE  TypeOK'
    BY <2>3 DEF RemoveFromClient, RemoveFromServer, TypeOK, Snapshot
  <2>4. CASE UNCHANGED vars
    BY <2>4 DEF vars, TypeOK
  <2>5. QED
    BY <2>1, <2>2, <2>3, <2>4 DEF Next
<1>3. QED
  BY <1>1, <1>2, PTL DEF Spec

----------------------------------------------------------------------------
(* What a plan says of one path, by cases on the first synchronization.    *)

LEMMA FirstPlan ==
    ASSUME NEW c \in Snapshot, NEW s \in Snapshot
    PROVE  LET plan == planSync(NoState, c, s)
           IN  /\ plan.client.retrieve = {p \in Path : Outdated(c, s, p)}
               /\ plan.server.retrieve = {p \in Path : Outdated(s, c, p)}
               /\ plan.client.delete = {}
               /\ plan.server.delete = {}
BY DEF planSync, MergeActions

LEMMA LaterPlan ==
    ASSUME NEW previousState \in SyncState, NEW c \in Snapshot, NEW s \in Snapshot,
           NEW p \in Path
    PROVE  LET plan == planSync(previousState, c, s)
               goneC == Deleted(previousState.client, c, p)
               goneS == Deleted(previousState.server, s, p)
               newC == Later(c[p], previousState.client[p])
               newS == Later(s[p], previousState.server[p])
           IN  /\ p \in plan.client.retrieve <=>
                      \/ goneS /\ ~goneC /\ newC
                      \/ ~goneS /\ ~goneC /\ Outdated(c, s, p)
               /\ p \in plan.server.retrieve <=>
                      \/ goneC /\ ~goneS /\ newS
                      \/ ~goneC /\ ~goneS /\ Outdated(s, c, p)
               /\ p \in plan.client.delete <=> goneS /\ ~goneC /\ ~newC
               /\ p \in plan.server.delete <=> goneC /\ ~goneS /\ ~newS
BY NoStateIsNoState DEF planSync, DeltaActions

----------------------------------------------------------------------------
(* No path is in two lists of a plan.                                      *)
LEMMA TypedPlanIsUnambiguous == TypeOK => PlanIsUnambiguous
<1> SUFFICES ASSUME TypeOK PROVE PlanIsUnambiguous
  OBVIOUS
<1> DEFINE plan == CurrentPlan
<1>1. /\ plan.client.retrieve \cap plan.client.delete = {}
      /\ plan.client.retrieve \cap plan.server.retrieve = {}
      /\ plan.client.retrieve \cap plan.server.delete = {}
      /\ plan.client.delete \cap plan.server.retrieve = {}
      /\ plan.client.delete \cap plan.server.delete = {}
      /\ plan.server.retrieve \cap plan.server.delete = {}
  <2>1. CASE previous = NoState
    BY <2>1, FirstPlan, AbsentIsNoTime
    DEF TypeOK, CurrentPlan, Outdated, Later, Snapshot, Time
  <2>2. CASE previous \in SyncState
    BY <2>2, AbsentIsNoTime, NoStateIsNoState
    DEF TypeOK, CurrentPlan, planSync, DeltaActions, Outdated, Deleted, Later,
        Snapshot, SyncState, Time
  <2>3. QED
    BY <2>1, <2>2 DEF TypeOK
<1>2. QED
  BY <1>1 DEF PlanIsUnambiguous

(* The exchange leaves the same time, or nothing, at every path.           *)
LEMMA TypedPlanConverges == TypeOK => PlanConverges
<1> SUFFICES ASSUME TypeOK PROVE PlanConverges
  OBVIOUS
<1>1. ASSUME NEW p \in Path
      PROVE  ClientAfter[p] = ServerAfter[p]
  <2>1. /\ client[p] \in Time \cup {Absent}
        /\ server[p] \in Time \cup {Absent}
    BY DEF TypeOK, Snapshot
  <2>2. CASE previous = NoState
    BY <2>1, <2>2, FirstPlan, AbsentIsNoTime
    DEF TypeOK, ClientAfter, ServerAfter, Applied, CurrentPlan, Outdated, Later, Time
  <2>3. CASE previous \in SyncState
    BY <2>1, <2>3, LaterPlan, AbsentIsNoTime
    DEF TypeOK, ClientAfter, ServerAfter, Applied, CurrentPlan, Outdated, Deleted,
        Later, Time
  <2>4. QED
    BY <2>2, <2>3 DEF TypeOK
<1>2. QED
  BY <1>1 DEF PlanConverges, ClientAfter, ServerAfter, Applied

(* The latest of two documents survives when it is news.                   *)
LEMMA TypedModificationSurvives == TypeOK => ModificationSurvives
<1> SUFFICES ASSUME TypeOK, NEW p \in Path,
                    \/ previous = NoState
                    \/ Later(client[p], previous.client[p])
                    \/ Later(server[p], previous.server[p])
                    \/ previous.client[p] = Absent /\ previous.server[p] = Absent
             PROVE  ClientAfter[p] =
                        IF client[p] = Absent THEN server[p]
                        ELSE IF server[p] = Absent THEN client[p]
                        ELSE IF client[p] > server[p] THEN client[p] ELSE server[p]
  BY DEF ModificationSurvives
<1>1. /\ client[p] \in Time \cup {Absent}
      /\ server[p] \in Time \cup {Absent}
  BY DEF TypeOK, Snapshot
<1>2. CASE previous = NoState
  BY <1>1, <1>2, FirstPlan, AbsentIsNoTime
  DEF TypeOK, ClientAfter, Applied, CurrentPlan, Outdated, Later, Time
<1>3. CASE previous \in SyncState
  BY <1>1, <1>3, LaterPlan, AbsentIsNoTime, NoStateIsNoState
  DEF TypeOK, ClientAfter, Applied, CurrentPlan, Outdated, Deleted, Later, Time
<1>4. QED
  BY <1>2, <1>3 DEF TypeOK

(* A planned deletion has a deletion on the other side as its cause.       *)
LEMMA TypedDeletionHasCause == TypeOK => DeletionHasCause
<1> SUFFICES ASSUME TypeOK PROVE DeletionHasCause
  OBVIOUS
<1>1. CASE previous = NoState
  BY <1>1, FirstPlan DEF TypeOK, DeletionHasCause, CurrentPlan
<1>2. CASE previous \in SyncState
  BY <1>2, LaterPlan, NoStateIsNoState
  DEF TypeOK, DeletionHasCause, CurrentPlan, Deleted
<1>3. QED
  BY <1>1, <1>2 DEF TypeOK

(* Planning again from what the exchange left plans nothing.               *)
LEMMA ConvergedPlanIsEmpty ==
    ASSUME NEW s \in Snapshot
    PROVE  planSync([client |-> s, server |-> s], s, s) = NoPlan
<1> DEFINE synced == [client |-> s, server |-> s]
           plan == planSync(synced, s, s)
<1>1. synced # NoState
  BY NoStateIsNoState DEF SyncState
<1>2. ASSUME NEW p \in Path
      PROVE  ~Deleted(s, s, p) /\ ~Outdated(s, s, p)
  BY AbsentIsNoTime DEF Deleted, Outdated, Later, Snapshot, Time
<1>3. DeltaActions(s, s, s, s) = NoActions
  BY <1>2 DEF DeltaActions, NoActions
<1>4. QED
  BY <1>1, <1>3 DEF planSync, NoPlan

LEMMA TypedSyncIsIdempotent == TypeOK => SyncIsIdempotent
<1> SUFFICES ASSUME TypeOK PROVE SyncIsIdempotent
  OBVIOUS
<1>1. ClientAfter \in Snapshot
  BY AppliedType DEF TypeOK, ClientAfter
<1>2. ClientAfter = ServerAfter
  BY TypedPlanConverges DEF PlanConverges
<1>3. QED
  BY <1>1, <1>2, ConvergedPlanIsEmpty DEF SyncIsIdempotent, HasChanges

(* The two calls of the planner are each other's mirror image.             *)
LEMMA TypedPlanIsSymmetric == TypeOK => PlanIsSymmetric
<1> SUFFICES ASSUME TypeOK PROVE PlanIsSymmetric
  OBVIOUS
<1>1. CASE previous = NoState
  BY <1>1 DEF PlanIsSymmetric, CurrentPlan, planSync
<1>2. CASE previous \in SyncState
  <2>1. [client |-> previous.server, server |-> previous.client] \in SyncState
    BY <1>2 DEF SyncState
  <2>2. QED
    BY <1>2, <2>1, NoStateIsNoState DEF PlanIsSymmetric, CurrentPlan, planSync
<1>3. QED
  BY <1>1, <1>2 DEF TypeOK

----------------------------------------------------------------------------
(* The planner never asks a backend to export and delete the same path,    *)
(* nor both backends to act on one path.                                   *)
THEOREM Unambiguous == Spec => []PlanIsUnambiguous
BY TypeCorrect, TypedPlanIsUnambiguous, PTL

(* Carrying out any plan makes the two backends equal.                     *)
THEOREM Convergence == Spec => []PlanConverges
BY TypeCorrect, TypedPlanConverges, PTL

(* What was written since the previous synchronization is never lost to a  *)
(* deletion or to an older document.                                       *)
THEOREM NewsSurvive == Spec => []ModificationSurvives
BY TypeCorrect, TypedModificationSurvives, PTL

(* No deletion is planned without a deletion, in particular none by a      *)
(* first synchronization.                                                  *)
THEOREM DeletionsAreCaused == Spec => []DeletionHasCause
BY TypeCorrect, TypedDeletionHasCause, PTL

(* A synchronization right after a synchronization has nothing to do.      *)
THEOREM Idempotence == Spec => []SyncIsIdempotent
BY TypeCorrect, TypedSyncIsIdempotent, PTL

(* The planner treats client and server alike.                             *)
THEOREM Symmetry == Spec => []PlanIsSymmetric
BY TypeCorrect, TypedPlanIsSymmetric, PTL

============================================================================
