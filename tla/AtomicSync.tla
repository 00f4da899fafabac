----------------------------- MODULE AtomicSync -----------------------------
(***************************************************************************)
(* What a synchronization is meant to do, as one atomic step: plan from    *)
(* the current snapshots, carry the plan out on two flat document trees,   *)
(* persist the snapshots that result.  Between two synchronizations the    *)
(* users of either backend store and remove documents.                     *)
(*                                                                         *)
(* It is the reference against which the planner is judged: its inputs are *)
(* every combination of snapshots and previous state, since the code may   *)
(* persist any pair of snapshots when users act during a synchronization.  *)
(***************************************************************************)
EXTENDS SyncPlanner

CONSTANT MaxTime    \* bound on the times of the initial documents and edits

ASSUME MaxTimeIsTime == MaxTime \in Time

VARIABLES
    client,     \* the snapshot of the local backend
    server,     \* the snapshot of the remote backend
    previous    \* the content of sync.json, or NoState

vars == <<client, server, previous>>

BoundedSnapshot == [Path -> 0..MaxTime \cup {Absent}]

TypeOK ==
    /\ client \in Snapshot
    /\ server \in Snapshot
    /\ previous \in SyncState \cup {NoState}

Init ==
    /\ client \in BoundedSnapshot
    /\ server \in BoundedSnapshot
    /\ previous \in [client : BoundedSnapshot, server : BoundedSnapshot] \cup {NoState}

----------------------------------------------------------------------------
CurrentPlan == planSync(previous, client, server)

(* The tree of a backend once its own deletions and the archive of the     *)
(* other backend have been applied.                                        *)
Applied(own, other, ownActions, otherActions) ==
    [p \in Path |->
        IF p \in otherActions.retrieve THEN other[p]
        ELSE IF p \in ownActions.delete THEN Absent
        ELSE own[p]]

ClientAfter == Applied(client, server, CurrentPlan.client, CurrentPlan.server)
ServerAfter == Applied(server, client, CurrentPlan.server, CurrentPlan.client)

\* Faulty variant: only one of the two snapshots is persisted.
SynchronizeClientOnly ==
    /\ client' = ClientAfter
    /\ server' = ServerAfter
    /\ previous' = [client |-> ClientAfter]

Synchronize ==
    /\ client' = ClientAfter
    /\ server' = ServerAfter
    /\ previous' = [client |-> ClientAfter, server |-> ServerAfter]

StoreOnClient(p, t) ==
    /\ ~(client[p] # Absent /\ client[p] >= t)
    /\ client' = [client EXCEPT ![p] = t]
    /\ UNCHANGED <<server, previous>>

StoreOnServer(p, t) ==
    /\ ~(server[p] # Absent /\ server[p] >= t)
    /\ server' = [server EXCEPT ![p] = t]
    /\ UNCHANGED <<client, previous>>

RemoveFromClient(p) ==
    /\ client[p] # Absent
    /\ client' = [client EXCEPT ![p] = Absent]
    /\ UNCHANGED <<server, previous>>

RemoveFromServer(p) ==
    /\ server[p] # Absent
    /\ server' = [server EXCEPT ![p] = Absent]
    /\ UNCHANGED <<client, previous>>

Next ==
    \/ Synchronize
    \/ \E p \in Path, t \in 0..MaxTime : StoreOnClient(p, t) \/ StoreOnServer(p, t)
    \/ \E p \in Path : RemoveFromClient(p) \/ RemoveFromServer(p)

Spec == Init /\ [][Next]_vars

----------------------------------------------------------------------------
(* Each path is in at most one of the four lists of a plan, so the two     *)
(* exchanges commute path by path and neither backend can refuse the       *)
(* request as "retrieved and deleted in the same sync".                    *)
PlanIsUnambiguous ==
    LET lists == <<CurrentPlan.client.retrieve, CurrentPlan.client.delete,
                   CurrentPlan.server.retrieve, CurrentPlan.server.delete>>
    IN  \A i, j \in 1..4 : i # j => lists[i] \cap lists[j] = {}

(* Carrying out the plan leaves both backends with the same documents, at  *)
(* the same times, whatever the inputs.                                    *)
PlanConverges == ClientAfter = ServerAfter

(* A document stored on one backend since the previous synchronization     *)
(* (its time passed the one persisted for that backend), or never seen by  *)
(* a synchronization on either side, survives the synchronization: no      *)
(* inferred deletion and no older document replaces it.                    *)
ModificationSurvives ==
    \A p \in Path :
        LET new(prev, own) == Later(own[p], prev[p])
            latest == IF client[p] = Absent THEN server[p]
                      ELSE IF server[p] = Absent THEN client[p]
                      ELSE IF client[p] > server[p] THEN client[p] ELSE server[p]
        IN  \/ previous = NoState
            \/ new(previous.client, client)
            \/ new(previous.server, server)
            \/ previous.client[p] = Absent /\ previous.server[p] = Absent
            => ClientAfter[p] = latest

(* A deletion is planned on a backend only for a path that the previous    *)
(* synchronization saw on the other backend and that is gone from it now;  *)
(* so the first synchronization deletes nothing.                           *)
DeletionHasCause ==
    \A p \in Path :
        /\ p \in CurrentPlan.server.delete =>
               previous # NoState /\ previous.client[p] # Absent /\ client[p] = Absent
        /\ p \in CurrentPlan.client.delete =>
               previous # NoState /\ previous.server[p] # Absent /\ server[p] = Absent

(* The plan made right after a synchronization, with nothing changed       *)
(* meanwhile, is empty: a synchronization repeated is no synchronization.  *)
SyncIsIdempotent ==
    ~HasChanges(planSync([client |-> ClientAfter, server |-> ServerAfter],
                         ClientAfter, ServerAfter))

(* The planner favours neither backend: exchanging their roles exchanges   *)
(* the two action sets.                                                    *)
PlanIsSymmetric ==
    planSync(IF previous = NoState THEN NoState
             ELSE [client |-> previous.server, server |-> previous.client],
             server, client)
      = [client |-> CurrentPlan.server, server |-> CurrentPlan.client]

============================================================================
