SPECIFICATION Spec
CONSTANTS
    Path = {p1, p2}
    Absent = Absent
    NoState = NoState
    MaxTime = 2
INVARIANTS
    TypeOK
    PlanIsUnambiguous
    PlanConverges
    ModificationSurvives
    DeletionHasCause
    SyncIsIdempotent
