SPECIFICATION Spec
CONSTANTS
    a = a
    ab = ab
    Request = {r1, r2}
    Path <- PathsDef
    BeginsWith <- BeginsWithDef
    InitialDirs <- InitialDirsDef
    NewContent = 8
    Absent = Absent
    Damaged = Damaged
    MaxRequests = 2
    MaxNow = 2
    MaxCrashes = 1
SYMMETRY Slots
INVARIANTS TypeOK DamageHasCause AloneNeverFails
PROPERTIES ContentKept AtomicTree
CHECK_DEADLOCK FALSE
