SPECIFICATION Spec
CONSTANTS
    e1 = e1
    e2 = e2
    f1 = f1
    f2 = f2
    Entry = {e1, e2}
    File = {f1, f2}
    StoredAs <- StoredAsDef
    Regular = {f1}
    Query = {q1, q2}
    Self = e1
    None = None
    MaxWrites = 3
    MaxOthers = 2
    MaxFailures = 1
    MaxQueries = 3
INVARIANTS TypeOK ListIsCurrent
PROPERTIES NoSilentOverwrite
CHECK_DEADLOCK FALSE
