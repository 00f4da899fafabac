SPECIFICATION Spec
CONSTANTS
    Path = {p1, p2}
    Absent = Absent
    NoState = NoState
    Desktop = {d1}
    Server = Server
    Nobody = Nobody
    Root = p1
    Top = p1
    Subtree <- NestedTree
    Granularity = 2
    MaxClock = 2
    MaxDeletes = 1
    MaxFaults = 1
INVARIANTS
    TypeOK
    ExclusiveExchange
    
    QuietSyncConverges
PROPERTIES
    ContentKept
    NoInventedDeletionUnlessFaults
