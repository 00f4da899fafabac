SPECIFICATION Spec
CONSTANTS
    Path = {p1, p2}
    Absent = Absent
    NoState = NoState
    Desktop = {d1}
    Server = Server
    Nobody = Nobody
    Root = Root
    Top = p1
    Subtree <- NestedTree
    Granularity = 1
    MaxClock = 1
    MaxDeletes = 1
    MaxFaults = 0
INVARIANT QuietSyncConverges
