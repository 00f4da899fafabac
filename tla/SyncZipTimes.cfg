SPECIFICATION Spec
CONSTANTS
    Path = {p1}
    Absent = Absent
    NoState = NoState
    Desktop = {d1}
    Server = Server
    Nobody = Nobody
    Root = Root
    Top = p1
    Subtree <- FlatTree
    Granularity = 2
    MaxClock = 1
    MaxDeletes = 0
    MaxFaults = 0
INVARIANT NoIdleTransfer
