SPECIFICATION FairSpec
CONSTANTS
    Path = {p1}
    Absent = Absent
    NoState = NoState
    Desktop = {d1}
    Server = Server
    Nobody = Nobody
    Root = Root
    Top = p1
    Subtree <- FlatTree
    Granularity = 2
    MaxClock = 2
    MaxDeletes = 1
    MaxFaults = 1
PROPERTIES
    AlwaysConvergesAgain
    FlagIsReleased
