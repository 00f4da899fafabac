SPECIFICATION Spec
CONSTANTS
    App = {a1}
    Pid = {p1, p2}
    a1 = a1
    p1 = p1
    p2 = p2
    None = None
    Environments <- DarwinAndLinux
    FirstSettings = {"on"}
    MaxLaunches = 2
    MaxKills = 1
    MaxSyncSaves = 1
INVARIANTS TypeOK BackendsOwned RelaunchFindsPortFree CrashNoticed TimerFollowsConfig
PROPERTIES HandlersEnd
CHECK_DEADLOCK FALSE
