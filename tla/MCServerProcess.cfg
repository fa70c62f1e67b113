CONSTANTS
    Streams = {stdout, stderr}
    Killers = {tui, unload}
    MainLoop = tui
    PipeCap = 1
    LineCap = 1
    LogCap = 1
    Heirs = {stderr}
SPECIFICATION FairSpec
INVARIANTS
    TypeOK
    AcceptedKillIsPending
    JoinNeverBlocks
    DeadWhenTold
PROPERTIES
    CrashIsAnnounced
    RefinesContract
    KillEndsChild
CHECK_DEADLOCK FALSE
