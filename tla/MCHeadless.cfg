SPECIFICATION HeadlessSpec
CONSTANTS
    PipeRoom = 1
    LogRoom = 1
    MetricRoom = 1
    MaxFailures = 2
    MaxRequests = 1
    Uploads = {"u", "v", "w"}
    MaxRounds = 2
    Budget = 1
    Programs = {"p", "q"}
    MaxPairs = 4
    MaxFaults = 2
INVARIANTS NoOrphan FilesAreWhole
PROPERTIES OutputFlows Returns AgentEnds
CHECK_DEADLOCK FALSE
