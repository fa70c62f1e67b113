CONSTANTS
    Models = {m}
    NoModel = none
    MaxSweeps = 2
    MaxTests = 2
    Iterations = 2
SPECIFICATION FairSpec
INVARIANTS ServersAreKilled MeasuresItsServer EveryTestCounts
PROPERTIES SweepsEnd
CHECK_DEADLOCK FALSE
