CONSTANTS
    Releases = {9}
    Custom = {}
    Libs = {s}
    Sentinel = s
    Default = 9
    Tasks = {a,b}
    NoTask = none
    MaxCrash = 1
SPECIFICATION FairSpec
INVARIANTS OnlyVerifiedMoves NoExtractionStays
PROPERTIES InstallationIsWhole ResolvingEnds
