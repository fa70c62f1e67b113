SPECIFICATION Spec
CONSTANTS
    Models = {"m", "n"}
    Profiles = {"p"}
    Profiled = {"m"}
    Values = {0, 1}
    Unset = 9
    MaxEdits = 1
    MaxFaults = 0
INVARIANTS LoadsWhatIsShown
