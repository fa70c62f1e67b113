SPECIFICATION Spec
CONSTANTS
  Models = {a, b}
  Modes = {"Router"}
  MaxSpawn = 1
  MaxLoads = 2
  MaxActive = 2
  PlainIds = {a, b}
  NoModel = NoModel
SYMMETRY ModelSymmetry
INVARIANTS LoadedHasServer NamesAgree
PROPERTIES FailedIsKept
CHECK_DEADLOCK FALSE
