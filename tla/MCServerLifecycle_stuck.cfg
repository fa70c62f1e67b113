SPECIFICATION FairSpec
CONSTANTS
  Models = {a}
  Modes = {"Normal"}
  MaxSpawn = 2
  MaxLoads = 2
  MaxActive = 1
  PlainIds = {a}
  NoModel = NoModel
PROPERTIES NeverStuckLoading
CHECK_DEADLOCK FALSE
