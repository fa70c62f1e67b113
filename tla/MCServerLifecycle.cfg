SPECIFICATION FairSpec
CONSTANTS
  Models = {a, b}
  Modes = {"Normal", "Bench"}
  MaxSpawn = 2
  MaxLoads = 2
  MaxActive = 1
  PlainIds = {a}
  NoModel = NoModel
INVARIANTS ListensToItsServer OneModelInNormalMode
PROPERTIES CrashIsNoticed
CHECK_DEADLOCK FALSE
