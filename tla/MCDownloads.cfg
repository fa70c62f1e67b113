SPECIFICATION FairSpec
CONSTANTS
  Files = {f}
  NoFile = NoFile
  MaxTasks = 2
  Cap = 1
INVARIANTS NoPartialLeft PauseIsShown
PROPERTIES EndedEntryGoes
