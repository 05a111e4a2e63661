SPECIFICATION UndoFairSpec
CONSTANTS
  o1 = o1  o2 = o2  o3 = o3  u1 = u1
  Op <- ThreeOps
  Kinds <- EachClass
  Uri <- OneUri
  InitLevels = 2
  LevelChoices <- Grow
  ConfirmDelete = FALSE
INVARIANTS UndoneBeforeIndex RedoInFlightAlive MenuInSync
PROPERTIES RecordingResumes
CHECK_DEADLOCK FALSE
