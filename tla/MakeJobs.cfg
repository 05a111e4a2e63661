SPECIFICATION FairSpec
CONSTANTS
  Jobs = {"p", "q"}
  Cases <- MCCases
  OtherNames <- MCOther
  MaxMeddle = 2
  MaxCount = 7
INVARIANTS UndoTakesBack AllAccounted KeepsType
PROPERTIES JobEnds
CHECK_DEADLOCK FALSE
