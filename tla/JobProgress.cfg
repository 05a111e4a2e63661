SPECIFICATION ProgressFairSpec
CONSTANTS
  Jobs = {"copy", "empty"}
  TrashJobs = {"empty"}
  MaxReports = 2
  MaxAsks = 1
INVARIANTS ShownTrue NotKilled
PROPERTIES JobsSettle
CHECK_DEADLOCK FALSE
