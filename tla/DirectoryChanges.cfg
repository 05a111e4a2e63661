SPECIFICATION FolderFairSpec
CONSTANTS
  t1 = t1  t2 = t2  a = a
  View = {t1, t2}
  File = {a}
  FCHANGES_MAX = 3
  MaxOps = 3
  MaxActs = 2
INVARIANTS SettledIsAccurate RowsAreLive
PROPERTIES ViewsThaw SettlesAccurate
CHECK_DEADLOCK FALSE
