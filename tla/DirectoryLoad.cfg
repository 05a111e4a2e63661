SPECIFICATION Spec
CONSTANTS
  t1 = t1  t2 = t2  a = a  h = h
  View = {t1, t2}
  File = {a, h}
  Hidden = {h}
  Ops = {"tab", "navigate", "leave", "close", "reload", "hidden", "complete"}
  Faults = TRUE
  MaxListings = 3
  MaxLoads = 2
INVARIANTS LoadedComplete RowsAlive RowsComplete NobodyWaits
CHECK_DEADLOCK FALSE
