SPECIFICATION Spec
CONSTANTS
  r = r  m = m  a1 = a1  h = h
  j1 = j1  j2 = j2  d1 = d1
  Change <- AllChanges
  Kind <- AllKinds
  Job = {j1, j2}
  Dir = {d1}
  ConsumeAll = {TRUE}
  MaxChunk = 2
  MaxArrived = 3
INVARIANTS JobHeard
PROPERTIES DeliverySpec
CHECK_DEADLOCK FALSE
