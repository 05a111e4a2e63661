SPECIFICATION Spec
CONSTANTS
  d = d  e = e  a = a  x = x
  NoFile = NoFile  OldFile = OldFile  OldFolder = OldFolder
  File <- MCFile
  Folder <- MCFolder
  Name <- MCName
  Way <- MCWay
  Safe <- MCSafe
  CopyName <- MCCopyName
  NewNames = {"d"}
  Jobs <- MCJobs
  MaxFaults = 1
INVARIANT AskedBeforeReplaced
CHECK_DEADLOCK FALSE
