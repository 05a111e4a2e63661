SPECIFICATION FairSpec
CONSTANTS
  d = d  e = e  a = a  x = x
  NoFile = NoFile  OldFile = OldFile  OldFolder = OldFolder
  File <- MCFile
  Folder <- MCFolder
  Name <- MCName
  Way <- MCWay
  Safe <- MCSafe
  CopyName <- MCCopyName
  NewNames = {"x"}
  Jobs <- MCJobs
  MaxFaults = 1
INVARIANTS OnlyAgreedReplaced NoSourceLost RecordTrue ReportedTrue AllAccounted
PROPERTIES JobEnds
CHECK_DEADLOCK FALSE
