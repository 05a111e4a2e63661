SPECIFICATION FairSpec
CONSTANTS
  a = a  b = b  d = d  e = e  x = x  y = y
  NoFile = NoFile
  File <- MixFiles
  Kids <- MixKids
  Top <- MixTop
  Place <- MixPlace
  TryTrash = TRUE
  ConfirmTrash = TRUE
  Recorded = TRUE
INVARIANTS OnlyAgreedLost SkippedNotGone ToldTrue
PROPERTIES CancelStops JobEnds
CHECK_DEADLOCK FALSE
