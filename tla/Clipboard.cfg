SPECIFICATION FairSpec
CONSTANTS
  Offers = {"cut", "text"}
  Views = {"v", "w"}
  MaxTransfers = 1
  MaxForeign = 1
  MaxPastes = 2
INVARIANTS QuietTrue
PROPERTIES PasteEnds
CHECK_DEADLOCK FALSE
