SPECIFICATION PartialSpec
CONSTANTS
  Height = 4
  Slice <- MCSlice
  RegionRequests <- MCRequests
  Places <- MCPlaces
  Kinds <- MCKinds
  MaxCommits = 4
  Races = {}
INVARIANTS RegionAgrees PictureWhole DppLimitsKept
CHECK_DEADLOCK FALSE
