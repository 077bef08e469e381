SPECIFICATION LhbmFairSpec
CONSTANTS
  LhbmCommits = 4
  LhbmStores = 2
  LhbmRaces = {}
INVARIANTS LhbmSound
PROPERTIES RecoveryKeepsLhbm LhbmTimesOut
CHECK_DEADLOCK FALSE
