SPECIFICATION FairSpec
CONSTANTS
  MaxEvents = 8
  Races = {}
CHECK_DEADLOCK FALSE
INVARIANTS OutputSound AudioSound
PROPERTY UnplugPowersDown
