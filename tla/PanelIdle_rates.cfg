SPECIFICATION IdleFairSpec
CONSTANTS
  IdleCommits = 5
  IdleStores = 3
  IdleRaces = {}
INVARIANTS ChipSound RateFollowsMode IdleSound
PROPERTY IdleReached
CHECK_DEADLOCK FALSE
