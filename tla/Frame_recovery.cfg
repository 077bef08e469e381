SPECIFICATION FairSpec
CONSTANTS
  MaxCommits = 3
  MaxDebug = 1
  Faults = {"late_irq", "late_start", "dimming", "late_mask", "lock_contention"}
  MaxFaults = 2
INVARIANTS EventsSound FramesSound RecoveryRestores
PROPERTY WorkEnds
CHECK_DEADLOCK FALSE
