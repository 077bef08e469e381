SPECIFICATION FairSpec
CONSTANTS
  Sender = {tail, sysfs}
  Committer = tail
  NoSender = none
  MaxPh = 3
  MaxPl = 8
  Threshold = 6
  Payload = {2, 6}
  MaxMessages = 2
  Races = {}
CHECK_DEADLOCK FALSE
INVARIANTS FifosSound LinkSound
PROPERTIES SetsWhole QueueDrains
