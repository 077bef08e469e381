SPECIFICATION Spec
CONSTANTS
  MaxCommits = 7
  MaxWrites = 4
  Races = {}
INVARIANTS PowerSound ShowsWhatDrmAsked BacklightAgrees
CHECK_DEADLOCK FALSE
