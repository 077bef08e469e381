SPECIFICATION Spec
CONSTANTS
  Crtcs = {c1, c2}
  Aware = {c1}
  Threads = {t1, t2}
  MaxCommits = 3
  MaxCalls = 3
  Races = {}
INVARIANTS PowerSound TuiOwnsDisplay DisplayReturned
CHECK_DEADLOCK FALSE
