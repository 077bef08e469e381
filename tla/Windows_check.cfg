SPECIFICATION Spec
CONSTANTS
  NWin = 2
  NCrtc = 2
  Plane = {p1, p2}
  Thread = {t1, t2}
  NoThread = NoThread
  ActiveOnly = FALSE
SYMMETRY Symmetry
INVARIANTS PoolSound ReservedMatchesNeed 
PROPERTY ImplementsPool
