SPECIFICATION BtsSpec
CONSTANTS
  Crtc = {c1, c2}
  NoCrtc = none
  NPlane = 2
  NWin = 2
  MaxCommits = 3
  Races = {}
  BtsRaces = {}
SYMMETRY Symmetry
INVARIANTS WiringExact VotesCoverDisplay ProtectionSound
CHECK_DEADLOCK FALSE
