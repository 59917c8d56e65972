CONSTANTS
  Movies <- MCOffsetMovies
  ProbeCount = 4
  KeyframeLimit = 11
SPECIFICATION Spec
INVARIANT OffsetIsHonoured
