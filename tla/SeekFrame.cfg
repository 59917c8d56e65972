CONSTANTS
  Movies <- MCMovies
  ProbeCount = 4
  KeyframeLimit = 11
SPECIFICATION Spec
INVARIANTS
  TypeOK
  FrameIsTheOneAsked
  CacheIsTrue
  AssertionsHold
  EveryFrameIsShown
PROPERTY CallReturns
