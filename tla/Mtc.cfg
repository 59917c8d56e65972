SPECIFICATION FairSpec
CONSTANTS
  Fps = 25
  Lap = 8
  StopLimit = 7
  First <- MCFirst
  Last <- MCLast
  Starts <- MCStarts
  Targets <- MCTargets
  MaxChanges = 2
  NoFrame = NoFrame
INVARIANTS
  TypeOK
  PositionIsFollowed
  LocateIsShown
PROPERTIES
  StopIsNoticed
