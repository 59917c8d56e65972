SPECIFICATION Spec
CONSTANTS
  Fps = 25
  Lap = 8
  StopLimit = 17
  First <- MCFirst
  Last <- MCLast
  Starts <- MCStarts
  Targets <- MCTargets
  MaxChanges = 2
  NoFrame = NoFrame
PROPERTIES
  RollingIsNotStuck
