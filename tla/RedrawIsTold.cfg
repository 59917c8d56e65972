CONSTANTS
  NoFile = NoFile
  Files <- MCFiles
  Packets <- MCPackets
  FrameCount <- MCFrameCount
  AllKey <- MCAllKey
  Positions <- MCPositions
  ProbeCount = 2
  MaxCmds = 1
SPECIFICATION Spec
INVARIANT RedrawIsTold
