CONSTANTS
  NoFile = NoFile
  Files <- MCFiles
  Packets <- MCPackets
  FrameCount <- MCFrameCount3
  AllKey <- MCAllKey
  Positions <- MCPositions3
  ProbeCount = 2
  MaxCmds = 2
SPECIFICATION Spec
INVARIANT DispFrameInMovie
