CONSTANTS
  NoFile = NoFile
  Files <- MCFiles
  Packets <- MCPackets
  FrameCount <- MCFrameCount
  AllKey <- MCAllKey
  Positions <- MCPositions
  ProbeCount = 2
  MaxCmds = 2
SPECIFICATION Spec
INVARIANTS
  DecoderExclusive
  ScanHasItsMovie
  SeekUsesWholeIndex
  StalePictureIsRedrawn
PROPERTIES
  ImplementsPlayer
  QuitEnds
  RequestReturns
