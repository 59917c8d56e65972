SPECIFICATION Spec
CONSTANTS
  Compiled = {1, 2}
  Movies <- MCMovies
  Fonts <- MCFonts
  RcFiles <- MCRcFiles
  CommandLines <- MCCommandLines
  Values <- MCValues
  MidiPorts <- MCMidiPorts
  Captions <- MCCaptions
  NULL = NULL
  Numbers = {"-1", "-2", "80"}
  MaxStarts = 3
  MaxChanges = 2
INVARIANTS
  TypeOK
  SessionComesBack
  SourceComesBack
CHECK_DEADLOCK FALSE
