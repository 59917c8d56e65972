SPECIFICATION Spec
CONSTANTS
  None = None
  Files = {"movie"}
  Sources = {"a", "b", "c"}
  Newer = {"c"}
  Modes = {"glx", "xv", "imlib2"}
  Masks <- MCMasks
  Offers <- MCOffers
  Desks <- MCDesks
INVARIANT
  OnlyDroppedFilesLoad
CHECK_DEADLOCK FALSE
