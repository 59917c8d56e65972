SPECIFICATION Spec
CONSTANTS
  None = None
  Files = {"movie"}
  Sources = {"a", "b", "c"}
  Newer = {"c"}
  Modes = {"glx", "xv", "imlib2"}
  Masks <- MCMasks
  Offers <- MCOffers
  Desks <- MCDesks
INVARIANTS
  TheBoxIsDrawn
  OverrideHolds
  DialogsHaveTheirWindow
  PassingDragsLoadNothing
CHECK_DEADLOCK FALSE
