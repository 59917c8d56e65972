SPECIFICATION Spec
CHECK_DEADLOCK FALSE
CONSTANTS
  Rates <- MCRates
  Starts <- MCStarts
  Texts <- MCTexts
  MtcTimes <- MCMtcTimes
  MaxSteps = 3
INVARIANT
  DropOnlyWherePermitted
