SPECIFICATION Spec
CONSTANTS
  Clients = {c1, c2}
  NULL = NULL
  Supported <- MCSupported
  Asked <- MCAsked
INVARIANTS
  SavedMtcHasPort
