SPECIFICATION FairSpec
CONSTANTS
  Clients = {c1, c2}
  NULL = NULL
  Supported <- MCSupported
  Asked <- MCAsked
INVARIANTS
  OnlyChosenDriverOpen
  SharedClientIsOpen
  SessionReplyReachesCaller
  ProcessHasDecoder
PROPERTIES
  SwitchIsFollowed
