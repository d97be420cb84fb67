SPECIFICATION FairSpec
CONSTANTS
  Guards = {sslocal, tun2socks}
  WithCallback = {tun2socks}
INVARIANTS
  DoneIsClean
PROPERTIES
  ImplementsContract
  CloseCompletes
CHECK_DEADLOCK FALSE
