SPECIFICATION FairSpec
CONSTANTS
  Guards = {sslocal, tun2socks}
  WithCallback = {tun2socks}
PROPERTIES
  CleanUpCompletes
CHECK_DEADLOCK FALSE
