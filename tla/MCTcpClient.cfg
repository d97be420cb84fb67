SPECIFICATION FairSpec
CONSTANTS
  TCP_WND = 3
  TCP_SND_BUF = 3
  CLIENT_SOCKS_RECV_BUF_SIZE = 2
  WithPassword = TRUE
  MaxUp = 4
  MaxDown = 4
INVARIANTS
  AssertionsHold
  AbortIsReturned
  ClientHasPcb
  WindowIsRoom
  NobodyStalls
  FreedIsDelivered
PROPERTIES
  ClosedIsFreed
