SPECIFICATION FairSpec
CONSTANTS
  MaxSession = 2
  MaxPending = 2
  MaxTries = 1
  StopSlots = {k1, k2}
INVARIANTS
  StopExclusive
  StoppedReleased
  ConnectedComplete
  NoOrphans
  ProxyPresent
PROPERTIES
  StopsConnectingFirst
  ImplementsLifecycle
  TransientStatesEnd
