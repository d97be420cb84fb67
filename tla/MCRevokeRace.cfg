SPECIFICATION RaceSpec
CONSTANTS
  MaxSession = 3
  MaxPending = 1
  MaxTries = 0
  StopSlots = {k1, k2}
PROPERTIES
  StopsConnectingFirst
CHECK_DEADLOCK FALSE
