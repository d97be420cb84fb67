SPECIFICATION FairSpec
CONSTANTS
  Networks = {wifi, mobile}
  Services = {1, 2}
  MaxCalls = 3
  MaxGets = 2
INVARIANTS
  ListenersCurrent
  QuietIsCurrent
  VpnCurrent
PROPERTIES
  GetAnswered
