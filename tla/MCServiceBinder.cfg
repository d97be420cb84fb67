SPECIFICATION Spec
CONSTANTS
  MaxBg = 2
  MaxUi = 2
  MaxBinds = 3
  MaxPosts = 2
INVARIANTS
  AssertionsHold
  ActiveIsRegistered
  NoLeftovers
