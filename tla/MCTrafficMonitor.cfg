SPECIFICATION Spec
CONSTANTS
  MaxBytes = 3
  MaxReports = 2
INVARIANTS
  CountedOnce
  RateNonNegative
  UpdateShown
