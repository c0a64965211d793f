SPECIFICATION Spec
CONSTANTS
  Writers        = {"w1", "w2"}
  Paths          = {"history"}
  Limits         = {0, 1, 2, 3}
  MaxRuns        = 2
  Sizes          = {1, 3, 4}
  MaxFileBytes   = 3
  MaxStarted     = 3
  MaxPowerLosses = 1
INVARIANTS
  TypeOK
  AlwaysReadable
  KeepsTheNewest
  NeverInvents
