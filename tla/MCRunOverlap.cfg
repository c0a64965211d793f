SPECIFICATION Spec
CONSTANTS
  Projects    = {"a"}
  FailStatus  = {"timeout"}
  Times       = {1, 2, 3, 4, 5, 6, 7}
  Thresholds  = {2}
  Threshold   = 2
  MaxProjects = 2
  MaxEpisode  = 2
  MaxInt      = 2
  MaxOutages  = 2
  MaxLosses   = 1
  Slots       = {1, 2}
  ConfigOrder <- OnlyA
  Selections  <- JustA
INVARIANTS
  NotifiedWasAccepted
  ThresholdIsOwed
