SPECIFICATION Spec
CONSTANTS
  Projects    = {"a"}
  FailStatus  = {"timeout"}
  Times       = {1}
  Thresholds  = {2}
  Threshold   = 2
  MaxProjects = 1
  MaxEpisode  = 2
  MaxInt      = 3
  MaxOutages  = 2
  MaxRuns     = 3
  MaxAttempts = 2
INVARIANT
  NeverRolledBack
