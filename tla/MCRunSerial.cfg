SPECIFICATION FairSpec
CONSTANTS
  Projects    = {"a", "b"}
  FailStatus  = {"timeout"}
  Times       = {1, 2, 3}
  Thresholds  = {2}
  Threshold   = 2
  MaxProjects = 2
  MaxEpisode  = 2
  MaxInt      = 2
  MaxOutages  = 2
  MaxLosses   = 0
  Slots       = {1}
  ConfigOrder <- MCOrder
  Selections  <- AllOrOne
INVARIANTS
  TypeOK
  QueuedIsPending
  ExitCodeIsTruthful
  NotifiedWasShown
PROPERTIES
  AtomicState
  EventuallyTold
