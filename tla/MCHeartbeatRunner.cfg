SPECIFICATION FairJobSpec
CONSTANTS
  N               = 3
  Concurrency     = 2
  Timeout         = 1
  Retries         = 2
  RetryBackoff    = 1
  Cap             = 3
  Notifications   = TRUE
  DeliveryTimeout = 1
  Allowance       = 1
  Minute          = 2
  Replies <- SomeReplies
INVARIANTS
  TypeOK
  ResultsComplete
  CheckedOnce
  WithinCappedWorstCase
  WithinJobTimeout
PROPERTIES
  CancelIsPrompt
  Terminates
