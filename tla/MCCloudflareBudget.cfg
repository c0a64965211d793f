SPECIFICATION Spec
CONSTANTS
  N               = 3
  Concurrency     = 2
  Timeout         = 1
  Retries         = 1
  RetryBackoff    = 1
  Cap             = 2
  RuntimeBudget   = 6
  PlatformLimit   = 7
  FreeVariables   = 6
  FreeSubrequests = 6
  Replies <- SomeReplies
INVARIANT
  NeverKilled
