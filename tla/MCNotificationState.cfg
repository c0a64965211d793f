SPECIFICATION FileSpec
CONSTANTS
  Projects    = {"a", "b", "c"}
  FailStatus  = {"timeout", "dns_failure"}
  Times       = {1, 2}
  Thresholds  = {1, 2}
  MaxProjects = 2
  MaxEpisode  = 2
  MaxInt      = 2
INVARIANTS
  FileTypeOK
  NoSelfLockout
PROPERTY
  AlertsSpec
