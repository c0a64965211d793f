SPECIFICATION Spec
CONSTANTS
  Writers          = {"c1", "c2"}
  Paths            = {"first", "second", "config"}
  Targets          = 2
  Protected        = {"config"}
  Layouts          <- MCLayouts
  Casts            <- MCCasts
  MaxInterferences = 1
INVARIANTS
  TypeOK
  NeverTorn
  NeverMixed
  ReportsWhatItInstalled
  EachInItsPlace
PROPERTY
  ReplacesOnlyWithForce
