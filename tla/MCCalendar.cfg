SPECIFICATION Spec
CONSTANTS
  ClockRange  <- MCRange
  Expressions <- MCExpressions
  MaxEntries  = 4
INVARIANTS
  TypeOK
  FiresExactly
  StartsOnce
