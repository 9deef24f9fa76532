\* fixed.rs:249-250 against the smallest value's own text.
SPECIFICATION DefaultsSpec
CONSTANTS
  SCALE = 100
  MAX = 2047
  SCALE_DIGITS = 2
  Digits = {0, 1, 5, 9}
  MaxLength = 2
  Declarations <- NoDeclarations
  ScopeEntries <- ModelEntries
INVARIANT OverflowsOnlyOutOfRange
CHECK_DEADLOCK FALSE
