\* Two decimal places in a 12-bit integer: every text of up to five symbols,
\* every displayed value, and default values of every table over three codes.
SPECIFICATION DefaultsSpec
CONSTANTS
  SCALE = 100
  MAX = 2047
  SCALE_DIGITS = 2
  Digits = {0, 1, 5, 9}
  MaxLength = 5
  Declarations <- ModelDeclarations
  ScopeEntries <- ModelEntries
INVARIANTS
  ParsesNearestEven
  AcceptsDecimalsInRange
  DisplayRoundTrips
  DatesAreTheCalendar
  ScopeIsTheMostSpecificEntry
  SelectsTheGoverningRow
  AppliedIsTheMarkedUpText
CHECK_DEADLOCK FALSE
