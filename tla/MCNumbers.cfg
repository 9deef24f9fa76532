\* Every pair of operands of a 6-bit Fixed of six units to the whole, and
\* lists of up to seven supplies, negative ones included.
SPECIFICATION NumbersSpec
CONSTANTS
  SCALE = 6
  MAX = 31
  Operands <- ModelOperands
  Supply <- ModelSupply
  Direct <- ModelDirect
  Production <- ModelProduction
  MaxSupplies = 7
INVARIANTS
  ArithmeticTypeOK
  RoundsHalfToEven
  TypeOK
  EvaluatorsAgree
  NeverTwoValues
  AttributionIsAccurate
  AverageIsAccurate
CHECK_DEADLOCK FALSE
