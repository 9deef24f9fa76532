\* fixed.rs:79-80 and 91-92 against products and quotients that fit.
SPECIFICATION NumbersSpec
CONSTANTS
  SCALE = 6
  MAX = 31
  Operands <- ModelOperands
  Supply <- ModelSupply
  Direct <- ModelDirect
  Production <- ModelProduction
  MaxSupplies = 7
INVARIANT ResultsThatFitAreReturned
CHECK_DEADLOCK FALSE
