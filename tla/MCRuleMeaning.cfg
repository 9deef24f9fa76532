\* Every operation over every leaf, nested loops, tables, malformed rules.
SPECIFICATION Spec
CONSTANTS
  SCALE = 10
  MAX = 63
  TableFiles <- ModelTables
  Calendar <- ModelCalendar
  Thousand = 20
  Rules <- ModelRules
  Invocations <- ModelInvocations
INVARIANTS
  TypeOK
  ScopeIsTheOpenLoops
  ValidRulesAreWellFormed
  OutcomeIsTheMeaning
  AluminiumRoutesAgree
PROPERTY EvaluationEnds
CHECK_DEADLOCK FALSE
