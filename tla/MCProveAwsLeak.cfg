\* prove-aws.sh:5-7 against a lost answer.
SPECIFICATION Spec
CONSTANTS
  MaxPings = 1
  MaxPolls = 1
  MaxFaults = 1
INVARIANT TerminatedWhenTheScriptExits
CHECK_DEADLOCK FALSE
