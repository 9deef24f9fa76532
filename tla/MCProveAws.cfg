\* Every interleaving of script and cloud with up to two faults.
SPECIFICATION Spec
CONSTANTS
  MaxPings = 3
  MaxPolls = 4
  MaxFaults = 2
INVARIANTS
  LeaksOnlyByLostCalls
  SuccessMeansMeasured
PROPERTY ScriptEnds
CHECK_DEADLOCK FALSE
