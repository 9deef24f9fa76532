SPECIFICATION Spec
CONSTANTS
  Repositories <- MCRepositories
  LineLength = 4
  FileLength = 3
INVARIANTS
  CommentsAreTheLexers
  CleanWhenPassed
CHECK_DEADLOCK FALSE
PROPERTY ConsumesTheLine
