SPECIFICATION Spec
CONSTANTS
  Repositories <- JoinedRepositories
  LineLength = 1
  FileLength = 1
INVARIANT MarkersAreRejected
CHECK_DEADLOCK FALSE
