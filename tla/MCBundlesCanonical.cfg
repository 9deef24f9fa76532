\* bundle.rs:423-425 against a path written with the other separator.
SPECIFICATION BundlesSpec
CONSTANTS
  UsizeBits = 4
  FileLists <- TreeLists
  Channel <- ModelChannel
  Directories <- NoDirectories
  Bundles <- ModelBundles
  Programs <- ModelPrograms
  Invocations <- ModelInvocations
  Carried <- ModelCarried
  MaxOpenings = 3
INVARIANT AcceptsOnlyCanonicalPaths
CHECK_DEADLOCK FALSE
