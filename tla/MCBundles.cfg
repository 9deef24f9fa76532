\* Directories walked, lists in every spelling, arbitrary openings of bundles
\* of one to five files, and every witness of up to three openings against
\* two releases of a bundle.
SPECIFICATION BundlesSpec
CONSTANTS
  UsizeBits = 4
  FileLists <- ModelLists
  Channel <- ModelChannel
  Directories <- ModelDirectories
  Bundles <- ModelBundles
  Programs <- ModelPrograms
  Invocations <- ModelInvocations
  Carried <- ModelCarried
  MaxOpenings = 3
INVARIANTS
  AcceptedFilesArePublished
  HonestOpeningsVerify
  ProofsAreShort
  RootIdentifiesTheFiles
  PublishesWhatIsNotExcluded
  EvaluatesPublishedFiles
PROPERTIES
  ImplementsProver
  SufficientWitnessCommits
CHECK_DEADLOCK FALSE
