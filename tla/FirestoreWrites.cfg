SPECIFICATION FairSpec
CONSTANTS
  MaxWrites = 4
  kMaxPendingWrites = 2
INVARIANTS PipelineIsPrefix ResponsesMatch NeverBehind
PROPERTIES IsWriteQueue SavedWritesLeave
