SPECIFICATION FairSpec
CONSTANTS
  EntryCount = 2
  TableFrames = {t1, t2, t3, t4}
  DataFrames = {0, 1, 2}
  Virtuals = {0, 4, 5, 15}
  Counts = {3}
  Flags <- OneFlag
  NULL = NULL
INVARIANTS
  TreeShaped
  FramesAccounted
PROPERTIES
  FailureJustified
  RefinesSpace
  CallsReturn
