SPECIFICATION FairSpec
CONSTANTS
  Cores = {c1, c2}
  BufSize = 3
  ClipSize = 1
  Lengths <- LineLengths
  Malformed = TRUE
  MaxCalls = 3
PROPERTIES
  ErrorShutsDown
