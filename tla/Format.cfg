SPECIFICATION Spec
CONSTANTS
  BUF_SIZE = 12
  Clip <- Mark
  Width = 8
  Beyond = 4
  Stale = "stale"
  Calls <- SmallCalls
INVARIANTS
  CallExact
  InBuffer
