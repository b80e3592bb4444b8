SPECIFICATION Spec
CONSTANTS
  WordBits = 4
  Count = 10
INVARIANTS
  QueriesExact
  CountExact
  UpdatesExact
