SPECIFICATION FairSpec
CONSTANTS
  CLASS_COUNT = 3
  PageCount = 8
  MemoryMaps <- Maps
  MaxRequest = 5
  Reserved = {7}
INVARIANTS
  ListsWellFormed
  AssertionsHold
  AccountsAgree
  BuddyBitsExact
  ClientsUndisturbed
  FullyMerged
PROPERTIES
  RefinesPool
  CallsReturn
