SPECIFICATION BootSpec
CONSTANTS
  Cores = {0, 1, 2}
  Capacity = 8192
  Sizes <- AllocSizes
  Aligns = {1, 4, 8}
  MaxAllocs = 6
  Machines <- SomeMachines
  Rooms = {0, 1, 2, 3, 4, 5, 60}
  RingSize = 1
  None = None
  MaxTasks = 2
  MaxFaults = 1
INVARIANTS
  Disjoint
  FaultsHandled
  CrashJustified
  OwnWorker
PROPERTIES
  Ends
