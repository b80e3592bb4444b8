SPECIFICATION FairSpec
CONSTANTS
  Cores = {c1, c2}
  TaskCount = 2
  MaxEnqueues = 5
  TaskData = {d1}
  NoData = NoData
INVARIANTS
  SlotExclusion
  NothingLost
  DeliveredOnce
  OneLap
PROPERTIES
  RefinesBag
  CallsReturn
  AnswersExact
