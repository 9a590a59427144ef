SPECIFICATION FairSpec
CONSTANTS
  t1 = t1
  t2 = t2
  t3 = t3
  o1 = o1
  o2 = o2
  o3 = o3
  o4 = o4
  Null = Null
  StaticInit = StaticInit
  MaxDepth = 2
  Threads <- MCThreads
  Objects <- MCObjects
  Scenarios <- MCScenarios
INVARIANTS
  TypeOK
  MutualExclusion
  TargetIsShared
  HolderOwnsTheWord
  NoLeak
PROPERTIES
  ImplementsMutex
  HolderNeverBlocks
