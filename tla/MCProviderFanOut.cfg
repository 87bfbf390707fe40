CONSTANTS
  p1 = p1
  p2 = p2
  p3 = p3
  NoFilter = NoFilter
  Providers <- MCProviders
  Trips = {"CGK-DPS"}
  Cabins = {"economy"}
  Catalog <- MCCatalog
SPECIFICATION FairSpec
INVARIANTS
  TypeOK
  NoPanic
  SendNeverBlocks
  AnswerComplete
  NeverStuck
PROPERTIES
  EveryStepCounts
  Terminates
  ImplementsGather
