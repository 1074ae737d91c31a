CONSTANTS
  NumSlabs = 3
  ObjsPerSlab = 3
SPECIFICATION Spec
INVARIANTS
  SlabsOnTheirList
  FreeChainsExact
  AssertionsHold
  StatsExact
  SlabsOwned
PROPERTIES
  ImplementsObjectPool
  FreesAllUnused
