SPECIFICATION Spec
CONSTANTS
  Base = 4
  Size = 12
  Levels = 3
  Layouts <- MCLayouts
INVARIANTS TypeOK NoDoubleOwnership RingsClosed FlagsMatchLists Coalesced ChecksumsVerify Accounting OnlyTopPairsLost
PROPERTIES ImplementsPageAllocator
