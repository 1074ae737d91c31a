SPECIFICATION Spec
CONSTANTS
  Base = 2
  Size = 6
  Levels = 3
  Layouts <- MCLayouts
INVARIANT AllocationsDisjoint
