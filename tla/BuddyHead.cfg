SPECIFICATION Spec
CONSTANTS
  Base = 4
  Size = 12
  Levels = 3
  Layouts <- MCLayouts
INVARIANT HeadReachesList
