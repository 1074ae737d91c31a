SPECIFICATION Spec
CONSTANTS
  Machines <- MCMachines
  MaxCalls = 4
  MaxLocal = 2
  WORD_BITS = 4
  MAP_WORDS = 1
INVARIANTS MapsWhatWasAsked NeverUnmapped TablesFormATree LocalTableReached
