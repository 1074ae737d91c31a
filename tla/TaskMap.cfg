SPECIFICATION Spec
CONSTANTS
  MAX_LOCAL_MAPPINGS = 3
  Page = {0, 1, 2, 3}
  high_mem_base = 2
  Core = {0, 1}
  this_core = 0
  MaxMaps = 5
INVARIANTS MappingsTranslate PinnedWhileMapped
