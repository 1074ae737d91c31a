SPECIFICATION Spec
CONSTANTS
  UMAX = 63
  SET_SIZE = 4
  RegBase = {0, 1, 4, 7, 10, 20, 32, 64}
  RegSize = {0, 2, 4, 9, 31, 63, 90}
  Headers <- MCHeaders
  Nodes <- MCNodes
  MaxRegs = 3
  Machines <- MCMachines
  virtual_base = 48
  kernel_end = 2
  Blob <- MCBlob
  kernel_base = 1
  BLOCK_LEVELS = 3
  WORD_BITS = 4
  PAGE_WORDS = 4
INVARIANTS RangesOrdered MemoryExact ZonesServeTheirMemory LinearMemoryMapped
           PairFlagsApart
