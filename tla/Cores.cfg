SPECIFICATION BootSpec
CONSTANTS
  N = 3
  MAX_CORES = 3
  CELL = 16
  USIZE = 256
  CoreId = {0, 2, 4, 68}
  HashValue = {0, 1}
  primary_id = 2
  Headers <- MCHeaders
  Nodes <- MCNodes
  MaxNodes = 4
  Arch = "aarch64"
  AreaEnd = 100
  StackPages = {1, 2}
INVARIANTS IndexesAgree CoresListed CoresAsDescribed StacksApart StackListComplete
