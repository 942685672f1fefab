CONSTANTS
  MCLen = 4
  StubElfs <- MCElfs
  SHN_LORESERVE = 65280
SPECIFICATION StubsSpec
INVARIANT ReservedIndicesKept
