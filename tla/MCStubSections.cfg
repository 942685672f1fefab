CONSTANTS
  MCLen = 5
  StubElfs <- MCElfs
  SHN_LORESERVE = 65280
SPECIFICATION StubsSpec
INVARIANTS
  StubsTypeOK
  IndexFidelity
  FstubsRewritten
PROPERTY ImplementsSectionGraph
