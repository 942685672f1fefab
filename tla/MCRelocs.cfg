CONSTANTS
  Elfs <- MCElfs
  H = 16
  ShortMax = 8
  Align = 4
  Junk = {5}
  Deltas = {0, 12, 232}
SPECIFICATION Spec
INVARIANTS
  TypeOK
  OnlyMappedPatched
  LoadedRight
  VstubsRecorded
  ModuleInfoRelocated
  SegmentsDisjoint
