CONSTANTS
  Cases <- MCCases
  Inputs <- MCInputs
  Trees <- MCTrees
  MaxNodes = 5
  SceKernel = 2
SPECIFICATION MainSpec
INVARIANTS
  TypesOK
  EveryEntryBuilt
  BuiltUpToError
  EveryFileRead
  ListWalked
  FreedOnce
PROPERTIES
  ImplementsLibsGen2
  Termination
