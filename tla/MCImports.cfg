CONSTANTS
  Cases <- MCCases
  Inputs <- MCInputs
  Programs <- MCPrograms
  NidOf <- MCNidOf
  SceKernel = 9
  Weak = 8
SPECIFICATION ImportsSpec
INVARIANTS
  TypeOK
  EncodingFailsForCause
  ImportsRead
  ExportsRead
  EveryEntryBuilt
  EntriesImported
  FileLoads
  CopiesLoad
  OutputSurvives
PROPERTIES
  Termination
