CONSTANTS
  Inputs <- MCInputs
  Configs <- MCConfigs
  Streams <- MCStreams
  WORD = 16
  SHORT = 8
  BYTE = 4
SPECIFICATION FileSpec
INVARIANTS
  TypesOK
  NidsAsWritten
  AllOrNothing
  AllFreed
  DocumentRead
  NullForCause
PROPERTY Termination
