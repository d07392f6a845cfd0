SPECIFICATION Spec
CONSTANTS
  a = a
  b = b
  Srcs <- MCSrcs
  SrcFiles <- MCSrcFiles
  Macros <- MCMacros
INVARIANTS
  TypeOK
  QstrGate
PROPERTIES
  QstrFresh
  NothingMissing
  CleanAfterSuccess
  KeepsHeaders
