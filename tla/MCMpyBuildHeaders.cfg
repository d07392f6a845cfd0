SPECIFICATION BuildSpec
CONSTANTS
  a = a
  Srcs <- MCSrcs
  SrcFiles <- MCSrcFiles
  Macros <- MCMacros
INVARIANTS
  HeadersRequired
