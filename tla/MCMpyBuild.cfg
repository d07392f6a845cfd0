SPECIFICATION BuildSpec
CONSTANTS
  a = a
  Srcs <- MCSrcs
  SrcFiles <- MCSrcFiles
  Macros <- MCMacros
INVARIANTS
  BuildTypeOK
  LoaderSeesSources
  StaleStringsOnlyIfNotCleared
  LoaderSeesHeaders
CONSTRAINT SubmoduleBound
