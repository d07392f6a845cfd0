SPECIFICATION FairSpec
CONSTANTS
  MaxPages = 6
  Missing <- MCMissing
  Reserved <- MCReserved
  HeapSize <- MCHeapSize
  FileSizes <- MCFileSizes
  MaxTry = 2
INVARIANTS
  TypeOK
  NoNullCall
  Accounting
  HeapBacked
  NlrBalanced
PROPERTIES
  OnlyLoadFileLosesPages
  DeinitOnlyByRepl
  RespectsLoader
  PromptOrStop
  TowardsPrompt
