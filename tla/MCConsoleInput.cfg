SPECIFICATION FairSpec
CONSTANTS
  Keys <- MCKeys
  MaxTyped = 5
INVARIANTS
  TypeOK
  KeysInOrder
  NoWaitForPromisedKey
PROPERTIES
  PromiseKept
  Returns
CHECK_DEADLOCK FALSE
