SPECIFICATION Spec
CONSTANTS
  Branches <- MCBranches
  Objects = {o}
  None = None
  WordSize = 8
  TopByte = 20
  MaxWords = 5
  MaxUsed = 2
  MaxBuffers = 1
INVARIANTS
  TypeOK
  LiveObjectsKept
