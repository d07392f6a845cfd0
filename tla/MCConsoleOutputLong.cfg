SPECIFICATION Spec
CONSTANTS
  Lengths <- MCLongLengths
  Distances <- MCLongDistances
  MaxLine = 1000
INVARIANTS
  ReplacesNull
