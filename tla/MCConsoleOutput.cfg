SPECIFICATION Spec
CONSTANTS
  Lengths <- MCLengths
  Distances <- MCDistances
  MaxLine = 1000
INVARIANTS
  TypeOK
  ScreenInStep
  ThreeDigitsFit
