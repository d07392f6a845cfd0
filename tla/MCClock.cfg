SPECIFICATION Spec
CONSTANTS
  Word <- MCWord
  Ratios <- MCRatios
  GuestMHz <- MCGuestMHz
  Steps <- MCSteps
  Sleeps <- MCSleeps
  Naps <- MCNaps
  MaxTime = 200000
INVARIANTS
  TypeOK
  TicksTellTime
PROPERTIES
  SleepsLongEnough
