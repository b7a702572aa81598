\* Does the loop ever give up before the budget is spent?
CONSTANTS
  UnitsPerMs = 10
  Tmo = 25
  MaxStray = 2
  MaxTime = 40
SPECIFICATION Spec
INVARIANTS
  NoEarlyGiveUp
