\* Clock units of 100 us, a 2.5 ms budget, two stray datagrams: every
\* remainder modulo a millisecond is met at some poll().
CONSTANTS
  UnitsPerMs = 10
  Tmo = 25
  MaxStray = 2
  MaxTime = 40
SPECIFICATION Spec
INVARIANTS
  TypeOK
  GiveUpWithinHalfMs
