SPECIFICATION Spec
CONSTANTS
  t1 = t1
  t2 = t2
  t3 = t3
  Threads = {t1, t2, t3}
  MaxArenas = 4
  MaxHeld = 2
  MaxFailures = 1
SYMMETRY Swaps
INVARIANTS AssertHolds
