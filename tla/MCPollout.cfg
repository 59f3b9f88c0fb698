SPECIFICATION MCSpec
CONSTANTS
  Wsi = {w1, w2}
  Foreign = {t1}
  None = None
  Smp = TRUE
  Flow = {w2}
  MaxList = 1
INVARIANTS TypeOK RequestKept DirectChangeWakes SpinlockReleased
PROPERTY RequestServed
