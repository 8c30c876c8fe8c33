CONSTANTS
  t1 = t1
  t2 = t2
  b1 = b1
  b2 = b2
  b3 = b3
  NULL = NULL
  Thread <- OneThread
  Block <- Blocks
  Strict <- Aligned
  Class <- Classes
  Size <- OneSize
  FreeAgain = TRUE
  MaxEpoch = 4
SPECIFICATION Spec
\* A program may stop, and the bound on the epoch stops it.
CHECK_DEADLOCK FALSE
INVARIANT DoubleFreeDetected
