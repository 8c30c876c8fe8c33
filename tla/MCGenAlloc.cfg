CONSTANTS
  t1 = t1
  t2 = t2
  b1 = b1
  b2 = b2
  b3 = b3
  NULL = NULL
  Thread <- TwoThreads
  Block <- TwoBlocks
  Strict <- Aligned
  Class <- Classes
  Size <- Sizes
  FreeAgain = FALSE
  MaxEpoch = 4
SPECIFICATION Spec
\* A program may stop, and the bound on the epoch stops it.
CHECK_DEADLOCK FALSE
SYMMETRY Symmetry
INVARIANT StaleRefsFail
INVARIANT LiveRefsPass
INVARIANT BlockInOnePlace
INVARIANT RecycledFits
