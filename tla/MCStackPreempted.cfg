CONSTANTS
  g1 = g1
  m1 = m1
  m2 = m2
  NULL = NULL
  G <- OneG
  M <- OneM
  AltStack <- OneM
  Page = 2
  Initial = 4
  Size = 32
  Headroom = 16
  Frame = 2
  Sigurg = TRUE
  SignalFrame = 1
SPECIFICATION Spec
\* The model stops when the program crashes or is ended for an overflow.
CHECK_DEADLOCK FALSE
INVARIANT GrowthIsAtomic
