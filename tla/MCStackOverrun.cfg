CONSTANTS
  g1 = g1
  m1 = m1
  m2 = m2
  NULL = NULL
  G <- OneG
  M <- OneM
  AltStack <- OneM
  Page = 2
  Initial = 2
  Size = 16
  Headroom = 8
  Frame = 2
  Sigurg = FALSE
  SignalFrame = 1
SPECIFICATION Spec
\* The model stops when the program crashes or is ended for an overflow.
CHECK_DEADLOCK FALSE
INVARIANT OverrunIsCaught
