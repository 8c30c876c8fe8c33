CONSTANTS
  g1 = g1
  g2 = g2
  f1 = f1
  f2 = f2
  NULL = NULL
  Loop = Loop
  G <- TwoGs
  Fd <- TwoFds
  Table <- TwoFds
  Racing = FALSE
  Interest <- Reads
  MaxGeneration <- TwoGenerations
SPECIFICATION FairSpec
\* The model stops at the undefined behaviour it has met.
CHECK_DEADLOCK FALSE
PROPERTY WaitReturns
