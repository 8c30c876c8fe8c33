CONSTANTS
  g1 = g1
  g2 = g2
  f1 = f1
  f2 = f2
  NULL = NULL
  Loop = Loop
  G <- TwoGs
  Fd <- TwoFds
  Table <- OneSlot
  Racing = FALSE
  Interest <- TwoInterests
  MaxGeneration <- OneGenerations
SPECIFICATION Spec
\* The green threads are alike.
SYMMETRY Symmetry
\* The model stops at the undefined behaviour it has met.
CHECK_DEADLOCK FALSE
INVARIANT WaiterServed
INVARIANT EventsInTurn
INVARIANT CountExact
