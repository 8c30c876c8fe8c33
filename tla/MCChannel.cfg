CONSTANTS
  g1 = g1
  g2 = g2
  main = main
  v1 = v1
  v2 = v2
  Zero = Zero
  G <- MCG
  Thread <- MCThread
  Val <- MCVal
  Caps <- MCCaps
SPECIFICATION FairSpec
\* Every caller may be blocked for good by what the program does.
CHECK_DEADLOCK FALSE
INVARIANT TypeOK
INVARIANT WaitersJustified
INVARIANT RingAligned
INVARIANT WaiterAccounting
PROPERTY ImplementsFifo
PROPERTY HandoffCompletes
PROPERTY CloseReleasesAll
