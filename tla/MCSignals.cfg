CONSTANTS
  c1 = c1
  c2 = c2
  c3 = c3
  int = int
  usr = usr
  NULL = NULL
  Chan <- ThreeChans
  Signal <- TwoSignals
  Room <- OneSlot
  MAX_REGISTRATIONS = 2
  MaxPending = 1
SPECIFICATION FairSpec
\* A signal may kill the program, and a full channel aborts it.
CHECK_DEADLOCK FALSE
INVARIANT RegisteredIsHandled
INVARIANT RelayedToEachOnce
PROPERTY DispatcherReadsAgain
