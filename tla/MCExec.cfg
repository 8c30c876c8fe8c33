CONSTANTS
  c1 = c1
  c2 = c2
  NULL = NULL
  OtherFile = OtherFile
  Cmd <- TwoCmds
  Op <- CaptureAndStart
  MaxFd = 4
  PipeRoom = 1
  MaxPipes <- TwicePipes
  MaxWrites <- FirstWrites
SPECIFICATION FairSpec
\* Every command comes to its end.
CHECK_DEADLOCK FALSE
INVARIANT OutputIsComplete
INVARIANT OnlyOverwrittenOutlive
PROPERTY OutputReturns
