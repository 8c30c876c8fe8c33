CONSTANTS
  g1 = g1
  g2 = g2
  g3 = g3
  m0 = m0
  m1 = m1
  m2 = m2
  p0 = p0
  p1 = p1
  NULL = NULL
  MainM = m0
  MainP = p0
  G <- OneG
  M <- TwoMs
  P <- TwoPs
  IoG <- NoIo
  Sigurg = TRUE
  LocalSize = 1
SPECIFICATION FairSpec
CHECK_DEADLOCK FALSE
PROPERTY SchedulerExits
