CONSTANTS
  g1 = g1
  g2 = g2
  g3 = g3
  m0 = m0
  m1 = m1
  m2 = m2
  p0 = p0
  p1 = p1
  NULL = NULL
  MainM = m0
  MainP = p0
  G <- TwoGs
  M <- OneM
  P <- OneP
  IoG <- OneG
  Sigurg = TRUE
  LocalSize = 2
SPECIFICATION FairSpec
CHECK_DEADLOCK FALSE
PROPERTY IoServed
