CONSTANTS
  g1 = g1
  g2 = g2
  g3 = g3
  m0 = m0
  m1 = m1
  m2 = m2
  p0 = p0
  p1 = p1
  NULL = NULL
  MainM = m0
  MainP = p0
  G <- TwoGs
  M <- ThreeMs
  P <- TwoPs
  IoG <- NoIo
  Sigurg = TRUE
  LocalSize = 1
SPECIFICATION Spec
\* The program may end, its Gs may all block, and the model stops at undefined behaviour.
CHECK_DEADLOCK FALSE
SYMMETRY Symmetry2
INVARIANT POwnership
INVARIANT GInOnePlace
