CONSTANTS
  g1 = g1
  g2 = g2
  g3 = g3
  m0 = m0
  m1 = m1
  m2 = m2
  p0 = p0
  p1 = p1
  NULL = NULL
  MainM = m0
  MainP = p0
  G <- ThreeGs
  M <- ThreeMs
  P <- TwoPs
  IoG <- NoIo
  Sigurg = FALSE
  LocalSize = 1
SPECIFICATION Spec
\* The program may end, and its Gs may all block.
CHECK_DEADLOCK FALSE
SYMMETRY Symmetry3
INVARIANT GInOnePlace
INVARIANT ParkedMIsKnown
INVARIANT LiveExact
INVARIANT NoStrandedWork
