CONSTANTS
  g1 = g1
  g2 = g2
  g3 = g3
  m1 = m1
  m2 = m2
  m3 = m3
  NoG = NoG
  G <- MCG
  Owner = m1
  Thief <- NoThief
  Foreign <- OneForeign
  Size = 2
  Width = 16
  Start <- AllStarts
  MaxPush = 6
SPECIFICATION Spec
INVARIANT RunnableIsQueued
