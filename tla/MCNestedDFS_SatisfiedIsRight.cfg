CONSTANTS
  s1 = s1
  s2 = s2
  s3 = s3
  p = p
  q = q
  z = z
  State <- MCStates
  Product <- TwoProducts
  Valid <- TwoProducts
  Comp <- NoComp
  Graphs <- PlainGraphs
SPECIFICATION Spec
CHECK_DEADLOCK FALSE
INVARIANTS
  SatisfiedIsRight
