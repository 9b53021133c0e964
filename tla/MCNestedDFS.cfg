CONSTANTS
  s1 = s1
  s2 = s2
  s3 = s3
  p = p
  q = q
  z = z
  State <- MCStates
  Product <- MCProducts
  Valid <- MCValid
  Comp <- OneComp
  Graphs <- MCGraphs
SPECIFICATION FairSpec
CHECK_DEADLOCK FALSE
INVARIANTS
  TypeOK
  SetElemIsStack
  OnStackNotFresh
  FeaturesShrink
  Coverage
  InnerWithinOuter
  TraceIsCounterexample
  SafetyDecided
PROPERTIES
  ExploredOnce
  Terminates
  Decides
