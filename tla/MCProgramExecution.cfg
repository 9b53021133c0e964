CONSTANTS
  p1 = p1
  p2 = p2
  c = c
  d = d
  End = End
  None = None
  First = p1
  B = 4
  Initial = 0
  Proc <- MCProc
  Node <- MCNode
  Value <- MCValue
  Channel <- MCChannel
  Rendezvous <- MCRendezvous
  Out <- MCOut
  Atomic <- MCAtomic
  Starts <- MCStarts
SPECIFICATION FairSpec
CHECK_DEADLOCK FALSE
INVARIANTS
  TypeOK
  ExclusiveIsLast
PROPERTIES
  ImplementsPromela
  Terminates
