CONSTANTS
  p1 = p1
  p2 = p2
  c = c
  End = End
  None = None
  First = p1
  Initial = 0
  Proc <- MCProc
  Node <- MCNode
  Value <- MCValue
  Channel <- MCChannel
  Rendezvous <- NoRendezvous
  Out <- MCOut
  Atomic <- NoneAtomic
  Starts <- PlainStarts
  Diameter <- MCDiameter
SPECIFICATION FairSpec
CHECK_DEADLOCK FALSE
INVARIANTS
  TypeOK
  MetOnce
  DepthIsReal
  StackIsPath
  Closed
  AllPrinted
PROPERTIES
  Terminates
