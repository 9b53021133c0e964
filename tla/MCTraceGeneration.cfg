CONSTANTS
  p1 = p1
  p2 = p2
  c = c
  End = End
  None = None
  First = p1
  Initial = 0
  TraceLength = 4
  Proc <- MCProc
  Node <- MCNode
  Value <- MCValue
  Channel <- MCChannel
  Rendezvous <- NoRendezvous
  Out <- MCOut
  Atomic <- MCAtomic
  Automata <- MCAutomata
  Pairs <- MCPairs
SPECIFICATION FairSpec
CHECK_DEADLOCK FALSE
INVARIANTS
  TypeOK
  TraceIsRun
  InStep
PROPERTIES
  Terminates
