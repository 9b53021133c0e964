CONSTANTS
  Feature = {"a", "b"}
  Texts <- LoopFirst

SPECIFICATION Spec

INVARIANTS
  StatementsKept
