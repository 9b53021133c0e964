CONSTANTS
  Feature = {"a", "b"}
  Texts <- RegularTexts

SPECIFICATION Spec

INVARIANTS
  WellBuilt
  StepsAgree
  ProductsAgree
  AtomicWhereWritten
  MarksOfLabels
