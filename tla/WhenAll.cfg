SPECIFICATION FairSpec
CONSTANTS
  Child = {c1, c2, c3}
  Main = Main
  Nobody = Nobody
  Reentrant = TRUE
INVARIANTS
  TypeOK
  BoxesUnshared
  FailureReported
PROPERTIES
  CallsReturn
  ImplementsAllFair
