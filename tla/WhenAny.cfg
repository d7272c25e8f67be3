SPECIFICATION FairSpec
CONSTANTS
  Child = {c1, c2, c3}
  Main = Main
  Nobody = Nobody
  Reentrant = TRUE
PROPERTY
  ImplementsAny
