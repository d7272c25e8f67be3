SPECIFICATION FairSpec
CONSTANTS
  a1 = a1
  b1 = b1
  b2 = b2
  c1 = c1
  Leaf = {a1, b1, b2, c1}
  Node = {"top", "empty", "outer", "inner"}
  Top = "top"
  Sub <- MCSub
  Written <- MCWritten
  Before <- MCBefore
  Begin = Begin
  Nobody = Nobody
  ReadyKinds = {"value", "exception"}
INVARIANT
  VerdictJustified
