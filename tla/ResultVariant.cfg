SPECIFICATION ResultSpec
CONSTANTS
  Variant = {v1, v2, v3}
  Content = {x, y, z}
  MoveThrows = TRUE
INVARIANTS
  SlotTruthful
  NothingLeaks
