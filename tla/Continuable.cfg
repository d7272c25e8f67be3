SPECIFICATION Spec
CONSTANTS
  Handle = {h1, h2, h3, h4}
  Gone = Gone
  Root = {r1, r2, r3, r4}
SYMMETRY Symmetry
INVARIANTS
  Exclusive
  FreezeLossConfined
PROPERTIES
  NoStartOnDestruction
  StartOnDestruction
