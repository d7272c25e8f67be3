SPECIFICATION FairSpec
CONSTANT Awaits = 3
INVARIANTS
  OneRunner
  NoDanglingAwaitable
  OutcomeJustified
PROPERTY
  GoesOn
