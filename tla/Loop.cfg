SPECIFICATION FairSpec
CONSTANTS
  Last = 3
  MaxCalls = 4
  ArgumentsFirst = TRUE
INVARIANTS
  FrameAlive
  OutcomeJustified
  RangeCovered
PROPERTIES
  FailureReported
