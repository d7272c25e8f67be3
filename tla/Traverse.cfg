SPECIFICATION Spec
CONSTANTS Width = 2
          Depth = 2
          MaxYields = 2
INVARIANTS ValuesInPlace LeftBehind BoxingLeavesNoTrace ShapeKept
