CONSTANTS
  Kind <- MCKind
  MaxDepth = 6
  Struct = {"A", "B"}
  Interface = {"I", "J"}
  MaxSteps = 5
  Placeholder = {"$0", "$1"}
  MaxArguments = 2
SPECIFICATION MCSpec
INVARIANTS MeaningKept SubsetSound BranchesRejoin ArgumentsFit
CHECK_DEADLOCK FALSE
