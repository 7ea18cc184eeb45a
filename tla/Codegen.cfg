CONSTANTS
  n1 = n1
  n2 = n2
  Name <- Names
  MainArguments <- Main
  ClosureArguments <- Inner
  MaxFunctions = 3
  MaxStatements = 5
  MaxForms = 7
  MaxArguments = 1
SPECIFICATION MCSpec
INVARIANTS SlotsRight OwnInsideFrame CapturesOwned PathsAgree StackBalanced LabelsPlaced
CHECK_DEADLOCK FALSE
