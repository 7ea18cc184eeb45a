CONSTANTS
  v = v
  w = w
  Variables <- MCVariables
  MaxSize = 3
SPECIFICATION Spec
SYMMETRY MCSymmetry
INVARIANT OrIsOpposite
CHECK_DEADLOCK FALSE
