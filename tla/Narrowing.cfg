CONSTANTS
  v = v
  w = w
  Variables <- MCVariables
  MaxSize = 4
SPECIFICATION Spec
SYMMETRY MCSymmetry
INVARIANTS NilNeverUsed EndsMeansEnds
CHECK_DEADLOCK FALSE
