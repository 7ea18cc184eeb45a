CONSTANTS
  Object = {o1, o2, s1}
  Unit = Unit
  Literal = {s1}
  NumLocals = 1
  MaxSlots = 4
  MaxFrames = 3
  MaxTries = 1
  MaxContents = 1
  MaxLost = 0
SPECIFICATION Spec
SYMMETRY Symmetry
INVARIANTS
  ResumesInLiveFrame
CHECK_DEADLOCK FALSE
