CONSTANTS
  Kinds <- MCKinds
  Openings <- MCOpenings
  MaxFree = 2
  Goals <- MCGoals
  Source <- MCSource
SPECIFICATION Spec
INVARIANTS ParsesBack GivesUpAloud
PROPERTY EndsOrHangs
CHECK_DEADLOCK FALSE
