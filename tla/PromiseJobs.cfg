CONSTANTS
  Promise = {p1, p2, p3}
  Plain = {v}
  Passed = {v, p1, p2, p3}
  Ignored = Ignored
  NoJob = NoJob
SPECIFICATION Spec
SYMMETRY Symmetry
INVARIANTS
  TypeOK
  NoStrandedReaction
  JobsCarryOutcome
  OneDuty
PROPERTIES
  SettleOnce
  GivesUpOnlySelfLinks
