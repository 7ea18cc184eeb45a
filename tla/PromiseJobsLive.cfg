CONSTANTS
  Promise = {p1, p2, p3}
  Plain = {v}
  Passed = {v}
  Ignored = Ignored
  NoJob = NoJob
SPECIFICATION FairSpec
PROPERTIES
  ImplementsContract
