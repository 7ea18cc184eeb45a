CONSTANTS
  Path = {"main", "a", "./a", "b", "gone"}
  Root = "main"
  File = {"main", "a", "b"}
  Resolve <- Resolved
  NoFile = NoFile
  MaxImports = 2
  Object <- Objects
  Constant = {0, 1, 5}
  MaxRows = 1
  MaxSlots = 1
  MaxObjects = 2
  MaxConstants = 4
  SectionHeader = 3
  VirtualHeader = 1
  Width = 4
  Key <- Keys
  v = v
  Value <- Values
  Missing = Missing
  BucketCount = 2
  MaxSets = 4
SPECIFICATION MCSpec
INVARIANTS ImportedFirst ErrorsFindTheirFile ReadsBack GetsLatest OwnsItsNodes
CHECK_DEADLOCK FALSE
