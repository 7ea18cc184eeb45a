SPECIFICATION FairSpec
CONSTANTS
  Method = {11, 12}
  Struct = {21, 22}
  Fn = {1, 2, 3, 4, 5}
  SymbolOf <- MCSymbolOf
  Extern = {31, 32}
  Provided = {31}
  Main = 1
  Bodies <- MCBodies
INVARIANTS
  TypeOK
  TreeShaken
  VirtualCallsReach
  StopsOnlyOnUnlinkable
PROPERTIES
  CompilationEnds
