SPECIFICATION DispatchFairSpec
CONSTANTS
  Method = {1, 2, 3}
  Struct = {4, 5, 6, 7}
  Fn <- MCFn
  SymbolOf <- MCSymbolOf
INVARIANTS
  DispatchTypeOK
  DispatchExact
  FirstFit
PROPERTIES
  TableGetsBuilt
