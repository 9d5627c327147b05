CONSTANTS
  Decl <- MCDecl
  Kind <- MCKind
  MaxIterations = 2
SPECIFICATION Spec
INVARIANT EveryOrderPasses
