CONSTANTS
  Decl <- MCDecl
  Kind <- MCKind
  MaxIterations = 2
SPECIFICATION Spec
INVARIANTS TypeOK DeclarationOrderPasses
