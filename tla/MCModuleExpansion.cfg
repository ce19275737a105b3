SPECIFICATION Spec
CONSTANTS
  Programs <- MCAll
  MaxDepth = 2
  MaxIterations = 8
INVARIANTS
  SettledTogether
  CompleteIsUnique
