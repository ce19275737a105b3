SPECIFICATION Spec
CONSTANTS
  Programs <- MCProgramsAlone
  MaxDepth = 3
  MaxIterations = 200
INVARIANT Converges
