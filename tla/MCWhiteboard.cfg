SPECIFICATION Spec
CONSTANTS
  alpha = alpha
  beta = beta
  gamma = gamma
  BodyBound = 2
  CandidateBound = 2
  MaxProofDepth = 3
  Query <- MCQuery
  Programs <- MCPrograms
  RootGoals <- MCRootGoals
INVARIANTS
  AnswersRight
  TableIsLive
PROPERTY
  Termination
