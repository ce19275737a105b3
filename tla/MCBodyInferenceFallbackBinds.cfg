SPECIFICATION Spec
CONSTANTS
  VarBound = 3
  StepBound = 2
  SubmitBound = 2
  Submissions <- MCSubmissions
  Answers <- MCAnswers
  MayAwait <- MCMayAwait
  Domains <- MCDomains
INVARIANT FallbackBinds
