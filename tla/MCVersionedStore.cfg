\* Three levels of versions below the root, one variable, two maps, three revisions.
SPECIFICATION Spec
CONSTANTS
  VersionBound = 4
  VarBound = 1
  RevisionBound = 3
  Fields = {parents, ceilings}
  Ceiling = ceilings
  Values = {a, b}
  None = None
SYMMETRY DataSymmetry
INVARIANTS
  NoDanglingEntry
  EqualRevisionEqualView
PROPERTIES
  CommitWakesCoverChanges
  ImplementsTransactions
CHECK_DEADLOCK FALSE
