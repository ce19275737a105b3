SPECIFICATION Spec
CONSTANTS
  lib = lib
  util = util
  added = added
  Workspaces <- MCWorkspaces
  Declaring <- MCDeclaring
  Batches <- MCBatches
  RetainedLimit = 2
  EventCapacity = 1
  EditBound = 2
  EventBound = 1
INVARIANTS
  RetainedTogether
  DisplayCoherent
  DisplayTrue
  NobodyForgotten
PROPERTY
  PageCatchesUp
CHECK_DEADLOCK FALSE
