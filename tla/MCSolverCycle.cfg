SPECIFICATION Spec
CONSTANTS
    Params <- ParamsDef
    Programs <- CyclicProgramsDef
    Variables <- VariablesDef
    TraitOf <- TraitOfDef
    Relations <- RelationsDef
    Goals <- GoalsDef
    Projections <- ProjectionsDef
    Meanings <- MeaningsDef
    MaxSteps = 1
    MaxProofDepth = 4
PROPERTIES
    NothingLost
CHECK_DEADLOCK FALSE
