SPECIFICATION Spec
CONSTANTS
    Params <- ParamsDef
    Programs <- ProgramsDef
    Variables <- VariablesDef
    TraitOf <- TraitOfDef
    Relations <- RelationsDef
    Goals <- GoalsDef
    Projections <- ProjectionsDef
    Meanings <- MeaningsDef
    MaxSteps = 2
    MaxProofDepth = 4
PROPERTIES
    NothingLost
    VerdictsAreReal
VIEW View
CHECK_DEADLOCK FALSE
