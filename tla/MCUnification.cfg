CONSTANTS
    Vars = {"x", "y", "n", "f"}
    CreatedIn <- CreatedInDef
    InitialDomain <- InitialDomainDef
    Universe <- UniverseDef
    Pool <- PoolDef
    RelationBound = 3
    Meanings <- MeaningsDef
SPECIFICATION Spec
INVARIANTS
    Unified
    LimitsRespected
    ConflictsAreReal
PROPERTIES
    WakesCoverChanges
CHECK_DEADLOCK FALSE
