SPECIFICATION Spec
CONSTANTS
    Modules <- MCModules
    Root = "r"
    Parent <- MCParent
    ModName <- MCModName
    Names <- MCNames
    Externs = {"e"}
    Exports <- MCExports
    StdPrelude <- MCStd
    LangPrelude = {}
    Written <- CycleWritten
    Emitted <- MCEmitted
    MaxItems = 6
INVARIANTS
    NamedFirst
CHECK_DEADLOCK FALSE
