SPECIFICATION Spec
CONSTANTS
    Modules <- MCModules
    Root = "r"
    Parent <- MCParent
    ModName <- MCModName
    Names <- MCNames
    Externs = {"e"}
    Exports <- MCExports
    StdPrelude <- MCStd
    LangPrelude = {}
    Written <- MCWritten
    Emitted <- MCEmitted
    MaxItems = 5
INVARIANTS
    Coherent
    MethodUnrivalled
PROPERTIES
    RootsStay
CHECK_DEADLOCK FALSE
