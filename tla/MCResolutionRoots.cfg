SPECIFICATION Spec
CONSTANTS
    Modules <- MCModules
    Root = "r"
    Parent <- MCParent
    ModName <- MCModName
    Names <- MCNames
    Externs = {"e"}
    Exports <- MCExports
    StdPrelude <- MCStd
    LangPrelude = {}
    Written <- MCWritten
    Emitted <- MCEmitted
    MaxItems = 5
PROPERTIES
    RootsNeverSilent
CHECK_DEADLOCK FALSE
