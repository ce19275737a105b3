SPECIFICATION Spec
CONSTANTS
    Modules <- MCModules
    Root = "r"
    Parent <- MCParent
    ModName <- MCModName
    Names <- MCNames
    Externs = {"e"}
    Exports <- MCExports
    StdPrelude <- MCStd
    LangPrelude = {}
    Written <- ProviderWritten
    Emitted <- ProviderEmitted
    MaxItems = 5
PROPERTIES
    ProvidersFinal
CHECK_DEADLOCK FALSE
