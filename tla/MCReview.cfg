CONSTANTS
    Anchors = {a1}
    Gate = gate
    Files = {impl, helper}
    Impl = impl
    VersionBound = 2
    EditBound = 1
    ReadBound = 1
SPECIFICATION Spec
INVARIANTS
    SeenIsSaved
    ReportOfTheseInputs
PROPERTIES
    ApprovalIsCurrent
    JudgedInputsStay
    NobodyWaits
