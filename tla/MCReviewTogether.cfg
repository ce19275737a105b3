CONSTANTS
    Anchors = {a1}
    Gate = gate
    Files = {impl, helper}
    Impl = impl
    VersionBound = 2
    EditBound = 3
    ReadBound = 2
SPECIFICATION Spec
PROPERTIES
    ApprovedTogether
