SPECIFICATION ValuesSpec
CONSTANTS
    s1 = s1
    s2 = s2
    Leaf = Leaf
    Node = Node
    ta = ta
    tb = tb
    tip = tip
    pair = pair
    None = None
    Stashes = {s1, s2}
    Types = {Leaf, Node}
    Tags = {ta, tb, tip, pair}
    Fields <- MCFields
    Kinds <- MCKinds
    Hash <- MCHash
    MaxEntries = 6
    MaxSlice = 1
    MaxIds = 2
SYMMETRY Symmetry
INVARIANTS
    HashConsed
    RootedEquality
    CopyPreserves
CHECK_DEADLOCK FALSE
