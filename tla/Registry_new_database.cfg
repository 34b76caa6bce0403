SPECIFICATION Spec
CONSTANTS
    ann = ann
    bob = bob
    cat = cat
    G = G
    S = S
    T = T
    Workers = {w1}
    Names <- MCNewNames
    SANDBOX_DB = S
    Cells = {1}
    Uids = {1, 2, 3}
    NoUser = NoUser
    Gone = Gone
    Seeds <- MCSeeds
    OpenProfile <- MCOpenProfile
    Folders <- MCNewFolders
    Moved <- MCOld
    MaxWork = 4
    Browsers = {"b1"}
    Person <- MCPerson
    People = {ann, bob, cat}
    Roles = {"admin", "finance"}
    Asks <- MCNewAsks
INVARIANTS OpenedIsCurrent
SYMMETRY MCSymmetry
CHECK_DEADLOCK FALSE
