SPECIFICATION Spec
CONSTANTS
    ann = ann
    bob = bob
    cat = cat
    G = G
    S = S
    T = T
    Workers = {w1, w2}
    Names <- MCNames
    SANDBOX_DB = S
    Cells = {1}
    Uids = {1, 2, 3}
    NoUser = NoUser
    Gone = Gone
    Seeds <- MCSeeds
    OpenProfile <- MCOpenProfile
    Folders <- MCFolders
    Moved <- MCOld
    MaxWork = 3
    Browsers = {"b1", "b2"}
    Person <- MCPerson
    People = {ann, bob, cat}
    Roles = {"admin", "finance"}
    Asks <- MCAsks
PROPERTIES StartingKeepsMoney PassedIsCurrent  PickerKeepsAnAdmin
SYMMETRY MCSymmetry
CHECK_DEADLOCK FALSE
