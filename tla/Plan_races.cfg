SPECIFICATION Spec
CONSTANTS
    Months = {1}
    Weeks = {1, 2}
    Versions = {v1, v2}
    Admins = {adm}
    Accountants = {acc}
    Amounts = {0, 1}
    Certainties = {"planned", "committed"}
    Sheets <- MCSheets
    NoVersion = NoVersion
    Asked = {"draft", "approved"}
    MaxWrites = 2
    MaxTotal = 4
SYMMETRY MCSymmetry
INVARIANTS  OneRowPerCell
PROPERTIES LockedRests FoldKeepsMonths ImportIsExact
