SPECIFICATION Spec
CONSTANTS
    Companies = {A, B}
    Months = {m1}
    Admins = {adm}
    Accountants = {acc}
    Bookers = {acc}
    Refs = {r1}
    Typed = {}
    Workbooks <- MCWorkbooks
    Forms <- MCForms
    NoRef = NoRef
    NoCompany = NoCompany
    MaxEntries = 2
SYMMETRY MCSymmetry
INVARIANTS LinesFit AloneIsAccepted ReuploadIsSafe
PROPERTIES  DraftsGo
