SPECIFICATION Spec
CONSTANTS
    east = east
    west = west
    s = s
    Users = {u, v}
    NoSector = NoSector
    Booked <- MCBooked
    MaxProjects = 1
    MaxTracks = 2
    Companies = {east}
    Sectors = {}
    Contracts = {3}
    TrackForms <- MCTrackForms
    ProjectForms <- MCProjectForms
    Termins <- MCTermins
    Databases <- MCDatabases
    Statuses = {"active", "cancelled"}
    Repairs = {}
    LastPhase = 2
SYMMETRY MCSymmetry
INVARIANTS OneOpenStage
PROPERTIES InvoicesFit
CHECK_DEADLOCK FALSE
