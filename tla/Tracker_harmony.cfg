SPECIFICATION Spec
CONSTANTS
    east = east
    west = west
    s = s
    Users = {u, v}
    NoSector = NoSector
    Booked <- MCHarmonyBooked
    MaxProjects = 1
    MaxTracks = 2
    Companies = {east, west}
    Sectors = {s}
    Contracts = {}
    TrackForms <- MCHarmonyTrackForms
    ProjectForms <- MCNone
    Termins <- MCNone
    Databases <- MCOldDatabases
    Statuses = {"done"}
    Repairs = {"company", "sector", "done"}
    LastPhase = 1
SYMMETRY MCSymmetry
INVARIANTS ScopesAgree
PROPERTIES FixHeals
CHECK_DEADLOCK FALSE
