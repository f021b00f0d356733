SPECIFICATION Spec
CONSTANTS
    MaxSnapshots = 3
    Actors = {apt, coord, user}
    Hooks = {apt, coord}
    Users = {user}
    Apt = apt
    Coord = coord
    NoActor = NoActor
    None = None
    LegacyStates = {"Ready"}
    MinRestorable = 1
    MaxFaults = 1
    CreateKinds = {}
    DeleteModes = {"user"}
    Pins = FALSE
    Browsing = FALSE
    Policies = {{"before", "after"}, {}}
    Restores = {FALSE}
INVARIANTS
    CoordinationOK RestorePointsExist OneBoundary LineageAgrees
