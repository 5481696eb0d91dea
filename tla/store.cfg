SPECIFICATION Spec
CONSTANTS
    Makers = {m1}
    Names = {x, y}
    l1 = l1
    standard = standard
    frontier = frontier
    Logins = {l1}
    Tiers = {standard, frontier}
    Premium = {frontier}
    Scenes <- MCScenes
    MaxEpoch = 3
    Torn = Torn
    None = None
SYMMETRY Symmetry
INVARIANTS StoreInv RestartKeeps LoggedOutStaysOut
PROPERTIES KeyedUnderRule FailureRestoresRules OnlyItsOwnRule
