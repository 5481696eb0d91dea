SPECIFICATION FairSpec
CONSTANTS
    Makers = {m1}
    Names = {x, y}
    l1 = l1
    standard = standard
    frontier = frontier
    Logins = {l1}
    Tiers = {standard, frontier}
    Premium = {frontier}
    Scenes <- Sessions
    MaxEpoch = 3
    Torn = Torn
    None = None
INVARIANT LogoutIsFinal
CHECK_DEADLOCK FALSE
