SPECIFICATION Spec
CONSTANTS
    Logins = {1, 2, 3}
    Projects = {"dev", "app"}
    ConsumerOf <- MCConsumerOf
    Apps = {"app"}
    DefaultLogin = None
    Readings <- OneReading
    Floor = 2
    Strategies = {"soonest-weekly-reset"}
    Ops = {"cancel"}
    MaxGen = 0
    FirstPool <- PoolOf3
    FirstPins <- AppPinned
    None = None
    Calls = {c1}
    MaxTries = 2
    HeadersOn = {}
SYMMETRY Symmetry
INVARIANT BlamesTheDead
