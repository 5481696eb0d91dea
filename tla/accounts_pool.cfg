\* The operations of the operator against probes and refusals.
SPECIFICATION AccountsSpec
CONSTANTS
    Logins = {1, 2}
    Projects = {"dev", "app"}
    ConsumerOf <- MCConsumerOf
    Apps = {"app"}
    DefaultLogin = None
    Readings <- OneReading
    Floor = 2
    Strategies = {"pinned", "soonest-weekly-reset", "any-available"}
    Ops = {"pin", "import", "disable", "remove", "strategy", "429", "probe"}
    MaxGen = 1
    FirstPool <- PoolOf2
    FirstPins <- AppPinned
    None = None
INVARIANTS AccountsInv PickIsLive
