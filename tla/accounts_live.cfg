\* Sweeps, cancellations and operators.
SPECIFICATION AccountsFairSpec
CONSTANTS
    Logins = {1, 2}
    Projects = {"dev", "dev:job", "app"}
    ConsumerOf <- MCConsumerOf
    Apps = {"app"}
    DefaultLogin = None
    Readings <- MCReadings
    Floor = 2
    Strategies = {"soonest-weekly-reset"}
    Ops = {"import", "disable", "sweep", "roll", "cancel", "all"}
    MaxGen = 1
    FirstPool <- PoolOf2
    FirstPins <- AppPinned
    None = None
INVARIANTS NeverDry
PROPERTIES DeadLoginParked RevivedIsUsed
