\* One call after the other over three logins and two tries, with cancellations, logins
\* that are parked for it, and the refusals of other callers.
SPECIFICATION FairSpec
CONSTANTS
    Logins = {1, 2, 3}
    Projects = {"app"}
    ConsumerOf <- MCConsumerOf
    Apps = {"app"}
    DefaultLogin = None
    Readings <- OneReading
    Floor = 2
    Strategies = {"soonest-weekly-reset"}
    Ops = {"cancel", "429"}
    MaxGen = 0
    FirstPool <- PoolOf3
    FirstPins <- AppPinned
    None = None
    Calls = {c1}
    MaxTries = 2
    HeadersOn = {"ok"}
INVARIANTS FailoverInv
PROPERTIES EveryCallAnswered DryMeansDry AttemptIsLive NextCallHops
