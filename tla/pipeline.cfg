SPECIFICATION FairSpec
CONSTANTS
    t1 = t1
    t2 = t2
    Tasks = {t1, t2}
    Paths <- MCPaths
    MaxUsage = 1
    MaxLevel = 2
    JsonRetries = 1
    Logins = {l1, l2}
    Configs <- MCConfigs
    Plays <- MCPlays
    ClaudeModels = {"claude"}
    ImageModels = {"imagegen"}
    None = None
INVARIANTS  AdmittedUnderOneConfig  FreeBeforePaid
PROPERTIES CapCountsEveryJob EveryCallEnds
