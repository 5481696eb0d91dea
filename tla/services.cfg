SPECIFICATION FairSpec
CONSTANTS
    RowIds = {1, 2, 3}
    Logs <- MCLogs
    Crons = {c1, c2}
    ByHand = {h}
    Albums <- MCAlbums
    NoFile = NoFile
    NoTemplate = NoTemplate
    Exchanges <- MCExchanges
    NoFinish = NoFinish
    Desks <- MCDesks
    Unheard = Unheard
    Posts <- MCPosts
    Remind = 2
    Followed <- MCFollowed
    Shops <- MCShops
    Unknown = Unknown
    LedgerCalls <- MCCalls
    MaxRows = 2
    ListPrice <- MCPrice
    Premium = {"opus"}
    Directory <- MCDirectory
    TopSeries = 1
    Nil = Nil
    Errands <- MCErrands
    UiRoutes <- MCUi
    MaxBody = 2
    Visitors = {"u", "v", "t"}
    Trusted = {"t"}
    MaxTries = 2
    Window = 2
    MapMax = 1
    EndOfTime = 4
    Screens = {"log", "filters", "export", "rules", "logging"}
    LogMax = 3
    Matching <- MCMatching
    PageSize = 2
    TailMax = 2
    ExportPage = 1
    Slots = {1, 2}
    Operators = {"o"}
    Ruled = {"k"}
    RuleProviders = {"x"}
    RuleModels = {"m"}
    Nobody = Nobody
INVARIANTS ArchiveInv ImagesInv  MonitoringInv CatalogInv  
PROPERTIES ArchivedInTheEnd NeverForgotten SweepsAreWhole
CHECK_DEADLOCK FALSE
