SPECIFICATION AnySpec
CONSTANTS
    l1 = l1
    l2 = l2
    l3 = l3
    Links = {l1, l2, l3}
    Sources <- MCSources
    Hosts <- MCHosts
    Sites <- MCSites
    Invalid = {l3}
    TopProblemLimit = 1
    Null = Null
    InputColumns <- MCInputColumns
    ResultColumns <- MCResultColumns
    LastRow = 3
    LastColumn = 32
    NoTask = NoTask
    MaxUserActs = 3
    UrlTexts <- MCUrlTexts
    PairTexts <- MCPairTexts
    Files <- MCFiles
    Unreadable = Unreadable
    Unparsable = Unparsable
    NoRows = NoRows
    MaxItems = 2
    MaxEntries = 2
    MaxBatches = 2
INVARIANTS
    TypeOK
    VerdictIsPage
    ViewsAgree
    StatsAgree
    NothingTwice
    ValidIsAccepted
PROPERTY SheetIntact
CHECK_DEADLOCK FALSE
