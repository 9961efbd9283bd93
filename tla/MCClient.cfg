CONSTANTS
    Rows <- MCRows
    Stored <- MCStored
    Volatile <- MCVolatile
    Users <- MCUsers
    ServiceAccounts <- MCServiceAccounts
    Granted <- MCGranted
    Changing <- MCChanging
    PartialResponse = TRUE
    Names <- MCNames
    DefaultPage = 50
    SmallestPage = 1
    LargestPage = 50
    Accepts <- Builds
    Typechecks <- Prepares
    Selects <- Where
    Quoted <- HoldsQuote
    AcceptsForLogs <- LogFilter
    Means <- Cel
    Requests <- MCRequests
    Commands <- MCCommands
    Kubeconfig <- MCKubeconfig
    MoreContexts <- MCMoreContexts
    Namespaces = {"b"}
    StaticToken <- MCStaticToken
    ApiHost = "api"
    Typed <- MCTyped
    MinLimit = 1
    MaxLimit = 5
    FindPage = 2
SPECIFICATION Spec
INVARIANTS TypeOK PageExact FilterMeans NothingUngranted SummaryAddsUp MaskExact ConfigPersists ShownIsAsked
