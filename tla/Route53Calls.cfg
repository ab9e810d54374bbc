\* A listing, a writer and other people in one zone, request by request.
SPECIFICATION FairSpec
CONSTANTS
    lister = lister
    writer = writer
    Callers = {lister, writer}
    Tokens <- MCTokens
    Lower <- MCLower
    Empty = ""
    At = "@"
    Quote = "'"
    NoNumber = NoNumber
    KeyName <- MCKeyName
    KeyType <- MCKeyType
    ZoneName <- MCZoneName
    PageSize = 2
    Attempts = 2
    Requests <- MCRequests
    OthersPut <- MCOthersPut
    InitialZones <- MCInitialZones
    Alias = Alias
    Absent = Absent
    MaxCalls <- MCMaxCalls
    MaxChanges = 1
INVARIANTS
    TypeOK
    ReadsBack
    InSyncWasTrue
PROPERTIES
    ImplementsCalls
    Returns
CHECK_DEADLOCK FALSE
