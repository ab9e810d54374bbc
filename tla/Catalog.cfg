\* Two clients fill the tables, with statements that fail and restarts.
SPECIFICATION Spec
CONSTANTS
    Clients = {p1, p2}
    p1 = p1
    p2 = p2
    example = example
    www = www
    A = A
    TXT = TXT
    a1 = a1
    route53 = route53
    Z1 = Z1
    token = token
    list = list
    Requests <- MCRequests
    Blank = Blank
    TooLong = TooLong
    Registered = {route53}
    MapsOfStrings = {token}
    Keks = {k1, k2}
    k1 = k1
    k2 = k2
    Failed = Failed
    NoZone = NoZone
    MaxCalls = 4
    MaxFaults = 2
SYMMETRY Symmetry
INVARIANTS
    TypeOK
    AnswersAreTrue
    ListingsGrow
    CredentialsComeBack
CHECK_DEADLOCK FALSE
