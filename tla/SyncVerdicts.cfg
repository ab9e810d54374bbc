\* Two loops, two records of which one does not parse.
SPECIFICATION Spec
CONSTANTS
    Bindings = {b1}
    InitialRecords = {r1}
    InitialBindings = {}
    InitialContents <- MCContents
    RetryLimit = 10
    MaxTime = 1
    MaxRetry = 2
    MaxFaults = 1
    r1 = r1
    r2 = r2
    b1 = b1
    b2 = b2
    z1 = z1
    k1 = k1
    k2 = k2
    good = good
    bad = bad
    Records = {r1, r2}
    Zones = {z1}
    RecordZone <- MCRecordZone
    BindingZone <- MCBindingZone
    Keys = {k1, k2}
    Values = {good}
    Key <- MCKey
    Desired <- MCDesired
    Unparsable = Unparsable
    Absent = Absent
    NULL = NULL
    NoRow = NoRow
    NoBinding = NoBinding
    Failed = Failed
INVARIANTS
    TypeOK
    StaleIsExplained
    NoLostFailure
CHECK_DEADLOCK FALSE
