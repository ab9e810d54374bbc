\* The retry loop stops at the limit (design.md 5.4): b1 refuses every listing
\* and a listing of b2 keeps the observe loop.
SPECIFICATION PeriodicSpec
CONSTANTS
    Bindings = {b1, b2}
    InitialRecords = {r1}
    InitialBindings = {b1, b2}
    InitialContents <- MCContents
    RetryLimit = 10
    MaxTime = 3000
    MaxRetry = 11
    MaxFaults = 0
    r1 = r1
    r2 = r2
    b1 = b1
    b2 = b2
    z1 = z1
    k1 = k1
    k2 = k2
    good = good
    bad = bad
    Records = {r1}
    Zones = {z1}
    RecordZone <- MCRecordZone
    BindingZone <- MCBindingZone
    Keys = {k1}
    Values = {good}
    Key <- MCKey
    Desired <- MCDesired
    Unparsable = Unparsable
    Absent = Absent
    NULL = NULL
    NoRow = NoRow
    NoBinding = NoBinding
    Failed = Failed
PROPERTIES
    GivesUp
CHECK_DEADLOCK FALSE
