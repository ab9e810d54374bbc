\* The three loops of the worker and one changeset.
SPECIFICATION FairSpec
CONSTANTS
    r1 = r1
    r2 = r2
    z2 = z2
    b1 = b1
    z1 = z1
    k1 = k1
    k2 = k2
    good = good
    bad = bad
    Workers = {w1}
    Clients = {v1}
    Changesets = {c1}
    Records = {r1, r2}
    Bindings = {b1}
    Zones = {z1, z2}
    RecordZone <- MCRecordZone
    BindingZone <- MCBindingZone
    InitialBindings = {}
    InitialRecords = {r1, r2}
    Keys = {k1, k2}
    Values = {good, bad}
    Absent = Absent
    NULL = NULL
    Malformed = Malformed
    NoChangeset = NoChangeset
    Requests <- MCRequests
    InitialContents <- MCContents
    MaxFaults = 1
    Key <- MCKey
    Desired <- MCDesired
    Unparsable = Unparsable
    NoRow = NoRow
    NoBinding = NoBinding
    Failed = Failed
    RetryLimit = 10
    MaxTime = 1
    MaxRetry = 0
    MaxSyncFaults = 1
PROPERTIES
    ImplementsApply
    ImplementsSync
    EditsAreSeen
CHECK_DEADLOCK FALSE
