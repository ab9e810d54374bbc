\* Liveness: one worker, two changesets, bindings and faults that come late.
SPECIFICATION FairSpec
CONSTANTS
    Workers = {w1}
    Clients = {v1}
    Changesets = {c1, c2}
    Bindings = {b1, b3}
    InitialBindings = {}
    Requests <- FlowRequests
    MaxFaults = 2
    r1 = r1
    r2 = r2
    r3 = r3
    b1 = b1
    b2 = b2
    b3 = b3
    z1 = z1
    z2 = z2
    k1 = k1
    k2 = k2
    old = old
    new = new
    Records = {r1, r2, r3}
    Zones = {z1, z2}
    RecordZone <- MCRecordZone
    BindingZone <- MCBindingZone
    Keys = {k1, k2}
    Values = {old, new}
    InitialContents <- EmptyContents
    Absent = Absent
    NULL = NULL
    Malformed = Malformed
    NoChangeset = NoChangeset
PROPERTIES
    Settles
CHECK_DEADLOCK FALSE
