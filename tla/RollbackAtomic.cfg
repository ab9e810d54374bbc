\* A changeset called rolled_back has left nothing behind (design.md 5.4).
SPECIFICATION Spec
CONSTANTS
    Workers = {w1}
    Clients = {v1}
    Changesets = {c1, c2}
    Bindings = {b1, b2, b3}
    InitialBindings = {b1, b3}
    Requests <- ItemRequests
    MaxFaults = 1
    r1 = r1
    r2 = r2
    r3 = r3
    b1 = b1
    b2 = b2
    b3 = b3
    z1 = z1
    z2 = z2
    k1 = k1
    k2 = k2
    old = old
    new = new
    Records = {r1, r2, r3}
    Zones = {z1, z2}
    RecordZone <- MCRecordZone
    BindingZone <- MCBindingZone
    Keys = {k1, k2}
    Values = {old, new}
    InitialContents <- MCContents
    Absent = Absent
    NULL = NULL
    Malformed = Malformed
    NoChangeset = NoChangeset
PROPERTIES
    RollbackIsAtomic
CHECK_DEADLOCK FALSE
