\* Two workers and two clients that compete for two changesets of one item.
SPECIFICATION Spec
CONSTANTS
    Workers = {w1, w2}
    Clients = {v1, v2}
    Changesets = {c1, c2}
    Bindings = {b1, b3}
    InitialBindings = {b1}
    Requests <- ClaimRequests
    MaxFaults = 1
    r1 = r1
    r2 = r2
    r3 = r3
    b1 = b1
    b2 = b2
    b3 = b3
    z1 = z1
    z2 = z2
    k1 = k1
    k2 = k2
    old = old
    new = new
    Records = {r1, r2, r3}
    Zones = {z1, z2}
    RecordZone <- MCRecordZone
    BindingZone <- MCBindingZone
    Keys = {k1, k2}
    Values = {old, new}
    InitialContents <- EmptyContents
    Absent = Absent
    NULL = NULL
    Malformed = Malformed
    NoChangeset = NoChangeset
INVARIANTS
    SingleHolder
    AtMostOnce
    OrphansAreAbandoned
PROPERTIES
    FollowsLifecycle
CHECK_DEADLOCK FALSE
