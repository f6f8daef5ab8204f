CONSTANTS
    h1 = h1
    h2 = h2
    m1 = m1
    m2 = m2
    k1 = k1
    k2 = k2
    u1 = u1
    u2 = u2
    c1 = c1
    c2 = c2
    None = None
    Off = Off
    Base = Base
    Handler = {h1, h2}
    Message = {m1, m2}
    Key = {k1, k2}
    User = {u1, u2}
    Cred = {c1, c2}
    MessageOf <- MCMessageOf
    KeyOf <- MCKeyOf
    OwnerOf <- MCOwnerOf
    DedupSize = 2
    MaxAsks = 1
    MaxInputs = 2
SPECIFICATION TenantFairSpec
INVARIANTS
    OwnersModel
    LiveIsInTable
PROPERTIES
    FollowsDatabase
CHECK_DEADLOCK FALSE
