CONSTANTS
    h1 = h1
    h2 = h2
    h3 = h3
    h4 = h4
    m1 = m1
    m2 = m2
    m3 = m3
    k1 = k1
    k2 = k2
    None = None
    Handler = {h1, h2, h3, h4}
    Message = {m1, m2, m3}
    Key = {k1, k2}
    MessageOf <- MCMessageOf
    KeyOf <- MCTwoChats
    DedupSize = 2
    MaxAsks = 1
SPECIFICATION FairSpec
INVARIANTS
    WaiterIsLive
    DedupWindow
PROPERTIES
    ImplementsSerial
    AllHandled
CHECK_DEADLOCK FALSE
