CONSTANTS
    ask1 = ask1
    ask2 = ask2
    ask3 = ask3
    yes = yes
    no = no
    approve1 = approve1
    approve2 = approve2
    neither = neither
    flow = flow
    complete = complete
    eval = eval
    g1 = g1
    g2 = g2
    s1 = s1
    s2 = s2
    s3 = s3
    None = None
    Base = Base
    Request = {ask1, ask2, ask3, yes, no}
    Session = {s1, s2, s3}
    KindOf <- MCKind
    SessionOf <- MCSessions
    GatewayOf <- MCUsers
    TextOf <- MCText
    PreOf <- MCPre
    GateConfig = TRUE
    MaxAsks <- MCOnce
    MaxFails = 0
SPECIFICATION FairSpec
INVARIANTS
    AgentIsMine
PROPERTIES
    PlanAnsweredOnce
    ImplementsSerial
    ServedWhileOthersAsk
CHECK_DEADLOCK FALSE
