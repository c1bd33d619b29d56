CONSTANTS
    c1 = c1
    c2 = c2
    k1 = k1
    g1 = g1
    g2 = g2
    j1 = j1
    j2 = j2
    Conn = {c1}
    Group = {g1}
    GroupOf <- TwoGroups
    Masks = {}
    Direct = {}
    Job = {j1, j2}
    KindsOf <- AllOfFirst
    NoJob = NoJob
    NoConn = NoConn
    MaxTries = 2
    MaxToken <- Tokens
    MaxMishaps = 0
    Hazards <- NoHazards
SPECIFICATION FairSpec
PROPERTIES QueueFlows
CHECK_DEADLOCK FALSE
