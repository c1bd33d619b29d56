CONSTANTS
    c1 = c1
    c2 = c2
    k1 = k1
    g1 = g1
    g2 = g2
    j1 = j1
    j2 = j2
    Conn = {c1, c2, k1}
    Group = {g1, g2}
    GroupOf <- TwoGroups
    Masks = {c2}
    Direct = {k1}
    Job = {j1, j2}
    KindsOf <- AllOfFirst
    NoJob = NoJob
    NoConn = NoConn
    MaxTries = 2
    MaxToken <- Tokens
    MaxMishaps = 1
    Hazards <- AllToFirst
SPECIFICATION MCSpec
INVARIANTS TypeOK OnePostPerGroup FamilySurvives RowKeepsUp
CONSTRAINT OneGroupAtWork
PROPERTIES LiveAccountsStayActive OnlyUsageJams
CHECK_DEADLOCK FALSE
