CONSTANTS
    o1 = o1
    s1 = s1
    s2 = s2
    c1 = c1
    c2 = c2
    pro = pro
    max = max
    Org = {o1}
    Sub = {s1}
    Plan = {pro, max}
    OrgOf <- AllOfOne
    Call = {c1}
    Grace = 2
    MaxDay = 3
    MaxEvents = 5
    Free = Free
    Never = Never
    NoSub = NoSub
    NoEvent = NoEvent
    Hazards = {"lost_answer", "retry_charge", "late"}
SPECIFICATION FairSpec
INVARIANTS TypeOK RowsInSync TierInSync
PROPERTIES GraceIsGiven CancelledEndsFree
CHECK_DEADLOCK FALSE
