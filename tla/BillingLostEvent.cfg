CONSTANTS
    o1 = o1
    s1 = s1
    s2 = s2
    c1 = c1
    c2 = c2
    pro = pro
    max = max
    Org = {o1}
    Sub = {s1}
    Plan = {pro, max}
    OrgOf <- AllOfOne
    Call = {c1}
    Grace = 1
    MaxDay = 3
    MaxEvents = 6
    Free = Free
    Never = Never
    NoSub = NoSub
    NoEvent = NoEvent
    Hazards = {"handler_throws"}
SPECIFICATION Spec
INVARIANTS RowsInSync
CHECK_DEADLOCK FALSE
