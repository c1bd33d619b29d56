CONSTANTS
    o1 = o1
    s1 = s1
    s2 = s2
    c1 = c1
    c2 = c2
    pro = pro
    max = max
    Org = {o1}
    Sub = {s1}
    Plan = {pro}
    OrgOf <- AllOfOne
    Call = {c1, c2}
    Grace = 1
    MaxDay = 1
    MaxEvents = 3
    Free = Free
    Never = Never
    NoSub = NoSub
    NoEvent = NoEvent
    Hazards = {"overlap", "reorder", "late", "lost_answer", "handler_throws", "db_error", "crash"}
SPECIFICATION Spec
INVARIANTS HandledOnce
SYMMETRY SymmetricCalls
CHECK_DEADLOCK FALSE
