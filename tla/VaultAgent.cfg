CONSTANTS
    u1 = u1
    s1 = s1
    s2 = s2
    a1 = a1
    r1 = r1
    r2 = r2
    User = {u1}
    Sync = {s1, s2}
    Item = {1}
    Action = {a1}
    Request = {r1, r2}
    Limit = 1
    Hazards = {"crash", "db", "net"}
    MaxMishaps = 1
SPECIFICATION MCSpec
INVARIANTS TypeOK QuotaHeld RunsMatchStatus RunsAudited ExecutedWasAsked AskedOnce
PROPERTIES FinalIsFinal ConfirmedEnds QueueDrains
CHECK_DEADLOCK FALSE
