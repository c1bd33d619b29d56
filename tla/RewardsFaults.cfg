CONSTANTS
    a = a
    b = b
    s = s
    c1 = c1
    c2 = c2
    alice = alice
    bob = bob
    usd = usd
    eur = eur
    web = web
    Reward = {a, b}
    Owner = {alice, bob}
    Payee = {usd, eur}
    Program = {web}
    OwnerOf <- OneOwner
    PayeeOf <- TwoPayees
    ProgramOf <- OneProgram
    Amount <- TwoEach
    SplitRewards = {}
    Threshold = 2
    MaxRetries = 1
    Call = {c1}
    MaxClicks = 1
    NoOne = NoOne
    NoReward = NoReward
    Hazards = {"lost_answer", "db_error", "crash", "direct_sql"}
SPECIFICATION Spec
INVARIANTS ApproverRecorded PoolsAreCoherent
CHECK_DEADLOCK FALSE
