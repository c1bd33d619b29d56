CONSTANTS
    a = a
    b = b
    s = s
    c1 = c1
    c2 = c2
    alice = alice
    bob = bob
    usd = usd
    eur = eur
    web = web
    Reward = {a}
    Owner = {alice}
    Payee = {usd}
    Program = {web}
    OwnerOf <- OneOwner
    PayeeOf <- OnePayee
    ProgramOf <- OneProgram
    Amount <- TwoEach
    SplitRewards = {}
    Threshold = 2
    MaxRetries = 1
    Call = {c1}
    MaxClicks = 2
    NoOne = NoOne
    NoReward = NoReward
    Hazards = {"stale_page"}
SPECIFICATION Spec
PROPERTIES TransfersOnlyApproved
CHECK_DEADLOCK FALSE
