CONSTANTS
    a = a
    b = b
    s = s
    c1 = c1
    c2 = c2
    alice = alice
    bob = bob
    usd = usd
    eur = eur
    web = web
    Reward = {a, b}
    Owner = {alice}
    Payee = {usd}
    Program = {web}
    OwnerOf <- OneOwner
    PayeeOf <- OnePayee
    ProgramOf <- OneProgram
    Amount <- UnequalAmount
    SplitRewards = {}
    Threshold = 2
    MaxRetries = 1
    Call = {c1, c2}
    MaxClicks = 2
    NoOne = NoOne
    NoReward = NoReward
    Hazards = {"overlap", "lost_answer", "stale_page"}
SPECIFICATION Spec
INVARIANTS TypeOK MoneyNeedsApproval PaidIsBacked ProcessingIsOwned
PROPERTIES ImplementsLedger
SYMMETRY SymmetricCalls
CHECK_DEADLOCK FALSE
