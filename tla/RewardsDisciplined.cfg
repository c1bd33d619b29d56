CONSTANTS
    a = a
    b = b
    s = s
    c1 = c1
    c2 = c2
    alice = alice
    bob = bob
    usd = usd
    eur = eur
    web = web
    Reward = {a, b, s}
    Owner = {alice}
    Payee = {usd}
    Program = {web}
    OwnerOf <- OneOwner
    PayeeOf <- OnePayee
    ProgramOf <- OneProgram
    Amount <- UnequalAmount
    SplitRewards = {s}
    Threshold = 2
    MaxRetries = 2
    Call = {c1}
    MaxClicks = 4
    NoOne = NoOne
    NoReward = NoReward
    Hazards = {}
SPECIFICATION FairSpec
INVARIANTS NoSecondTransfer TotalsMatchPaid SplitsNotPooled
PROPERTIES ProcessingEnds
CHECK_DEADLOCK FALSE
