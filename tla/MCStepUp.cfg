SPECIFICATION LiveSpec
CONSTANTS
    big = big
    small = small
    Calls = {c1, c2, c3}
    Asks = {a1, a2}
    Keys = {big, small}
    PerTx = 2
    DailyCap = 2
    RequestTimeout = 1
    Lease = 2
    Days = 1
    NoKey = NoKey
    NoAsk = NoAsk
    Amount <- MCAmount
INVARIANTS
    TypeOK
    ClaimHeld
    PaidOnce
    ApprovedIsPaid
    OneOpenAsk
PROPERTY
    WithinDailyCap
    ClaimEnds
