SPECIFICATION ScopedSpec
CONSTANTS
    savings = savings
    chequing = chequing
    visa = visa
    jul31 = jul31
    aug01 = aug01
    july = july
    jul = jul
    w1 = w1
    w2 = w2
    None = None
    Deposits = {savings, chequing}
    Cards = {visa}
    Days = {jul31, aug01}
    Periods = {july, jul}
    MonthRange <- MCMonthRange
    Opening <- MCOpening
    AccruedBefore <- MCAccruedBefore
    Limit <- MCLimit
    InterestStep = 2
    Fee = 2
    Waiver = 6
    Workers = {w1, w2}
    MaxBalance = 6
    MaxMoves = 1
    MaxFailures = 1
INVARIANTS
    PaidOncePerPeriod
    CoreTiesToRows
PROPERTY
    EveryBatchEnds
CHECK_DEADLOCK FALSE
