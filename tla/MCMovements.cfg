SPECIFICATION LiveSpec
CONSTANTS
    alice = alice
    bob = bob
    cash = cash
    key = key
    old = old
    Requests = {r1, r2, r3}
    Accounts = {alice, bob, cash}
    Docs = {key, old}
    Meters = {"withdrawal", "transfer"}
    NoTask = NoTask
    NoOne = NoOne
    NoKey = NoKey
    Absent = "absent"
    Cash = cash
    TransferFee = 1
    Tasks <- MCTasks
    Moves <- MCMoves
    Script <- MCScript
    Singles = {}
    Rank <- MCRank
    Overdraft <- MCOverdraft
    Limit <- MCLimit
    OpeningRow <- MCOpeningRow
    OpeningDoc <- MCOpeningDoc
INVARIANTS
    TypeOK
    BalanceIsJournal
    NeverTripsCheck
    AvailableIsDerived
    CustomersTieToGL
PROPERTIES
    ImplementsAtomicLedger
    EveryRequestAnswered
