SPECIFICATION Spec
CONSTANTS
    alice = alice
    bob = bob
    cash = cash
    clearing = clearing
    settlement = settlement
    gift = gift
    rent = rent
    old = old
    from = from
    held = held
    auto = auto
    manual = manual
    other = other
    question = question
    strikes = strikes
    Names = {"sendGift", "sendRent", "claim", "guess", "cancel", "expire", "settled", "turned",
             "inbound", "decline", "take", "lapse", "register", "deregister"}
    Requests = {r1, r2}
    Accounts = {alice, bob, cash, clearing, settlement}
    SystemAccounts = {cash, clearing, settlement}
    Transfers = {gift, rent, old, from, held}
    Handles = {auto, manual, other}
    Docs <- MCDocs
    Meters = {}
    NoTask = NoTask
    NoOne = NoOne
    Absent = "absent"
    Cash = cash
    EtransferFee = 1
    InteracCalls <- MCTasks
    Tasks <- MCTasks
    Call <- MCSomeCalls
    Script <- MCScript
    Singles = {"inbound"}
    Question <- MCAsked
    Strikes <- MCStrikes
    Amt <- MCAmt
    From <- MCFrom
    HandleOf <- MCHandleOf
    DepositOf <- MCDepositOf
    InteracRail <- MCRail
    Overdraft <- MCOverdraft
    Limit <- MCLimit
    OpeningRow <- MCOpeningRow
    OpeningDoc <- MCOpeningDoc
SYMMETRY Interchangeable
INVARIANTS
    AvailableIsDerived
    WrongAnswersCounted
PROPERTY
    ImplementsEscrow
