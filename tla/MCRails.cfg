SPECIFICATION Spec
CONSTANTS
    alice = alice
    bob = bob
    cash = cash
    lynxClearing = lynxClearing
    lynxSettlement = lynxSettlement
    aftClearing = aftClearing
    aftSettlement = aftSettlement
    owed = owed
    lent = lent
    other = other
    third = third
    toSend = toSend
    onItsWay = onItsWay
    gone = gone
    toCome = toCome
    came = came
    asked = asked
    again = again
    theirs = theirs
    cutBatch = cutBatch
    openBatch = openBatch
    nextBatch = nextBatch
    wage = wage
    draw = draw
    rent = rent
    bill = bill
    oldWage = oldWage
    oldDraw = oldDraw
    credit = credit
    debit = debit
    car = car
    van = van
    boat = boat
    house = house
    mandate = mandate
    index = index
    filed = filed
    day = day
    Names = {"send", "settle", "stale", "arrive", "ask", "refund", "keep", "honour", "decline", "pay", "cut", "settleCut", "credited", "debited", "bounce", "dispute", "revoke", "apply", "disburse", "repay", "repayAll", "repayVan", "repayByVan", "repayBySelf", "accrue"}
    Requests = {r1, r2}
    Accounts = {alice, bob, cash, lynxClearing, lynxSettlement, aftClearing, aftSettlement, owed, lent, other, third}
    SystemAccounts = {cash, lynxClearing, lynxSettlement, aftClearing, aftSettlement}
    Outbound = {toSend, onItsWay, gone}
    Inbound = {toCome, came}
    Recalls = {asked, again, theirs}
    Batches = {cutBatch, openBatch, nextBatch}
    FirstBatch = openBatch
    NextBatch = nextBatch
    Credits = {wage, rent, oldWage}
    Debits = {draw, bill, oldDraw}
    Received = {credit, debit}
    Drawn = {debit}
    LoanSet = {car, van, boat, house}
    LoanCash = cash
    Meters = {}
    NoTask = NoTask
    NoOne = NoOne
    Absent = "absent"
    Singles = {"credited", "debited", "apply", "decline", "honour"}
    Docs <- MCDocs
    Tasks = {"send", "settle", "stale", "arrive", "ask", "refund", "keep", "honour", "decline", "pay", "cut", "settleCut", "credited", "debited", "bounce", "dispute", "revoke", "apply", "disburse", "repay", "repayAll", "repayVan", "repayByVan", "repayBySelf", "accrue"}
    Script <- MCScript
    OpeningDoc <- MCOpeningDoc
    OpeningRow <- MCOpeningRow
    Overdraft <- MCOverdraft
    Limit <- MCLimit
    OpenRecall <- MCOpenRecall
    WireOf <- MCWireOf
    WireAmt <- MCWireAmt
    WireAccount <- MCWireAccount
    LynxRail <- MCLynxRail
    LynxCall <- MCLynxCall
    LynxCalls <- MCLynxCalls
    BatchName <- MCBatchName
    Filed <- MCFiled
    EntryOrder <- MCEntryOrder
    EntryAmt <- MCEntryAmt
    Payer <- MCPayer
    Payee <- MCPayee
    MandateOf <- MCMandateOf
    AftRail <- MCAftRail
    AftCall <- MCAftCall
    AftCalls <- MCAftCalls
    LoanAccount <- MCLoanAccount
    Principal <- MCPrincipal
    Interest <- MCInterest
    AccountId <- MCAccountId
    AccruedToday <- MCAccrued
    LoanCall <- MCLoanCall
    LoanCalls <- MCLoanCalls
SYMMETRY Interchangeable
INVARIANTS
    
    WiresTieToBooks
    EntriesAreFiled
    EntriesTieToBooks
    StatusTellsDebt
    
