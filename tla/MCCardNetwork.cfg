SPECIFICATION Spec
CONSTANTS
    card = card
    dep = dep
    clearing = clearing
    bank = bank
    auth1 = auth1
    auth2 = auth2
    auth3 = auth3
    buy1 = buy1
    buy2 = buy2
    Requests = {r1, r2, r3, r4}
    Accounts = {card, dep, clearing, bank}
    CardAccounts = {card}
    Clearing = clearing
    Bank = bank
    Authorizations = {auth1, auth2, auth3}
    Purchases = {buy1, buy2}
    Docs = {auth1, auth2, auth3, buy1, buy2}
    Meters = {"withdrawal"}
    Kinds = {"authorize2", "authorize3", "capture1", "capture2", "settle", "pay"}
    NoTask = NoTask
    NoOne = NoOne
    Absent = "absent"
    Tasks <- MCTasks
    CardTasks <- MCTasks
    CardCalls <- MCCardCalls
    CardOf <- MCCardOf
    Stake <- MCStake
    Script <- MCScript
    Singles <- MCSingles
    IdOrder <- MCIdOrder
    Overdraft <- MCOverdraft
    Limit <- MCLimit
    OpeningRow <- MCOpeningRow
    OpeningDoc <- MCOpeningDoc
SYMMETRY Interchangeable
INVARIANTS
    NoWaitCycle
    CardsTieToGL
    CreditWithinLimit
    HeldIsOpenAuthorizations
    CapturedOnce
    SettlementUntilPaid
