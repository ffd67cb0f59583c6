SPECIFICATION Spec
CONSTANTS
    Senders = {s1, s2}
    Pollers = {p1, p2}
    Parks = {v1, v2}
    Keys = {k}
    Funds = 2
    RequestTimeout = 1
    Lease = 2
    NoKey = NoKey
    NoPark = NoPark
SYMMETRY Interchangeable
INVARIANTS
    ReleaseExclusive
    PaidOnce
    ExecutedIsPaid
    OneOpenPark
