SPECIFICATION LiveSpec
CONSTANTS
    Senders = {s1}
    Pollers = {p1}
    Parks = {v1}
    Keys = {k}
    Funds = 1
    RequestTimeout = 1
    Lease = 2
    NoKey = NoKey
    NoPark = NoPark

PROPERTY
    EveryReviewEnds
