SPECIFICATION ScopedSpec
CONSTANTS
    n1 = n1
    n2 = n2
    Movements = {small, large}
    Large = {large}
    Denials = {n1, n2}
    Drainers = {d1, d2}
    Threshold = 2
    Before = 1
    MaxAttempts = 2
    Batch = 1
    MaxCrashes = 1
INVARIANTS
    OpenIsEarned
    DeliveryIsHonest
PROPERTY
    EveryDenialSettles
CHECK_DEADLOCK FALSE
