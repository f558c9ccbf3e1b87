SPECIFICATION FairSpec
CONSTANTS
    Subs = {s1, s2}
    Deliveries = {d1, d2}
    Changing = {s1}
    MaxAttempts = 2
    MaxChanges = 1
    MaxRetries = 1
    Slots = {c1, c2}
    MaxFaults = 1
    NULL = NULL
INVARIANTS
    StatusHonest
    SendsBounded
PROPERTIES
    DeliveriesSettle
CHECK_DEADLOCK FALSE
