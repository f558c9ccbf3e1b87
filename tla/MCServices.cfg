SPECIFICATION Spec
CONSTANTS
    Slots = {c1, c2}
    MaxRequests = 2
    MaxCost = 1
    LastDay = 1
    MaxBegun = 3
    MaxOverrides = 1
    MaxLlmFaults = 1
    StripeSubs = {"A", "B"}
    Prices = {"basic", "pro", "unlisted"}
    RawStatuses = {"trialing", "unpaid"}
    MaxEvents = 3
    MaxReplays = 1
    Messages = {"m1", "m2"}
    MaxDeliveries = 4
    MaxMailFaults = 1
    Payloads = {"p1", "p2"}
    Sectored = {"p1"}
    Listing = {"p1", "p2"}
    CompanyIds = {"i1", "i2", "i3"}
    TenderIds = {"t1", "t2"}
    MaxEdits = 1
    Users = {"u1", "u2"}
    MaxAccessCalls = 4
    MaxAccessFaults = 1
    Refs = {"f1", "f2", "f3"}
    LastInstant = 1
    MaxConsents = 3
    MaxRestarts = 1
    MaxIncidents = 2
    Limit = 1
    LastHour = 2
    MaxNotifications = 2
    MaxIncidentFaults = 1
SYMMETRY Symmetry
INVARIANTS
    SpendBounded
    UsageReconciles
    PlainCallsBounded
    MirrorsStripe
    
    KeptIsStored
    AcceptedIsWhole
    AccessReconciles
    WithdrawalHeeded
    AuthorityEvidence
    
CHECK_DEADLOCK FALSE
