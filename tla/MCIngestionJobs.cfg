CONSTANTS
    Jobs = {j1, j2}
    Workers = {w1, w2}
    Slots = {s1, s2}
    etimad = etimad
    Kinds = {etimad, link}
    HandlerKinds <- OneKind
    Handlers = {etimad}
    ClaimRouted = TRUE
    MaxFails = 1
    MaxDeaths = 1
    NULL = NULL
SPECIFICATION FairSpec
INVARIANTS
    TypeOK
    ExclusiveClaim
    OneJobPerFault
    NoOvertaking
PROPERTIES
    ImplementsQueue
    JobsFinish
