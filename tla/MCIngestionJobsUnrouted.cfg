CONSTANTS
    Jobs = {j1}
    Workers = {w1}
    Slots = {s1, s2}
    etimad = etimad
    Kinds = {etimad}
    HandlerKinds <- OneKind
    Handlers = {etimad}
    ClaimRouted <- NextJobRouted
    MaxFails = 0
    MaxDeaths = 0
    NULL = NULL
SPECIFICATION FairSpec
PROPERTIES
    JobsFinish
