SPECIFICATION Spec
CONSTANTS
    orgA = orgA
    kA = kA
    Orgs = {orgA, orgB}
    Ids = {i1, i2}
    Keys = {kA, kB}
    Vals = {0, 1}
    OwnerOf <- MCOwnerOf
    Examined <- AllRepositories
    Slots = {c1, c2}
    Strict = TRUE
    NULL = NULL
INVARIANT FailsClosed
