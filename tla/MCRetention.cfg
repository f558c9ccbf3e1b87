SPECIFICATION Spec
CONSTANTS
    Docs = {d1}
    Staff = {alice, bob}
    Deciders = {alice, bob}
    Systems = {cron}
    Rows = {r1, r2}
    MaxPerDoc = 2
    Slots = {c1, c2}
    MaxCrashes = 1
    NULL = NULL
INVARIANTS
    ApprovedByAnother
    TrailComplete
    SweepOnlyElapsed
SYMMETRY Symmetry
