SPECIFICATION FairSpec
CONSTANTS
    Docs = {d1, d2}
    Staff = {alice}
    Deciders = {alice}
    Systems = {cron}
    Rows = {r1, r2, r3, r4}
    MaxPerDoc = 2
    Slots = {c1}
    MaxCrashes = 0
    NULL = NULL

    
PROPERTIES
    ElapsedIsRequested
