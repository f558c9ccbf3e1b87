SPECIFICATION Spec
SYMMETRY Symmetry
CONSTANTS
    own = own
    orgA = orgA
    orgB = orgB
    holder = holder
    q1 = q1
    q2 = q2
    Docs = {own, foreign}
    Reqs = {q1, q2}
    DocTypes = {"legal"}
    TypeOf <- MCTypeOf
    CategoryOf <- MCCategoryOf
    Critical = {q1}
    Orgs = {orgA, orgB}
    TenderOrg = orgA
    DocOrg <- MCDocOrg
    Files = {own}
    Expiring = {own}
    Companies = {bidder, holder}
    TenderCompany = bidder
    DocCompany <- MCDocCompany
    MaxVersion = 2
    Asks <- MCAsks
    Overrides <- MCOverrides
    Edits <- MCEdits
    StateChanges <- MCStateChanges
    Slots = {c1, c2}
    MaxFaults = 1
    NULL = NULL
CONSTRAINT Bound
INVARIANTS
    UploadsSettle
    LinksHold
    PackHonest
    OneGenerationPerVersion
