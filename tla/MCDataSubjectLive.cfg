SPECIFICATION FairSpec
CONSTANTS
    alice = alice
    bob = bob
    carol = carol
    orgA = orgA
    orgB = orgB
    aliceMail = aliceMail
    bobMail = bobMail
    carolMail = carolMail
    Users = {alice, carol}
    Owners = {alice, carol}
    Orgs = {orgA, orgB}
    Emails = {aliceMail, carolMail}
    HomeOrg <- MCHomeOrg
    EmailOf <- MCEmailOf
    Requests = {r1}
    Slots = {c1}
    MaxCrashes = 2
    NULL = NULL
INVARIANTS
    ErasureAuthorised
PROPERTIES
    ExecutionFinishes
