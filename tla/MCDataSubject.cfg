SPECIFICATION Spec
SYMMETRY Symmetry
CONSTANTS
    alice = alice
    bob = bob
    carol = carol
    orgA = orgA
    orgB = orgB
    aliceMail = aliceMail
    bobMail = bobMail
    carolMail = carolMail
    Users = {alice, bob}
    Owners = {alice, bob}
    Orgs = {orgA}
    Emails = {aliceMail, bobMail}
    HomeOrg <- MCHomeOrg
    EmailOf <- MCEmailOf
    Requests = {r1}
    Slots = {c1, c2}
    MaxCrashes = 1
    NULL = NULL
INVARIANTS
    TypeOK
    ErasureAuthorised
    CompletionApproved
    AuditTruthful
    ErasureEffective
