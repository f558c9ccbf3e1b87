SPECIFICATION Spec
CONSTANTS
    olga = olga
    fadi = fadi
    Browsers = {b1}
    Users = {olga, fadi}
    RoleOf <- MCRoleOf
    Machines = {"worker", "mail", "oidc", "apiKey"}
    Asked <- Unshadowed
    MaxRequests = 2
    NULL = NULL
INVARIANTS
    Reached
    AuditedOperationsLeaveEvents
CHECK_DEADLOCK FALSE
