SPECIFICATION Spec
CONSTANTS
    Users <- Staff
    Departments = {"lab"}
    DepartmentOf <- Desk
    NoDepartment = "none"
    RoleOf <- Rank
    Creator = "head"
    Classification = "CONFIDENTIAL"
    Requests = {r1, r2}
    Grantable <- Shared
    Windows <- AlwaysOrOnce
    MaxGrants = 2
    MaxClock = 2
INVARIANTS OneActiveGrant RevokedOnce ExpiredIsOver AuthorityDerivesFromCreator PoliciesAgree
SYMMETRY Symmetry
