SPECIFICATION Spec
CONSTANTS
    Max = 1
    Window = 2
    PerSecond = 2
    Slots = {s1, s2}
    Roles = {"SENIOR_OFFICER", "AUDITOR"}
    Passwords = {"right", "wrong"}
    Lifetime = 2
    MaxClock = 4
    MaxArrivals = 4
    MaxChanges = 1
INVARIANTS AllowanceHolds NobodyIsLockedOut LoginsAreAudited ActsAsTheUserIs
SYMMETRY Symmetry
