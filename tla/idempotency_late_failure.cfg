SPECIFICATION Spec
CONSTANTS
    Callers = {c1}
    Payloads = {p1}
    Retention = 1
    FailsAfterCommit = TRUE
    MaxClock = 1
    MaxRows = 2
INVARIANTS AtMostOncePerWindow
