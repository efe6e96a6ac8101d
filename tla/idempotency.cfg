SPECIFICATION Spec
CONSTANTS
    Callers = {c1, c2}
    Payloads = {p1, p2}
    Retention = 1
    FailsAfterCommit = FALSE
    MaxClock = 3
    MaxRows = 3
INVARIANTS OneExecutor AtMostOncePerWindow AnswersAreTheCallers ReplaysItsOwnEffect
SYMMETRY Symmetry
