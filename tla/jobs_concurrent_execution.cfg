SPECIFICATION Spec
CONSTANTS
    Workers = {w1, w2}
    MaxAttempts = 3
    LeaseDuration = 2
    RetryDelay <- CodeRetryDelay
    MaxClock = 2
    MaxJobs = 1
INVARIANTS NoConcurrentExecution
