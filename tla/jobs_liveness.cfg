SPECIFICATION FairSpec
CONSTANTS
    Workers = {w1, w2}
    MaxAttempts = 2
    LeaseDuration = 1
    RetryDelay <- CodeRetryDelay
    MaxClock = 1
    MaxJobs = 1
PROPERTIES EveryJobEnds
