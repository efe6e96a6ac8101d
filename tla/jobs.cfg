SPECIFICATION Spec
CONSTANTS
    Workers = {w1, w2}
    MaxAttempts = 2
    LeaseDuration = 1
    RetryDelay <- CodeRetryDelay
    MaxClock = 1
    MaxJobs = 2
INVARIANTS DeadIsExhausted OvershootIsBounded SucceededHasResult OneRunnableJob
SYMMETRY Symmetry
PROPERTIES LostOnlyIfMistaken
