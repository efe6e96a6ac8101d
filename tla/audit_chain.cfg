SPECIFICATION Spec
CONSTANTS
    Transactions = {t1, t2, t3}
    Nobody = nobody
    Ids = {1, 2, 3, 4}
    MaxSkew = 1
    MaxClock = 3
INVARIANTS OneTree ChainWhenTimesIncrease TimestampsFollowCommits
SYMMETRY Symmetry
