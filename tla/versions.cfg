SPECIFICATION Spec
CONSTANTS
    Requests = {r1, r2}
    MaxUploads = 3
    MaxReads = 1
INVARIANTS NumbersAreConsecutive LineageIsOlder MissingOnlyAfterLostAck OrphansHaveACause ReadsAreInBothHistories
PROPERTY ImplementsHistory
SYMMETRY Symmetry
