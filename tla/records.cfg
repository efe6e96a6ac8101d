SPECIFICATION Spec
CONSTANTS
    Requests = {r1, r2}
    ClientPredicts = FALSE
    MaxRevision = 3
    MaxDenials = 1
INVARIANTS CustodyTellsTheStatus CustodyTellsTheHolds EveryRevisionIsRecorded DenialsReachCustodyFirst
PROPERTIES HeldNeverDisposed ImplementsPolicy ImplementsServer
SYMMETRY Symmetry
