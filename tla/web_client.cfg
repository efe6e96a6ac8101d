SPECIFICATION PagesSpec
CONSTANTS
    p1 = p1
    p2 = p2
    c1 = c1
    c2 = c2
    Pages <- MCPages
    Calls <- MCCalls
    NoPage = NoPage
    Wanted <- MCWanted
    Initially <- MCInitially
    MaxChanges = 2
    MaxFetches = 1
SYMMETRY MCSymmetry
INVARIANTS
    PagesTypeOK
    ActsOnWhatWasShown
    OwnChangesAreShown
