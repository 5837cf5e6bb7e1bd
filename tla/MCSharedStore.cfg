SPECIFICATION FairSpec
CONSTANTS
    s1 = s1
    s2 = s2
    NoScan = NoScan
    Scan <- MCScan
    Credits = 1
    OneFile = TRUE
    MaxRestarts = 1
INVARIANTS
    StoreTypeOK
    BooksBalance
    OutcomesAgree
PROPERTIES
    StoredJobsRun
CHECK_DEADLOCK FALSE
