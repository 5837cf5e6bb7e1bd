SPECIFICATION FairSpec
CONSTANTS
    s1 = s1
    s2 = s2
    NoScan = NoScan
    Scan <- MCScan
    Credits = 1
    OneFile = FALSE
    MaxRestarts = 0
PROPERTIES
    StoredJobsRun
CHECK_DEADLOCK FALSE
