SPECIFICATION FairSpec
CONSTANTS
    s1 = s1
    s2 = s2
    NoScan = NoScan
    Scan <- MCScan
    Credits = 1
    OneFile = TRUE
    MaxRestarts = 0
PROPERTIES
    LedgerIsImmutable
CHECK_DEADLOCK FALSE
