SPECIFICATION Spec
CONSTANTS
    w1 = w1
    s1 = s1
    s2 = s2
    s3 = s3
    NoScan = NoScan
    Workspace <- MCWorkspace
    Scan <- MCScan
    WorkspaceOf <- MCWorkspaceOf
    GrantAmount <- MCGrantAmount
    MaxCredits = 2
    Request <- Distinct
INVARIANTS
    ThreadsTypeOK
    SettledAtRest
    NeverOverReserved
    TotalIsGranted
    LedgerAddsUp
PROPERTIES
    OperationsAreAtomic
CHECK_DEADLOCK FALSE
