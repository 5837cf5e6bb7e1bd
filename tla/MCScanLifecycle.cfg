SPECIFICATION Spec
CONSTANTS
    w1 = w1
    s1 = s1
    s2 = s2
    a1 = a1
    a2 = a2
    NoScan = NoScan
    Workspace <- MCWorkspace
    Scan <- MCScan
    Autonomous <- MCAutonomous
    Approval <- MCApproval
    WorkspaceOf <- MCWorkspaceOf
    GrantAmount <- MCGrantAmount
    MaxCredits = 2
INVARIANTS
    CreditTypeOK
    AccountsBacked
    LedgerRunningBalance
    LedgerSettlesOnce
    ScanTypeOK
    ClosedScanHoldsNoCredit
    TimelineTellsCredit
    AwaitingHasPending
PROPERTIES
    CreditsConserved
    ImplementsContract
    KeepsCreditProtocol
CHECK_DEADLOCK FALSE
