SPECIFICATION FairJobSpec
CONSTANTS
    w1 = w1
    s1 = s1
    s2 = s2
    bg = bg
    d1 = d1
    NoScan = NoScan
    Workspace <- MCWorkspace
    Scan <- MCScan
    WorkspaceOf <- MCWorkspaceOf
    GrantAmount <- MCGrantAmount
    MaxCredits = 1
    Request <- WithClients
    Background = bg
    Drainer <- MCDrainer
    MaxRestarts = 1
INVARIANTS
    JobTypeOK
    JobTellsCredit
    CompletedJobsArePaid
    JobIsSomewhere
PROPERTIES
    JobsMoveForward
    
CHECK_DEADLOCK FALSE
