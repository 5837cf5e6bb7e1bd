SPECIFICATION Spec
CONSTANTS
    w1 = w1
    c1 = c1
    c2 = c2
    e1 = e1
    e2 = e2
    buy1 = buy1
    buy2 = buy2
    confirm1 = confirm1
    hook1 = hook1
    hook2 = hook2
    other = other
    NoSession = NoSession
    NoEvent = NoEvent
    Workspace <- MCWorkspace
    Session <- MCSession
    WorkspaceOf <- MCWorkspaceOf
    Event <- MCEvent
    Request <- MCRequest
    Op <- MCOp
    About <- MCAbout
    Id <- MCId
    MaxCrashes = 1
INVARIANTS
    BillingTypeOK
    PurchaseIsWhole
    BoughtOnce
    OneCustomer
    AcknowledgedIsCredited
    CreditsAreBought
CHECK_DEADLOCK FALSE
