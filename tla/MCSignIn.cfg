SPECIFICATION Spec
CONSTANTS
    admin = admin
    make1 = make1
    allow1 = allow1
    start1 = start1
    call1 = call1
    call2 = call2
    dev1 = dev1
    make2 = make2
    me1 = me1
    out1 = out1
    ann = ann
    bob = bob
    NoRequest = NoRequest
    Request <- MCRequest
    Op <- MCOp
    Mail <- MCMail
    About <- MCAbout
    Target <- MCTarget
    MaxCrashes = 1
    Expiring <- MCExpiring
INVARIANTS
    SignInTypeOK
    StateUsedOnce
    OneOfEach
    StoredIsWhole
    LateIsRefused
    SignedInIsMember
CHECK_DEADLOCK FALSE
