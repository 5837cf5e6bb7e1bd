-------------------------- MODULE MCCreditThreads --------------------------
(* Requests on one workspace.  Distinct: three scans compete for two granted
   credits and each is settled by one request.  ReleasedTwice: two requests
   settle one scan. *)
EXTENDS CreditThreads

CONSTANTS w1, s1, s2, s3

MCWorkspace == {w1}
MCScan == {s1, s2, s3}
MCWorkspaceOf == [s \in MCScan |-> w1]
MCGrantAmount == {1, 2}

GrantRequest(n) == [op |-> "grant", workspace |-> w1, scan |-> NoScan, amount |-> n]
ScanRequest(op, s) == [op |-> op, workspace |-> w1, scan |-> s, amount |-> 0]

Distinct ==
    {GrantRequest(2)}
    \cup {ScanRequest("create", s) : s \in MCScan}
    \cup {ScanRequest("run_passive", s1), ScanRequest("cancel", s2), ScanRequest("fail", s3)}

ReleasedTwice ==
    {GrantRequest(1), ScanRequest("cancel", s1), ScanRequest("fail", s1)}
    \cup {ScanRequest("create", s) : s \in MCScan}
=============================================================================
