----------------------------- MODULE MCJobQueue -----------------------------
(* Two passive scans and one credit, the background thread and one drain request.
   WithClients: on a thread of its own, a client may cancel the first scan, after which
   the second can reserve the credit, and one may complete the second.  WithoutClients:
   only the jobs settle the scans. *)
EXTENDS JobQueue

CONSTANTS w1, s1, s2, bg, d1

MCWorkspace == {w1}
MCScan == {s1, s2}
MCWorkspaceOf == [s \in MCScan |-> w1]
MCGrantAmount == {1}
MCDrainer == {d1}

GrantRequest(n) == [op |-> "grant", workspace |-> w1, scan |-> NoScan, amount |-> n]
ScanRequest(op, s) == [op |-> op, workspace |-> w1, scan |-> s, amount |-> 0]

WithoutClients ==
    {GrantRequest(1)}
    \cup {ScanRequest(op, s) : op \in {"create", "run_passive"}, s \in MCScan}

WithClients ==
    WithoutClients \cup {ScanRequest("cancel", s1), ScanRequest("complete", s2)}
=============================================================================
