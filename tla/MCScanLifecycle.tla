-------------------------- MODULE MCScanLifecycle --------------------------
(* One passive and one autonomous scan that compete for the credits of one
   workspace, two approval requests either of them may raise, and a grant that is
   refused. *)
EXTENDS ScanLifecycle

CONSTANTS w1, s1, s2, a1, a2

MCWorkspace == {w1}
MCScan == {s1, s2}
MCAutonomous == {s2}
MCApproval == {a1, a2}
MCWorkspaceOf == [s \in MCScan |-> w1]
MCGrantAmount == {-1, 1, 2}
=============================================================================
