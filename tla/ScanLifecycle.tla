--------------------------- MODULE ScanLifecycle ---------------------------
(***************************************************************************)
(* ScanService and AutonomousPentestService: the status of a scan, the     *)
(* approval requests raised for it and the closing events of its timeline, *)
(* over the credit state of CreditLedger.  One action is one request       *)
(* handler of main.py, run to its end: handlers here do not overlap.       *)
(*                                                                         *)
(* The point of the module is which handlers look at the status before     *)
(* they overwrite it.  Only pause and resume do; the others overwrite it   *)
(* whatever it is, and leave it to the reservation to refuse a settlement. *)
(*                                                                         *)
(* Left out: findings, plans, instructions, audit entries and the events   *)
(* other than the three that close a scan.                                 *)
(***************************************************************************)
EXTENDS CreditLedger

CONSTANTS
    Autonomous,     \* the scans created with type autonomous_blackbox
    Approval        \* ids of approval requests

ASSUME LifecycleAssumption == Autonomous \subseteq Scan

VARIABLES
    status,         \* scans: scan -> status, "absent" until it is stored
    timeline,       \* events: scan -> the closing event types emitted for it
    approval        \* approval_requests: id -> the scan it is for, its status

scanVars == <<status, timeline, approval>>
vars == <<creditVars, scanVars>>

ActiveStatus == {"queued", "running", "paused", "awaiting_approval"}
ClosedStatus == {"completed", "failed", "cancelled"}
ClosingEvent == {"scan.completed", "scan.failed", "scan.cancelled"}

NoRequest == [scan |-> NoScan, status |-> "absent"]
Request == [scan : Scan, status : {"pending", "approved", "rejected"}]

Init ==
    /\ CreditInit
    /\ status = [s \in Scan |-> "absent"]
    /\ timeline = [s \in Scan |-> {}]
    /\ approval = [a \in Approval |-> NoRequest]

\* Scans whose id a client has: create_scan answers with the id only when the
\* reservation succeeded, and no other handler lists scan ids.
Known(s) == status[s] # "absent" /\ reservation[s] # "none"

SetStatus(s, new) == status' = [status EXCEPT ![s] = new]
Emit(s, event) == timeline' = [timeline EXCEPT ![s] = @ \cup {event}]

-----------------------------------------------------------------------------
GrantCredits(w, n) ==
    /\ Total(w) + n <= MaxCredits
    /\ Grant(w, n)
    /\ UNCHANGED scanVars

\* Mutant: a retried request reserves again for the scan it already created.
CreateScan_Retried(s) ==
    /\ status[s] \in {"absent", "queued"}
    /\ SetStatus(s, "queued")
    /\ \/ ReserveForScan(s)
       \/ ~CanReserve(s) /\ UNCHANGED creditVars
    /\ UNCHANGED <<timeline, approval>>

\* create_scan stores the scan before it asks for the credit.  When there is none,
\* CreditError leaves the handler, and the queued scan stays behind.
CreateScan(s) ==
    /\ status[s] = "absent"
    /\ SetStatus(s, "queued")
    /\ \/ ReserveForScan(s)
       \/ ~CanReserve(s) /\ UNCHANGED creditVars
    /\ UNCHANGED <<timeline, approval>>

\* Mutant: the event is emitted before the credit is deducted.
CompleteScan_EmitsFirst(s) ==
    /\ Known(s)
    /\ SetStatus(s, "completed")
    /\ DeductCompletedScan(s)
    /\ Emit(s, "scan.completed")
    /\ UNCHANGED approval

\* complete_scan overwrites the status, then settles; a CreditError for a released
\* reservation leaves the new status in place and skips the event.
CompleteScan(s) ==
    /\ Known(s)
    /\ SetStatus(s, "completed")
    /\ DeductCompletedScan(s)
    /\ IF DeductRaises(s) THEN UNCHANGED timeline ELSE Emit(s, "scan.completed")
    /\ UNCHANGED approval

\* run_passive_scan passes through RUNNING, and ends in complete_scan.
RunPassiveScan(s) == CompleteScan(s)

CloseReleasing(s, new, event) ==
    /\ Known(s)
    /\ SetStatus(s, new)
    /\ ReleaseScan(s)
    /\ Emit(s, event)
    /\ UNCHANGED approval

\* Mutants: a status the other handlers do not know; a failure that keeps the credit.
FailScan_Blocks(s) == CloseReleasing(s, "blocked", "scan.failed")
FailScan_KeepsCredit(s) ==
    /\ Known(s)
    /\ SetStatus(s, "failed")
    /\ Emit(s, "scan.failed")
    /\ UNCHANGED <<creditVars, approval>>

FailScan(s) == CloseReleasing(s, "failed", "scan.failed")
CancelScan(s) == CloseReleasing(s, "cancelled", "scan.cancelled")

PauseScan(s) ==
    /\ Known(s)
    /\ status[s] \in {"running", "awaiting_approval"}
    /\ SetStatus(s, "paused")
    /\ UNCHANGED <<creditVars, timeline, approval>>

\* Mutant: the scan is set back to waiting, whatever it was paused from.
ResumeScan_Waits(s) ==
    /\ Known(s)
    /\ status[s] = "paused"
    /\ SetStatus(s, "awaiting_approval")
    /\ UNCHANGED <<creditVars, timeline, approval>>

ResumeScan(s) ==
    /\ Known(s)
    /\ status[s] = "paused"
    /\ SetStatus(s, "running")
    /\ UNCHANGED <<creditVars, timeline, approval>>

\* start-autonomous looks at the type of the scan, not at its status.
StartAutonomous(s) ==
    /\ Known(s)
    /\ s \in Autonomous
    /\ SetStatus(s, "running")
    /\ UNCHANGED <<creditVars, timeline, approval>>

RequestApproval(s, a) ==
    /\ Known(s)
    /\ approval[a] = NoRequest
    /\ SetStatus(s, "awaiting_approval")
    /\ approval' = [approval EXCEPT ![a] = [scan |-> s, status |-> "pending"]]
    /\ UNCHANGED <<creditVars, timeline>>

\* approve and reject resolve one pending request and set its scan running.
Resolve(a, outcome) ==
    /\ approval[a].status = "pending"
    /\ approval' = [approval EXCEPT ![a].status = outcome]
    /\ SetStatus(approval[a].scan, "running")
    /\ UNCHANGED <<creditVars, timeline>>

Approve(a) == Resolve(a, "approved")
Reject(a) == Resolve(a, "rejected")

Next ==
    \/ \E w \in Workspace, n \in GrantAmount : GrantCredits(w, n)
    \/ \E s \in Scan :
           \/ CreateScan(s)
           \/ CompleteScan(s)
           \/ RunPassiveScan(s)
           \/ FailScan(s)
           \/ CancelScan(s)
           \/ PauseScan(s)
           \/ ResumeScan(s)
           \/ StartAutonomous(s)
           \/ \E a \in Approval : RequestApproval(s, a)
    \/ \E a \in Approval : Approve(a) \/ Reject(a)

Spec == Init /\ [][Next]_vars

-----------------------------------------------------------------------------
ScanTypeOK ==
    /\ CreditTypeOK
    /\ status \in [Scan -> ActiveStatus \cup ClosedStatus \cup {"absent"}]
    /\ timeline \in [Scan -> SUBSET ClosingEvent]
    /\ approval \in [Approval -> Request \cup {NoRequest}]

\* Safety: a scan that was completed, failed or cancelled never sits on a reserved
\* credit, although the handlers that close it settle only after they have
\* overwritten the status, and any of them may follow any other.
ClosedScanHoldsNoCredit ==
    \A s \in Scan : status[s] \in ClosedStatus => reservation[s] # "reserved"

\* Safety: the timeline tells what became of the credit.  The completed event is
\* there exactly when the credit was deducted (complete_scan emits it only past
\* the CreditError), and a released credit has a failure or a cancellation.
TimelineTellsCredit ==
    \A s \in Scan :
        /\ "scan.completed" \in timeline[s] <=> reservation[s] = "deducted"
        /\ reservation[s] = "released" =>
               timeline[s] \cap {"scan.failed", "scan.cancelled"} # {}

\* Safety: a scan that waits for an approval has a request that is still pending, so
\* there is something an operator can resolve, however requests, resolutions,
\* pauses and resumes were interleaved.
AwaitingHasPending ==
    \A s \in Scan :
        status[s] = "awaiting_approval" =>
            \E a \in Approval : approval[a] = [scan |-> s, status |-> "pending"]

\* Refinement: the scan handlers are callers of CreditService and nothing more.
\* Every step of theirs is one of its operations or leaves credits alone, and none
\* reserves for a scan twice, so what CreditLedger promises holds in this system.
KeepsCreditProtocol == CreditSpec

-----------------------------------------------------------------------------
\* docs/06, credit rules: "Deduct the reserved credit exactly once when scan status
\* becomes completed", "Release the reserved credit when scan status becomes failed,
\* cancelled, or blocked", "Keep the reservation while status is queued, running,
\* paused, or awaiting_approval".  The handlers do not keep them: complete_scan and
\* cancel_scan close a scan that was closed another way, and start and
\* request_gated_upload_verification make a closed scan active again.
CreditFollowsStatus ==
    \A s \in Scan : Known(s) =>
        /\ status[s] = "completed" => reservation[s] = "deducted"
        /\ status[s] \in {"failed", "cancelled"} => reservation[s] = "released"
        /\ status[s] \in ActiveStatus => reservation[s] = "reserved"
=============================================================================
