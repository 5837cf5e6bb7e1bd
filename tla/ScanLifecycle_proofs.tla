------------------------ MODULE ScanLifecycle_proofs ------------------------
(***************************************************************************)
(* Proofs about ScanLifecycle.  The handlers are shown to use CreditService *)
(* by its protocol, so the theorems of CreditLedger_proofs carry over; the *)
(* invariants that relate statuses, timelines and approval requests to     *)
(* reservations are then proved on top of them.                            *)
(***************************************************************************)
EXTENDS ScanLifecycle, CreditLedger_proofs

\* The two ways out of a settling operation, for the handlers that call one.
LEMMA SettlingSteps ==
    ASSUME NEW s \in Scan
    PROVE  /\ DeductCompletedScan(s) =>
                  Deduct(s) \/ (reservation[s] # "reserved" /\ UNCHANGED creditVars)
           /\ ReleaseScan(s) =>
                  Release(s) \/ (reservation[s] # "reserved" /\ UNCHANGED creditVars)
BY DEF DeductCompletedScan, ReleaseScan, NothingToSettle

\* A scan that is not stored yet has no reservation: reserve_for_scan is only ever
\* given the id of a scan that create_scan has just made.
FreshHasNoReservation ==
    \A s \in Scan : status[s] = "absent" => reservation[s] = "none"

LifecycleOK == ScanTypeOK /\ FreshHasNoReservation

-----------------------------------------------------------------------------
\* What a step of a handler is, for the credits: a step of CreditService.
LEMMA HandlerSteps ==
    ASSUME LifecycleOK, Next
    PROVE  [CreditNext]_creditVars
<1>1. ASSUME NEW w \in Workspace, NEW n \in GrantAmount, GrantCredits(w, n)
      PROVE  CreditNext
  BY <1>1 DEF GrantCredits, CreditNext
<1>2. ASSUME NEW s \in Scan, CreateScan(s)
      PROVE  [CreditNext]_creditVars
  <2>1. reservation[s] = "none"
    BY <1>2 DEF CreateScan, LifecycleOK, FreshHasNoReservation
  <2>2. QED BY <1>2, <2>1 DEF CreateScan, CreditNext
<1>3. ASSUME NEW s \in Scan, CompleteScan(s)
      PROVE  CreditNext
  BY <1>3 DEF CompleteScan, CreditNext
<1>4. ASSUME NEW s \in Scan, NEW new, NEW event, CloseReleasing(s, new, event)
      PROVE  CreditNext
  BY <1>4 DEF CloseReleasing, CreditNext
<1>5. ASSUME NEW s \in Scan,
             \/ PauseScan(s) \/ ResumeScan(s) \/ StartAutonomous(s)
             \/ \E a \in Approval : RequestApproval(s, a)
      PROVE  UNCHANGED creditVars
  BY <1>5 DEF PauseScan, ResumeScan, StartAutonomous, RequestApproval
<1>6. ASSUME NEW a \in Approval, Approve(a) \/ Reject(a)
      PROVE  UNCHANGED creditVars
  BY <1>6 DEF Approve, Reject, Resolve
<1>7. QED BY <1>1, <1>2, <1>3, <1>4, <1>5, <1>6
          DEF Next, RunPassiveScan, FailScan, CancelScan

\* Typing and freshness survive every handler.
LEMMA LifecycleStep ==
    ASSUME LifecycleOK, [Next]_vars
    PROVE  LifecycleOK'
<1> USE DEF ActiveStatus, ClosedStatus, ClosingEvent
<1>1. CreditTypeOK'
  BY HandlerSteps, CreditTypeStep DEF LifecycleOK, ScanTypeOK, vars
<1>2. ASSUME UNCHANGED scanVars, UNCHANGED reservation
      PROVE  LifecycleOK'
  BY <1>1, <1>2 DEF LifecycleOK, ScanTypeOK, scanVars, FreshHasNoReservation
<1>3. ASSUME NEW w \in Workspace, NEW n \in GrantAmount, GrantCredits(w, n)
      PROVE  LifecycleOK'
  BY <1>2, <1>3 DEF GrantCredits, Grant
<1>4. ASSUME NEW s \in Scan, CreateScan(s)
      PROVE  LifecycleOK'
  <2>1. /\ status' = [status EXCEPT ![s] = "queued"]
        /\ UNCHANGED <<timeline, approval>>
        /\ \/ reservation' = [reservation EXCEPT ![s] = "reserved"]
           \/ reservation' = reservation
    BY <1>4 DEF CreateScan, SetStatus, ReserveForScan, creditVars
  <2>2. QED BY <1>1, <2>1 DEF LifecycleOK, ScanTypeOK, CreditTypeOK, FreshHasNoReservation
<1>5. ASSUME NEW s \in Scan, CompleteScan(s)
      PROVE  LifecycleOK'
  <2>1. /\ status' = [status EXCEPT ![s] = "completed"]
        /\ timeline' = timeline \/ timeline' = [timeline EXCEPT ![s] = @ \cup {"scan.completed"}]
        /\ approval' = approval
    BY <1>5 DEF CompleteScan, SetStatus, Emit
  <2>2. reservation' = reservation \/ reservation' = [reservation EXCEPT ![s] = "deducted"]
    BY <1>5, SettlingSteps DEF CompleteScan, Deduct, creditVars
  <2>3. FreshHasNoReservation'
    BY <2>1, <2>2 DEF LifecycleOK, ScanTypeOK, CreditTypeOK, FreshHasNoReservation
  <2>4. QED BY <1>1, <2>1, <2>3 DEF LifecycleOK, ScanTypeOK
<1>6. ASSUME NEW s \in Scan, NEW new \in ClosedStatus, NEW event \in ClosingEvent,
             CloseReleasing(s, new, event)
      PROVE  LifecycleOK'
  <2>1. /\ status' = [status EXCEPT ![s] = new]
        /\ timeline' = [timeline EXCEPT ![s] = @ \cup {event}]
        /\ approval' = approval
    BY <1>6 DEF CloseReleasing, SetStatus, Emit
  <2>2. reservation' = reservation \/ reservation' = [reservation EXCEPT ![s] = "released"]
    BY <1>6, SettlingSteps DEF CloseReleasing, Release, creditVars
  <2>3. FreshHasNoReservation'
    BY <2>1, <2>2 DEF LifecycleOK, ScanTypeOK, CreditTypeOK, FreshHasNoReservation
  <2>4. QED BY <1>1, <2>1, <2>3 DEF LifecycleOK, ScanTypeOK
<1>7. ASSUME NEW s \in Scan, PauseScan(s) \/ ResumeScan(s) \/ StartAutonomous(s)
      PROVE  LifecycleOK'
  <2>1. /\ \E new \in ActiveStatus : status' = [status EXCEPT ![s] = new]
        /\ UNCHANGED <<reservation, timeline, approval>>
    BY <1>7 DEF PauseScan, ResumeScan, StartAutonomous, SetStatus, creditVars
  <2>2. QED BY <1>1, <2>1 DEF LifecycleOK, ScanTypeOK, FreshHasNoReservation
<1>8. ASSUME NEW s \in Scan, NEW a \in Approval, RequestApproval(s, a)
      PROVE  LifecycleOK'
  <2>1. /\ status' = [status EXCEPT ![s] = "awaiting_approval"]
        /\ approval' = [approval EXCEPT ![a] = [scan |-> s, status |-> "pending"]]
        /\ UNCHANGED <<reservation, timeline>>
    BY <1>8 DEF RequestApproval, SetStatus, creditVars
  <2>2. QED BY <1>1, <2>1 DEF LifecycleOK, ScanTypeOK, FreshHasNoReservation, Request
<1>9. ASSUME NEW a \in Approval, NEW outcome \in {"approved", "rejected"},
             Resolve(a, outcome)
      PROVE  LifecycleOK'
  <2>1. approval[a] \in Request
    BY <1>9 DEF Resolve, LifecycleOK, ScanTypeOK, NoRequest
  <2>2. /\ status' = [status EXCEPT ![approval[a].scan] = "running"]
        /\ approval' = [approval EXCEPT ![a] = [scan |-> approval[a].scan, status |-> outcome]]
        /\ UNCHANGED <<reservation, timeline>>
    <3>1. [approval[a] EXCEPT !.status = outcome] =
              [scan |-> approval[a].scan, status |-> outcome]
      BY <2>1 DEF Request
    <3>2. QED BY <1>9, <3>1 DEF Resolve, SetStatus, creditVars
  <2>3. QED BY <1>1, <2>1, <2>2 DEF LifecycleOK, ScanTypeOK, FreshHasNoReservation, Request
<1>10. CASE UNCHANGED vars
  BY <1>2, <1>10 DEF vars, creditVars
<1>11. QED
  BY <1>3, <1>4, <1>5, <1>6, <1>7, <1>8, <1>9, <1>10
     DEF Next, RunPassiveScan, FailScan, CancelScan, Approve, Reject

LEMMA LifecycleInvariant == Spec => []LifecycleOK
<1>1. Init => LifecycleOK
  BY DEF Init, CreditInit, LifecycleOK, ScanTypeOK, CreditTypeOK, ReservationStatus,
         FreshHasNoReservation
<1>2. QED BY <1>1, LifecycleStep, PTL DEF Spec

\* Type correctness of the scan state.
THEOREM ScanTypeInvariant == Spec => []ScanTypeOK
BY LifecycleInvariant, PTL DEF LifecycleOK

\* The handlers use CreditService by its protocol.
THEOREM ScanLifecycleKeepsProtocol == Spec => KeepsCreditProtocol
<1>1. Init => CreditInit
  BY DEF Init
<1>2. LifecycleOK /\ [Next]_vars => [CreditNext]_creditVars
  BY HandlerSteps DEF vars
<1>3. QED BY <1>1, <1>2, LifecycleInvariant, PTL
          DEF Spec, CreditSpec, KeepsCreditProtocol

\* So the accounts of the whole system are backed by its reservations, and its
\* ledger replays to them and settles every scan once.
THEOREM ScanLifecycleCredits ==
    Spec => [](AccountsBacked /\ LedgerRunningBalance /\ LedgerSettlesOnce)
BY ScanLifecycleKeepsProtocol, AccountsBackedInvariant, LedgerRunningBalanceInvariant,
   LedgerSettlesOnceInvariant, PTL DEF KeepsCreditProtocol

-----------------------------------------------------------------------------
\* However a scan is closed, and however often, it does not keep its credit reserved.
THEOREM ClosedScanHoldsNoCreditInvariant == Spec => []ClosedScanHoldsNoCredit
<1>1. Init => ClosedScanHoldsNoCredit
  BY DEF Init, ClosedScanHoldsNoCredit, ClosedStatus
<1>2. LifecycleOK /\ ClosedScanHoldsNoCredit /\ [Next]_vars => ClosedScanHoldsNoCredit'
  <2> SUFFICES ASSUME LifecycleOK, ClosedScanHoldsNoCredit, [Next]_vars
               PROVE  ClosedScanHoldsNoCredit'
    OBVIOUS
  <2> USE DEF LifecycleOK, ScanTypeOK, CreditTypeOK, ClosedScanHoldsNoCredit, ClosedStatus
  <2>1. ASSUME NEW w \in Workspace, NEW n \in GrantAmount, GrantCredits(w, n)
        PROVE  ClosedScanHoldsNoCredit'
    BY <2>1 DEF GrantCredits, Grant, scanVars
  <2>2. ASSUME NEW s \in Scan, CreateScan(s)
        PROVE  ClosedScanHoldsNoCredit'
    BY <2>2 DEF CreateScan, SetStatus, ReserveForScan, creditVars
  <2>3. ASSUME NEW s \in Scan, CompleteScan(s)
        PROVE  ClosedScanHoldsNoCredit'
    <3>1. \/ reservation' = [reservation EXCEPT ![s] = "deducted"]
          \/ reservation' = reservation /\ reservation[s] # "reserved"
      BY <2>3, SettlingSteps DEF CompleteScan, Deduct, creditVars
    <3>2. QED BY <2>3, <3>1 DEF CompleteScan, SetStatus
  <2>4. ASSUME NEW s \in Scan, NEW new, NEW event, CloseReleasing(s, new, event)
        PROVE  ClosedScanHoldsNoCredit'
    <3>1. \/ reservation' = [reservation EXCEPT ![s] = "released"]
          \/ reservation' = reservation /\ reservation[s] # "reserved"
      BY <2>4, SettlingSteps DEF CloseReleasing, Release, creditVars
    <3>2. QED BY <2>4, <3>1 DEF CloseReleasing, SetStatus
  <2>5. ASSUME NEW s \in Scan, PauseScan(s) \/ ResumeScan(s) \/ StartAutonomous(s)
        PROVE  ClosedScanHoldsNoCredit'
    BY <2>5 DEF PauseScan, ResumeScan, StartAutonomous, SetStatus, creditVars
  <2>6. ASSUME NEW s \in Scan, NEW a \in Approval, RequestApproval(s, a)
        PROVE  ClosedScanHoldsNoCredit'
    BY <2>6 DEF RequestApproval, SetStatus, creditVars
  <2>7. ASSUME NEW a \in Approval, NEW outcome, Resolve(a, outcome)
        PROVE  ClosedScanHoldsNoCredit'
    BY <2>7 DEF Resolve, SetStatus, creditVars
  <2>8. CASE UNCHANGED vars
    BY <2>8 DEF vars, creditVars, scanVars
  <2>9. QED
    BY <2>1, <2>2, <2>3, <2>4, <2>5, <2>6, <2>7, <2>8
       DEF Next, RunPassiveScan, FailScan, CancelScan, Approve, Reject
<1>3. QED BY <1>1, <1>2, LifecycleInvariant, PTL DEF Spec

\* The closing events of a timeline and the reservation tell the same story.  The
\* proof needs that scans known to a client have a reservation: without one,
\* complete_scan would announce a deduction that did not happen.
THEOREM TimelineTellsCreditInvariant == Spec => []TimelineTellsCredit
<1>1. Init => TimelineTellsCredit
  BY DEF Init, CreditInit, TimelineTellsCredit
<1>2. LifecycleOK /\ TimelineTellsCredit /\ [Next]_vars => TimelineTellsCredit'
  <2> SUFFICES ASSUME LifecycleOK, TimelineTellsCredit, [Next]_vars
               PROVE  TimelineTellsCredit'
    OBVIOUS
  <2> USE DEF LifecycleOK, ScanTypeOK, CreditTypeOK, TimelineTellsCredit
  <2>1. ASSUME NEW w \in Workspace, NEW n \in GrantAmount, GrantCredits(w, n)
        PROVE  TimelineTellsCredit'
    BY <2>1 DEF GrantCredits, Grant, scanVars
  <2>2. ASSUME NEW s \in Scan, CreateScan(s)
        PROVE  TimelineTellsCredit'
    <3>1. /\ reservation[s] = "none"
          /\ timeline' = timeline
          /\ \/ reservation' = [reservation EXCEPT ![s] = "reserved"]
             \/ reservation' = reservation
      BY <2>2 DEF CreateScan, ReserveForScan, creditVars, FreshHasNoReservation
    <3>2. QED BY <3>1
  <2>3. ASSUME NEW s \in Scan, CompleteScan(s)
        PROVE  TimelineTellsCredit'
    <3>1. CASE reservation[s] = "reserved"
      <4>1. /\ reservation' = [reservation EXCEPT ![s] = "deducted"]
            /\ timeline' = [timeline EXCEPT ![s] = @ \cup {"scan.completed"}]
        BY <2>3, <3>1, SettlingSteps DEF CompleteScan, Deduct, DeductRaises, Emit
      <4>2. QED BY <4>1
    <3>2. CASE reservation[s] = "deducted"
      <4>1. /\ reservation' = reservation
            /\ timeline' = [timeline EXCEPT ![s] = @ \cup {"scan.completed"}]
        BY <2>3, <3>2, SettlingSteps DEF CompleteScan, Deduct, DeductRaises, Emit, creditVars
      <4>2. QED BY <3>2, <4>1
    <3>3. CASE reservation[s] = "released"
      BY <2>3, <3>3, SettlingSteps DEF CompleteScan, Deduct, DeductRaises, creditVars
    <3>4. QED BY <2>3, <3>1, <3>2, <3>3 DEF CompleteScan, Known, ReservationStatus
  <2>4. ASSUME NEW s \in Scan, NEW new,
               NEW event \in {"scan.failed", "scan.cancelled"},
               CloseReleasing(s, new, event)
        PROVE  TimelineTellsCredit'
    <3>1. timeline' = [timeline EXCEPT ![s] = @ \cup {event}]
      BY <2>4 DEF CloseReleasing, Emit
    <3>2. \/ /\ reservation[s] = "reserved"
             /\ reservation' = [reservation EXCEPT ![s] = "released"]
          \/ reservation' = reservation
      BY <2>4, SettlingSteps DEF CloseReleasing, Release, creditVars
    <3>3. QED BY <3>1, <3>2
  <2>5. ASSUME NEW s \in Scan, PauseScan(s) \/ ResumeScan(s) \/ StartAutonomous(s)
        PROVE  TimelineTellsCredit'
    BY <2>5 DEF PauseScan, ResumeScan, StartAutonomous, creditVars
  <2>6. ASSUME NEW s \in Scan, NEW a \in Approval, RequestApproval(s, a)
        PROVE  TimelineTellsCredit'
    BY <2>6 DEF RequestApproval, creditVars
  <2>7. ASSUME NEW a \in Approval, NEW outcome, Resolve(a, outcome)
        PROVE  TimelineTellsCredit'
    BY <2>7 DEF Resolve, creditVars
  <2>8. CASE UNCHANGED vars
    BY <2>8 DEF vars, creditVars, scanVars
  <2>9. QED
    BY <2>1, <2>2, <2>3, <2>4, <2>5, <2>6, <2>7, <2>8
       DEF Next, RunPassiveScan, FailScan, CancelScan, Approve, Reject
<1>3. QED BY <1>1, <1>2, LifecycleInvariant, PTL DEF Spec

\* A scan that waits for an approval always has one that can still be given.
THEOREM AwaitingHasPendingInvariant == Spec => []AwaitingHasPending
<1>1. Init => AwaitingHasPending
  BY DEF Init, AwaitingHasPending
<1>2. LifecycleOK /\ AwaitingHasPending /\ [Next]_vars => AwaitingHasPending'
  <2> SUFFICES ASSUME LifecycleOK, AwaitingHasPending, [Next]_vars
               PROVE  AwaitingHasPending'
    OBVIOUS
  <2> USE DEF LifecycleOK, ScanTypeOK
  <2>1. ASSUME NEW s \in Scan, NEW new \in ActiveStatus \cup ClosedStatus,
               new # "awaiting_approval", SetStatus(s, new), approval' = approval
        PROVE  AwaitingHasPending'
    BY <2>1 DEF SetStatus, AwaitingHasPending
  <2>2. ASSUME UNCHANGED scanVars
        PROVE  AwaitingHasPending'
    BY <2>2 DEF scanVars, AwaitingHasPending
  <2>3. ASSUME NEW s \in Scan, CreateScan(s) \/ CompleteScan(s)
        PROVE  AwaitingHasPending'
    BY <2>1, <2>3 DEF CreateScan, CompleteScan, ActiveStatus, ClosedStatus
  <2>4. ASSUME NEW s \in Scan, NEW new \in ClosedStatus, NEW event,
               CloseReleasing(s, new, event)
        PROVE  AwaitingHasPending'
    BY <2>1, <2>4 DEF CloseReleasing, ClosedStatus
  <2>5. ASSUME NEW s \in Scan, PauseScan(s) \/ ResumeScan(s) \/ StartAutonomous(s)
        PROVE  AwaitingHasPending'
    BY <2>1, <2>5 DEF PauseScan, ResumeScan, StartAutonomous, ActiveStatus
  <2>6. ASSUME NEW s \in Scan, NEW a \in Approval, RequestApproval(s, a)
        PROVE  AwaitingHasPending'
    <3> SUFFICES ASSUME NEW r \in Scan, status'[r] = "awaiting_approval"
                 PROVE  \E b \in Approval : approval'[b] = [scan |-> r, status |-> "pending"]
      BY DEF AwaitingHasPending
    <3>1. /\ approval[a] = NoRequest
          /\ approval' = [approval EXCEPT ![a] = [scan |-> s, status |-> "pending"]]
          /\ status' = [status EXCEPT ![s] = "awaiting_approval"]
      BY <2>6 DEF RequestApproval, SetStatus
    <3>2. CASE r = s
      BY <3>1, <3>2
    <3>3. CASE r # s
      <4>1. status[r] = "awaiting_approval"
        BY <3>1, <3>3
      <4>2. PICK b \in Approval : approval[b] = [scan |-> r, status |-> "pending"]
        BY <4>1 DEF AwaitingHasPending
      <4>3. b # a
        BY <3>1, <4>2, CreditAssumption DEF NoRequest
      <4>4. QED BY <3>1, <4>2, <4>3
    <3>4. QED BY <3>2, <3>3
  <2>7. ASSUME NEW a \in Approval, NEW outcome, Resolve(a, outcome)
        PROVE  AwaitingHasPending'
    <3> SUFFICES ASSUME NEW r \in Scan, status'[r] = "awaiting_approval"
                 PROVE  \E b \in Approval : approval'[b] = [scan |-> r, status |-> "pending"]
      BY DEF AwaitingHasPending
    <3>1. status' = [status EXCEPT ![approval[a].scan] = "running"]
      BY <2>7 DEF Resolve, SetStatus
    <3>2. r # approval[a].scan /\ status[r] = "awaiting_approval"
      BY <3>1
    <3>3. PICK b \in Approval : approval[b] = [scan |-> r, status |-> "pending"]
      BY <3>2 DEF AwaitingHasPending
    <3>4. b # a
      BY <3>2, <3>3
    <3>5. approval'[b] = approval[b]
      BY <2>7, <3>4 DEF Resolve
    <3>6. QED BY <3>3, <3>5
  <2>8. ASSUME NEW w \in Workspace, NEW n \in GrantAmount, GrantCredits(w, n)
        PROVE  AwaitingHasPending'
    BY <2>2, <2>8 DEF GrantCredits
  <2>9. CASE UNCHANGED vars
    BY <2>2, <2>9 DEF vars
  <2>10. QED
    BY <2>3, <2>4, <2>5, <2>6, <2>7, <2>8, <2>9
       DEF Next, RunPassiveScan, FailScan, CancelScan, Approve, Reject, ClosedStatus
<1>3. QED BY <1>1, <1>2, LifecycleInvariant, PTL DEF Spec

=============================================================================
