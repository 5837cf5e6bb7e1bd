------------------------ MODULE CreditThreads_proofs ------------------------
(***************************************************************************)
(* Proofs about CreditThreads, for any number of request threads on any    *)
(* number of scans and workspaces.  That accounts and scans settle rightly *)
(* is proved for scans that are each settled by one request: with two the  *)
(* code does not keep it.                                                  *)
(***************************************************************************)
EXTENDS CreditThreads, CreditLedger_proofs, SumTheorems

\* What a request is made of.
LEMMA Requests ==
    ASSUME NEW r \in Request
    PROVE  /\ r.op \in Ops /\ r.workspace \in Workspace /\ r.amount \in Int
           /\ r.op = "grant" => r.scan = NoScan /\ r.amount \in GrantAmount
           /\ r.op # "grant" => r.scan \in Scan /\ r.workspace = WorkspaceOf[r.scan]
BY ThreadsAssumption

\* The entry a request appends.
LEMMA EntryTypes ==
    ASSUME NEW r \in Request
    PROVE  /\ r.op = "grant" => EntryOf[r.op] = "grant"
           /\ r.op = "create" => EntryOf[r.op] = "reserve"
           /\ r.op \in Completing => EntryOf[r.op] = "deduct"
           /\ r.op \in Releasing => EntryOf[r.op] = "release"
           /\ AmountOf(r) \in Int
<1>1. AmountOf(r) \in Int
  BY Requests DEF AmountOf
<1>2. QED BY <1>1 DEF EntryOf, Completing, Releasing

\* Every step of a thread keeps the state well typed.
LEMMA ThreadsTypesStep ==
    ASSUME ThreadsTypeOK, [Next]_vars
    PROVE  ThreadsTypeOK'
<1> DEFINE Place == {"idle", "check", "move", "log", "done", "raised"}
           Status == {"absent", "queued", "completed", "failed", "cancelled"}
<1>t. /\ CreditTypeOK /\ pc \in [Request -> Place] /\ seen \in [Request -> Int]
      /\ status \in [Scan -> Status]
  BY DEF ThreadsTypeOK
<1>c. /\ available \in [Workspace -> Int] /\ reserved \in [Workspace -> Int]
      /\ consumed \in [Workspace -> Int] /\ reservation \in [Scan -> ReservationStatus]
      /\ ledger \in Seq(Entry)
  BY <1>t DEF CreditTypeOK
<1>1. ASSUME NEW r \in Request, BeginGrant(r) \/ CheckSettle(r) PROVE ThreadsTypeOK'
  BY <1>t, <1>1 DEF BeginGrant, CheckSettle, Goto, ThreadsTypeOK, CreditTypeOK, creditVars
<1>2. ASSUME NEW r \in Request, MoveGrant(r) PROVE ThreadsTypeOK'
  BY <1>t, <1>c, <1>2, Requests DEF MoveGrant, Goto, ThreadsTypeOK, CreditTypeOK
<1>3. ASSUME NEW r \in Request, BeginCreate(r) PROVE ThreadsTypeOK'
  BY <1>t, <1>3, Requests DEF BeginCreate, Goto, ThreadsTypeOK, CreditTypeOK, creditVars
<1>4. ASSUME NEW r \in Request, CheckReserve(r) PROVE ThreadsTypeOK'
  <2>1. WorkspaceOf[r.scan] \in Workspace
    BY <1>4, Requests DEF CheckReserve
  <2>2. available' \in [Workspace -> Int] /\ reserved' \in [Workspace -> Int]
    BY <1>c, <1>4, <2>1 DEF CheckReserve
  <2>3. pc' \in [Request -> Place]
    BY <1>t, <1>4 DEF CheckReserve, Goto
  <2>4. UNCHANGED <<consumed, reservation, ledger, status, seen>>
    BY <1>4 DEF CheckReserve
  <2>5. QED BY <1>t, <1>c, <2>2, <2>3, <2>4 DEF ThreadsTypeOK, CreditTypeOK
<1>5. ASSUME NEW r \in Request, StoreReservation(r) PROVE ThreadsTypeOK'
  <2>1. r.scan \in Scan /\ WorkspaceOf[r.scan] \in Workspace
    BY <1>5, Requests DEF StoreReservation
  <2>2. QED
    BY <1>t, <1>c, <1>5, <2>1
    DEF StoreReservation, Goto, ThreadsTypeOK, CreditTypeOK, ReservationStatus
<1>6. ASSUME NEW r \in Request, BeginSettle(r) PROVE ThreadsTypeOK'
  <2>1. r.scan \in Scan /\ ClosedBy[r.op] \in Status
    BY <1>6, Requests DEF BeginSettle, Settling, Completing, Releasing, ClosedBy
  <2>2. QED
    BY <1>t, <1>6, <2>1 DEF BeginSettle, Goto, ThreadsTypeOK, CreditTypeOK, creditVars
<1>7. ASSUME NEW r \in Request, MoveSettle(r) PROVE ThreadsTypeOK'
  <2>1. r.scan \in Scan /\ WorkspaceOf[r.scan] \in Workspace
    BY <1>7, Requests DEF MoveSettle, Settling, Completing, Releasing
  <2>2. /\ reserved' \in [Workspace -> Int] /\ available' \in [Workspace -> Int]
        /\ consumed' \in [Workspace -> Int]
    BY <1>c, <1>7, <2>1 DEF MoveSettle
  <2>3. reservation' \in [Scan -> ReservationStatus] /\ seen' \in [Request -> Int]
    <3>1. \E n \in Int : seen' = [seen EXCEPT ![r] = n]
      <4>1. available[WorkspaceOf[r.scan]] \in Int /\ available[WorkspaceOf[r.scan]] + 1 \in Int
        BY <1>c, <2>1
      <4>2. \/ seen' = [seen EXCEPT ![r] = available[WorkspaceOf[r.scan]]]
            \/ seen' = [seen EXCEPT ![r] = available[WorkspaceOf[r.scan]] + 1]
        BY <1>7 DEF MoveSettle
      <4>3. QED BY <4>1, <4>2
    <3>2. \/ reservation' = [reservation EXCEPT ![r.scan] = "deducted"]
          \/ reservation' = [reservation EXCEPT ![r.scan] = "released"]
      BY <1>7 DEF MoveSettle
    <3>3. reservation' \in [Scan -> ReservationStatus]
      BY <1>c, <3>2 DEF ReservationStatus
    <3>4. QED BY <1>t, <3>1, <3>3
  <2>4. pc' \in [Request -> Place] /\ UNCHANGED <<ledger, status>>
    BY <1>t, <1>7 DEF MoveSettle, Goto
  <2>5. QED BY <1>t, <1>c, <2>2, <2>3, <2>4 DEF ThreadsTypeOK, CreditTypeOK
<1>8. ASSUME NEW r \in Request, AppendEntry(r) PROVE ThreadsTypeOK'
  <2>1. \/ EntryOf[r.op] = "grant" /\ r.scan = NoScan
        \/ EntryOf[r.op] \in {"reserve", "deduct", "release"} /\ r.scan \in Scan
    BY Requests, EntryTypes DEF Ops, Settling, Completing, Releasing
  <2>2. seen[r] \in Int /\ AmountOf(r) \in Int /\ r.workspace \in Workspace
    BY <1>t, Requests, EntryTypes
  <2>3. Log(r.workspace, EntryOf[r.op], AmountOf(r), seen[r], r.scan)
    BY <1>8 DEF AppendEntry
  <2>4. ledger' \in Seq(Entry)
    BY <1>c, <2>1, <2>2, <2>3, LogType
  <2>5. pc' \in [Request -> Place]
        /\ UNCHANGED <<available, reserved, consumed, reservation, status, seen>>
    BY <1>t, <1>8 DEF AppendEntry, Goto
  <2>6. QED BY <1>t, <1>c, <2>4, <2>5 DEF ThreadsTypeOK, CreditTypeOK
<1>9. CASE UNCHANGED vars
  BY <1>9 DEF vars, creditVars, threadVars, ThreadsTypeOK, CreditTypeOK
<1>10. QED BY <1>1, <1>2, <1>3, <1>4, <1>5, <1>6, <1>7, <1>8, <1>9 DEF Next

LEMMA InitThreadsTypes == Init => ThreadsTypeOK
BY DEF Init, CreditInit, ThreadsTypeOK, CreditTypeOK, ReservationStatus

\* Theorem: type correctness of the threads and of what they share.
THEOREM ThreadsTypes == Spec => []ThreadsTypeOK
BY InitThreadsTypes, ThreadsTypesStep, PTL DEF Spec

-----------------------------------------------------------------------------
\* A thread that serves one of the operations ops for scan s is at one of the places.
Thread(s, ops, places) ==
    \E r \in Request : r.op \in ops /\ r.scan = s /\ pc[r] \in places

Begun == {"check", "move", "log", "done", "raised"}
Moved == {"log", "done"}

\* What a step of r to another place does to the threads of scan s: places that are
\* not left can only be entered.
LEMMA ThreadGoes ==
    ASSUME NEW r \in Request, NEW to, pc \in [Request -> {"idle"} \cup Begun],
           pc' = [pc EXCEPT ![r] = to],
           NEW s, NEW ops, NEW places, pc[r] \in places => to \in places
    PROVE  Thread(s, ops, places)' <=>
               Thread(s, ops, places) \/ (r.op \in ops /\ r.scan = s /\ to \in places)
BY DEF Thread

\* What the threads of a scan have done of it, to its reservation, its ledger entries
\* and its status.
ScanOK(s) ==
    /\ reservation[s] = "none" <=> ~Thread(s, {"create"}, Moved)
    /\ reservation[s] = "deducted" <=> Thread(s, Completing, Moved)
    /\ reservation[s] = "released" <=> Thread(s, Releasing, Moved)
    /\ HasEntry(s, "reserve") <=> Thread(s, {"create"}, {"done"})
    /\ HasEntry(s, "deduct") <=> Thread(s, Completing, {"done"})
    /\ HasEntry(s, "release") <=> Thread(s, Releasing, {"done"})
    /\ status[s] = "absent" => ~Thread(s, {"create"}, Begun)
    /\ status[s] \notin {"absent", "queued"} => Thread(s, Settling, Begun)
    /\ Thread(s, Settling, Begun) => Thread(s, {"create"}, {"done"})

\* One request creates a scan, a settlement does not raise, and the entries of a scan are
\* in order.
ThreadsOK ==
    /\ \A s \in Scan : ScanOK(s)
    /\ \A r, q \in Request :
           r.op = "create" /\ q.op = "create" /\ r.scan = q.scan
           /\ pc[r] # "idle" /\ pc[q] # "idle" => r = q
    /\ \A r \in Request :
           /\ r.op \in Settling => pc[r] # "raised"
           /\ r.op = "grant" => pc[r] \notin {"check", "raised"}
                                /\ (pc[r] # "idle" => r.amount > 0)
    /\ \A i, j \in 1..Len(ledger) :
           i < j /\ ledger[i].scan = ledger[j].scan /\ ledger[i].scan # NoScan
           => ledger[i].type = "reserve" /\ ledger[j].type \in {"deduct", "release"}

\* The condition under which settling is sound.
SettledByOne ==
    \A r, q \in Request : r.op \in Settling /\ q.op \in Settling /\ r.scan = q.scan => r = q

\* Under it, a thread that settles a scan finds its credit reserved until it moves it.
LEMMA FindsReserved ==
    ASSUME SettledByOne, ThreadsTypeOK, ThreadsOK, NEW r \in Request, r.op \in Settling,
           pc[r] \in {"check", "move"}
    PROVE  reservation[r.scan] = "reserved" /\ r.scan \in Scan
<1> DEFINE s == r.scan
<1>1. s \in Scan
  BY Requests DEF Settling, Completing, Releasing
<1>2. ScanOK(s) /\ reservation[s] \in ReservationStatus
  BY <1>1 DEF ThreadsOK, ThreadsTypeOK, CreditTypeOK
<1>3. Thread(s, {"create"}, {"done"})
  <2>1. Thread(s, Settling, Begun)
    BY DEF Thread, Begun
  <2>2. QED BY <1>2, <2>1 DEF ScanOK
<1>4. reservation[s] # "none"
  <2>1. Thread(s, {"create"}, Moved)
    BY <1>3 DEF Thread, Moved
  <2>2. QED BY <1>2, <2>1 DEF ScanOK
<1>5. ~Thread(s, Completing, Moved) /\ ~Thread(s, Releasing, Moved)
  BY DEF Thread, Moved, SettledByOne, Settling
<1>6. QED BY <1>1, <1>2, <1>4, <1>5 DEF ScanOK, ReservationStatus

\* What an entry appended to the ledger changes in what it has of a scan.
LEMMA HasMore ==
    ASSUME ledger \in Seq(Entry), NEW e, ledger' = Append(ledger, e), NEW s, NEW type
    PROVE  HasEntry(s, type)' <=> HasEntry(s, type) \/ (e.scan = s /\ e.type = type)
<1>1. /\ Len(ledger) \in Nat /\ Len(ledger') = Len(ledger) + 1
      /\ ledger'[Len(ledger) + 1] = e
      /\ \A i \in 1..Len(ledger) : ledger'[i] = ledger[i]
  OBVIOUS
<1>2. QED BY <1>1 DEF HasEntry

\* A step of a thread that leaves the ledger alone keeps the rest of the invariant, if it
\* does so for the scan of the thread.
LEMMA QuietStep ==
    ASSUME ThreadsTypeOK, ThreadsOK, NEW r \in Request, NEW to \in Begun,
           pc' = [pc EXCEPT ![r] = to], pc[r] \notin {"done", "raised"},
           pc[r] = "log" => to = "done",
           ledger' = ledger,
           \A s \in Scan \ {r.scan} : reservation'[s] = reservation[s] /\ status'[s] = status[s],
           r.scan \in Scan => ScanOK(r.scan)',
           pc[r] = "idle" /\ r.op = "create" => status[r.scan] = "absent",
           r.op \in Settling => to # "raised",
           r.op = "grant" => to \notin {"check", "raised"} /\ r.amount > 0
    PROVE  ThreadsOK'
<1>1. pc \in [Request -> {"idle"} \cup Begun]
  BY DEF ThreadsTypeOK, Begun
<1>2. ASSUME NEW s \in Scan PROVE ScanOK(s)'
  <2>1. CASE s = r.scan
    BY <2>1
  <2>2. CASE s # r.scan
    <3>1. \A ops, places : Thread(s, ops, places)' <=> Thread(s, ops, places)
      BY <1>1, <2>2 DEF Thread
    <3>2. \A type : HasEntry(s, type)' <=> HasEntry(s, type)
      BY DEF HasEntry
    <3>3. reservation'[s] = reservation[s] /\ status'[s] = status[s] /\ ScanOK(s)
      BY <2>2 DEF ThreadsOK
    <3>4. QED BY <3>1, <3>2, <3>3 DEF ScanOK
  <2>3. QED BY <2>1, <2>2
<1>3. ASSUME NEW p \in Request, NEW q \in Request, p.op = "create", q.op = "create",
             p.scan = q.scan, pc'[p] # "idle", pc'[q] # "idle"
      PROVE  p = q
  <2>1. CASE p = r /\ q # r /\ pc[r] = "idle"
    <3>1. p.scan \in Scan /\ status[p.scan] = "absent"
      BY <1>3, <2>1, Requests
    <3>2. Thread(p.scan, {"create"}, Begun)
      BY <1>1, <1>3, <2>1 DEF Thread
    <3>3. QED BY <3>1, <3>2 DEF ThreadsOK, ScanOK
  <2>2. CASE q = r /\ p # r /\ pc[r] = "idle"
    <3>1. q.scan \in Scan /\ status[q.scan] = "absent"
      BY <1>3, <2>2, Requests
    <3>2. Thread(q.scan, {"create"}, Begun)
      BY <1>1, <1>3, <2>2 DEF Thread
    <3>3. QED BY <3>1, <3>2 DEF ThreadsOK, ScanOK
  <2>3. CASE p = q
    BY <2>3
  <2>4. CASE pc[r] # "idle" \/ (p # r /\ q # r)
    <3>1. pc[p] # "idle" /\ pc[q] # "idle"
      BY <1>1, <1>3, <2>4
    <3>2. QED BY <1>3, <3>1 DEF ThreadsOK
  <2>5. QED BY <2>1, <2>2, <2>3, <2>4
<1>4. \A q \in Request :
          /\ q.op \in Settling => pc'[q] # "raised"
          /\ q.op = "grant" => pc'[q] \notin {"check", "raised"}
                               /\ (pc'[q] # "idle" => q.amount > 0)
  BY <1>1 DEF ThreadsOK
<1>5. QED BY <1>2, <1>3, <1>4 DEF ThreadsOK

\* All that a step of r changes in what the threads of a scan have done.
LEMMA ThreadsGo ==
    ASSUME ThreadsTypeOK, NEW r \in Request, NEW to \in Begun,
           pc' = [pc EXCEPT ![r] = to], pc[r] \notin {"done", "raised"},
           pc[r] = "log" => to = "done", NEW s
    PROVE
        /\ \A ops : Thread(s, ops, Moved)' <=>
                        Thread(s, ops, Moved) \/ (r.op \in ops /\ r.scan = s /\ to \in Moved)
        /\ \A ops : Thread(s, ops, {"done"})' <=>
                        Thread(s, ops, {"done"}) \/ (r.op \in ops /\ r.scan = s /\ to = "done")
        /\ \A ops : Thread(s, ops, Begun)' <=>
                        Thread(s, ops, Begun) \/ (r.op \in ops /\ r.scan = s)
<1>1. pc \in [Request -> {"idle"} \cup Begun]
  BY DEF ThreadsTypeOK, Begun
<1>2. pc[r] \in Moved => to \in Moved
  BY DEF Moved
<1>3. ASSUME NEW ops
      PROVE  Thread(s, ops, Moved)' <=>
                 Thread(s, ops, Moved) \/ (r.op \in ops /\ r.scan = s /\ to \in Moved)
  BY <1>1, <1>2, ThreadGoes
<1>4. ASSUME NEW ops
      PROVE  Thread(s, ops, {"done"})' <=>
                 Thread(s, ops, {"done"}) \/ (r.op \in ops /\ r.scan = s /\ to = "done")
  <2>1. pc[r] \in {"done"} => to \in {"done"}
    OBVIOUS
  <2>2. QED BY <1>1, <2>1, ThreadGoes
<1>5. ASSUME NEW ops
      PROVE  Thread(s, ops, Begun)' <=> Thread(s, ops, Begun) \/ (r.op \in ops /\ r.scan = s)
  <2>1. Thread(s, ops, Begun)' <=>
            Thread(s, ops, Begun) \/ (r.op \in ops /\ r.scan = s /\ to \in Begun)
    BY <1>1, ThreadGoes
  <2>2. QED BY <2>1
<1>6. QED BY <1>3, <1>4, <1>5

LEMMA ThreadsStep ==
    ASSUME SettledByOne, ThreadsTypeOK, ThreadsOK, [Next]_vars
    PROVE  ThreadsOK'
<1>t. /\ pc \in [Request -> {"idle"} \cup Begun]
      /\ status \in [Scan -> {"absent", "queued", "completed", "failed", "cancelled"}]
      /\ reservation \in [Scan -> ReservationStatus] /\ ledger \in Seq(Entry)
  BY DEF ThreadsTypeOK, CreditTypeOK, Begun
<1>1. ASSUME NEW r \in Request, BeginGrant(r) \/ MoveGrant(r) PROVE ThreadsOK'
  <2>1. PICK to \in {"move", "log"} : pc' = [pc EXCEPT ![r] = to] /\ pc[r] \in {"idle", "move"}
    BY <1>1 DEF BeginGrant, MoveGrant, Goto
  <2>2. /\ r.op = "grant" /\ r.amount > 0
        /\ ledger' = ledger /\ reservation' = reservation /\ status' = status
    BY <1>1 DEF BeginGrant, MoveGrant, Goto, creditVars, ThreadsOK
  <2>3. r.scan \notin Scan
    BY <2>2, Requests, CreditAssumption
  <2>4. QED BY <2>1, <2>2, <2>3, QuietStep DEF Begun, Settling, Completing, Releasing
<1>2. ASSUME NEW r \in Request, BeginCreate(r) PROVE ThreadsOK'
  <2>1. /\ r.op = "create" /\ r.op \notin Settling /\ r.scan \in Scan
        /\ pc[r] = "idle" /\ pc' = [pc EXCEPT ![r] = "check"]
        /\ status[r.scan] = "absent" /\ status' = [status EXCEPT ![r.scan] = "queued"]
        /\ reservation' = reservation /\ ledger' = ledger
    BY <1>2, Requests DEF BeginCreate, Goto, creditVars, Settling, Completing, Releasing
  <2>2. ScanOK(r.scan)'
    <3>1. ScanOK(r.scan) /\ status'[r.scan] = "queued"
      BY <1>t, <2>1 DEF ThreadsOK
    <3>2. /\ \A ops : Thread(r.scan, ops, Moved)' <=> Thread(r.scan, ops, Moved)
          /\ \A ops : Thread(r.scan, ops, {"done"})' <=> Thread(r.scan, ops, {"done"})
          /\ Thread(r.scan, Settling, Begun)' <=> Thread(r.scan, Settling, Begun)
      BY <2>1, ThreadsGo DEF Begun, Moved
    <3>3. \A type : HasEntry(r.scan, type)' <=> HasEntry(r.scan, type)
      BY <2>1 DEF HasEntry
    <3>4. QED BY <2>1, <3>1, <3>2, <3>3 DEF ScanOK
  <2>3. \A s \in Scan \ {r.scan} : status'[s] = status[s]
    BY <1>t, <2>1
  <2>4. QED BY <2>1, <2>2, <2>3, QuietStep DEF Begun
<1>3. ASSUME NEW r \in Request, CheckReserve(r) PROVE ThreadsOK'
  <2>1. PICK to \in {"move", "raised"} : pc' = [pc EXCEPT ![r] = to]
    BY <1>3 DEF CheckReserve, Goto
  <2>2. /\ r.op = "create" /\ r.op \notin Settling /\ r.scan \in Scan /\ pc[r] = "check"
        /\ reservation' = reservation /\ ledger' = ledger /\ status' = status
    BY <1>3, Requests DEF CheckReserve, Goto, Settling, Completing, Releasing
  <2>3. ScanOK(r.scan)'
    <3>1. ScanOK(r.scan) /\ Thread(r.scan, {"create"}, Begun)
      BY <2>2 DEF ThreadsOK, Thread, Begun
    <3>2. /\ \A ops : Thread(r.scan, ops, Moved)' <=> Thread(r.scan, ops, Moved)
          /\ \A ops : Thread(r.scan, ops, {"done"})' <=> Thread(r.scan, ops, {"done"})
          /\ Thread(r.scan, Settling, Begun)' <=> Thread(r.scan, Settling, Begun)
      BY <2>1, <2>2, ThreadsGo DEF Begun, Moved
    <3>3. \A type : HasEntry(r.scan, type)' <=> HasEntry(r.scan, type)
      BY <2>2 DEF HasEntry
    <3>4. QED BY <2>2, <3>1, <3>2, <3>3 DEF ScanOK
  <2>4. QED BY <2>1, <2>2, <2>3, QuietStep DEF Begun
<1>4. ASSUME NEW r \in Request, StoreReservation(r) PROVE ThreadsOK'
  <2>1. /\ r.op = "create" /\ r.op \notin Settling /\ r.scan \in Scan
        /\ pc[r] = "move" /\ pc' = [pc EXCEPT ![r] = "log"]
        /\ reservation' = [reservation EXCEPT ![r.scan] = "reserved"]
        /\ ledger' = ledger /\ status' = status
    BY <1>4, Requests DEF StoreReservation, Goto, Settling, Completing, Releasing
  <2>2. ScanOK(r.scan)'
    <3>1. ScanOK(r.scan) /\ Thread(r.scan, {"create"}, Begun) /\ reservation'[r.scan] = "reserved"
      BY <1>t, <2>1 DEF ThreadsOK, Thread, Begun
    <3>2. /\ Thread(r.scan, {"create"}, Moved)'
          /\ Thread(r.scan, Completing, Moved)' <=> Thread(r.scan, Completing, Moved)
          /\ Thread(r.scan, Releasing, Moved)' <=> Thread(r.scan, Releasing, Moved)
          /\ \A ops : Thread(r.scan, ops, {"done"})' <=> Thread(r.scan, ops, {"done"})
          /\ Thread(r.scan, Settling, Begun)' <=> Thread(r.scan, Settling, Begun)
      BY <2>1, ThreadsGo DEF Begun, Moved, Settling
    <3>3. \A type : HasEntry(r.scan, type)' <=> HasEntry(r.scan, type)
      BY <2>1 DEF HasEntry
    <3>4. ~Thread(r.scan, {"create"}, Moved)
      BY <2>1 DEF ThreadsOK, Thread, Moved
    <3>5. reservation[r.scan] = "none"
      BY <3>1, <3>4 DEF ScanOK
    <3>6. ~Thread(r.scan, Completing, Moved) /\ ~Thread(r.scan, Releasing, Moved)
      BY <3>1, <3>5 DEF ScanOK
    <3>7. status[r.scan] # "absent"
      BY <3>1 DEF ScanOK
    <3>8. QED BY <2>1, <3>1, <3>2, <3>3, <3>6, <3>7 DEF ScanOK
  <2>3. \A s \in Scan \ {r.scan} : reservation'[s] = reservation[s]
    BY <1>t, <2>1
  <2>4. QED BY <2>1, <2>2, <2>3, QuietStep DEF Begun
<1>5. ASSUME NEW r \in Request, BeginSettle(r) PROVE ThreadsOK'
  <2>1. /\ r.op \in Settling /\ r.op \notin {"create", "grant"} /\ r.scan \in Scan
        /\ pc[r] = "idle" /\ pc' = [pc EXCEPT ![r] = "check"]
        /\ status' = [status EXCEPT ![r.scan] = ClosedBy[r.op]]
        /\ reservation' = reservation /\ ledger' = ledger
        /\ Thread(r.scan, {"create"}, {"done"})
    BY <1>5, Requests
    DEF BeginSettle, Goto, creditVars, Settling, Completing, Releasing, Answered, Thread
  <2>2. ClosedBy[r.op] \in {"completed", "failed", "cancelled"}
    BY <2>1 DEF Settling, Completing, Releasing, ClosedBy
  <2>3. ScanOK(r.scan)'
    <3>1. ScanOK(r.scan) /\ status'[r.scan] \in {"completed", "failed", "cancelled"}
      BY <1>t, <2>1, <2>2 DEF ThreadsOK
    <3>2. /\ \A ops : Thread(r.scan, ops, Moved)' <=> Thread(r.scan, ops, Moved)
          /\ \A ops : Thread(r.scan, ops, {"done"})' <=> Thread(r.scan, ops, {"done"})
          /\ Thread(r.scan, Settling, Begun)'
      BY <2>1, ThreadsGo DEF Begun, Moved
    <3>3. \A type : HasEntry(r.scan, type)' <=> HasEntry(r.scan, type)
      BY <2>1 DEF HasEntry
    <3>4. QED BY <2>1, <3>1, <3>2, <3>3 DEF ScanOK
  <2>4. \A s \in Scan \ {r.scan} : status'[s] = status[s]
    BY <1>t, <2>1
  <2>5. QED BY <2>1, <2>3, <2>4, QuietStep DEF Begun
<1>6. ASSUME NEW r \in Request, CheckSettle(r) PROVE ThreadsOK'
  <2>1. r.op \in Settling /\ r.op \notin {"create", "grant"} /\ pc[r] = "check"
    BY <1>6 DEF CheckSettle, Goto, Settling, Completing, Releasing
  <2>2. reservation[r.scan] = "reserved" /\ r.scan \in Scan
    BY <2>1, FindsReserved
  <2>3. /\ pc' = [pc EXCEPT ![r] = "move"]
        /\ reservation' = reservation /\ ledger' = ledger /\ status' = status
    BY <1>6, <2>2 DEF CheckSettle, Goto, creditVars, DeductRaises
  <2>4. ScanOK(r.scan)'
    <3>1. ScanOK(r.scan) /\ Thread(r.scan, Settling, Begun)
      BY <2>1, <2>2 DEF ThreadsOK, Thread, Begun
    <3>2. /\ \A ops : Thread(r.scan, ops, Moved)' <=> Thread(r.scan, ops, Moved)
          /\ \A ops : Thread(r.scan, ops, {"done"})' <=> Thread(r.scan, ops, {"done"})
          /\ Thread(r.scan, Settling, Begun)'
          /\ Thread(r.scan, {"create"}, Begun)' <=> Thread(r.scan, {"create"}, Begun)
      BY <2>1, <2>3, <3>1, ThreadsGo DEF Begun, Moved
    <3>3. \A type : HasEntry(r.scan, type)' <=> HasEntry(r.scan, type)
      BY <2>3 DEF HasEntry
    <3>4. QED BY <2>3, <3>1, <3>2, <3>3 DEF ScanOK
  <2>5. QED BY <2>1, <2>3, <2>4, QuietStep DEF Begun
<1>7. ASSUME NEW r \in Request, MoveSettle(r) PROVE ThreadsOK'
  <2>1. /\ r.op \in Settling /\ r.op \notin {"create", "grant"} /\ pc[r] = "move"
        /\ pc' = [pc EXCEPT ![r] = "log"] /\ ledger' = ledger /\ status' = status
        /\ \/ /\ r.op \in Completing /\ r.op \notin Releasing
              /\ reservation' = [reservation EXCEPT ![r.scan] = "deducted"]
           \/ /\ r.op \in Releasing /\ r.op \notin Completing
              /\ reservation' = [reservation EXCEPT ![r.scan] = "released"]
    BY <1>7 DEF MoveSettle, Goto, Settling, Completing, Releasing
  <2>2. reservation[r.scan] = "reserved" /\ r.scan \in Scan
    BY <2>1, FindsReserved
  <2>3. ScanOK(r.scan)'
    <3>1. ScanOK(r.scan) /\ Thread(r.scan, Settling, Begun)
      BY <2>1, <2>2 DEF ThreadsOK, Thread, Begun
    <3>2. /\ Thread(r.scan, {"create"}, Moved)' <=> Thread(r.scan, {"create"}, Moved)
          /\ Thread(r.scan, Completing, Moved)' <=>
                 Thread(r.scan, Completing, Moved) \/ r.op \in Completing
          /\ Thread(r.scan, Releasing, Moved)' <=>
                 Thread(r.scan, Releasing, Moved) \/ r.op \in Releasing
          /\ \A ops : Thread(r.scan, ops, {"done"})' <=> Thread(r.scan, ops, {"done"})
          /\ Thread(r.scan, Settling, Begun)'
          /\ Thread(r.scan, {"create"}, Begun)' <=> Thread(r.scan, {"create"}, Begun)
      <4>1. /\ "log" \in Begun /\ "log" \in Moved
            /\ pc' = [pc EXCEPT ![r] = "log"] /\ pc[r] \notin {"log", "done", "raised"}
        BY <2>1 DEF Begun, Moved
      <4>2. \A ops : Thread(r.scan, ops, Moved)' <=> Thread(r.scan, ops, Moved) \/ r.op \in ops
        BY <4>1, ThreadsGo
      <4>3. \A ops : Thread(r.scan, ops, {"done"})' <=> Thread(r.scan, ops, {"done"})
        BY <4>1, ThreadsGo
      <4>4. \A ops : Thread(r.scan, ops, Begun)' <=> Thread(r.scan, ops, Begun) \/ r.op \in ops
        BY <4>1, ThreadsGo
      <4>5. r.op \notin {"create"} /\ r.op \in Settling
        BY <2>1
      <4>6. QED BY <4>2, <4>3, <4>4, <4>5
    <3>3. \A type : HasEntry(r.scan, type)' <=> HasEntry(r.scan, type)
      BY <2>1 DEF HasEntry
    <3>4. ~Thread(r.scan, Completing, Moved) /\ ~Thread(r.scan, Releasing, Moved)
          /\ Thread(r.scan, {"create"}, Moved)
      BY <2>2, <3>1 DEF ScanOK
    <3>5. \/ r.op \in Completing /\ r.op \notin Releasing /\ reservation'[r.scan] = "deducted"
          \/ r.op \in Releasing /\ r.op \notin Completing /\ reservation'[r.scan] = "released"
      BY <1>t, <2>1, <2>2
    <3>6. QED BY <2>1, <3>1, <3>2, <3>3, <3>4, <3>5 DEF ScanOK
  <2>4. \A s \in Scan \ {r.scan} : reservation'[s] = reservation[s]
    BY <1>t, <2>1, <2>2
  <2>5. QED BY <2>1, <2>3, <2>4, QuietStep DEF Begun
<1>8. ASSUME NEW r \in Request, AppendEntry(r) PROVE ThreadsOK'
  <2> DEFINE e == [workspace |-> r.workspace, type |-> EntryOf[r.op], amount |-> AmountOf(r),
                   balance |-> seen[r], scan |-> r.scan]
             N == Len(ledger)
  <2>1. /\ pc[r] = "log" /\ pc' = [pc EXCEPT ![r] = "done"] /\ ledger' = Append(ledger, e)
        /\ reservation' = reservation /\ status' = status
    BY <1>8 DEF AppendEntry, Goto, Log
  <2>2. e.scan = r.scan /\ e.type = EntryOf[r.op]
    OBVIOUS
  <2>3. \/ r.op = "grant" /\ r.scan = NoScan
        \/ r.op = "create" /\ e.type = "reserve"
        \/ r.op \in Completing /\ e.type = "deduct"
        \/ r.op \in Releasing /\ e.type = "release"
    BY <2>2, Requests, EntryTypes DEF Ops, Settling
  <2> HIDE DEF e
  <2>4. \A s, type : HasEntry(s, type)' <=> HasEntry(s, type) \/ (r.scan = s /\ e.type = type)
    BY <1>t, <2>1, <2>2, HasMore
  <2>5. ASSUME NEW s \in Scan PROVE ScanOK(s)'
    <3>1. ScanOK(s)
      BY DEF ThreadsOK
    <3>2. /\ \A ops : Thread(s, ops, Moved)' <=> Thread(s, ops, Moved)
          /\ \A ops : Thread(s, ops, Begun)' <=> Thread(s, ops, Begun)
      <4>1. \A ops : r.op \in ops /\ r.scan = s => Thread(s, ops, Moved) /\ Thread(s, ops, Begun)
        BY <2>1 DEF Thread, Moved, Begun
      <4>2. QED BY <2>1, <4>1, ThreadsGo DEF Begun
    <3>3. \A ops : Thread(s, ops, {"done"})' <=>
                       Thread(s, ops, {"done"}) \/ (r.op \in ops /\ r.scan = s)
      BY <2>1, ThreadsGo DEF Begun
    <3>4. s # NoScan
      BY CreditAssumption
    <3>5. /\ HasEntry(s, "reserve")' <=> Thread(s, {"create"}, {"done"})'
          /\ HasEntry(s, "deduct")' <=> Thread(s, Completing, {"done"})'
          /\ HasEntry(s, "release")' <=> Thread(s, Releasing, {"done"})'
      BY <2>3, <2>4, <3>1, <3>3, <3>4 DEF ScanOK, Completing, Releasing
    <3>6. QED BY <2>1, <3>1, <3>2, <3>3, <3>5 DEF ScanOK
  <2>6. \A i \in 1..N :
            ledger[i].scan = r.scan /\ r.scan # NoScan
            => ledger[i].type = "reserve" /\ e.type \in {"deduct", "release"}
    <3>1. SUFFICES ASSUME NEW i \in 1..N, ledger[i].scan = r.scan, r.scan # NoScan
                   PROVE  ledger[i].type = "reserve" /\ e.type \in {"deduct", "release"}
      OBVIOUS
    <3>2. r.scan \in Scan
      BY <3>1, Requests
    <3>3. ledger[i].type \in {"reserve", "deduct", "release"}
      BY <1>t, <3>1 DEF Entry
    <3>4. HasEntry(r.scan, ledger[i].type) /\ ScanOK(r.scan)
      BY <3>1, <3>2 DEF HasEntry, ThreadsOK
    <3>5. r.op \in Settling => ~Thread(r.scan, Settling, {"done"})
      BY <2>1 DEF SettledByOne, Thread
    <3>6. r.op \in Settling => ~HasEntry(r.scan, "deduct") /\ ~HasEntry(r.scan, "release")
      BY <3>4, <3>5 DEF ScanOK, Thread, Settling
    <3>7. r.op = "create" => ~Thread(r.scan, {"create"}, {"done"})
      BY <2>1 DEF ThreadsOK, Thread
    <3>8. r.op = "create" => ~Thread(r.scan, Settling, Begun)
      BY <3>4, <3>7 DEF ScanOK
    <3>9. r.op = "create" => \A type \in {"reserve", "deduct", "release"} :
                                 ~HasEntry(r.scan, type)
      BY <3>4, <3>7, <3>8 DEF ScanOK, Thread, Settling, Begun
    <3>10. QED BY <2>3, <3>1, <3>3, <3>4, <3>6, <3>9 DEF Settling
  <2>7. ASSUME NEW i \in 1..Len(ledger'), NEW j \in 1..Len(ledger'), i < j,
               ledger'[i].scan = ledger'[j].scan, ledger'[i].scan # NoScan
        PROVE  ledger'[i].type = "reserve" /\ ledger'[j].type \in {"deduct", "release"}
    <3>1. /\ N \in Nat /\ Len(ledger') = N + 1 /\ ledger'[N + 1] = e
          /\ \A k \in 1..N : ledger'[k] = ledger[k]
      BY <1>t, <2>1
    <3>2. CASE j \in 1..N
      BY <2>7, <3>1, <3>2 DEF ThreadsOK
    <3>3. CASE j = N + 1
      <4>1. i \in 1..N /\ ledger[i].scan = r.scan /\ r.scan # NoScan
        BY <2>2, <2>7, <3>1, <3>3
      <4>2. QED BY <2>6, <3>1, <3>3, <4>1
    <3>4. QED BY <2>7, <3>1, <3>2, <3>3
  <2>8. /\ \A q \in Request : pc'[q] \in {pc[q], "done"} /\ (pc[q] = "idle" => pc'[q] = "idle")
    BY <1>t, <2>1
  <2>9. QED BY <2>5, <2>7, <2>8 DEF ThreadsOK
<1>9. CASE UNCHANGED vars
  <2>1. UNCHANGED <<pc, status, reservation, ledger>>
    BY <1>9 DEF vars, creditVars, threadVars
  <2>2. QED BY <2>1 DEF ThreadsOK, ScanOK, Thread, HasEntry
<1>10. QED BY <1>1, <1>2, <1>3, <1>4, <1>5, <1>6, <1>7, <1>8, <1>9 DEF Next

LEMMA InitThreads == Init => ThreadsOK
BY DEF Init, CreditInit, ThreadsOK, ScanOK, Thread, HasEntry, Begun, Moved

-----------------------------------------------------------------------------
\* What each step does to the credits a scan has at that moment, and to the counters.
Keeps == CreditNow' = CreditNow /\ UNCHANGED <<available, reserved, consumed>>

Granting(r) ==
    /\ r.op = "grant" /\ r.amount > 0 /\ CreditNow' = CreditNow
    /\ available' = [available EXCEPT ![r.workspace] = @ + r.amount]
    /\ UNCHANGED <<reserved, consumed>>

Holding(s) ==
    /\ CreditNow[s] = "none" /\ CreditNow' = [CreditNow EXCEPT ![s] = "reserved"]
    /\ available[WorkspaceOf[s]] >= 1
    /\ available' = [available EXCEPT ![WorkspaceOf[s]] = @ - 1]
    /\ reserved' = [reserved EXCEPT ![WorkspaceOf[s]] = @ + 1]
    /\ UNCHANGED consumed

Spending(s) ==
    /\ CreditNow[s] = "reserved" /\ CreditNow' = [CreditNow EXCEPT ![s] = "deducted"]
    /\ reserved' = [reserved EXCEPT ![WorkspaceOf[s]] = @ - 1]
    /\ consumed' = [consumed EXCEPT ![WorkspaceOf[s]] = @ + 1]
    /\ UNCHANGED available

Returning(s) ==
    /\ CreditNow[s] = "reserved" /\ CreditNow' = [CreditNow EXCEPT ![s] = "released"]
    /\ reserved' = [reserved EXCEPT ![WorkspaceOf[s]] = @ - 1]
    /\ available' = [available EXCEPT ![WorkspaceOf[s]] = @ + 1]
    /\ UNCHANGED consumed

LEMMA CreditTypes ==
    ASSUME ThreadsTypeOK
    PROVE  CreditNow \in [Scan -> ReservationStatus]
BY DEF ThreadsTypeOK, CreditTypeOK, CreditNow, ReservationStatus

\* A reservation about to be stored is of a scan that has none.
LEMMA NotYetStored ==
    ASSUME ThreadsTypeOK, ThreadsOK, NEW s \in Scan
    PROVE  /\ BeingReserved(s) => reservation[s] = "none"
           /\ CreditNow[s] = IF BeingReserved(s) THEN "reserved" ELSE reservation[s]
<1>1. ASSUME BeingReserved(s) PROVE ~Thread(s, {"create"}, Moved)
  <2>1. PICK r \in Request : r.op = "create" /\ r.scan = s /\ pc[r] = "move"
    BY <1>1 DEF BeingReserved
  <2>2. QED BY <2>1 DEF ThreadsOK, Thread, Moved
<1>2. ScanOK(s)
  BY DEF ThreadsOK
<1>3. QED BY <1>1, <1>2 DEF ScanOK, CreditNow

\* A step of a thread that does not go to or from the place of a reservation about to be
\* stored.
LEMMA CreditStays ==
    ASSUME ThreadsTypeOK, NEW r \in Request, NEW to, pc' = [pc EXCEPT ![r] = to],
           r.op = "create" => pc[r] # "move" /\ to # "move"
    PROVE  /\ \A s : BeingReserved(s)' <=> BeingReserved(s)
           /\ reservation' = reservation => CreditNow' = CreditNow
           /\ \A s \in Scan : \A new :
                  ~BeingReserved(s) /\ reservation' = [reservation EXCEPT ![s] = new]
                  => CreditNow' = [CreditNow EXCEPT ![s] = new]
<1>1. \A s : BeingReserved(s)' <=> BeingReserved(s)
  BY DEF BeingReserved, ThreadsTypeOK
<1>2. reservation' = reservation => CreditNow' = CreditNow
  BY <1>1 DEF CreditNow
<1>3. ASSUME NEW s \in Scan, NEW new, ~BeingReserved(s),
             reservation' = [reservation EXCEPT ![s] = new]
      PROVE  CreditNow' = [CreditNow EXCEPT ![s] = new]
  <2>1. \A x \in Scan : CreditNow'[x] = [CreditNow EXCEPT ![s] = new][x]
    BY <1>1, <1>3 DEF CreditNow, ThreadsTypeOK, CreditTypeOK
  <2>2. QED BY <2>1 DEF CreditNow
<1>4. QED BY <1>1, <1>2, <1>3

\* Every step is a grant, a hold, a spend or a return as a whole, or none of them.
LEMMA ThreadsSteps ==
    ASSUME SettledByOne, ThreadsTypeOK, ThreadsOK, [Next]_vars
    PROVE  \/ Keeps
           \/ \E r \in Request : Granting(r)
           \/ \E s \in Scan : Holding(s) \/ Spending(s) \/ Returning(s)
<1>t. /\ pc \in [Request -> {"idle"} \cup Begun] /\ reservation \in [Scan -> ReservationStatus]
  BY DEF ThreadsTypeOK, CreditTypeOK, Begun
<1>1. ASSUME NEW r \in Request, BeginGrant(r) \/ BeginCreate(r) \/ BeginSettle(r) \/ AppendEntry(r)
      PROVE  Keeps
  <2>1. PICK to \in {"move", "check", "done"} :
            pc' = [pc EXCEPT ![r] = to] /\ (r.op = "create" => to # "move" /\ pc[r] # "move")
    BY <1>1 DEF BeginGrant, BeginCreate, BeginSettle, AppendEntry, Goto, Settling, Completing,
                Releasing
  <2>2. UNCHANGED <<available, reserved, consumed, reservation>>
    BY <1>1 DEF BeginGrant, BeginCreate, BeginSettle, AppendEntry, creditVars
  <2>3. QED BY <2>1, <2>2, CreditStays DEF Keeps
<1>2. ASSUME NEW r \in Request, MoveGrant(r) PROVE Granting(r)
  <2>1. /\ r.op = "grant" /\ pc[r] = "move" /\ pc' = [pc EXCEPT ![r] = "log"]
        /\ reservation' = reservation
    BY <1>2 DEF MoveGrant, Goto
  <2>2. r.amount > 0
    BY <2>1 DEF ThreadsOK
  <2>3. CreditNow' = CreditNow
    BY <2>1, CreditStays
  <2>4. QED BY <1>2, <2>2, <2>3 DEF MoveGrant, Granting
<1>3. ASSUME NEW r \in Request, CheckReserve(r) PROVE Keeps \/ (r.scan \in Scan /\ Holding(r.scan))
  <2>1. r.op = "create" /\ r.scan \in Scan /\ pc[r] = "check" /\ reservation' = reservation
    BY <1>3, Requests DEF CheckReserve, Goto
  <2>2. CASE CanReserve(r.scan)
    <3> DEFINE s == r.scan
    <3>1. pc' = [pc EXCEPT ![r] = "move"]
      BY <1>3, <2>2 DEF CheckReserve, Goto
    <3>2. \A q \in Request \ {r} : q.op = "create" /\ q.scan = s => pc[q] = "idle"
      BY <2>1 DEF ThreadsOK
    <3>3. ~Thread(s, {"create"}, Moved) /\ ~BeingReserved(s)
      BY <2>1, <3>2 DEF Thread, Moved, BeingReserved
    <3>4. CreditNow[s] = "none"
      BY <2>1, <3>3, NotYetStored DEF ThreadsOK, ScanOK
    <3>5. BeingReserved(s)'
      BY <1>t, <2>1, <3>1 DEF BeingReserved
    <3>6. \A x \in Scan \ {s} : BeingReserved(x)' <=> BeingReserved(x)
      BY <1>t, <3>1 DEF BeingReserved
    <3>7. \A x \in Scan : CreditNow'[x] = [CreditNow EXCEPT ![s] = "reserved"][x]
      BY <2>1, <3>5, <3>6 DEF CreditNow
    <3>8. CreditNow' = [CreditNow EXCEPT ![s] = "reserved"]
      BY <3>7 DEF CreditNow
    <3>9. /\ available[WorkspaceOf[s]] >= 1
          /\ available' = [available EXCEPT ![WorkspaceOf[s]] = @ - 1]
          /\ reserved' = [reserved EXCEPT ![WorkspaceOf[s]] = @ + 1]
          /\ UNCHANGED consumed
      BY <1>3, <2>2 DEF CheckReserve, CanReserve
    <3>10. QED BY <2>1, <3>4, <3>8, <3>9 DEF Holding
  <2>3. CASE ~CanReserve(r.scan)
    <3>1. pc' = [pc EXCEPT ![r] = "raised"] /\ UNCHANGED <<available, reserved, consumed>>
      BY <1>3, <2>3 DEF CheckReserve, Goto
    <3>2. QED BY <2>1, <3>1, CreditStays DEF Keeps
  <2>4. QED BY <2>2, <2>3
<1>4. ASSUME NEW r \in Request, StoreReservation(r) PROVE Keeps
  <2> DEFINE s == r.scan
  <2>1. /\ r.op = "create" /\ s \in Scan /\ pc[r] = "move" /\ pc' = [pc EXCEPT ![r] = "log"]
        /\ reservation' = [reservation EXCEPT ![s] = "reserved"]
        /\ UNCHANGED <<available, reserved, consumed>>
    BY <1>4, Requests DEF StoreReservation, Goto
  <2>2. \A q \in Request \ {r} : q.op = "create" /\ q.scan = s => pc[q] = "idle"
    BY <2>1 DEF ThreadsOK
  <2>3. BeingReserved(s) /\ ~BeingReserved(s)'
    BY <1>t, <2>1, <2>2 DEF BeingReserved
  <2>4. \A x \in Scan \ {s} : BeingReserved(x)' <=> BeingReserved(x)
    BY <1>t, <2>1 DEF BeingReserved
  <2>5. \A x \in Scan : CreditNow'[x] = CreditNow[x]
    BY <1>t, <2>1, <2>3, <2>4 DEF CreditNow
  <2>6. QED BY <2>1, <2>5 DEF Keeps, CreditNow
<1>5. ASSUME NEW r \in Request, CheckSettle(r) PROVE Keeps
  <2>1. r.op # "create" /\ UNCHANGED creditVars /\ \E to : pc' = [pc EXCEPT ![r] = to]
    BY <1>5 DEF CheckSettle, Goto, Settling, Completing, Releasing
  <2>2. QED BY <2>1, CreditStays DEF Keeps, creditVars
<1>6. ASSUME NEW r \in Request, MoveSettle(r)
      PROVE  r.scan \in Scan /\ (Spending(r.scan) \/ Returning(r.scan))
  <2> DEFINE s == r.scan
  <2>1. r.op \in Settling /\ r.op # "create" /\ pc[r] = "move" /\ pc' = [pc EXCEPT ![r] = "log"]
    BY <1>6 DEF MoveSettle, Goto, Settling, Completing, Releasing
  <2>2. s \in Scan /\ reservation[s] = "reserved"
    BY <2>1, FindsReserved
  <2>3. ~BeingReserved(s) /\ CreditNow[s] = "reserved"
    BY <2>2, NotYetStored
  <2>4. \A new : reservation' = [reservation EXCEPT ![s] = new]
                 => CreditNow' = [CreditNow EXCEPT ![s] = new]
    BY <2>1, <2>2, <2>3, CreditStays
  <2>5. reserved' = [reserved EXCEPT ![WorkspaceOf[s]] = @ - 1]
    BY <1>6 DEF MoveSettle
  <2>6. \/ /\ consumed' = [consumed EXCEPT ![WorkspaceOf[s]] = @ + 1]
           /\ reservation' = [reservation EXCEPT ![s] = "deducted"]
           /\ UNCHANGED available
        \/ /\ available' = [available EXCEPT ![WorkspaceOf[s]] = @ + 1]
           /\ reservation' = [reservation EXCEPT ![s] = "released"]
           /\ UNCHANGED consumed
    BY <1>6 DEF MoveSettle
  <2>7. QED BY <2>2, <2>3, <2>4, <2>5, <2>6 DEF Spending, Returning
<1>7. CASE UNCHANGED vars
  BY <1>7 DEF vars, creditVars, threadVars, Keeps, CreditNow, BeingReserved
<1>8. QED BY <1>1, <1>2, <1>3, <1>4, <1>5, <1>6, <1>7 DEF Next

-----------------------------------------------------------------------------
\* The scans of workspace w whose credit is in a state now, and how their number changes
\* when one scan's credit does.
CountNow(w, state) == Cardinality({s \in Scan : WorkspaceOf[s] = w /\ CreditNow[s] = state})

Becomes(s, new) == CreditNow' = [CreditNow EXCEPT ![s] = new]

LEMMA CountsGo ==
    ASSUME ThreadsTypeOK, NEW s \in Scan, NEW new \in ReservationStatus, CreditNow[s] # new,
           Becomes(s, new), NEW w, NEW state
    PROVE  /\ w = WorkspaceOf[s] /\ state = new =>
                  CountNow(w, state)' = CountNow(w, state) + 1
           /\ w = WorkspaceOf[s] /\ state = CreditNow[s] =>
                  CountNow(w, state)' = CountNow(w, state) - 1
           /\ w # WorkspaceOf[s] \/ state \notin {new, CreditNow[s]} =>
                  CountNow(w, state)' = CountNow(w, state)
<1> DEFINE S == {x \in Scan : WorkspaceOf[x] = w /\ CreditNow[x] = state}
<1>1. IsFiniteSet(S) /\ Cardinality(S) \in Nat
  BY FS_Subset, FS_CardinalityType, CreditAssumption
<1>2. \A x \in Scan : CreditNow'[x] = IF x = s THEN new ELSE CreditNow[x]
  BY CreditTypes DEF Becomes
<1>3. w # WorkspaceOf[s] \/ state \notin {new, CreditNow[s]} => S' = S
  BY <1>2
<1>4. w = WorkspaceOf[s] /\ state = new => S' = S \cup {s} /\ s \notin S
  BY <1>2
<1>5. w = WorkspaceOf[s] /\ state = CreditNow[s] => S' = S \ {s} /\ s \in S
  BY <1>2
<1>6. w = WorkspaceOf[s] /\ state = new => Cardinality(S') = Cardinality(S) + 1
  BY <1>1, <1>4, FS_AddElement
<1>7. w = WorkspaceOf[s] /\ state = CreditNow[s] => Cardinality(S') = Cardinality(S) - 1
  BY <1>1, <1>5, FS_RemoveElement
<1>8. QED BY <1>3, <1>6, <1>7 DEF CountNow

\* The counters count, at every moment, the credits the scans have.
Counted ==
    \A w \in Workspace :
        /\ available[w] >= 0
        /\ reserved[w] = CountNow(w, "reserved")
        /\ consumed[w] = CountNow(w, "deducted")

LEMMA CountedStep ==
    ASSUME SettledByOne, ThreadsTypeOK, ThreadsOK, Counted, [Next]_vars
    PROVE  Counted'
<1>t. /\ available \in [Workspace -> Int] /\ reserved \in [Workspace -> Int]
      /\ consumed \in [Workspace -> Int] /\ CreditNow \in [Scan -> ReservationStatus]
  BY CreditTypes DEF ThreadsTypeOK, CreditTypeOK
<1> DEFINE Good(w) == /\ available'[w] >= 0
                      /\ reserved'[w] = CountNow(w, "reserved")'
                      /\ consumed'[w] = CountNow(w, "deducted")'
<1>1. CASE Keeps
  BY <1>1 DEF Keeps, Counted, CountNow
<1>2. ASSUME NEW r \in Request, Granting(r) PROVE Counted'
  <2>1. \A w \in Workspace : available'[w] >= 0
    BY <1>t, <1>2, Requests DEF Granting, Counted
  <2>2. QED BY <1>2, <2>1 DEF Granting, Counted, CountNow
<1>3. ASSUME NEW s \in Scan, Holding(s), NEW w \in Workspace PROVE Good(w)
  <2>1. CreditNow[s] = "none" /\ Becomes(s, "reserved")
    BY <1>3 DEF Holding, Becomes
  <2>2. /\ w = WorkspaceOf[s] =>
               CountNow(w, "reserved")' = CountNow(w, "reserved") + 1
        /\ w # WorkspaceOf[s] =>
               CountNow(w, "reserved")' = CountNow(w, "reserved")
        /\ CountNow(w, "deducted")' = CountNow(w, "deducted")
    <3>1. "reserved" \in ReservationStatus /\ CreditNow[s] # "reserved"
      BY <2>1 DEF ReservationStatus
    <3>2. w = WorkspaceOf[s] =>
              /\ CountNow(w, "reserved")' = CountNow(w, "reserved") + 1
              /\ CountNow(w, "none")' = CountNow(w, "none") - 1
      BY <2>1, <3>1, CountsGo
    <3>3. w # WorkspaceOf[s] =>
              /\ CountNow(w, "reserved")' = CountNow(w, "reserved")
              /\ CountNow(w, "deducted")' = CountNow(w, "deducted")
      BY <2>1, <3>1, CountsGo
    <3>4. CountNow(w, "deducted")' = CountNow(w, "deducted")
      BY <2>1, <3>1, CountsGo
    <3>5. QED BY <3>2, <3>3, <3>4
  <2>3. /\ w = WorkspaceOf[s] => available'[w] = available[w] - 1 /\ available[w] >= 1
                                 /\ reserved'[w] = reserved[w] + 1
        /\ w # WorkspaceOf[s] => available'[w] = available[w] /\ reserved'[w] = reserved[w]
        /\ consumed'[w] = consumed[w]
    BY <1>t, <1>3 DEF Holding
  <2>4. available[w] \in Int /\ available[w] >= 0
        /\ reserved[w] = CountNow(w, "reserved")
        /\ consumed[w] = CountNow(w, "deducted")
    BY <1>t DEF Counted
  <2>5. QED BY <2>2, <2>3, <2>4
<1>4. ASSUME NEW s \in Scan, Spending(s), NEW w \in Workspace PROVE Good(w)
  <2>1. CreditNow[s] = "reserved" /\ Becomes(s, "deducted")
    BY <1>4 DEF Spending, Becomes
  <2>2. /\ w = WorkspaceOf[s] =>
               /\ CountNow(w, "reserved")' = CountNow(w, "reserved") - 1
               /\ CountNow(w, "deducted")' = CountNow(w, "deducted") + 1
        /\ w # WorkspaceOf[s] =>
               /\ CountNow(w, "reserved")' = CountNow(w, "reserved")
               /\ CountNow(w, "deducted")' = CountNow(w, "deducted")
    <3>1. "deducted" \in ReservationStatus /\ CreditNow[s] # "deducted"
      BY <2>1 DEF ReservationStatus
    <3>2. w = WorkspaceOf[s] =>
              /\ CountNow(w, "deducted")' = CountNow(w, "deducted") + 1
              /\ CountNow(w, "reserved")' = CountNow(w, "reserved") - 1
      BY <2>1, <3>1, CountsGo
    <3>3. w # WorkspaceOf[s] =>
              /\ CountNow(w, "reserved")' = CountNow(w, "reserved")
              /\ CountNow(w, "deducted")' = CountNow(w, "deducted")
      BY <2>1, <3>1, CountsGo
    <3>4. QED BY <3>2, <3>3
  <2>3. /\ w = WorkspaceOf[s] => reserved'[w] = reserved[w] - 1 /\ consumed'[w] = consumed[w] + 1
        /\ w # WorkspaceOf[s] => reserved'[w] = reserved[w] /\ consumed'[w] = consumed[w]
        /\ available'[w] = available[w]
    BY <1>t, <1>4 DEF Spending
  <2>4. available[w] >= 0
        /\ reserved[w] = CountNow(w, "reserved")
        /\ consumed[w] = CountNow(w, "deducted")
    BY DEF Counted
  <2>5. QED BY <2>2, <2>3, <2>4
<1>5. ASSUME NEW s \in Scan, Returning(s), NEW w \in Workspace PROVE Good(w)
  <2>1. CreditNow[s] = "reserved" /\ Becomes(s, "released")
    BY <1>5 DEF Returning, Becomes
  <2>2. /\ w = WorkspaceOf[s] =>
               CountNow(w, "reserved")' = CountNow(w, "reserved") - 1
        /\ w # WorkspaceOf[s] =>
               CountNow(w, "reserved")' = CountNow(w, "reserved")
        /\ CountNow(w, "deducted")' = CountNow(w, "deducted")
    <3>1. "released" \in ReservationStatus /\ CreditNow[s] # "released"
      BY <2>1 DEF ReservationStatus
    <3>2. w = WorkspaceOf[s] =>
              /\ CountNow(w, "released")' = CountNow(w, "released") + 1
              /\ CountNow(w, "reserved")' = CountNow(w, "reserved") - 1
      BY <2>1, <3>1, CountsGo
    <3>3. w # WorkspaceOf[s] =>
              /\ CountNow(w, "reserved")' = CountNow(w, "reserved")
              /\ CountNow(w, "deducted")' = CountNow(w, "deducted")
      BY <2>1, <3>1, CountsGo
    <3>4. CountNow(w, "deducted")' = CountNow(w, "deducted")
      BY <2>1, <3>1, CountsGo
    <3>5. QED BY <3>2, <3>3, <3>4
  <2>3. /\ w = WorkspaceOf[s] => available'[w] = available[w] + 1 /\ reserved'[w] = reserved[w] - 1
        /\ w # WorkspaceOf[s] => available'[w] = available[w] /\ reserved'[w] = reserved[w]
        /\ consumed'[w] = consumed[w]
    BY <1>t, <1>5 DEF Returning
  <2>4. available[w] \in Int /\ available[w] >= 0
        /\ reserved[w] = CountNow(w, "reserved")
        /\ consumed[w] = CountNow(w, "deducted")
    BY <1>t DEF Counted
  <2>5. QED BY <2>2, <2>3, <2>4
<1>6. QED BY <1>1, <1>2, <1>3, <1>4, <1>5, ThreadsSteps DEF Counted

LEMMA InitCounted == Init => Counted
<1> SUFFICES ASSUME Init, NEW w \in Workspace
             PROVE  /\ available[w] >= 0
                    /\ reserved[w] = CountNow(w, "reserved")
                    /\ consumed[w] = CountNow(w, "deducted")
  BY DEF Counted
<1>1. \A s \in Scan : CreditNow[s] = "none"
  BY DEF Init, CreditInit, CreditNow, BeingReserved
<1>2. /\ {s \in Scan : WorkspaceOf[s] = w /\ CreditNow[s] = "reserved"} = {}
      /\ {s \in Scan : WorkspaceOf[s] = w /\ CreditNow[s] = "deducted"} = {}
  BY <1>1
<1>3. CountNow(w, "reserved") = 0 /\ CountNow(w, "deducted") = 0
  BY <1>2, FS_EmptySet DEF CountNow
<1>4. QED BY <1>3 DEF Init, CreditInit

\* Theorem: when no request is being served, the accounts are backed, the ledger tells
\* them and no closed scan holds a credit, if no scan was settled by two requests.
THEOREM ThreadsSettle ==
    ASSUME SettledByOne
    PROVE  Spec => []SettledAtRest
<1>1. ASSUME ThreadsTypeOK, ThreadsOK, Counted PROVE SettledAtRest
  <2>1. SUFFICES ASSUME AtRest
                 PROVE  /\ AccountsBacked /\ LedgerSettlesOnce
                        /\ \A s \in Scan : status[s] \notin {"absent", "queued"} =>
                                               reservation[s] # "reserved"
    BY DEF SettledAtRest
  <2>2. CreditNow = reservation
    <3>1. \A s : ~BeingReserved(s)
      BY <2>1 DEF AtRest, BeingReserved
    <3>2. QED BY <1>1, <3>1 DEF CreditNow, ThreadsTypeOK, CreditTypeOK
  <2>3. AccountsBacked
    BY <1>1, <2>2 DEF Counted, CountNow, AccountsBacked, InStatus
  <2>4. ASSUME NEW s \in Scan
        PROVE  /\ HasEntry(s, "reserve") <=> reservation[s] # "none"
               /\ HasEntry(s, "deduct") <=> reservation[s] = "deducted"
               /\ HasEntry(s, "release") <=> reservation[s] = "released"
               /\ status[s] \notin {"absent", "queued"} => reservation[s] # "reserved"
    <3>1. \A ops : Thread(s, ops, Moved) <=> Thread(s, ops, {"done"})
      BY <2>1 DEF Thread, Moved, AtRest
    <3>2. Thread(s, Settling, Begun) =>
              Thread(s, Completing, Moved) \/ Thread(s, Releasing, Moved)
      BY <1>1, <2>1 DEF Thread, Begun, Moved, AtRest, ThreadsOK, Settling
    <3>3. ScanOK(s)
      BY <1>1 DEF ThreadsOK
    <3>4. QED BY <3>1, <3>2, <3>3 DEF ScanOK
  <2>5. LedgerSettlesOnce
    BY <1>1, <2>4 DEF LedgerSettlesOnce, ThreadsOK
  <2>6. QED BY <2>3, <2>4, <2>5
<1>2. ThreadsTypeOK /\ ThreadsOK /\ [Next]_vars => ThreadsOK'
  BY ThreadsStep
<1>3. ThreadsTypeOK /\ ThreadsOK /\ Counted /\ [Next]_vars => Counted'
  BY CountedStep
<1>4. ThreadsTypeOK /\ ThreadsOK /\ Counted => SettledAtRest
  BY <1>1
<1>5. QED
  BY <1>2, <1>3, <1>4, InitThreadsTypes, InitThreads, InitCounted, ThreadsTypesStep, PTL DEF Spec

\* Theorem: under the same condition each operation takes effect at one moment of its run,
\* whatever the interleaving: the threads keep the contract of CreditContract.
THEOREM ThreadsAreAtomic ==
    ASSUME SettledByOne
    PROVE  Spec => OperationsAreAtomic
<1>1. Init => AtomicCredits!Init
  BY DEF Init, CreditInit, AtomicCredits!Init, CreditNow, BeingReserved
<1>2. ThreadsTypeOK /\ ThreadsOK /\ [Next]_vars => [AtomicCredits!Next]_(AtomicCredits!vars)
  <2> SUFFICES ASSUME ThreadsTypeOK, ThreadsOK, [Next]_vars
               PROVE  [AtomicCredits!Next]_(AtomicCredits!vars)
    OBVIOUS
  <2>1. CASE Keeps
    BY <2>1 DEF Keeps, AtomicCredits!vars
  <2>2. ASSUME NEW r \in Request, Granting(r) PROVE AtomicCredits!Next
    BY <2>2, Requests DEF Granting, AtomicCredits!Next, AtomicCredits!Grant
  <2>3. ASSUME NEW s \in Scan, Holding(s) PROVE AtomicCredits!Next
    BY <2>3 DEF Holding, AtomicCredits!Next, AtomicCredits!Hold
  <2>4. ASSUME NEW s \in Scan, Spending(s) PROVE AtomicCredits!Next
    BY <2>4 DEF Spending, AtomicCredits!Next, AtomicCredits!Spend
  <2>5. ASSUME NEW s \in Scan, Returning(s) PROVE AtomicCredits!Next
    BY <2>5 DEF Returning, AtomicCredits!Next, AtomicCredits!Return
  <2>6. QED BY <2>1, <2>2, <2>3, <2>4, <2>5, ThreadsSteps
<1>3. ThreadsTypeOK /\ ThreadsOK /\ [Next]_vars => ThreadsOK'
  BY ThreadsStep
<1>4. QED
  BY <1>1, <1>2, <1>3, InitThreadsTypes, InitThreads, ThreadsTypesStep, PTL
  DEF Spec, OperationsAreAtomic, AtomicCredits!Spec

-----------------------------------------------------------------------------
\* What holds whatever requests settle a scan, two of them too.  Only so many threads
\* have started; the sums below are over some of them.
Started == {r \in Request : pc[r] # "idle"}
FewStarted == IsFiniteSet(Started)

\* A step is a step of one thread.
LEMMA OneThread ==
    ASSUME [Next]_vars
    PROVE  pc' = pc \/ \E r \in Request, to \in Begun : pc' = [pc EXCEPT ![r] = to]
<1>1. ASSUME NEW r \in Request,
             \/ BeginGrant(r) \/ MoveGrant(r) \/ BeginCreate(r) \/ CheckReserve(r)
             \/ StoreReservation(r) \/ BeginSettle(r) \/ CheckSettle(r) \/ MoveSettle(r)
             \/ AppendEntry(r)
      PROVE  \E to \in Begun : pc' = [pc EXCEPT ![r] = to]
  BY <1>1 DEF BeginGrant, MoveGrant, BeginCreate, CheckReserve, StoreReservation, BeginSettle,
              CheckSettle, MoveSettle, AppendEntry, Goto, Begun
<1>2. CASE UNCHANGED vars
  BY <1>2 DEF vars, threadVars
<1>3. QED BY <1>1, <1>2 DEF Next

LEMMA FewStartedStep ==
    ASSUME ThreadsTypeOK, FewStarted, [Next]_vars
    PROVE  FewStarted'
<1>1. CASE pc' = pc
  BY <1>1 DEF FewStarted, Started
<1>2. ASSUME NEW r \in Request, NEW to, pc' = [pc EXCEPT ![r] = to] PROVE FewStarted'
  <2>1. Started' \subseteq Started \cup {r}
    BY <1>2 DEF Started, ThreadsTypeOK
  <2>2. IsFiniteSet(Started \cup {r})
    BY FS_AddElement DEF FewStarted
  <2>3. QED BY <2>1, <2>2, FS_Subset DEF FewStarted
<1>3. QED BY <1>1, <1>2, OneThread

LEMMA InitFewStarted == Init => FewStarted
<1> SUFFICES ASSUME Init PROVE FewStarted
  OBVIOUS
<1>1. Started = {}
  BY DEF Init, Started
<1>2. QED BY <1>1, FS_EmptySet DEF FewStarted

\* The grants grow by the one that moves the account.
LEMMA GrantsGo ==
    ASSUME ThreadsTypeOK, FewStarted, NEW r \in Request, NEW to, pc' = [pc EXCEPT ![r] = to],
           NEW w
    PROVE  /\ Granted(w) \in Int
           /\ r.op = "grant" /\ r.workspace = w /\ pc[r] \notin Moved /\ to \in Moved =>
                  Granted(w)' = Granted(w) + r.amount
           /\ r.op # "grant" \/ r.workspace # w \/ (pc[r] \in Moved <=> to \in Moved) =>
                  Granted(w)' = Granted(w)
<1> DEFINE G == GrantsMoved(w)
           H == GrantsMoved(w)'
           f == [q \in Request |-> q.amount]
<1>1. pc \in [Request -> {"idle"} \cup Begun] /\ \A q \in Request : f[q] \in Int
  BY Requests DEF ThreadsTypeOK, Begun
<1>2. IsFiniteSet(G)
  <2>1. G \subseteq Started
    BY DEF GrantsMoved, Started
  <2>2. QED BY <2>1, FS_Subset DEF FewStarted
<1>3. Granted(w) = SumFunctionOnSet(f, G) /\ Granted(w)' = SumFunctionOnSet(f, H)
  BY DEF Granted
<1>4. r.op = "grant" /\ r.workspace = w /\ pc[r] \notin Moved /\ to \in Moved =>
          H = G \cup {r} /\ r \notin G
  BY <1>1 DEF GrantsMoved, Moved
<1>5. r.op # "grant" \/ r.workspace # w \/ (pc[r] \in Moved <=> to \in Moved) => H = G
  BY <1>1 DEF GrantsMoved, Moved
<1>6. G \subseteq Request /\ f[r] = r.amount
  BY DEF GrantsMoved
<1> HIDE DEF G, H, f
<1>7. SumFunctionOnSet(f, G) \in Int
  BY <1>1, <1>2, <1>6, SumRemove
<1>8. r \notin G => SumFunctionOnSet(f, G \cup {r}) = f[r] + SumFunctionOnSet(f, G)
  BY <1>1, <1>2, <1>6, SumAdd
<1>9. r.amount \in Int
  BY Requests
<1>10. r.op = "grant" /\ r.workspace = w /\ pc[r] \notin Moved /\ to \in Moved =>
           Granted(w)' = f[r] + SumFunctionOnSet(f, G)
  BY <1>3, <1>4, <1>8, Zenon
<1>11. r.op # "grant" \/ r.workspace # w \/ (pc[r] \in Moved <=> to \in Moved) =>
           Granted(w)' = SumFunctionOnSet(f, G)
  BY <1>3, <1>5, Zenon
<1>12. QED BY <1>3, <1>6, <1>7, <1>9, <1>10, <1>11

\* Each step moves credits between the counters of one account, or grants some.
LEMMA TotalStep ==
    ASSUME ThreadsTypeOK, FewStarted, TotalIsGranted, [Next]_vars
    PROVE  TotalIsGranted'
<1>t. /\ available \in [Workspace -> Int] /\ reserved \in [Workspace -> Int]
      /\ consumed \in [Workspace -> Int]
  BY DEF ThreadsTypeOK, CreditTypeOK
<1> SUFFICES ASSUME NEW w \in Workspace PROVE Total(w)' = Granted(w)'
  BY DEF TotalIsGranted
<1>i. Total(w) = Granted(w)
  BY DEF TotalIsGranted
<1>1. ASSUME NEW r \in Request, BeginGrant(r) \/ BeginCreate(r) \/ BeginSettle(r)
                                \/ CheckSettle(r) \/ AppendEntry(r)
      PROVE  Total(w)' = Granted(w)'
  <2>1. \E to : /\ pc' = [pc EXCEPT ![r] = to]
                /\ r.op = "grant" => (pc[r] \in Moved <=> to \in Moved)
    BY <1>1 DEF BeginGrant, BeginCreate, BeginSettle, CheckSettle, AppendEntry, Goto, Moved,
                Settling, Completing, Releasing
  <2>2. Granted(w)' = Granted(w)
    BY <2>1, GrantsGo
  <2>3. UNCHANGED <<available, reserved, consumed>>
    BY <1>1 DEF BeginGrant, BeginCreate, BeginSettle, CheckSettle, AppendEntry, creditVars
  <2>4. QED BY <1>i, <2>2, <2>3 DEF Total
<1>2. ASSUME NEW r \in Request, MoveGrant(r) PROVE Total(w)' = Granted(w)'
  <2>1. /\ r.op = "grant" /\ pc[r] = "move" /\ pc' = [pc EXCEPT ![r] = "log"]
        /\ available' = [available EXCEPT ![r.workspace] = @ + r.amount]
        /\ UNCHANGED <<reserved, consumed>>
    BY <1>2 DEF MoveGrant, Goto
  <2>2. /\ Granted(w) \in Int
        /\ r.workspace = w => Granted(w)' = Granted(w) + r.amount
        /\ r.workspace # w => Granted(w)' = Granted(w)
    BY <2>1, GrantsGo DEF Moved
  <2>3. /\ r.workspace = w => available'[w] = available[w] + r.amount
        /\ r.workspace # w => available'[w] = available[w]
    BY <1>t, <2>1
  <2>4. r.amount \in Int /\ available[w] \in Int /\ reserved[w] \in Int /\ consumed[w] \in Int
    BY <1>t, Requests
  <2>5. QED BY <1>i, <2>1, <2>2, <2>3, <2>4 DEF Total
<1>3. ASSUME NEW r \in Request, CheckReserve(r) \/ StoreReservation(r) \/ MoveSettle(r)
      PROVE  Total(w)' = Granted(w)'
  <2>1. r.op # "grant" /\ \E to : pc' = [pc EXCEPT ![r] = to]
    BY <1>3 DEF CheckReserve, StoreReservation, MoveSettle, Goto, Settling, Completing, Releasing
  <2>2. Granted(w)' = Granted(w)
    BY <2>1, GrantsGo
  <2>3. r.op # "grant" => WorkspaceOf[r.scan] \in Workspace
    BY Requests
  <2>4. Total(w)' = Total(w)
    <3>1. CASE CheckReserve(r)
      BY <1>t, <2>1, <2>3, <3>1 DEF CheckReserve, Total
    <3>2. CASE StoreReservation(r)
      BY <3>2 DEF StoreReservation, Total
    <3>3. CASE MoveSettle(r)
      BY <1>t, <2>1, <2>3, <3>3 DEF MoveSettle, Total
    <3>4. QED BY <1>3, <3>1, <3>2, <3>3
  <2>5. QED BY <1>i, <2>2, <2>4
<1>4. CASE UNCHANGED vars
  BY <1>i, <1>4 DEF vars, creditVars, threadVars, Total, Granted, GrantsMoved
<1>5. QED BY <1>1, <1>2, <1>3, <1>4 DEF Next

LEMMA InitTotal == Init => TotalIsGranted
<1> SUFFICES ASSUME Init, NEW w \in Workspace PROVE Total(w) = Granted(w)
  BY DEF TotalIsGranted
<1>1. GrantsMoved(w) = {}
  BY DEF Init, GrantsMoved
<1>2. Granted(w) = 0
  BY <1>1, SumStep, FS_EmptySet DEF Granted
<1>3. QED BY <1>2 DEF Init, CreditInit, Total

\* Theorem: whatever the interleaving, and however many requests settle one scan, the
\* counters of an account add up to its grants: no update is lost.
THEOREM ThreadsConserveCredits == Spec => []TotalIsGranted
<1>1. ThreadsTypeOK /\ FewStarted /\ [Next]_vars => FewStarted'
  BY FewStartedStep
<1>2. ThreadsTypeOK /\ FewStarted /\ TotalIsGranted /\ [Next]_vars => TotalIsGranted'
  BY TotalStep
<1>3. QED
  BY <1>1, <1>2, InitThreadsTypes, InitFewStarted, InitTotal, ThreadsTypesStep, PTL DEF Spec

-----------------------------------------------------------------------------
\* Theorem: for scans that are each settled by one request, no interleaving lets more
\* scans hold or have spent a credit than were granted.
THEOREM ThreadsNeverOverReserve ==
    ASSUME SettledByOne
    PROVE  Spec => []NeverOverReserved
<1>1. ASSUME ThreadsTypeOK, ThreadsOK, Counted, TotalIsGranted PROVE NeverOverReserved
  <2> SUFFICES ASSUME NEW w \in Workspace
               PROVE  Cardinality(InStatus(w, "reserved") \cup InStatus(w, "deducted")) <= Granted(w)
    BY DEF NeverOverReserved
  <2> DEFINE R == {s \in Scan : WorkspaceOf[s] = w /\ CreditNow[s] = "reserved"}
             D == {s \in Scan : WorkspaceOf[s] = w /\ CreditNow[s] = "deducted"}
             I == InStatus(w, "reserved") \cup InStatus(w, "deducted")
  <2>1. I \subseteq R \cup D
    BY <1>1, NotYetStored DEF InStatus
  <2>2. R \cap D = {} /\ R \subseteq Scan /\ D \subseteq Scan
    OBVIOUS
  <2>3. reserved[w] = Cardinality(R) /\ consumed[w] = Cardinality(D) /\ available[w] >= 0
    BY <1>1 DEF Counted, CountNow
  <2> HIDE DEF R, D, I
  <2>4. IsFiniteSet(R) /\ IsFiniteSet(D)
    BY <2>2, FS_Subset, CreditAssumption
  <2>5. IsFiniteSet(R \cup D) /\ Cardinality(R \cup D) = Cardinality(R) + Cardinality(D)
    <3>1. /\ IsFiniteSet(R \cup D)
          /\ Cardinality(R \cup D) = Cardinality(R) + Cardinality(D) - Cardinality(R \cap D)
      BY <2>4, FS_Union
    <3>2. Cardinality(R \cap D) = 0
      BY <2>2, FS_EmptySet
    <3>3. Cardinality(R) \in Nat /\ Cardinality(D) \in Nat
      BY <2>4, FS_CardinalityType
    <3>4. QED BY <3>1, <3>2, <3>3
  <2>6. Cardinality(I) <= Cardinality(R \cup D)
    BY <2>1, <2>5, FS_Subset
  <2>7. /\ Cardinality(I) \in Nat /\ Cardinality(R) \in Nat /\ Cardinality(D) \in Nat
        /\ available[w] \in Int
    <3>1. IsFiniteSet(I)
      BY <2>1, <2>5, FS_Subset
    <3>2. QED BY <1>1, <2>4, <3>1, FS_CardinalityType DEF ThreadsTypeOK, CreditTypeOK
  <2>8. Granted(w) = available[w] + reserved[w] + consumed[w]
    BY <1>1 DEF TotalIsGranted, Total
  <2>9. Cardinality(I) <= Granted(w)
    BY <2>3, <2>5, <2>6, <2>7, <2>8
  <2>10. QED BY <2>9 DEF I
<1>2. ThreadsTypeOK /\ ThreadsOK /\ [Next]_vars => ThreadsOK'
  BY ThreadsStep
<1>3. ThreadsTypeOK /\ ThreadsOK /\ Counted /\ [Next]_vars => Counted'
  BY CountedStep
<1>4. ThreadsTypeOK /\ ThreadsOK /\ Counted /\ TotalIsGranted => NeverOverReserved
  BY <1>1
<1>5. QED
  BY <1>2, <1>3, <1>4, InitThreadsTypes, InitThreads, InitCounted, ThreadsTypesStep,
     ThreadsConserveCredits, PTL DEF Spec

-----------------------------------------------------------------------------
\* No account is overdrawn: reserve_for_scan looks at the balance and takes the credit
\* with no call between, a grant that moves an account is positive, and nothing else
\* takes credits from the balance.
NeverOverdrawn == \A w \in Workspace : available[w] >= 0

GrantsPositive == \A r \in Request : r.op = "grant" /\ pc[r] # "idle" => r.amount > 0

LEMMA OverdrawnStep ==
    ASSUME ThreadsTypeOK, GrantsPositive, NeverOverdrawn, [Next]_vars
    PROVE  GrantsPositive' /\ NeverOverdrawn'
<1>t. available \in [Workspace -> Int] /\ pc \in [Request -> {"idle"} \cup Begun]
  BY DEF ThreadsTypeOK, CreditTypeOK, Begun
<1>1. ASSUME NEW r \in Request, BeginGrant(r) PROVE GrantsPositive' /\ NeverOverdrawn'
  BY <1>t, <1>1 DEF BeginGrant, Goto, GrantsPositive, NeverOverdrawn, creditVars
<1>2. ASSUME NEW r \in Request, MoveGrant(r) PROVE GrantsPositive' /\ NeverOverdrawn'
  <2>1. r.op = "grant" /\ pc[r] = "move" /\ pc' = [pc EXCEPT ![r] = "log"]
        /\ available' = [available EXCEPT ![r.workspace] = @ + r.amount]
    BY <1>2 DEF MoveGrant, Goto
  <2>2. r.amount > 0 /\ r.amount \in Int
    BY <2>1, Requests DEF GrantsPositive
  <2>3. \A w \in Workspace : available'[w] \in {available[w], available[w] + r.amount}
    BY <1>t, <2>1
  <2>4. QED BY <1>t, <2>1, <2>2, <2>3 DEF GrantsPositive, NeverOverdrawn
<1>3. ASSUME NEW r \in Request, BeginCreate(r) \/ StoreReservation(r) \/ BeginSettle(r)
                                \/ CheckSettle(r) \/ AppendEntry(r)
      PROVE  GrantsPositive' /\ NeverOverdrawn'
  <2>1. available' = available
    BY <1>3 DEF BeginCreate, StoreReservation, BeginSettle, CheckSettle, AppendEntry, creditVars
  <2>2. (r.op # "grant" \/ pc[r] # "idle") /\ \E to : pc' = [pc EXCEPT ![r] = to]
    BY <1>3 DEF BeginCreate, StoreReservation, BeginSettle, CheckSettle, AppendEntry, Goto,
                Settling, Completing, Releasing
  <2>3. QED BY <1>t, <2>1, <2>2 DEF GrantsPositive, NeverOverdrawn
<1>4. ASSUME NEW r \in Request, CheckReserve(r) PROVE GrantsPositive' /\ NeverOverdrawn'
  <2>1. WorkspaceOf[r.scan] \in Workspace /\ r.op = "create"
    BY <1>4, Requests DEF CheckReserve
  <2>2. \E to : pc' = [pc EXCEPT ![r] = to]
    BY <1>4 DEF CheckReserve, Goto
  <2>3. \/ available' = available
        \/ /\ available[WorkspaceOf[r.scan]] >= 1
           /\ available' = [available EXCEPT ![WorkspaceOf[r.scan]] = @ - 1]
    BY <1>4 DEF CheckReserve, CanReserve
  <2>4. QED BY <1>t, <2>1, <2>2, <2>3 DEF GrantsPositive, NeverOverdrawn
<1>5. ASSUME NEW r \in Request, MoveSettle(r) PROVE GrantsPositive' /\ NeverOverdrawn'
  <2>1. r.op # "grant" /\ \E to : pc' = [pc EXCEPT ![r] = to]
    BY <1>5 DEF MoveSettle, Goto, Settling, Completing, Releasing
  <2>2. available' = available \/ available' = [available EXCEPT ![WorkspaceOf[r.scan]] = @ + 1]
    BY <1>5 DEF MoveSettle
  <2>3. \A w \in Workspace : available'[w] \in {available[w], available[w] + 1}
    BY <1>t, <2>2
  <2>4. QED BY <1>t, <2>1, <2>3 DEF GrantsPositive, NeverOverdrawn
<1>6. CASE UNCHANGED vars
  BY <1>6 DEF vars, creditVars, threadVars, GrantsPositive, NeverOverdrawn
<1>7. QED BY <1>1, <1>2, <1>3, <1>4, <1>5, <1>6 DEF Next

\* Theorem: no interleaving overdraws an account, not even one in which two requests
\* settle the same scan.
THEOREM ThreadsNeverOverdraw == Spec => []NeverOverdrawn
<1>1. Init => GrantsPositive /\ NeverOverdrawn
  BY DEF Init, CreditInit, GrantsPositive, NeverOverdrawn
<1>2. ThreadsTypeOK /\ GrantsPositive /\ NeverOverdrawn /\ [Next]_vars
      => GrantsPositive' /\ NeverOverdrawn'
  BY OverdrawnStep
<1>3. QED BY <1>1, <1>2, InitThreadsTypes, ThreadsTypesStep, PTL DEF Spec

-----------------------------------------------------------------------------
\* What the ledger tells grows by the amount of the entry appended.
LEMMA ToldGoes ==
    ASSUME ThreadsTypeOK, NEW w, NEW types
    PROVE  /\ Told(w, types) \in Int
           /\ \A e : ledger' = Append(ledger, e) /\ e.amount \in Int =>
                  /\ e.workspace = w /\ e.type \in types =>
                         Told(w, types)' = Told(w, types) + e.amount
                  /\ e.workspace # w \/ e.type \notin types =>
                         Told(w, types)' = Told(w, types)
<1> DEFINE N == Len(ledger)
           S == {i \in DOMAIN ledger : ledger[i].workspace = w /\ ledger[i].type \in types}
           f == [i \in DOMAIN ledger |-> ledger[i].amount]
<1>1. /\ ledger \in Seq(Entry) /\ N \in Nat /\ DOMAIN ledger = 1..N
      /\ \A i \in 1..N : f[i] \in Int
  <2>1. ledger \in Seq(Entry)
    BY DEF ThreadsTypeOK, CreditTypeOK
  <2>2. \A i \in 1..N : ledger[i] \in Entry
    BY <2>1
  <2>3. \A x \in Entry : x.amount \in Int
    BY DEF Entry
  <2>4. QED BY <2>1, <2>2, <2>3
<1>2. S \subseteq 1..N /\ IsFiniteSet(S) /\ \A i \in S : f[i] \in Int
  <2>1. IsFiniteSet(1..N)
    BY <1>1, FS_Interval
  <2>2. S \subseteq 1..N
    BY <1>1
  <2>3. QED BY <1>1, <2>1, <2>2, FS_Subset
<1>3. Told(w, types) = SumFunctionOnSet(f, S)
  BY DEF Told
<1>4. SumFunctionOnSet(f, S) \in Int
  <2> HIDE DEF f, S
  <2>1. QED BY <1>2, SumRemove
<1>5. ASSUME NEW e, ledger' = Append(ledger, e), e.amount \in Int
      PROVE  /\ e.workspace = w /\ e.type \in types =>
                    Told(w, types)' = Told(w, types) + e.amount
             /\ e.workspace # w \/ e.type \notin types =>
                    Told(w, types)' = Told(w, types)
  <2> DEFINE g == [i \in DOMAIN ledger' |-> ledger'[i].amount]
             T == {i \in DOMAIN ledger' :
                       ledger'[i].workspace = w /\ ledger'[i].type \in types}
             n == N + 1
  <2>1. /\ DOMAIN ledger' = 1..n /\ n \in 1..n /\ n \notin 1..N /\ ledger'[n] = e
        /\ \A i \in 1..N : i \in 1..n /\ ledger'[i] = ledger[i]
        /\ \A i \in 1..n : i \in 1..N \/ i = n
    BY <1>1, <1>5
  <2>2. Told(w, types)' = SumFunctionOnSet(g, T)
    BY DEF Told
  <2>3. g[n] = e.amount /\ \A i \in 1..N : g[i] = f[i]
    BY <1>1, <2>1
  <2>4. /\ e.workspace = w /\ e.type \in types => T = S \cup {n}
        /\ e.workspace # w \/ e.type \notin types => T = S
    BY <1>1, <2>1
  <2> HIDE DEF f, S, g, T, n
  <2>5. SumFunctionOnSet(f, S) = SumFunctionOnSet(g, S)
    BY <1>2, <2>3, SumSame
  <2>6. SumFunctionOnSet(g, S \cup {n}) = g[n] + SumFunctionOnSet(g, S)
    <3>1. n \notin S /\ \A i \in S \cup {n} : g[i] \in Int
      BY <1>2, <1>5, <2>1, <2>3
    <3>2. QED BY <1>2, <3>1, SumAdd
  <2>7. e.workspace = w /\ e.type \in types => Told(w, types)' = g[n] + SumFunctionOnSet(g, S)
    BY <2>2, <2>4, <2>6, Zenon
  <2>8. e.workspace # w \/ e.type \notin types => Told(w, types)' = SumFunctionOnSet(g, S)
    BY <2>2, <2>4, Zenon
  <2>9. QED BY <1>3, <1>4, <1>5, <2>3, <2>5, <2>7, <2>8
<1>6. QED BY <1>3, <1>4, <1>5

\* The places at which r owes an entry.
Owing(r) == IF r.op = "create" THEN {"move", "log"} ELSE {"log"}

\* What threads are still to append changes by the entry of the thread that steps.
OwedChange(r, to, w, types) ==
    IF r.workspace # w \/ EntryOf[r.op] \notin types \/ (pc[r] \in Owing(r) <=> to \in Owing(r))
    THEN 0
    ELSE IF to \in Owing(r) THEN AmountOf(r) ELSE -AmountOf(r)

LEMMA OwedGoes ==
    ASSUME ThreadsTypeOK, FewStarted, NEW r \in Request, NEW to, pc' = [pc EXCEPT ![r] = to],
           NEW w, NEW types
    PROVE  /\ Owed(w, types) \in Int
           /\ Owed(w, types)' = Owed(w, types) + OwedChange(r, to, w, types)
<1> DEFINE Mine(q) == q.workspace = w /\ EntryOf[q.op] \in types
           S == {q \in Request : q.workspace = w /\ EntryOf[q.op] \in types /\ Owes(q)}
           T == {q \in Request : q.workspace = w /\ EntryOf[q.op] \in types /\ Owes(q)'}
           f == [q \in Request |-> AmountOf(q)]
<1>1. pc \in [Request -> {"idle"} \cup Begun] /\ \A q \in Request : f[q] \in Int
  BY EntryTypes DEF ThreadsTypeOK, Begun
<1>2. IsFiniteSet(S)
  <2>1. S \subseteq Started
    BY DEF Started, Owes
  <2>2. QED BY <2>1, FS_Subset DEF FewStarted
<1>3. Owed(w, types) = SumFunctionOnSet(f, S) /\ Owed(w, types)' = SumFunctionOnSet(f, T)
  BY DEF Owed
<1>4. /\ Owes(r) <=> pc[r] \in Owing(r)
      /\ Owes(r)' <=> to \in Owing(r)
      /\ \A q \in Request \ {r} : Owes(q)' <=> Owes(q)
  BY <1>1 DEF Owes, Owing
<1>5. /\ Mine(r) /\ pc[r] \notin Owing(r) /\ to \in Owing(r) => T = S \cup {r} /\ r \notin S
      /\ Mine(r) /\ pc[r] \in Owing(r) /\ to \notin Owing(r) => T = S \ {r} /\ r \in S
      /\ ~Mine(r) \/ (pc[r] \in Owing(r) <=> to \in Owing(r)) => T = S
  BY <1>4
<1>6. S \subseteq Request /\ f[r] = AmountOf(r) /\ AmountOf(r) \in Int
  BY EntryTypes
<1> HIDE DEF S, T, f
<1>7. /\ SumFunctionOnSet(f, S) \in Int
      /\ r \in S => SumFunctionOnSet(f, S) = f[r] + SumFunctionOnSet(f, S \ {r})
  BY <1>1, <1>2, <1>6, SumRemove
<1>8. SumFunctionOnSet(f, S \ {r}) \in Int
  <2>1. IsFiniteSet(S \ {r}) /\ \A q \in S \ {r} : f[q] \in Int
    BY <1>1, <1>2, <1>6, FS_Subset
  <2>2. QED BY <2>1, SumRemove
<1>9. r \notin S => SumFunctionOnSet(f, S \cup {r}) = f[r] + SumFunctionOnSet(f, S)
  BY <1>1, <1>2, <1>6, SumAdd
<1>10. Mine(r) /\ pc[r] \notin Owing(r) /\ to \in Owing(r) =>
           Owed(w, types)' = f[r] + SumFunctionOnSet(f, S)
  BY <1>3, <1>5, <1>9, Zenon
<1>11. Mine(r) /\ pc[r] \in Owing(r) /\ to \notin Owing(r) =>
           Owed(w, types)' = SumFunctionOnSet(f, S \ {r}) /\ r \in S
  BY <1>3, <1>5, Zenon
<1>12. ~Mine(r) \/ (pc[r] \in Owing(r) <=> to \in Owing(r)) =>
           Owed(w, types)' = SumFunctionOnSet(f, S)
  BY <1>3, <1>5, Zenon
<1>13. QED BY <1>3, <1>6, <1>7, <1>8, <1>10, <1>11, <1>12 DEF OwedChange

\* The counters of w move as the entry says that r is to append for it.
Moves(r, w) ==
    /\ available'[w] = available[w] + (IF r.workspace = w /\ EntryOf[r.op] # "deduct"
                                          THEN AmountOf(r) ELSE 0)
    /\ consumed'[w] = consumed[w] - (IF r.workspace = w /\ EntryOf[r.op] = "deduct"
                                        THEN AmountOf(r) ELSE 0)

\* Every step keeps the account and the ledger alone, or moves the account and from then on
\* owes the entry, or appends it.
LEMMA LedgerSteps ==
    ASSUME ThreadsTypeOK, [Next]_vars, NEW w \in Workspace
    PROVE  \/ UNCHANGED <<available, consumed, ledger, pc>>
           \/ \E r \in Request, to \in Begun :
                  /\ pc' = [pc EXCEPT ![r] = to]
                  /\ \/ /\ UNCHANGED <<available, consumed, ledger>>
                        /\ pc[r] \in Owing(r) <=> to \in Owing(r)
                     \/ /\ pc[r] \notin Owing(r) /\ to \in Owing(r)
                        /\ Moves(r, w) /\ UNCHANGED ledger
                     \/ /\ pc[r] \in Owing(r) /\ to \notin Owing(r)
                        /\ UNCHANGED <<available, consumed>>
                        /\ Log(r.workspace, EntryOf[r.op], AmountOf(r), seen[r], r.scan)
<1>t. available \in [Workspace -> Int] /\ consumed \in [Workspace -> Int]
  BY DEF ThreadsTypeOK, CreditTypeOK
<1>1. ASSUME NEW r \in Request, BeginGrant(r) \/ BeginCreate(r) \/ BeginSettle(r) \/ CheckSettle(r)
                                \/ StoreReservation(r)
      PROVE  \E to \in Begun : /\ pc' = [pc EXCEPT ![r] = to]
                               /\ UNCHANGED <<available, consumed, ledger>>
                               /\ pc[r] \in Owing(r) <=> to \in Owing(r)
  <2>1. UNCHANGED <<available, consumed, ledger>>
    BY <1>1 DEF BeginGrant, BeginCreate, BeginSettle, CheckSettle, StoreReservation, creditVars
  <2>2. \E to \in Begun : pc' = [pc EXCEPT ![r] = to] /\ (pc[r] \in Owing(r) <=> to \in Owing(r))
    BY <1>1 DEF BeginGrant, BeginCreate, BeginSettle, CheckSettle, StoreReservation, Goto, Owing,
                Begun, Settling, Completing, Releasing
  <2>3. QED BY <2>1, <2>2
<1>2. ASSUME NEW r \in Request, MoveGrant(r)
      PROVE  /\ pc' = [pc EXCEPT ![r] = "log"] /\ "log" \in Begun
             /\ pc[r] \notin Owing(r) /\ "log" \in Owing(r) /\ Moves(r, w) /\ UNCHANGED ledger
  <2>1. /\ r.op = "grant" /\ pc[r] = "move" /\ pc' = [pc EXCEPT ![r] = "log"]
        /\ available' = [available EXCEPT ![r.workspace] = @ + r.amount]
        /\ UNCHANGED <<consumed, ledger>>
    BY <1>2 DEF MoveGrant, Goto
  <2>2. EntryOf[r.op] = "grant" /\ AmountOf(r) = r.amount /\ r.amount \in Int
    BY <2>1, Requests, EntryTypes DEF AmountOf
  <2>3. Moves(r, w)
    BY <1>t, <2>1, <2>2 DEF Moves
  <2>4. QED BY <2>1, <2>3 DEF Owing, Begun
<1>3. ASSUME NEW r \in Request, CheckReserve(r)
      PROVE  \E to \in Begun :
                 /\ pc' = [pc EXCEPT ![r] = to]
                 /\ \/ /\ UNCHANGED <<available, consumed, ledger>>
                       /\ pc[r] \in Owing(r) <=> to \in Owing(r)
                    \/ /\ pc[r] \notin Owing(r) /\ to \in Owing(r)
                       /\ Moves(r, w) /\ UNCHANGED ledger
  <2>1. /\ r.op = "create" /\ pc[r] = "check" /\ UNCHANGED <<consumed, ledger>>
        /\ \/ /\ pc' = [pc EXCEPT ![r] = "move"]
              /\ available' = [available EXCEPT ![WorkspaceOf[r.scan]] = @ - 1]
           \/ pc' = [pc EXCEPT ![r] = "raised"] /\ UNCHANGED available
    BY <1>3 DEF CheckReserve, Goto
  <2>2. EntryOf[r.op] = "reserve" /\ AmountOf(r) = -1 /\ r.workspace = WorkspaceOf[r.scan]
    BY <2>1, Requests, EntryTypes DEF AmountOf
  <2>3. CASE pc' = [pc EXCEPT ![r] = "raised"] /\ UNCHANGED available
    BY <2>1, <2>3 DEF Owing, Begun
  <2>4. CASE /\ pc' = [pc EXCEPT ![r] = "move"]
             /\ available' = [available EXCEPT ![WorkspaceOf[r.scan]] = @ - 1]
    <3>1. Moves(r, w)
      BY <1>t, <2>1, <2>2, <2>4 DEF Moves
    <3>2. QED BY <2>1, <2>4, <3>1 DEF Owing, Begun
  <2>5. QED BY <2>1, <2>3, <2>4
<1>4. ASSUME NEW r \in Request, MoveSettle(r)
      PROVE  /\ pc' = [pc EXCEPT ![r] = "log"] /\ "log" \in Begun
             /\ pc[r] \notin Owing(r) /\ "log" \in Owing(r) /\ Moves(r, w) /\ UNCHANGED ledger
  <2>1. /\ r.op \in Settling /\ r.op \notin {"grant", "create"}
        /\ pc[r] = "move" /\ pc' = [pc EXCEPT ![r] = "log"] /\ UNCHANGED ledger
        /\ \/ /\ r.op \in Completing /\ UNCHANGED available
              /\ consumed' = [consumed EXCEPT ![WorkspaceOf[r.scan]] = @ + 1]
           \/ /\ r.op \in Releasing /\ UNCHANGED consumed
              /\ available' = [available EXCEPT ![WorkspaceOf[r.scan]] = @ + 1]
    BY <1>4 DEF MoveSettle, Goto, Settling, Completing, Releasing
  <2>2. r.workspace = WorkspaceOf[r.scan]
    BY <2>1, Requests
  <2>3. CASE r.op \in Completing /\ UNCHANGED available
             /\ consumed' = [consumed EXCEPT ![WorkspaceOf[r.scan]] = @ + 1]
    <3>1. EntryOf[r.op] = "deduct" /\ AmountOf(r) = -1
      BY <2>1, <2>3, EntryTypes DEF AmountOf
    <3>2. QED BY <1>t, <2>1, <2>2, <2>3, <3>1 DEF Moves, Owing, Begun
  <2>4. CASE r.op \in Releasing /\ UNCHANGED consumed
             /\ available' = [available EXCEPT ![WorkspaceOf[r.scan]] = @ + 1]
    <3>1. EntryOf[r.op] = "release" /\ AmountOf(r) = 1
      BY <2>1, <2>4, EntryTypes DEF AmountOf, Completing, Releasing
    <3>2. QED BY <1>t, <2>1, <2>2, <2>4, <3>1 DEF Moves, Owing, Begun
  <2>5. QED BY <2>1, <2>3, <2>4
<1>5. ASSUME NEW r \in Request, AppendEntry(r)
      PROVE  /\ pc' = [pc EXCEPT ![r] = "done"] /\ "done" \in Begun
             /\ pc[r] \in Owing(r) /\ "done" \notin Owing(r) /\ UNCHANGED <<available, consumed>>
             /\ Log(r.workspace, EntryOf[r.op], AmountOf(r), seen[r], r.scan)
  BY <1>5 DEF AppendEntry, Goto, Owing, Begun
<1>6. CASE UNCHANGED vars
  BY <1>6 DEF vars, creditVars, threadVars
<1>7. QED BY <1>1, <1>2, <1>3, <1>4, <1>5, <1>6 DEF Next

LEMMA AddsUpStep ==
    ASSUME ThreadsTypeOK, FewStarted, LedgerAddsUp, [Next]_vars
    PROVE  LedgerAddsUp'
<1> DEFINE Balance == {"grant", "reserve", "release"}
           Spent == {"deduct"}
<1> SUFFICES ASSUME NEW w \in Workspace
             PROVE  /\ available'[w] = Accounted(w, Balance)'
                    /\ consumed'[w] = -Accounted(w, Spent)'
  BY DEF LedgerAddsUp
<1>i. available[w] = Accounted(w, Balance) /\ consumed[w] = -Accounted(w, Spent)
  BY DEF LedgerAddsUp
<1>t. /\ Told(w, Balance) \in Int /\ Told(w, Spent) \in Int
      /\ available[w] \in Int /\ consumed[w] \in Int
  BY ToldGoes DEF ThreadsTypeOK, CreditTypeOK
<1>e. ASSUME NEW r \in Request
      PROVE  /\ EntryOf[r.op] \in Balance \cup Spent
             /\ (EntryOf[r.op] = "deduct" <=> EntryOf[r.op] \notin Balance)
             /\ AmountOf(r) \in Int
  BY Requests, EntryTypes DEF Ops, Settling
<1>l. ledger' = ledger => \A types : Told(w, types)' = Told(w, types)
  BY DEF Told
<1>1. CASE UNCHANGED <<available, consumed, ledger, pc>>
  BY <1>i, <1>1 DEF Accounted, Told, Owed, Owes
<1>2. ASSUME NEW r \in Request, NEW to, pc' = [pc EXCEPT ![r] = to],
             UNCHANGED <<available, consumed, ledger>>, pc[r] \in Owing(r) <=> to \in Owing(r)
      PROVE  /\ available'[w] = Accounted(w, Balance)'
             /\ consumed'[w] = -Accounted(w, Spent)'
  <2>1. ASSUME NEW types PROVE Owed(w, types)' = Owed(w, types)
    <3>1. Owed(w, types) \in Int /\ Owed(w, types)' = Owed(w, types) + OwedChange(r, to, w, types)
      BY <1>2, OwedGoes
    <3>2. QED BY <1>2, <3>1 DEF OwedChange
  <2>2. QED BY <1>i, <1>l, <1>2, <2>1 DEF Accounted
<1>3. ASSUME NEW r \in Request, NEW to, pc' = [pc EXCEPT ![r] = to],
             pc[r] \notin Owing(r), to \in Owing(r), Moves(r, w), UNCHANGED ledger
      PROVE  /\ available'[w] = Accounted(w, Balance)'
             /\ consumed'[w] = -Accounted(w, Spent)'
  <2> DEFINE Adds(types) == IF r.workspace = w /\ EntryOf[r.op] \in types THEN AmountOf(r) ELSE 0
  <2>1. ASSUME NEW types
        PROVE  Owed(w, types) \in Int /\ Owed(w, types)' = Owed(w, types) + Adds(types)
    <3>1. Owed(w, types) \in Int /\ Owed(w, types)' = Owed(w, types) + OwedChange(r, to, w, types)
      BY <1>3, OwedGoes
    <3>2. QED BY <1>e, <1>3, <3>1 DEF OwedChange
  <2>2. \A types : Told(w, types)' = Told(w, types)
    BY <1>l, <1>3
  <2>3. available'[w] = available[w] + Adds(Balance) /\ consumed'[w] = consumed[w] - Adds(Spent)
    BY <1>e, <1>3 DEF Moves
  <2>4. Adds(Balance) \in Int /\ Adds(Spent) \in Int
    BY <1>e
  <2> HIDE DEF Adds, Balance, Spent
  <2>5. QED BY <1>i, <1>t, <2>1, <2>2, <2>3, <2>4 DEF Accounted
<1>4. ASSUME NEW r \in Request, NEW to, pc' = [pc EXCEPT ![r] = to],
             pc[r] \in Owing(r), to \notin Owing(r), UNCHANGED <<available, consumed>>,
             Log(r.workspace, EntryOf[r.op], AmountOf(r), seen[r], r.scan)
      PROVE  /\ available'[w] = Accounted(w, Balance)'
             /\ consumed'[w] = -Accounted(w, Spent)'
  <2> DEFINE Adds(types) == IF r.workspace = w /\ EntryOf[r.op] \in types THEN AmountOf(r) ELSE 0
  <2>1. ASSUME NEW types
        PROVE  Owed(w, types) \in Int /\ Owed(w, types)' = Owed(w, types) - Adds(types)
    <3>1. Owed(w, types) \in Int /\ Owed(w, types)' = Owed(w, types) + OwedChange(r, to, w, types)
      BY <1>4, OwedGoes
    <3>2. QED BY <1>e, <1>4, <3>1 DEF OwedChange
  <2>2. \A types : Told(w, types)' = Told(w, types) + Adds(types)
    <3> DEFINE e == [workspace |-> r.workspace, type |-> EntryOf[r.op], amount |-> AmountOf(r),
                     balance |-> seen[r], scan |-> r.scan]
    <3>1. ledger' = Append(ledger, e)
      BY <1>4 DEF Log
    <3>2. e.workspace = r.workspace /\ e.type = EntryOf[r.op] /\ e.amount = AmountOf(r)
      OBVIOUS
    <3> HIDE DEF e
    <3>3. QED BY <1>e, <3>1, <3>2, ToldGoes
  <2>3. Adds(Balance) \in Int /\ Adds(Spent) \in Int
    BY <1>e
  <2> HIDE DEF Adds, Balance, Spent
  <2>4. QED BY <1>i, <1>t, <1>4, <2>1, <2>2, <2>3 DEF Accounted
<1>5. QED BY <1>1, <1>2, <1>3, <1>4, LedgerSteps

LEMMA InitAddsUp == Init => LedgerAddsUp
<1> SUFFICES ASSUME Init, NEW w, NEW types
             PROVE  Told(w, types) = 0 /\ Owed(w, types) = 0
  BY DEF Init, CreditInit, LedgerAddsUp, Accounted
<1>1. /\ {i \in DOMAIN ledger : ledger[i].workspace = w /\ ledger[i].type \in types} = {}
      /\ {r \in Request : r.workspace = w /\ EntryOf[r.op] \in types /\ Owes(r)} = {}
  BY DEF Init, CreditInit, Owes
<1>2. QED BY <1>1, SumStep, FS_EmptySet DEF Told, Owed

\* Theorem: at every moment of every interleaving the ledger, with the entries threads are
\* about to append, adds up to the account: two requests that settle one scan leave two
\* settlements in it, and nothing that moved a balance is missing.
THEOREM ThreadsLedgerAddsUp == Spec => []LedgerAddsUp
<1>1. ThreadsTypeOK /\ FewStarted /\ [Next]_vars => FewStarted'
  BY FewStartedStep
<1>2. ThreadsTypeOK /\ FewStarted /\ LedgerAddsUp /\ [Next]_vars => LedgerAddsUp'
  BY AddsUpStep
<1>3. QED
  BY <1>1, <1>2, InitThreadsTypes, InitFewStarted, InitAddsUp, ThreadsTypesStep, PTL DEF Spec
=============================================================================
