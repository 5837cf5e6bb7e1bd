--------------------------- MODULE CreditThreads ---------------------------
(***************************************************************************)
(* The operations of CreditService and the handlers of ScanService that    *)
(* call them, as threads: main.py declares its handlers with def, so the   *)
(* server runs each request on a thread of its pool, over one store with   *)
(* no lock.                                                                *)
(*                                                                         *)
(* CPython switches threads only where the interpreter calls a function or *)
(* loops back, so the statements between two calls are one step.  The      *)
(* steps of an operation, cut at its calls, are:                           *)
(*   check   the if of the operation, once its reservation or account was  *)
(*           looked up; reserve_for_scan also moves its counters here      *)
(*   move    after account() returned: the counters and the reservation    *)
(*           move, and account.available is read for the ledger entry      *)
(*   log     after the entry was constructed: it is appended to the ledger *)
(* A request is served once; its thread then has nothing more to do.       *)
(***************************************************************************)
EXTENDS CreditLedger, Functions

CONSTANTS
    Request     \* the requests to serve, each on a thread of its own

Completing == {"complete", "run_passive"}
Releasing == {"fail", "cancel"}
Settling == Completing \cup Releasing
Ops == {"grant", "create"} \cup Settling

ASSUME ThreadsAssumption ==
    /\ Request \subseteq [op : Ops, workspace : Workspace, scan : Scan \cup {NoScan},
                          amount : Int]
    /\ \A r \in Request :
           IF r.op = "grant" THEN r.scan = NoScan /\ r.amount \in GrantAmount
                             ELSE r.scan \in Scan /\ r.workspace = WorkspaceOf[r.scan]

VARIABLES
    status,     \* scans: scan -> status, "absent" until it is stored
    pc,         \* Request -> where its thread is
    seen        \* Request -> the account.available its ledger entry will carry

threadVars == <<status, pc, seen>>
vars == <<creditVars, threadVars>>

ClosedBy == [complete |-> "completed", run_passive |-> "completed",
             fail |-> "failed", cancel |-> "cancelled"]

Init ==
    /\ CreditInit
    /\ status = [s \in Scan |-> "absent"]
    /\ pc = [r \in Request |-> "idle"]
    /\ seen = [r \in Request |-> 0]

Goto(r, from, to) == pc[r] = from /\ pc' = [pc EXCEPT ![r] = to]

\* A client knows the id of a scan when the request that created it was answered.
Answered(s) ==
    \E r \in Request : r.op = "create" /\ r.scan = s /\ pc[r] = "done"

-----------------------------------------------------------------------------
\* grant refuses an amount that is not positive before its first call.
BeginGrant(r) ==
    /\ r.op = "grant"
    /\ r.amount > 0
    /\ Goto(r, "idle", "move")
    /\ UNCHANGED <<creditVars, status, seen>>

MoveGrant(r) ==
    LET w == r.workspace IN
    /\ r.op = "grant"
    /\ Goto(r, "move", "log")
    /\ available' = [available EXCEPT ![w] = @ + r.amount]
    /\ seen' = [seen EXCEPT ![r] = available[w] + r.amount]
    /\ UNCHANGED <<reserved, consumed, reservation, ledger, status>>

\* create_scan stores the scan, then calls reserve_for_scan.
BeginCreate(r) ==
    /\ r.op = "create"
    /\ status[r.scan] = "absent"
    /\ Goto(r, "idle", "check")
    /\ status' = [status EXCEPT ![r.scan] = "queued"]
    /\ UNCHANGED <<creditVars, seen>>

\* Mutants: an off-by-one in the check; counters moved before the check.
CheckReserve_OffByOne(r) ==
    LET w == WorkspaceOf[r.scan] IN
    /\ r.op = "create"
    /\ available[w] >= 0
    /\ Goto(r, "check", "move")
    /\ available' = [available EXCEPT ![w] = @ - 1]
    /\ reserved' = [reserved EXCEPT ![w] = @ + 1]
    /\ UNCHANGED <<consumed, reservation, ledger, status, seen>>

CheckReserve_MovesFirst(r) ==
    LET w == WorkspaceOf[r.scan] IN
    /\ r.op = "create"
    /\ Goto(r, "check", IF CanReserve(r.scan) THEN "move" ELSE "raised")
    /\ available' = [available EXCEPT ![w] = @ - 1]
    /\ reserved' = [reserved EXCEPT ![w] = @ + 1]
    /\ UNCHANGED <<consumed, reservation, ledger, status, seen>>

\* No call separates reserve_for_scan's check from the counters it moves.
CheckReserve(r) ==
    LET w == WorkspaceOf[r.scan] IN
    /\ r.op = "create"
    /\ \/ /\ CanReserve(r.scan)
          /\ Goto(r, "check", "move")
          /\ available' = [available EXCEPT ![w] = @ - 1]
          /\ reserved' = [reserved EXCEPT ![w] = @ + 1]
       \/ /\ ~CanReserve(r.scan)
          /\ Goto(r, "check", "raised")
          /\ UNCHANGED <<available, reserved>>
    /\ UNCHANGED <<consumed, reservation, ledger, status, seen>>

\* The reservation is stored one call later.
StoreReservation(r) ==
    /\ r.op = "create"
    /\ Goto(r, "move", "log")
    /\ reservation' = [reservation EXCEPT ![r.scan] = "reserved"]
    /\ seen' = [seen EXCEPT ![r] = available[WorkspaceOf[r.scan]]]
    /\ UNCHANGED <<available, reserved, consumed, ledger, status>>

\* Mutant: the status is the name of the operation.
BeginSettle_BadStatus(r) ==
    /\ r.op \in Settling
    /\ Answered(r.scan)
    /\ Goto(r, "idle", "check")
    /\ status' = [status EXCEPT ![r.scan] = r.op]
    /\ UNCHANGED <<creditVars, seen>>

\* complete_scan, fail_scan and cancel_scan overwrite the status, whatever it is;
\* run_passive_scan does by calling complete_scan.
BeginSettle(r) ==
    /\ r.op \in Settling
    /\ Answered(r.scan)
    /\ Goto(r, "idle", "check")
    /\ status' = [status EXCEPT ![r.scan] = ClosedBy[r.op]]
    /\ UNCHANGED <<creditVars, seen>>

\* deduct_completed_scan and release_scan look at the reservation once.
CheckSettle(r) ==
    /\ r.op \in Settling
    /\ \/ reservation[r.scan] = "reserved" /\ Goto(r, "check", "move")
       \/ /\ r.op \in Completing /\ DeductRaises(r.scan)
          /\ Goto(r, "check", "raised")
       \/ /\ reservation[r.scan] # "reserved"
          /\ ~(r.op \in Completing /\ DeductRaises(r.scan))
          /\ Goto(r, "check", "done")
    /\ UNCHANGED <<creditVars, status, seen>>

\* Mutant: a release gives the credit back and leaves it reserved.
MoveSettle_KeepsReserved(r) ==
    LET w == WorkspaceOf[r.scan] IN
    /\ r.op \in Releasing
    /\ Goto(r, "move", "log")
    /\ available' = [available EXCEPT ![w] = @ + 1]
    /\ reservation' = [reservation EXCEPT ![r.scan] = "released"]
    /\ seen' = [seen EXCEPT ![r] = available[w] + 1]
    /\ UNCHANGED <<reserved, consumed, ledger, status>>

\* ... and do not look again after the call to account().
MoveSettle(r) ==
    LET w == WorkspaceOf[r.scan] IN
    /\ r.op \in Settling
    /\ Goto(r, "move", "log")
    /\ reserved' = [reserved EXCEPT ![w] = @ - 1]
    /\ \/ /\ r.op \in Completing
          /\ consumed' = [consumed EXCEPT ![w] = @ + 1]
          /\ reservation' = [reservation EXCEPT ![r.scan] = "deducted"]
          /\ seen' = [seen EXCEPT ![r] = available[w]]
          /\ UNCHANGED available
       \/ /\ r.op \in Releasing
          /\ available' = [available EXCEPT ![w] = @ + 1]
          /\ reservation' = [reservation EXCEPT ![r.scan] = "released"]
          /\ seen' = [seen EXCEPT ![r] = available[w] + 1]
          /\ UNCHANGED consumed
    /\ UNCHANGED <<ledger, status>>

EntryOf == [grant |-> "grant", create |-> "reserve", complete |-> "deduct",
            run_passive |-> "deduct", fail |-> "release", cancel |-> "release"]
AmountOf(r) ==
    IF r.op = "grant" THEN r.amount
    ELSE IF r.op \in {"create"} \cup Completing THEN -1 ELSE 1

AppendEntry(r) ==
    /\ Goto(r, "log", "done")
    /\ Log(r.workspace, EntryOf[r.op], AmountOf(r), seen[r], r.scan)
    /\ UNCHANGED <<available, reserved, consumed, reservation, status, seen>>

Next ==
    \E r \in Request :
        \/ BeginGrant(r) \/ MoveGrant(r)
        \/ BeginCreate(r) \/ CheckReserve(r) \/ StoreReservation(r)
        \/ BeginSettle(r) \/ CheckSettle(r) \/ MoveSettle(r)
        \/ AppendEntry(r)

Spec == Init /\ [][Next]_vars

-----------------------------------------------------------------------------
ThreadsTypeOK ==
    /\ CreditTypeOK
    /\ status \in [Scan -> {"absent", "queued", "completed", "failed", "cancelled"}]
    /\ pc \in [Request -> {"idle", "check", "move", "log", "done", "raised"}]
    /\ seen \in [Request -> Int]

\* No thread is inside an operation.
AtRest == \A r \in Request : pc[r] \in {"idle", "done", "raised"}

\* Safety: whenever no request is being served, the accounts are backed by the
\* reservations, the ledger tells them and no closed scan holds a credit, whatever
\* the interleaving was.
SettledAtRest ==
    AtRest =>
        /\ AccountsBacked
        /\ LedgerSettlesOnce
        /\ \A s \in Scan : status[s] \notin {"absent", "queued"} =>
                                 reservation[s] # "reserved"

\* The grants that have moved the account of w, and what they add up to.
GrantsMoved(w) ==
    {r \in Request : r.op = "grant" /\ r.workspace = w /\ pc[r] \in {"log", "done"}}

Granted(w) == SumFunctionOnSet([r \in Request |-> r.amount], GrantsMoved(w))

\* Safety (docs/07: "Concurrent scans cannot over-reserve credits"): at every moment,
\* the scans that hold or have spent a credit are no more than the credits granted.
NeverOverReserved ==
    \A w \in Workspace :
        Cardinality(InStatus(w, "reserved") \cup InStatus(w, "deducted")) <= Granted(w)

\* Safety: inside an operation as between two, credits only move between the counters
\* of the account: they always add up to the grants that have moved it, so no
\* interleaving loses an update of a counter.
TotalIsGranted == \A w \in Workspace : Total(w) = Granted(w)

\* The ledger of w as a sum: the amounts of its entries of the given types; and those
\* of the entries that threads which have moved the counters are still to append.
Told(w, types) ==
    SumFunctionOnSet([i \in DOMAIN ledger |-> ledger[i].amount],
                     {i \in DOMAIN ledger : ledger[i].workspace = w /\ ledger[i].type \in types})

Owes(r) == pc[r] = "log" \/ (r.op = "create" /\ pc[r] = "move")

Owed(w, types) ==
    SumFunctionOnSet([r \in Request |-> AmountOf(r)],
                     {r \in Request : r.workspace = w /\ EntryOf[r.op] \in types /\ Owes(r)})

Accounted(w, types) == Told(w, types) + Owed(w, types)

\* Safety: balance_after may be stale and entries may be appended in another order
\* than the counters moved in, but no movement is missing from the ledger and none is
\* in it that did not happen: its amounts, and those of the entries that are still to
\* be appended, add up to the account at every moment.
LedgerAddsUp ==
    \A w \in Workspace :
        /\ available[w] = Accounted(w, {"grant", "reserve", "release"})
        /\ consumed[w] = -Accounted(w, {"deduct"})

\* Refinement: each operation takes effect at one moment of its run, the step that
\* moves the counters.  A reservation about to be stored counts as held.
BeingReserved(s) ==
    \E r \in Request : r.op = "create" /\ r.scan = s /\ pc[r] = "move"

CreditNow ==
    [s \in Scan |-> IF BeingReserved(s) THEN "reserved" ELSE reservation[s]]

AtomicCredits == INSTANCE CreditContract WITH balance <- available, credit <- CreditNow
OperationsAreAtomic == AtomicCredits!Spec

=============================================================================
