---------------------------- MODULE CreditLedger ----------------------------
(***************************************************************************)
(* CreditService (apps/api/kerislab/services.py): the account of each      *)
(* workspace, the reservation of each scan and the credit ledger.          *)
(*                                                                         *)
(* Each operation is one step here: the granularity of requests that do    *)
(* not overlap.  CreditThreads splits the same operations at the points    *)
(* where two request threads can interleave.                               *)
(*                                                                         *)
(* Ids are fresh (uuid4), so the workspace a scan id belongs to can be     *)
(* fixed in advance, by WorkspaceOf.  An account the code has not created  *)
(* yet is an account of three zeros, which is how account() creates it.    *)
(***************************************************************************)
EXTENDS Integers, Sequences, FiniteSets

CONSTANTS
    Workspace,
    Scan,
    NoScan,         \* the scan_id of a ledger entry that is about no scan
    WorkspaceOf,
    GrantAmount,    \* amounts a caller asks grant() for, refused ones included
    MaxCredits      \* bound: what all grants to one workspace add up to

ASSUME CreditAssumption ==
    /\ IsFiniteSet(Scan)
    /\ NoScan \notin Scan
    /\ WorkspaceOf \in [Scan -> Workspace]
    /\ GrantAmount \subseteq Int
    /\ MaxCredits \in Nat

VARIABLES
    available, reserved, consumed,  \* CreditAccount, one counter per workspace
    reservation,                    \* credit_reservations: scan -> its status
    ledger                          \* credit_ledger, a list of entries

creditVars == <<available, reserved, consumed, reservation, ledger>>

ReservationStatus == {"none", "reserved", "deducted", "released"}

\* A grant is about no scan, every other ledger entry is about one.
Entry ==
    [workspace : Workspace, type : {"grant"}, amount : Int, balance : Int,
     scan : {NoScan}]
    \cup
    [workspace : Workspace, type : {"reserve", "deduct", "release"}, amount : Int,
     balance : Int, scan : Scan]

CreditInit ==
    /\ available = [w \in Workspace |-> 0]
    /\ reserved = [w \in Workspace |-> 0]
    /\ consumed = [w \in Workspace |-> 0]
    /\ reservation = [s \in Scan |-> "none"]
    /\ ledger = <<>>

-----------------------------------------------------------------------------
\* The entry every operation appends: balance is account.available, read after
\* the counters have moved.
Log(w, type, amount, balance, s) ==
    ledger' = Append(ledger, [workspace |-> w, type |-> type, amount |-> amount,
                              balance |-> balance, scan |-> s])

\* grant: amounts that are not positive are refused before anything changes.
Grant(w, n) ==
    /\ n > 0
    /\ available' = [available EXCEPT ![w] = @ + n]
    /\ Log(w, "grant", n, available[w] + n, NoScan)
    /\ UNCHANGED <<reserved, consumed, reservation>>

\* reserve_for_scan raises CreditError, changing nothing, when it is not true that
CanReserve(s) == available[WorkspaceOf[s]] >= 1

ReserveForScan(s) ==
    LET w == WorkspaceOf[s] IN
    /\ CanReserve(s)
    /\ available' = [available EXCEPT ![w] = @ - 1]
    /\ reserved' = [reserved EXCEPT ![w] = @ + 1]
    /\ reservation' = [reservation EXCEPT ![s] = "reserved"]
    /\ Log(w, "reserve", -1, available[w] - 1, s)
    /\ UNCHANGED consumed

\* Mutants: the reserved counter is forgotten; the early return is, so that a
\* deducted reservation is deducted again.
Deduct_KeepsReserved(s) ==
    LET w == WorkspaceOf[s] IN
    /\ reservation[s] = "reserved"
    /\ consumed' = [consumed EXCEPT ![w] = @ + 1]
    /\ reservation' = [reservation EXCEPT ![s] = "deducted"]
    /\ Log(w, "deduct", -1, available[w], s)
    /\ UNCHANGED <<available, reserved>>

Deduct_Again(s) ==
    LET w == WorkspaceOf[s] IN
    /\ reservation[s] \in {"reserved", "deducted"}
    /\ reserved' = [reserved EXCEPT ![w] = @ - 1]
    /\ consumed' = [consumed EXCEPT ![w] = @ + 1]
    /\ reservation' = [reservation EXCEPT ![s] = "deducted"]
    /\ Log(w, "deduct", -1, available[w], s)
    /\ UNCHANGED available

\* deduct_completed_scan, past its early return (no reservation, or one already
\* deducted) and its CreditError (a released one).
Deduct(s) ==
    LET w == WorkspaceOf[s] IN
    /\ reservation[s] = "reserved"
    /\ reserved' = [reserved EXCEPT ![w] = @ - 1]
    /\ consumed' = [consumed EXCEPT ![w] = @ + 1]
    /\ reservation' = [reservation EXCEPT ![s] = "deducted"]
    /\ Log(w, "deduct", -1, available[w], s)
    /\ UNCHANGED available

DeductRaises(s) == reservation[s] = "released"

\* Mutants: the scan's status is stored; balance_after is read too early; the reserved
\* counter is forgotten; a deducted credit is released.
Release_StoresStatus(s) ==
    LET w == WorkspaceOf[s] IN
    /\ reservation[s] = "reserved"
    /\ reserved' = [reserved EXCEPT ![w] = @ - 1]
    /\ available' = [available EXCEPT ![w] = @ + 1]
    /\ reservation' = [reservation EXCEPT ![s] = "cancelled"]
    /\ Log(w, "release", 1, available[w] + 1, s)
    /\ UNCHANGED consumed

Release_LogsEarly(s) ==
    LET w == WorkspaceOf[s] IN
    /\ reservation[s] = "reserved"
    /\ reserved' = [reserved EXCEPT ![w] = @ - 1]
    /\ available' = [available EXCEPT ![w] = @ + 1]
    /\ reservation' = [reservation EXCEPT ![s] = "released"]
    /\ Log(w, "release", 1, available[w], s)
    /\ UNCHANGED consumed

Release_KeepsReserved(s) ==
    LET w == WorkspaceOf[s] IN
    /\ reservation[s] = "reserved"
    /\ available' = [available EXCEPT ![w] = @ + 1]
    /\ reservation' = [reservation EXCEPT ![s] = "released"]
    /\ Log(w, "release", 1, available[w] + 1, s)
    /\ UNCHANGED <<reserved, consumed>>

Release_Deducted(s) ==
    LET w == WorkspaceOf[s] IN
    /\ reservation[s] \in {"reserved", "deducted"}
    /\ reserved' = [reserved EXCEPT ![w] = @ - 1]
    /\ available' = [available EXCEPT ![w] = @ + 1]
    /\ reservation' = [reservation EXCEPT ![s] = "released"]
    /\ Log(w, "release", 1, available[w] + 1, s)
    /\ UNCHANGED consumed

\* release_scan, past its early return (no reservation, or one not reserved).
Release(s) ==
    LET w == WorkspaceOf[s] IN
    /\ reservation[s] = "reserved"
    /\ reserved' = [reserved EXCEPT ![w] = @ - 1]
    /\ available' = [available EXCEPT ![w] = @ + 1]
    /\ reservation' = [reservation EXCEPT ![s] = "released"]
    /\ Log(w, "release", 1, available[w] + 1, s)
    /\ UNCHANGED consumed

\* Both settling operations leave everything alone when there is nothing to settle.
NothingToSettle(s) == reservation[s] # "reserved" /\ UNCHANGED creditVars

DeductCompletedScan(s) == Deduct(s) \/ NothingToSettle(s)
ReleaseScan(s) == Release(s) \/ NothingToSettle(s)

-----------------------------------------------------------------------------
Total(w) == available[w] + reserved[w] + consumed[w]

\* The callers: any workspace is granted credits, a scan reserves under an id
\* nobody has used, and scans are settled in any order, any number of times.
CreditNext ==
    \/ \E w \in Workspace, n \in GrantAmount :
           Total(w) + n <= MaxCredits /\ Grant(w, n)
    \/ \E s \in Scan :
           \/ reservation[s] = "none" /\ ReserveForScan(s)
           \/ DeductCompletedScan(s)
           \/ ReleaseScan(s)

CreditSpec == CreditInit /\ [][CreditNext]_creditVars

-----------------------------------------------------------------------------
CreditTypeOK ==
    /\ available \in [Workspace -> Int]
    /\ reserved \in [Workspace -> Int]
    /\ consumed \in [Workspace -> Int]
    /\ reservation \in [Scan -> ReservationStatus]
    /\ ledger \in Seq(Entry)

InStatus(w, status) ==
    {s \in Scan : WorkspaceOf[s] = w /\ reservation[s] = status}

\* Safety: the counters of an account are backed by reservations.  reserved
\* counts the scans that hold a credit and consumed the ones that spent one, so
\* neither can drift or go negative whatever order scans are settled in, and the
\* balance is never overdrawn (deduct_completed_scan, release_scan).
AccountsBacked ==
    \A w \in Workspace :
        /\ available[w] >= 0
        /\ reserved[w] = Cardinality(InStatus(w, "reserved"))
        /\ consumed[w] = Cardinality(InStatus(w, "deducted"))

\* b is what the first n entries of log say the balance of w is.
BalanceAfter(log, w, n, b) ==
    \/ \E i \in 1..n :
           /\ log[i].workspace = w
           /\ log[i].balance = b
           /\ \A k \in (i + 1)..n : log[k].workspace # w
    \/ b = 0 /\ \A k \in 1..n : log[k].workspace # w

\* What an entry does to the balance: a deduction repeats the -1 of the
\* reservation it settles, and moves nothing.
Effect(e) == IF e.type = "deduct" THEN 0 ELSE e.amount

\* Safety: the ledger is a running balance.  Each entry's balance_after is the one
\* the workspace's previous entry left, changed by the entry's own amount, and the
\* last one is the account's available credits: an auditor who replays the ledger
\* finds the account.
LedgerRunningBalance ==
    /\ \A j \in 1..Len(ledger) :
           LET e == ledger[j] IN
           BalanceAfter(ledger, e.workspace, j - 1, e.balance - Effect(e))
    /\ \A w \in Workspace : BalanceAfter(ledger, w, Len(ledger), available[w])

HasEntry(s, type) ==
    \E i \in 1..Len(ledger) : ledger[i].scan = s /\ ledger[i].type = type

\* Safety: a scan has at most two ledger entries, a reserve and after it one
\* settlement, and they tell what its reservation is: no credit is deducted and
\* released, or settled twice, or settled without having been reserved.
LedgerSettlesOnce ==
    /\ \A i, j \in 1..Len(ledger) :
           i < j /\ ledger[i].scan = ledger[j].scan /\ ledger[i].scan # NoScan
           => ledger[i].type = "reserve" /\ ledger[j].type \in {"deduct", "release"}
    /\ \A s \in Scan :
           /\ HasEntry(s, "reserve") <=> reservation[s] # "none"
           /\ HasEntry(s, "deduct") <=> reservation[s] = "deducted"
           /\ HasEntry(s, "release") <=> reservation[s] = "released"

\* Action: credits are neither made nor lost by scans.  A step that changes what a
\* workspace has in all is a grant, and the ledger's new entry says of how much.
CreditsConserved ==
    [][\A w \in Workspace :
           Total(w)' # Total(w) =>
               /\ Len(ledger') = Len(ledger) + 1
               /\ ledger'[Len(ledger')].type = "grant"
               /\ ledger'[Len(ledger')].workspace = w
               /\ ledger'[Len(ledger')].amount = Total(w)' - Total(w)]_creditVars

\* Refinement: the counters, the reservations and the ledger keep the contract.
Contract == INSTANCE CreditContract WITH balance <- available, credit <- reservation
ImplementsContract == Contract!Spec
=============================================================================
