--------------------------- MODULE CreditContract ---------------------------
(***************************************************************************)
(* What Kerislab promises about scan credits, with none of the bookkeeping *)
(* that keeps the promise: a workspace has a spendable balance, a scan     *)
(* holds at most one credit of its workspace, and a held credit is settled *)
(* once, either spent for good or returned to the balance it came from.    *)
(* CreditLedger (counters, reservations, ledger) implements it.            *)
(***************************************************************************)
EXTENDS Integers

CONSTANTS
    Workspace,      \* workspace ids
    Scan,           \* scan ids
    WorkspaceOf,    \* the workspace each scan id is created in
    GrantAmount     \* the amounts a caller may ask to be granted

VARIABLES
    balance,        \* [Workspace -> Nat]: credits free to be held
    credit          \* [Scan -> CreditState]: the scan's credit

vars == <<balance, credit>>

CreditState == {"none", "reserved", "deducted", "released"}

Init ==
    /\ balance = [w \in Workspace |-> 0]
    /\ credit = [s \in Scan |-> "none"]

Grant(w, n) ==
    /\ n > 0
    /\ balance' = [balance EXCEPT ![w] = @ + n]
    /\ UNCHANGED credit

Hold(s) ==
    /\ credit[s] = "none"
    /\ balance[WorkspaceOf[s]] >= 1
    /\ credit' = [credit EXCEPT ![s] = "reserved"]
    /\ balance' = [balance EXCEPT ![WorkspaceOf[s]] = @ - 1]

Spend(s) ==
    /\ credit[s] = "reserved"
    /\ credit' = [credit EXCEPT ![s] = "deducted"]
    /\ UNCHANGED balance

Return(s) ==
    /\ credit[s] = "reserved"
    /\ credit' = [credit EXCEPT ![s] = "released"]
    /\ balance' = [balance EXCEPT ![WorkspaceOf[s]] = @ + 1]

Next ==
    \/ \E w \in Workspace, n \in GrantAmount : Grant(w, n)
    \/ \E s \in Scan : Hold(s) \/ Spend(s) \/ Return(s)

Spec == Init /\ [][Next]_vars
=============================================================================
