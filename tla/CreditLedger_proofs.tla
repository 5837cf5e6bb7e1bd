------------------------ MODULE CreditLedger_proofs ------------------------
(***************************************************************************)
(* Proofs about CreditLedger, for any number of workspaces, scans and      *)
(* credits: the invariants and the refinement that MCScanLifecycle checks  *)
(* on two scans.                                                           *)
(***************************************************************************)
EXTENDS CreditLedger, FiniteSetTheorems, TLAPS

\* The actions CreditNext is made of; every proof below splits on these.
LEMMA CreditSteps ==
    ASSUME CreditNext
    PROVE  \/ \E w \in Workspace, n \in GrantAmount : Grant(w, n)
           \/ \E s \in Scan : reservation[s] = "none" /\ ReserveForScan(s)
           \/ \E s \in Scan : Deduct(s)
           \/ \E s \in Scan : Release(s)
           \/ UNCHANGED creditVars
BY DEF CreditNext, DeductCompletedScan, ReleaseScan, NothingToSettle

-----------------------------------------------------------------------------
\* The entry an operation appends is a well-formed ledger entry.
LEMMA LogType ==
    ASSUME ledger \in Seq(Entry), NEW w \in Workspace, NEW type, NEW s,
           NEW amount \in Int, NEW balance \in Int,
           \/ type = "grant" /\ s = NoScan
           \/ type \in {"reserve", "deduct", "release"} /\ s \in Scan,
           Log(w, type, amount, balance, s)
    PROVE  ledger' \in Seq(Entry)
BY DEF Log, Entry

\* Every operation keeps the credit state well typed.
LEMMA CreditTypeStep ==
    ASSUME CreditTypeOK, [CreditNext]_creditVars
    PROVE  CreditTypeOK'
<1> USE CreditAssumption DEF CreditTypeOK, ReservationStatus
<1>1. ASSUME NEW w \in Workspace, NEW n \in GrantAmount, Grant(w, n)
      PROVE  CreditTypeOK'
  <2>1. n \in Int /\ available[w] + n \in Int
    OBVIOUS
  <2>2. ledger' \in Seq(Entry)
    BY <1>1, <2>1, LogType DEF Grant
  <2>3. QED BY <1>1, <2>1, <2>2 DEF Grant
<1>2. ASSUME NEW s \in Scan, ReserveForScan(s)
      PROVE  CreditTypeOK'
  <2>1. WorkspaceOf[s] \in Workspace /\ available[WorkspaceOf[s]] - 1 \in Int
    OBVIOUS
  <2>2. ledger' \in Seq(Entry)
    BY <1>2, <2>1, LogType DEF ReserveForScan
  <2>3. QED BY <1>2, <2>1, <2>2 DEF ReserveForScan
<1>3. ASSUME NEW s \in Scan, Deduct(s)
      PROVE  CreditTypeOK'
  <2>1. WorkspaceOf[s] \in Workspace /\ available[WorkspaceOf[s]] \in Int
    OBVIOUS
  <2>2. ledger' \in Seq(Entry)
    BY <1>3, <2>1, LogType DEF Deduct
  <2>3. QED BY <1>3, <2>1, <2>2 DEF Deduct
<1>4. ASSUME NEW s \in Scan, Release(s)
      PROVE  CreditTypeOK'
  <2>1. WorkspaceOf[s] \in Workspace /\ available[WorkspaceOf[s]] + 1 \in Int
    OBVIOUS
  <2>2. ledger' \in Seq(Entry)
    BY <1>4, <2>1, LogType DEF Release
  <2>3. QED BY <1>4, <2>1, <2>2 DEF Release
<1>5. CASE UNCHANGED creditVars
  BY <1>5 DEF creditVars
<1>6. QED BY <1>1, <1>2, <1>3, <1>4, <1>5, CreditSteps

\* Type correctness of the credit state, the basis of the other theorems.
THEOREM CreditTypeInvariant == CreditSpec => []CreditTypeOK
<1>1. CreditInit => CreditTypeOK
  BY DEF CreditInit, CreditTypeOK, ReservationStatus
<1>2. QED BY <1>1, CreditTypeStep, PTL DEF CreditSpec

-----------------------------------------------------------------------------
\* Moving the reservation of scan s from status old to status new moves one scan
\* between the sets that AccountsBacked counts, and only for s's own workspace.
LEMMA CountsMove ==
    ASSUME CreditTypeOK, NEW s \in Scan, NEW new \in ReservationStatus,
           reservation[s] # new,
           reservation' = [reservation EXCEPT ![s] = new],
           NEW w \in Workspace, NEW status \in ReservationStatus
    PROVE  /\ w = WorkspaceOf[s] /\ status = new =>
                  Cardinality(InStatus(w, status))' = Cardinality(InStatus(w, status)) + 1
           /\ w = WorkspaceOf[s] /\ status = reservation[s] =>
                  Cardinality(InStatus(w, status))' = Cardinality(InStatus(w, status)) - 1
           /\ w # WorkspaceOf[s] \/ status \notin {new, reservation[s]} =>
                  Cardinality(InStatus(w, status))' = Cardinality(InStatus(w, status))
<1> DEFINE S == InStatus(w, status)
<1>1. IsFiniteSet(S) /\ Cardinality(S) \in Nat
  BY FS_Subset, FS_CardinalityType, CreditAssumption DEF InStatus
<1>2. CASE w # WorkspaceOf[s]
  <2>1. S' = S
    BY <1>2 DEF InStatus, CreditTypeOK
  <2>2. QED BY <1>2, <2>1
<1>3. CASE w = WorkspaceOf[s] /\ status = new
  <2>1. S' = S \cup {s} /\ s \notin S
    BY <1>3 DEF InStatus, CreditTypeOK
  <2>2. Cardinality(S \cup {s}) = Cardinality(S) + 1
    BY <1>1, <2>1, FS_AddElement
  <2>3. QED BY <1>3, <2>1, <2>2
<1>4. CASE w = WorkspaceOf[s] /\ status # new /\ status = reservation[s]
  <2>1. S' = S \ {s} /\ s \in S
    BY <1>4 DEF InStatus, CreditTypeOK
  <2>2. Cardinality(S \ {s}) = Cardinality(S) - 1
    BY <1>1, <2>1, FS_RemoveElement
  <2>3. QED BY <1>4, <2>1, <2>2
<1>5. CASE w = WorkspaceOf[s] /\ status # new /\ status # reservation[s]
  <2>1. S' = S
    BY <1>5 DEF InStatus, CreditTypeOK
  <2>2. QED BY <1>5, <2>1
<1>6. QED BY <1>2, <1>3, <1>4, <1>5

\* The counters are always backed by reservations: no order of grants, reserves,
\* deductions and releases makes reserved or consumed drift or overdraws a balance.
THEOREM AccountsBackedInvariant == CreditSpec => []AccountsBacked
<1>1. CreditInit => AccountsBacked
  <2> SUFFICES ASSUME CreditInit, NEW w \in Workspace
               PROVE  /\ available[w] >= 0
                      /\ reserved[w] = Cardinality(InStatus(w, "reserved"))
                      /\ consumed[w] = Cardinality(InStatus(w, "deducted"))
    BY DEF AccountsBacked
  <2>1. InStatus(w, "reserved") = {} /\ InStatus(w, "deducted") = {}
    BY DEF CreditInit, InStatus
  <2>2. Cardinality({}) = 0
    BY FS_EmptySet
  <2>3. /\ Cardinality(InStatus(w, "reserved")) = 0
        /\ Cardinality(InStatus(w, "deducted")) = 0
    BY <2>1, <2>2, Zenon
  <2>4. QED BY <2>3 DEF CreditInit
<1>2. CreditTypeOK /\ AccountsBacked /\ [CreditNext]_creditVars => AccountsBacked'
  <2> SUFFICES ASSUME CreditTypeOK, AccountsBacked, [CreditNext]_creditVars,
                      NEW v \in Workspace
               PROVE  /\ available'[v] >= 0
                      /\ reserved'[v] = Cardinality(InStatus(v, "reserved"))'
                      /\ consumed'[v] = Cardinality(InStatus(v, "deducted"))'
    BY DEF AccountsBacked
  <2> DEFINE Goal == /\ available'[v] >= 0
                     /\ reserved'[v] = Cardinality(InStatus(v, "reserved"))'
                     /\ consumed'[v] = Cardinality(InStatus(v, "deducted"))'
  <2>0. /\ available[v] \in Int /\ available[v] >= 0
        /\ reserved[v] \in Int /\ reserved[v] = Cardinality(InStatus(v, "reserved"))
        /\ consumed[v] \in Int /\ consumed[v] = Cardinality(InStatus(v, "deducted"))
    BY DEF CreditTypeOK, AccountsBacked
  <2>1. ASSUME NEW w \in Workspace, NEW n \in GrantAmount, Grant(w, n)
        PROVE  Goal
    <3>1. /\ InStatus(v, "reserved")' = InStatus(v, "reserved")
          /\ InStatus(v, "deducted")' = InStatus(v, "deducted")
      BY <2>1 DEF Grant, InStatus
    <3>2. available'[v] >= 0
      BY <2>0, <2>1, CreditAssumption DEF Grant, CreditTypeOK
    <3>3. QED BY <2>0, <2>1, <3>1, <3>2 DEF Grant
  <2>2. ASSUME NEW s \in Scan, reservation[s] = "none", ReserveForScan(s)
        PROVE  Goal
    <3>1. /\ reservation[s] = "none"
          /\ reservation' = [reservation EXCEPT ![s] = "reserved"]
      BY <2>2 DEF ReserveForScan
    <3>2. available'[v] >= 0
      BY <2>0, <2>2, CreditAssumption DEF ReserveForScan, CanReserve, CreditTypeOK
    <3>3. CASE v = WorkspaceOf[s]
      <4>1. reserved'[v] = reserved[v] + 1 /\ consumed'[v] = consumed[v]
        BY <2>0, <2>2, <3>3 DEF ReserveForScan, CreditTypeOK
      <4>2. /\ Cardinality(InStatus(v, "reserved"))' = reserved[v] + 1
            /\ Cardinality(InStatus(v, "deducted"))' = consumed[v]
        BY <2>0, <3>1, <3>3, CountsMove DEF ReservationStatus
      <4>3. QED BY <3>2, <4>1, <4>2
    <3>4. CASE v # WorkspaceOf[s]
      <4>1. reserved'[v] = reserved[v] /\ consumed'[v] = consumed[v]
        BY <2>0, <2>2, <3>4 DEF ReserveForScan, CreditTypeOK
      <4>2. /\ Cardinality(InStatus(v, "reserved"))' = reserved[v]
            /\ Cardinality(InStatus(v, "deducted"))' = consumed[v]
        BY <2>0, <3>1, <3>4, CountsMove DEF ReservationStatus
      <4>3. QED BY <3>2, <4>1, <4>2
    <3>5. QED BY <3>3, <3>4
  <2>3. ASSUME NEW s \in Scan, Deduct(s)
        PROVE  Goal
    <3>1. /\ reservation[s] = "reserved"
          /\ reservation' = [reservation EXCEPT ![s] = "deducted"]
      BY <2>3 DEF Deduct
    <3>2. available'[v] >= 0
      BY <2>0, <2>3 DEF Deduct
    <3>3. CASE v = WorkspaceOf[s]
      <4>1. reserved'[v] = reserved[v] - 1 /\ consumed'[v] = consumed[v] + 1
        BY <2>0, <2>3, <3>3 DEF Deduct, CreditTypeOK
      <4>2. /\ Cardinality(InStatus(v, "reserved"))' = reserved[v] - 1
            /\ Cardinality(InStatus(v, "deducted"))' = consumed[v] + 1
        BY <2>0, <3>1, <3>3, CountsMove DEF ReservationStatus
      <4>3. QED BY <3>2, <4>1, <4>2
    <3>4. CASE v # WorkspaceOf[s]
      <4>1. reserved'[v] = reserved[v] /\ consumed'[v] = consumed[v]
        BY <2>0, <2>3, <3>4 DEF Deduct, CreditTypeOK
      <4>2. /\ Cardinality(InStatus(v, "reserved"))' = reserved[v]
            /\ Cardinality(InStatus(v, "deducted"))' = consumed[v]
        BY <2>0, <3>1, <3>4, CountsMove DEF ReservationStatus
      <4>3. QED BY <3>2, <4>1, <4>2
    <3>5. QED BY <3>3, <3>4
  <2>4. ASSUME NEW s \in Scan, Release(s)
        PROVE  Goal
    <3>1. /\ reservation[s] = "reserved"
          /\ reservation' = [reservation EXCEPT ![s] = "released"]
      BY <2>4 DEF Release
    <3>2. available'[v] >= 0
      BY <2>0, <2>4, CreditAssumption DEF Release, CreditTypeOK
    <3>3. CASE v = WorkspaceOf[s]
      <4>1. reserved'[v] = reserved[v] - 1 /\ consumed'[v] = consumed[v]
        BY <2>0, <2>4, <3>3 DEF Release, CreditTypeOK
      <4>2. /\ Cardinality(InStatus(v, "reserved"))' = reserved[v] - 1
            /\ Cardinality(InStatus(v, "deducted"))' = consumed[v]
        BY <2>0, <3>1, <3>3, CountsMove DEF ReservationStatus
      <4>3. QED BY <3>2, <4>1, <4>2
    <3>4. CASE v # WorkspaceOf[s]
      <4>1. reserved'[v] = reserved[v] /\ consumed'[v] = consumed[v]
        BY <2>0, <2>4, <3>4 DEF Release, CreditTypeOK
      <4>2. /\ Cardinality(InStatus(v, "reserved"))' = reserved[v]
            /\ Cardinality(InStatus(v, "deducted"))' = consumed[v]
        BY <2>0, <3>1, <3>4, CountsMove DEF ReservationStatus
      <4>3. QED BY <3>2, <4>1, <4>2
    <3>5. QED BY <3>3, <3>4
  <2>5. CASE UNCHANGED creditVars
    BY <2>0, <2>5 DEF creditVars, InStatus
  <2>6. QED BY <2>1, <2>2, <2>3, <2>4, <2>5, CreditSteps
<1>3. QED BY <1>1, <1>2, CreditTypeInvariant, PTL DEF CreditSpec

-----------------------------------------------------------------------------
\* An operation changes the balance it finds by its entry's effect and appends
\* that entry; the ledger then still replays to the account.
LEMMA AppendKeepsBalance ==
    ASSUME CreditTypeOK, LedgerRunningBalance, NEW e \in Entry,
           ledger' = Append(ledger, e),
           e.balance - Effect(e) = available[e.workspace],
           available' = [available EXCEPT ![e.workspace] = e.balance]
    PROVE  LedgerRunningBalance'
<1> DEFINE N == Len(ledger)
<1>1. /\ N \in Nat
      /\ Len(ledger') = N + 1
      /\ ledger'[N + 1] = e
      /\ \A i \in 1..N : ledger'[i] = ledger[i]
  BY DEF CreditTypeOK
<1>2. \A i \in 1..N : ledger[i] \in Entry
  BY DEF CreditTypeOK
<1>3. e.workspace \in Workspace /\ e.balance \in Int /\ Effect(e) \in Int
  BY DEF Entry, Effect
<1>4. ASSUME NEW w \in Workspace, NEW n \in 0..N, NEW b \in Int,
             BalanceAfter(ledger, w, n, b)
      PROVE  BalanceAfter(ledger', w, n, b)
  BY <1>1, <1>4 DEF BalanceAfter
<1>5. ASSUME NEW j \in 1..(N + 1)
      PROVE  BalanceAfter(ledger', ledger'[j].workspace, j - 1,
                          ledger'[j].balance - Effect(ledger'[j]))
  <2>1. CASE j \in 1..N
    <3>1. /\ ledger'[j] = ledger[j]
          /\ j - 1 \in 0..N
          /\ ledger[j].workspace \in Workspace
          /\ ledger[j].balance - Effect(ledger[j]) \in Int
      BY <1>1, <1>2, <2>1 DEF Entry, Effect
    <3>2. BalanceAfter(ledger, ledger[j].workspace, j - 1,
                       ledger[j].balance - Effect(ledger[j]))
      BY <2>1 DEF LedgerRunningBalance
    <3>3. QED BY <1>4, <3>1, <3>2
  <2>2. CASE j = N + 1
    <3>1. BalanceAfter(ledger, e.workspace, N, available[e.workspace])
      BY <1>3 DEF LedgerRunningBalance
    <3>2. BalanceAfter(ledger', e.workspace, N, e.balance - Effect(e))
      BY <1>1, <1>3, <1>4, <3>1
    <3>3. j - 1 = N /\ ledger'[j] = e
      BY <1>1, <2>2
    <3>4. QED BY <3>2, <3>3
  <2>3. QED BY <1>1, <2>1, <2>2
<1>6. ASSUME NEW w \in Workspace
      PROVE  BalanceAfter(ledger', w, N + 1, available'[w])
  <2>1. CASE w = e.workspace
    <3>1. available'[w] = e.balance
      BY <1>3, <2>1 DEF CreditTypeOK
    <3>2. N + 1 \in 1..(N + 1) /\ \A k \in (N + 2)..(N + 1) : FALSE
      BY <1>1
    <3>3. QED BY <1>1, <2>1, <3>1, <3>2 DEF BalanceAfter
  <2>2. CASE w # e.workspace
    <3>1. available'[w] = available[w]
      BY <2>2 DEF CreditTypeOK
    <3>2. BalanceAfter(ledger, w, N, available[w])
      BY DEF LedgerRunningBalance
    <3>3. QED BY <1>1, <2>2, <3>1, <3>2 DEF BalanceAfter
  <2>3. QED BY <2>1, <2>2
<1>7. QED BY <1>1, <1>5, <1>6 DEF LedgerRunningBalance

\* Replaying the ledger always gives the account: every entry's balance_after is
\* the one before it changed by the entry, and the last is the available balance.
THEOREM LedgerRunningBalanceInvariant == CreditSpec => []LedgerRunningBalance
<1>1. CreditInit => LedgerRunningBalance
  BY DEF CreditInit, LedgerRunningBalance, BalanceAfter
<1>2. CreditTypeOK /\ LedgerRunningBalance /\ [CreditNext]_creditVars
      => LedgerRunningBalance'
  <2> SUFFICES ASSUME CreditTypeOK, LedgerRunningBalance, [CreditNext]_creditVars
               PROVE  LedgerRunningBalance'
    OBVIOUS
  <2>1. ASSUME NEW w \in Workspace, NEW n \in GrantAmount, Grant(w, n)
        PROVE  LedgerRunningBalance'
    <3> DEFINE e == [workspace |-> w, type |-> "grant", amount |-> n,
                     balance |-> available[w] + n, scan |-> NoScan]
    <3>1. e \in Entry /\ e.balance - Effect(e) = available[e.workspace]
      BY CreditAssumption DEF Entry, Effect, CreditTypeOK
    <3>2. /\ ledger' = Append(ledger, e)
          /\ available' = [available EXCEPT ![e.workspace] = e.balance]
      BY <2>1 DEF Grant, Log
    <3>3. QED BY <3>1, <3>2, AppendKeepsBalance
  <2>2. ASSUME NEW s \in Scan, ReserveForScan(s)
        PROVE  LedgerRunningBalance'
    <3> DEFINE w == WorkspaceOf[s]
               e == [workspace |-> w, type |-> "reserve", amount |-> -1,
                     balance |-> available[w] - 1, scan |-> s]
    <3>1. e \in Entry /\ e.balance - Effect(e) = available[e.workspace]
      BY CreditAssumption DEF Entry, Effect, CreditTypeOK
    <3>2. /\ ledger' = Append(ledger, e)
          /\ available' = [available EXCEPT ![e.workspace] = e.balance]
      BY <2>2 DEF ReserveForScan, Log
    <3>3. QED BY <3>1, <3>2, AppendKeepsBalance
  <2>3. ASSUME NEW s \in Scan, Deduct(s)
        PROVE  LedgerRunningBalance'
    <3> DEFINE w == WorkspaceOf[s]
               e == [workspace |-> w, type |-> "deduct", amount |-> -1,
                     balance |-> available[w], scan |-> s]
    <3>1. e \in Entry /\ e.balance - Effect(e) = available[e.workspace]
      BY CreditAssumption DEF Entry, Effect, CreditTypeOK
    <3>2. /\ ledger' = Append(ledger, e)
          /\ available' = [available EXCEPT ![e.workspace] = e.balance]
      BY <2>3, CreditAssumption DEF Deduct, Log, CreditTypeOK
    <3>3. QED BY <3>1, <3>2, AppendKeepsBalance
  <2>4. ASSUME NEW s \in Scan, Release(s)
        PROVE  LedgerRunningBalance'
    <3> DEFINE w == WorkspaceOf[s]
               e == [workspace |-> w, type |-> "release", amount |-> 1,
                     balance |-> available[w] + 1, scan |-> s]
    <3>1. e \in Entry /\ e.balance - Effect(e) = available[e.workspace]
      BY CreditAssumption DEF Entry, Effect, CreditTypeOK
    <3>2. /\ ledger' = Append(ledger, e)
          /\ available' = [available EXCEPT ![e.workspace] = e.balance]
      BY <2>4 DEF Release, Log
    <3>3. QED BY <3>1, <3>2, AppendKeepsBalance
  <2>5. CASE UNCHANGED creditVars
    BY <2>5 DEF creditVars, LedgerRunningBalance, BalanceAfter
  <2>6. QED BY <2>1, <2>2, <2>3, <2>4, <2>5, CreditSteps
<1>3. QED BY <1>1, <1>2, CreditTypeInvariant, PTL DEF CreditSpec

-----------------------------------------------------------------------------
\* The three moves a scan's reservation makes, each with the entry that records it.
Recorded(old, type, new) ==
    <<old, type, new>> \in {<<"none", "reserve", "reserved">>,
                           <<"reserved", "deduct", "deducted">>,
                           <<"reserved", "release", "released">>}

\* Appending the entry of a scan's move keeps the ledger and the reservations told
\* by each other.
LEMMA AppendKeepsSettled ==
    ASSUME CreditTypeOK, LedgerSettlesOnce, NEW e \in Entry, e.scan \in Scan,
           ledger' = Append(ledger, e), NEW new,
           Recorded(reservation[e.scan], e.type, new),
           reservation' = [reservation EXCEPT ![e.scan] = new]
    PROVE  LedgerSettlesOnce'
<1> DEFINE N == Len(ledger)
<1>1. /\ N \in Nat
      /\ Len(ledger') = N + 1
      /\ ledger'[N + 1] = e
      /\ \A i \in 1..N : ledger'[i] = ledger[i] /\ ledger[i] \in Entry
  BY DEF CreditTypeOK
<1>2. \A i \in 1..N : ledger[i].scan = e.scan =>
          ledger[i].type = "reserve" /\ e.type \in {"deduct", "release"}
  <2> SUFFICES ASSUME NEW i \in 1..N, ledger[i].scan = e.scan
               PROVE  ledger[i].type = "reserve" /\ e.type \in {"deduct", "release"}
    OBVIOUS
  <2>1. ledger[i].type \in {"reserve", "deduct", "release"}
    BY <1>1, CreditAssumption DEF Entry
  <2>2. /\ ledger[i].type = "reserve" => reservation[e.scan] # "none"
        /\ ledger[i].type = "deduct" => reservation[e.scan] = "deducted"
        /\ ledger[i].type = "release" => reservation[e.scan] = "released"
    BY <1>1 DEF LedgerSettlesOnce, HasEntry
  <2>3. QED BY <2>1, <2>2 DEF Recorded
<1>3. ASSUME NEW i \in 1..(N + 1), NEW j \in 1..(N + 1), i < j,
             ledger'[i].scan = ledger'[j].scan, ledger'[i].scan # NoScan
      PROVE  ledger'[i].type = "reserve" /\ ledger'[j].type \in {"deduct", "release"}
  <2>1. CASE j \in 1..N
    BY <1>1, <1>3, <2>1 DEF LedgerSettlesOnce
  <2>2. CASE j = N + 1
    BY <1>1, <1>2, <1>3, <2>2
  <2>3. QED BY <1>1, <2>1, <2>2
<1>4. \A s \in Scan, type \in {"reserve", "deduct", "release"} :
          HasEntry(s, type)' <=> HasEntry(s, type) \/ (s = e.scan /\ type = e.type)
  BY <1>1 DEF HasEntry
<1>5. ASSUME NEW s \in Scan
      PROVE  /\ HasEntry(s, "reserve")' <=> reservation'[s] # "none"
             /\ HasEntry(s, "deduct")' <=> reservation'[s] = "deducted"
             /\ HasEntry(s, "release")' <=> reservation'[s] = "released"
  <2>1. /\ HasEntry(s, "reserve") <=> reservation[s] # "none"
        /\ HasEntry(s, "deduct") <=> reservation[s] = "deducted"
        /\ HasEntry(s, "release") <=> reservation[s] = "released"
    BY DEF LedgerSettlesOnce
  <2>2. CASE s = e.scan
    <3>1. reservation'[s] = new
      BY <2>2 DEF CreditTypeOK
    <3>2. QED BY <1>4, <2>1, <2>2, <3>1 DEF Recorded
  <2>3. CASE s # e.scan
    <3>1. reservation'[s] = reservation[s]
      BY <2>3 DEF CreditTypeOK
    <3>2. QED BY <1>4, <2>1, <2>3, <3>1
  <2>4. QED BY <2>2, <2>3
<1>6. QED BY <1>1, <1>3, <1>5 DEF LedgerSettlesOnce

\* No scan's credit is ever settled twice, or settled without being reserved, and
\* the ledger alone tells the reservation of every scan.
THEOREM LedgerSettlesOnceInvariant == CreditSpec => []LedgerSettlesOnce
<1>1. CreditInit => LedgerSettlesOnce
  BY DEF CreditInit, LedgerSettlesOnce, HasEntry
<1>2. CreditTypeOK /\ LedgerSettlesOnce /\ [CreditNext]_creditVars
      => LedgerSettlesOnce'
  <2> SUFFICES ASSUME CreditTypeOK, LedgerSettlesOnce, [CreditNext]_creditVars
               PROVE  LedgerSettlesOnce'
    OBVIOUS
  <2>1. ASSUME NEW w \in Workspace, NEW n \in GrantAmount, Grant(w, n)
        PROVE  LedgerSettlesOnce'
    <3> DEFINE N == Len(ledger)
    <3>1. /\ N \in Nat
          /\ Len(ledger') = N + 1
          /\ ledger'[N + 1].scan = NoScan /\ ledger'[N + 1].type = "grant"
          /\ \A i \in 1..N : ledger'[i] = ledger[i]
      BY <2>1 DEF Grant, Log, CreditTypeOK
    <3>2. reservation' = reservation
      BY <2>1 DEF Grant
    <3>3. ASSUME NEW i \in 1..(N + 1), NEW j \in 1..(N + 1), i < j,
                 ledger'[i].scan = ledger'[j].scan, ledger'[i].scan # NoScan
          PROVE  ledger'[i].type = "reserve" /\ ledger'[j].type \in {"deduct", "release"}
      <4>1. i \in 1..N /\ j \in 1..N
        BY <3>1, <3>3
      <4>2. QED BY <3>1, <3>3, <4>1 DEF LedgerSettlesOnce
    <3>4. ASSUME NEW s \in Scan, NEW type \in {"reserve", "deduct", "release"}
          PROVE  HasEntry(s, type)' <=> HasEntry(s, type)
      <4>1. s # NoScan
        BY CreditAssumption
      <4>2. QED BY <3>1, <4>1 DEF HasEntry
    <3>5. \A s \in Scan :
              /\ HasEntry(s, "reserve")' <=> reservation'[s] # "none"
              /\ HasEntry(s, "deduct")' <=> reservation'[s] = "deducted"
              /\ HasEntry(s, "release")' <=> reservation'[s] = "released"
      BY <3>2, <3>4 DEF LedgerSettlesOnce
    <3>6. QED BY <3>1, <3>3, <3>5 DEF LedgerSettlesOnce
  <2>2. ASSUME NEW s \in Scan, reservation[s] = "none", ReserveForScan(s)
        PROVE  LedgerSettlesOnce'
    <3> DEFINE w == WorkspaceOf[s]
               e == [workspace |-> w, type |-> "reserve", amount |-> -1,
                     balance |-> available[w] - 1, scan |-> s]
    <3>1. e \in Entry /\ e.scan \in Scan
      BY CreditAssumption DEF Entry, CreditTypeOK
    <3>2. /\ ledger' = Append(ledger, e)
          /\ Recorded(reservation[e.scan], e.type, "reserved")
          /\ reservation' = [reservation EXCEPT ![e.scan] = "reserved"]
      BY <2>2 DEF ReserveForScan, Log, Recorded
    <3>3. QED BY <3>1, <3>2, AppendKeepsSettled
  <2>3. ASSUME NEW s \in Scan, Deduct(s)
        PROVE  LedgerSettlesOnce'
    <3> DEFINE w == WorkspaceOf[s]
               e == [workspace |-> w, type |-> "deduct", amount |-> -1,
                     balance |-> available[w], scan |-> s]
    <3>1. e \in Entry /\ e.scan \in Scan
      BY CreditAssumption DEF Entry, CreditTypeOK
    <3>2. /\ ledger' = Append(ledger, e)
          /\ Recorded(reservation[e.scan], e.type, "deducted")
          /\ reservation' = [reservation EXCEPT ![e.scan] = "deducted"]
      BY <2>3 DEF Deduct, Log, Recorded
    <3>3. QED BY <3>1, <3>2, AppendKeepsSettled
  <2>4. ASSUME NEW s \in Scan, Release(s)
        PROVE  LedgerSettlesOnce'
    <3> DEFINE w == WorkspaceOf[s]
               e == [workspace |-> w, type |-> "release", amount |-> 1,
                     balance |-> available[w] + 1, scan |-> s]
    <3>1. e \in Entry /\ e.scan \in Scan
      BY CreditAssumption DEF Entry, CreditTypeOK
    <3>2. /\ ledger' = Append(ledger, e)
          /\ Recorded(reservation[e.scan], e.type, "released")
          /\ reservation' = [reservation EXCEPT ![e.scan] = "released"]
      BY <2>4 DEF Release, Log, Recorded
    <3>3. QED BY <3>1, <3>2, AppendKeepsSettled
  <2>5. CASE UNCHANGED creditVars
    BY <2>5 DEF creditVars, LedgerSettlesOnce, HasEntry
  <2>6. QED BY <2>1, <2>2, <2>3, <2>4, <2>5, CreditSteps
<1>3. QED BY <1>1, <1>2, CreditTypeInvariant, PTL DEF CreditSpec

-----------------------------------------------------------------------------
\* CreditService keeps the contract: each step of the counters, reservations and
\* ledger is a grant, a hold, a spend, a return or nothing at all.
THEOREM CreditLedgerImplementsContract == CreditSpec => ImplementsContract
<1>1. CreditInit => Contract!Init
  BY DEF CreditInit, Contract!Init
<1>2. CreditTypeOK /\ [CreditNext]_creditVars => [Contract!Next]_(Contract!vars)
  <2> SUFFICES ASSUME CreditTypeOK, [CreditNext]_creditVars
               PROVE  [Contract!Next]_(Contract!vars)
    OBVIOUS
  <2>1. ASSUME NEW w \in Workspace, NEW n \in GrantAmount, Grant(w, n)
        PROVE  Contract!Next
    BY <2>1 DEF Grant, Contract!Next, Contract!Grant
  <2>2. ASSUME NEW s \in Scan, reservation[s] = "none", ReserveForScan(s)
        PROVE  Contract!Next
    BY <2>2 DEF ReserveForScan, CanReserve, Contract!Next, Contract!Hold
  <2>3. ASSUME NEW s \in Scan, Deduct(s)
        PROVE  Contract!Next
    BY <2>3 DEF Deduct, Contract!Next, Contract!Spend
  <2>4. ASSUME NEW s \in Scan, Release(s)
        PROVE  Contract!Next
    BY <2>4 DEF Release, Contract!Next, Contract!Return
  <2>5. CASE UNCHANGED creditVars
    BY <2>5 DEF creditVars, Contract!vars
  <2>6. QED BY <2>1, <2>2, <2>3, <2>4, <2>5, CreditSteps
<1>3. QED BY <1>1, <1>2, CreditTypeInvariant, PTL
          DEF CreditSpec, ImplementsContract, Contract!Spec

-----------------------------------------------------------------------------
\* Credits are conserved: what a workspace has in all changes only by a grant, of
\* exactly the amount the ledger records.
THEOREM CreditsAreConserved == CreditSpec => CreditsConserved
<1> DEFINE Explained(w) == Total(w)' # Total(w) =>
               /\ Len(ledger') = Len(ledger) + 1
               /\ ledger'[Len(ledger')].type = "grant"
               /\ ledger'[Len(ledger')].workspace = w
               /\ ledger'[Len(ledger')].amount = Total(w)' - Total(w)
<1>1. CreditTypeOK /\ [CreditNext]_creditVars => \A v \in Workspace : Explained(v)
  <2> SUFFICES ASSUME CreditTypeOK, [CreditNext]_creditVars, NEW v \in Workspace
               PROVE  Explained(v)
    OBVIOUS
  <2>0. available[v] \in Int /\ reserved[v] \in Int /\ consumed[v] \in Int
    BY DEF CreditTypeOK
  <2>1. ASSUME NEW w \in Workspace, NEW n \in GrantAmount, Grant(w, n)
        PROVE  Explained(v)
    <3>1. /\ Len(ledger') = Len(ledger) + 1
          /\ ledger'[Len(ledger')] = [workspace |-> w, type |-> "grant", amount |-> n,
                                      balance |-> available[w] + n, scan |-> NoScan]
      BY <2>1 DEF Grant, Log, CreditTypeOK
    <3>2. /\ v = w => Total(v)' - Total(v) = n
          /\ v # w => Total(v)' = Total(v)
      BY <2>0, <2>1, CreditAssumption DEF Grant, Total, CreditTypeOK
    <3>3. QED BY <3>1, <3>2
  <2>2. ASSUME NEW s \in Scan, ReserveForScan(s)
        PROVE  Total(v)' = Total(v)
    BY <2>0, <2>2 DEF ReserveForScan, Total, CreditTypeOK
  <2>3. ASSUME NEW s \in Scan, Deduct(s)
        PROVE  Total(v)' = Total(v)
    BY <2>0, <2>3 DEF Deduct, Total, CreditTypeOK
  <2>4. ASSUME NEW s \in Scan, Release(s)
        PROVE  Total(v)' = Total(v)
    BY <2>0, <2>4 DEF Release, Total, CreditTypeOK
  <2>5. CASE UNCHANGED creditVars
    BY <2>5 DEF creditVars, Total
  <2>6. QED BY <2>1, <2>2, <2>3, <2>4, <2>5, CreditSteps
<1>2. CreditTypeOK /\ [CreditNext]_creditVars =>
          [\A w \in Workspace : Explained(w)]_creditVars
  BY <1>1
<1>3. QED BY <1>2, CreditTypeInvariant, PTL DEF CreditSpec, CreditsConserved
=============================================================================
