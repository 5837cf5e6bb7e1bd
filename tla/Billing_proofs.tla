---------------------------- MODULE Billing_proofs ----------------------------
(***************************************************************************)
(* Proofs about Billing, for any number of sessions, requests, threads and *)
(* crashes.                                                                *)
(***************************************************************************)
EXTENDS Billing, FiniteSetTheorems, TLAPS

Rest == {"idle", "done", "raised", "crashed"}
Confirming == {"confirm", "checked", "logged"} \cup HalfDone
Place == HalfDone \cup
            {"idle", "customer", "session", "new", "failing", "closing", "confirm",
             "checked", "logged", "done", "raised", "crashed"}

\* Which requests are served at which places.
PlacesOK ==
    \A r \in Request :
        /\ pc[r] \in {"customer", "session"} => Op[r] = "checkout"
        /\ pc[r] \in {"new", "failing", "closing"} => Op[r] = "webhook"
        /\ pc[r] \in Confirming => Op[r] \in {"confirm", "webhook"} /\ About[r] \in Session

TypesOK == BillingTypeOK /\ PlacesOK

-----------------------------------------------------------------------------
\* The steps, as what they make of the collections.
LEMMA AddCustomerFields ==
    ASSUME TypesOK, NEW r \in Request, AddCustomer(r)
    PROVE  /\ About[r] \in Session
           /\ mem' \in Collections
           /\ mem'.customers = [mem.customers EXCEPT ![WorkspaceOf[About[r]]] = @ + 1]
           /\ mem'.session = mem.session /\ mem'.invoices = mem.invoices
           /\ mem'.payments = mem.payments /\ mem'.credited = mem.credited
           /\ mem'.entries = mem.entries /\ mem'.event = mem.event
<1>1. mem \in Collections /\ About[r] \in Session
  BY BillingAssumption DEF TypesOK, BillingTypeOK, PlacesOK, AddCustomer, Goto
<1>2. WorkspaceOf[About[r]] \in Workspace
  BY <1>1, BillingAssumption
<1>3. mem' = [mem EXCEPT !.customers[WorkspaceOf[About[r]]] = @ + 1]
  BY DEF AddCustomer
<1>4. QED BY <1>1, <1>2, <1>3 DEF Collections

LEMMA AddSessionFields ==
    ASSUME TypesOK, NEW r \in Request, AddSession(r)
    PROVE  /\ About[r] \in Session
           /\ mem' \in Collections
           /\ mem'.session = [mem.session EXCEPT ![About[r]] = "created"]
           /\ mem'.invoices = mem.invoices
           /\ mem'.payments = mem.payments /\ mem'.credited = mem.credited
           /\ mem'.entries = mem.entries /\ mem'.event = mem.event
           /\ mem'.customers = mem.customers
<1>1. mem \in Collections /\ About[r] \in Session
  BY BillingAssumption DEF TypesOK, BillingTypeOK, PlacesOK, AddSession, Goto
<1>2. mem' = [mem EXCEPT !.session[About[r]] = "created"]
  BY DEF AddSession
<1>3. QED BY <1>1, <1>2 DEF Collections

\* Setting the state of a delivery's event.
LEMMA EventFields ==
    ASSUME TypesOK, NEW r \in Request, NEW x \in {"stored", "processed", "failed"},
           mem' = [mem EXCEPT !.event[r] = x]
    PROVE  /\ mem' \in Collections
           /\ mem'.event = [mem.event EXCEPT ![r] = x]
           /\ mem'.session = mem.session /\ mem'.invoices = mem.invoices
           /\ mem'.payments = mem.payments /\ mem'.credited = mem.credited
           /\ mem'.entries = mem.entries /\ mem'.customers = mem.customers
BY DEF TypesOK, BillingTypeOK, Collections

\* The five additions of a confirmation.
LEMMA ConfirmFields ==
    ASSUME TypesOK, NEW r \in Request, About[r] \in Session
    PROVE  LET s == About[r] IN
           /\ MarkPaid(r) =>
                  /\ mem' \in Collections
                  /\ mem'.session = [mem.session EXCEPT ![s] = "paid"]
                  /\ mem'.invoices = mem.invoices /\ mem'.payments = mem.payments
                  /\ mem'.credited = mem.credited /\ mem'.entries = mem.entries
                  /\ mem'.event = mem.event /\ mem'.customers = mem.customers
           /\ AddInvoice(r) =>
                  /\ mem' \in Collections
                  /\ mem'.invoices = [mem.invoices EXCEPT ![s] = @ + 1]
                  /\ mem'.session = mem.session /\ mem'.payments = mem.payments
                  /\ mem'.credited = mem.credited /\ mem'.entries = mem.entries
                  /\ mem'.event = mem.event /\ mem'.customers = mem.customers
           /\ AddPayment(r) =>
                  /\ mem' \in Collections
                  /\ mem'.payments = [mem.payments EXCEPT ![s] = @ + 1]
                  /\ mem'.session = mem.session /\ mem'.invoices = mem.invoices
                  /\ mem'.credited = mem.credited /\ mem'.entries = mem.entries
                  /\ mem'.event = mem.event /\ mem'.customers = mem.customers
           /\ GiveCredits(r) =>
                  /\ mem' \in Collections
                  /\ mem'.credited = [mem.credited EXCEPT ![s] = @ + 1]
                  /\ mem'.session = mem.session /\ mem'.invoices = mem.invoices
                  /\ mem'.payments = mem.payments /\ mem'.entries = mem.entries
                  /\ mem'.event = mem.event /\ mem'.customers = mem.customers
           /\ AppendEntry(r) =>
                  /\ mem' \in Collections
                  /\ mem'.entries = [mem.entries EXCEPT ![s] = @ + 1]
                  /\ mem'.session = mem.session /\ mem'.invoices = mem.invoices
                  /\ mem'.payments = mem.payments /\ mem'.credited = mem.credited
                  /\ mem'.event = mem.event /\ mem'.customers = mem.customers
<1> DEFINE s == About[r]
<1>1. mem \in Collections
  BY DEF TypesOK, BillingTypeOK
<1>2. /\ MarkPaid(r) => mem' = [mem EXCEPT !.session[s] = "paid"]
      /\ AddInvoice(r) => mem' = [mem EXCEPT !.invoices[s] = @ + 1]
      /\ AddPayment(r) => mem' = [mem EXCEPT !.payments[s] = @ + 1]
      /\ GiveCredits(r) => mem' = [mem EXCEPT !.credited[s] = @ + 1]
      /\ AppendEntry(r) => mem' = [mem EXCEPT !.entries[s] = @ + 1]
  BY DEF MarkPaid, AddInvoice, AddPayment, GiveCredits, AppendEntry
<1>3. ASSUME mem' = [mem EXCEPT !.session[s] = "paid"]
      PROVE  /\ mem' \in Collections
             /\ mem'.session = [mem.session EXCEPT ![s] = "paid"]
             /\ mem'.invoices = mem.invoices /\ mem'.payments = mem.payments
             /\ mem'.credited = mem.credited /\ mem'.entries = mem.entries
             /\ mem'.event = mem.event /\ mem'.customers = mem.customers
  BY <1>1, <1>3 DEF Collections
<1>4. ASSUME mem' = [mem EXCEPT !.invoices[s] = @ + 1]
      PROVE  /\ mem' \in Collections
             /\ mem'.invoices = [mem.invoices EXCEPT ![s] = @ + 1]
             /\ mem'.session = mem.session /\ mem'.payments = mem.payments
             /\ mem'.credited = mem.credited /\ mem'.entries = mem.entries
             /\ mem'.event = mem.event /\ mem'.customers = mem.customers
  BY <1>1, <1>4 DEF Collections
<1>5. ASSUME mem' = [mem EXCEPT !.payments[s] = @ + 1]
      PROVE  /\ mem' \in Collections
             /\ mem'.payments = [mem.payments EXCEPT ![s] = @ + 1]
             /\ mem'.session = mem.session /\ mem'.invoices = mem.invoices
             /\ mem'.credited = mem.credited /\ mem'.entries = mem.entries
             /\ mem'.event = mem.event /\ mem'.customers = mem.customers
  BY <1>1, <1>5 DEF Collections
<1>6. ASSUME mem' = [mem EXCEPT !.credited[s] = @ + 1]
      PROVE  /\ mem' \in Collections
             /\ mem'.credited = [mem.credited EXCEPT ![s] = @ + 1]
             /\ mem'.session = mem.session /\ mem'.invoices = mem.invoices
             /\ mem'.payments = mem.payments /\ mem'.entries = mem.entries
             /\ mem'.event = mem.event /\ mem'.customers = mem.customers
  BY <1>1, <1>6 DEF Collections
<1>7. ASSUME mem' = [mem EXCEPT !.entries[s] = @ + 1]
      PROVE  /\ mem' \in Collections
             /\ mem'.entries = [mem.entries EXCEPT ![s] = @ + 1]
             /\ mem'.session = mem.session /\ mem'.invoices = mem.invoices
             /\ mem'.payments = mem.payments /\ mem'.credited = mem.credited
             /\ mem'.event = mem.event /\ mem'.customers = mem.customers
  BY <1>1, <1>7 DEF Collections
<1>8. QED BY <1>2, <1>3, <1>4, <1>5, <1>6, <1>7

\* The two threads that an overlap is about.
LEMMA OverlapTells ==
    ASSUME NEW x, NEW r \in Request, NEW place, NEW now \in BOOLEAN, Overlap(x, r, place, now)
    PROVE  /\ overlapped \subseteq overlapped' /\ overlapped' \subseteq overlapped \cup {x}
           /\ now /\ x \notin overlapped' =>
                  \A q \in Request \ {r} : pc[q] = place => Subject(q, place) # x
BY DEF Overlap

-----------------------------------------------------------------------------
\* Type correctness.  A step of a request moves its thread from one place to another.
Fits(r, to) ==
    /\ to \in Place
    /\ to \in {"customer", "session"} => Op[r] = "checkout"
    /\ to \in {"new", "failing", "closing"} => Op[r] = "webhook"
    /\ to \in Confirming => Op[r] \in {"confirm", "webhook"} /\ About[r] \in Session

LEMMA RequestTypes ==
    ASSUME TypesOK, NEW r \in Request, NEW to, Fits(r, to),
           pc' = [pc EXCEPT ![r] = to], mem' \in Collections, Sync \/ NoSync,
           overlapped' \subseteq Workspace \cup Session \cup Event, UNCHANGED <<split, crashes>>
    PROVE  TypesOK'
<1>1. disk' \in Collections /\ torn' \subseteq Session
  BY DEF Sync, NoSync, TypesOK, BillingTypeOK, InTheMiddle
<1>2. PlacesOK'
  BY DEF TypesOK, BillingTypeOK, PlacesOK, Fits
<1>3. BillingTypeOK'
  BY <1>1 DEF TypesOK, BillingTypeOK, Fits, Place
<1>4. QED BY <1>2, <1>3 DEF TypesOK

LEMMA BillingTypesStep ==
    ASSUME TypesOK, [Next]_vars
    PROVE  TypesOK'
<1>t. /\ mem \in Collections /\ disk \in Collections /\ pc \in [Request -> Place]
      /\ overlapped \subseteq Workspace \cup Session \cup Event /\ PlacesOK
      /\ torn \subseteq Session /\ split \subseteq Session /\ crashes \in 0..MaxCrashes
  BY DEF TypesOK, BillingTypeOK, Place
<1> USE DEF Fits, Place, Confirming, HalfDone, Goto
<1>1. ASSUME NEW r \in Request, BeginCheckout(r) PROVE TypesOK'
  <2>1. About[r] \in Session
    BY <1>1, BillingAssumption DEF BeginCheckout
  <2>2. overlapped' \subseteq overlapped \cup {WorkspaceOf[About[r]]}
    BY <1>1, OverlapTells DEF BeginCheckout
  <2>3. overlapped' \subseteq Workspace \cup Session \cup Event
    BY <1>t, <2>1, <2>2, BillingAssumption
  <2>4. QED BY <1>t, <1>1, <2>3, RequestTypes DEF BeginCheckout
<1>2. ASSUME NEW r \in Request, AddCustomer(r) PROVE TypesOK'
  BY <1>t, <1>2, AddCustomerFields, RequestTypes DEF AddCustomer, PlacesOK
<1>3. ASSUME NEW r \in Request, AddSession(r) PROVE TypesOK'
  BY <1>t, <1>3, AddSessionFields, RequestTypes DEF AddSession
<1>4. ASSUME NEW r \in Request, LookUpEvent(r) PROVE TypesOK'
  <2>1. Id[r] \in Event
    BY <1>4, BillingAssumption DEF LookUpEvent
  <2>2. overlapped' \subseteq overlapped \cup {Id[r]}
    BY <1>4, OverlapTells DEF LookUpEvent
  <2>3. overlapped' \subseteq Workspace \cup Session \cup Event
    BY <1>t, <2>1, <2>2
  <2>4. QED BY <1>t, <1>4, <2>3, RequestTypes DEF LookUpEvent
<1>5. ASSUME NEW r \in Request, StoreEvent(r) PROVE TypesOK'
  <2>1. mem' \in Collections
    BY <1>5, EventFields DEF StoreEvent
  <2>2. Op[r] = "webhook" /\ About[r] \in Session \cup {NoSession}
    BY <1>t, <1>5, BillingAssumption DEF StoreEvent, PlacesOK
  <2>3. QED BY <1>t, <1>5, <2>1, <2>2, RequestTypes DEF StoreEvent
<1>6. ASSUME NEW r \in Request, FailEvent(r) PROVE TypesOK'
  <2>1. mem' \in Collections
    BY <1>6, EventFields DEF FailEvent
  <2>2. QED BY <1>t, <1>6, <2>1, RequestTypes DEF FailEvent
<1>7. ASSUME NEW r \in Request, CloseEvent(r) PROVE TypesOK'
  <2>1. mem' \in Collections
    BY <1>7, EventFields DEF CloseEvent
  <2>2. QED BY <1>t, <1>7, <2>1, RequestTypes DEF CloseEvent
<1>8. ASSUME NEW r \in Request, BeginConfirm(r) PROVE TypesOK'
  <2>1. About[r] \in Session /\ Op[r] = "confirm"
    BY <1>8, BillingAssumption DEF BeginConfirm
  <2>2. QED BY <1>t, <1>8, <2>1, RequestTypes DEF BeginConfirm
<1>9. ASSUME NEW r \in Request, CheckSession(r) PROVE TypesOK'
  <2>1. /\ About[r] \in Session /\ Op[r] \in {"confirm", "webhook"}
        /\ overlapped' \subseteq overlapped \cup {About[r]}
    BY <1>t, <1>9, OverlapTells DEF CheckSession, PlacesOK
  <2>2. overlapped' \subseteq Workspace \cup Session \cup Event
    BY <1>t, <2>1
  <2>3. QED BY <1>t, <1>9, <2>1, <2>2, RequestTypes DEF CheckSession, Returned, Raised
<1>10. ASSUME NEW r \in Request,
              MarkPaid(r) \/ AddInvoice(r) \/ AddPayment(r) \/ GiveCredits(r) \/ AppendEntry(r)
       PROVE  TypesOK'
  <2>1. About[r] \in Session /\ Op[r] \in {"confirm", "webhook"}
    BY <1>t, <1>10 DEF MarkPaid, AddInvoice, AddPayment, GiveCredits, AppendEntry, PlacesOK
  <2>2. mem' \in Collections
    BY <1>10, <2>1, ConfirmFields
  <2>3. \E to \in HalfDone \cup {"logged"} : pc' = [pc EXCEPT ![r] = to]
    BY <1>10 DEF MarkPaid, AddInvoice, AddPayment, GiveCredits, AppendEntry
  <2>4. NoSync /\ UNCHANGED <<overlapped, split, crashes>>
    BY <1>10 DEF MarkPaid, AddInvoice, AddPayment, GiveCredits, AppendEntry
  <2>5. QED BY <1>t, <2>1, <2>2, <2>3, <2>4, RequestTypes
<1>11. ASSUME NEW r \in Request, SyncGrant(r) PROVE TypesOK'
  BY <1>t, <1>11, RequestTypes DEF SyncGrant, Returned, PlacesOK
<1>12. CASE Crash
  <2>1. /\ mem' = disk /\ disk' = disk /\ torn' = torn /\ overlapped' = overlapped
        /\ split' = split \cup torn /\ crashes' \in 0..MaxCrashes
    BY <1>t, <1>12, BillingAssumption DEF Crash
  <2>2. pc' \in [Request -> Place] /\ \A r \in Request : pc'[r] \in Rest
    BY <1>t, <1>12 DEF Crash, Rest
  <2>3. QED BY <1>t, <2>1, <2>2 DEF TypesOK, BillingTypeOK, PlacesOK, Rest
<1>13. CASE UNCHANGED vars
  BY <1>13 DEF vars, TypesOK, BillingTypeOK, PlacesOK
<1>14. ASSUME NEW r \in Request, Serve(r) PROVE TypesOK'
  BY <1>2, <1>3, <1>5, <1>6, <1>7, <1>9, <1>10, <1>11, <1>14 DEF Serve
<1>15. QED BY <1>1, <1>4, <1>8, <1>12, <1>13, <1>14 DEF Next

LEMMA InitTypes == Init => TypesOK
<1> SUFFICES ASSUME Init PROVE TypesOK
  OBVIOUS
<1>1. mem \in Collections
  BY DEF Init, Collections
<1>2. disk \in Collections /\ pc = [r \in Request |-> "idle"]
  BY <1>1 DEF Init
<1>3. QED
  BY <1>1, <1>2, BillingAssumption
  DEF Init, TypesOK, BillingTypeOK, PlacesOK, Confirming, HalfDone

\* Theorem: memory and disk hold collections of the right types, and every thread is
\* at a place of the code.
THEOREM BillingTypes == Spec => []BillingTypeOK
<1>1. TypesOK => BillingTypeOK
  BY DEF TypesOK
<1>2. QED BY <1>1, InitTypes, BillingTypesStep, PTL DEF Spec

\* What every step does: the disk stays or is the memory, overlaps are never
\* forgotten, and the memory is the disk again after a crash.
LEMMA AnyStep ==
    ASSUME TypesOK, [Next]_vars
    PROVE  /\ overlapped \subseteq overlapped'
           /\ disk' = mem' \/ disk' = disk
<1>1. ASSUME NEW r \in Request, BeginCheckout(r) \/ LookUpEvent(r) \/ CheckSession(r)
      PROVE  overlapped \subseteq overlapped' /\ disk' = disk
  BY <1>1 DEF BeginCheckout, LookUpEvent, CheckSession, Overlap, NoSync
<1>2. ASSUME NEW r \in Request, AddCustomer(r) \/ AddSession(r) \/ FailEvent(r)
                \/ CloseEvent(r) \/ SyncGrant(r)
      PROVE  overlapped' = overlapped /\ disk' = mem'
  BY <1>2 DEF AddCustomer, AddSession, FailEvent, CloseEvent, SyncGrant, Sync
<1>3. ASSUME NEW r \in Request, StoreEvent(r) \/ BeginConfirm(r) \/ MarkPaid(r)
                \/ AddInvoice(r) \/ AddPayment(r) \/ GiveCredits(r) \/ AppendEntry(r)
      PROVE  overlapped' = overlapped /\ disk' = disk
  BY <1>3 DEF StoreEvent, BeginConfirm, MarkPaid, AddInvoice, AddPayment, GiveCredits,
              AppendEntry, NoSync
<1>4. CASE Crash
  BY <1>4 DEF Crash
<1>5. CASE UNCHANGED vars
  BY <1>5 DEF vars
<1>6. QED BY <1>1, <1>2, <1>3, <1>4, <1>5 DEF Next, Serve

-----------------------------------------------------------------------------
\* One customer of a workspace.
Unserved(w) ==
    /\ mem.customers[w] <= 1 /\ disk.customers[w] <= 1
    /\ \A r \in Request :
           pc[r] = "customer" /\ WorkspaceOf[About[r]] = w =>
               /\ mem.customers[w] = 0
               /\ \A q \in Request \ {r} : pc[q] = "customer" => WorkspaceOf[About[q]] # w

CustomersOK == \A w \in Workspace \ overlapped : Unserved(w)

\* A step that adds no customer and sends no thread to add one.
LEMMA NoCustomers ==
    ASSUME TypesOK, CustomersOK, [Next]_vars, mem'.customers = mem.customers,
           \A r \in Request : pc'[r] = "customer" => pc[r] = "customer"
    PROVE  CustomersOK'
BY AnyStep DEF CustomersOK, Unserved

LEMMA CustomersStep ==
    ASSUME TypesOK, CustomersOK, [Next]_vars
    PROVE  CustomersOK'
<1>t. mem \in Collections /\ disk \in Collections /\ pc \in [Request -> Place]
  BY DEF TypesOK, BillingTypeOK, Place
<1> USE DEF Goto
<1>1. ASSUME NEW r \in Request, BeginCheckout(r) PROVE CustomersOK'
  <2> DEFINE v == WorkspaceOf[About[r]]
  <2>1. /\ UNCHANGED mem /\ v \in Workspace
        /\ pc' = [pc EXCEPT ![r] = IF mem.customers[v] = 0 THEN "customer" ELSE "session"]
        /\ Overlap(v, r, "customer", mem.customers[v] = 0) /\ disk' = disk
    BY <1>1, BillingAssumption DEF BeginCheckout, NoSync
  <2>2. /\ overlapped \subseteq overlapped'
        /\ mem.customers[v] = 0 /\ v \notin overlapped' =>
               \A q \in Request \ {r} : pc[q] = "customer" => WorkspaceOf[About[q]] # v
    BY <2>1, OverlapTells DEF Subject
  <2>3. ASSUME NEW w \in Workspace \ overlapped' PROVE Unserved(w)'
    <3>1. Unserved(w)
      BY <2>2, <2>3 DEF CustomersOK
    <3>2. CASE w = v
      BY <1>t, <2>1, <2>2, <2>3, <3>1, <3>2 DEF Unserved
    <3>3. CASE w # v
      BY <1>t, <2>1, <3>1, <3>3 DEF Unserved
    <3>4. QED BY <3>2, <3>3
  <2>4. QED BY <2>3 DEF CustomersOK
<1>2. ASSUME NEW r \in Request, AddCustomer(r) PROVE CustomersOK'
  <2> DEFINE v == WorkspaceOf[About[r]]
  <2>1. /\ mem'.customers = [mem.customers EXCEPT ![v] = @ + 1] /\ v \in Workspace
        /\ disk' = mem' /\ pc[r] = "customer" /\ pc' = [pc EXCEPT ![r] = "session"]
        /\ overlapped' = overlapped
    BY <1>2, AddCustomerFields, BillingAssumption DEF AddCustomer, Sync
  <2>2. mem.customers \in [Workspace -> Nat]
    BY <1>t DEF Collections
  <2>3. ASSUME NEW w \in Workspace \ overlapped PROVE Unserved(w)'
    <3>1. Unserved(w)
      BY <2>3 DEF CustomersOK
    <3>2. QED BY <1>t, <2>1, <2>2, <3>1 DEF Unserved
  <2>4. QED BY <2>1, <2>3 DEF CustomersOK
<1>3. ASSUME NEW r \in Request,
             LookUpEvent(r) \/ BeginConfirm(r) \/ CheckSession(r) \/ SyncGrant(r)
      PROVE  CustomersOK'
  <2>1. UNCHANGED mem /\ \E to : to # "customer" /\ pc' = [pc EXCEPT ![r] = to]
    BY <1>3 DEF LookUpEvent, BeginConfirm, CheckSession, SyncGrant, Returned, Raised
  <2>2. QED BY <1>t, <2>1, NoCustomers
<1>4. ASSUME NEW r \in Request, AddSession(r) PROVE CustomersOK'
  BY <1>t, <1>4, AddSessionFields, NoCustomers DEF AddSession
<1>5. ASSUME NEW r \in Request, StoreEvent(r) \/ FailEvent(r) \/ CloseEvent(r)
      PROVE  CustomersOK'
  <2>1. mem'.customers = mem.customers
    BY <1>5, EventFields DEF StoreEvent, FailEvent, CloseEvent
  <2>2. \E to : to # "customer" /\ pc' = [pc EXCEPT ![r] = to]
    BY <1>5 DEF StoreEvent, FailEvent, CloseEvent
  <2>3. QED BY <1>t, <2>1, <2>2, NoCustomers
<1>6. ASSUME NEW r \in Request,
             MarkPaid(r) \/ AddInvoice(r) \/ AddPayment(r) \/ GiveCredits(r) \/ AppendEntry(r)
      PROVE  CustomersOK'
  <2>1. pc[r] \in Confirming /\ \E to : to # "customer" /\ pc' = [pc EXCEPT ![r] = to]
    BY <1>6 DEF MarkPaid, AddInvoice, AddPayment, GiveCredits, AppendEntry, Confirming, HalfDone
  <2>2. mem'.customers = mem.customers
    BY <1>6, <2>1, ConfirmFields DEF TypesOK, PlacesOK
  <2>3. QED BY <1>t, <2>1, <2>2, NoCustomers
<1>7. CASE Crash
  BY <1>t, <1>7 DEF Crash, CustomersOK, Unserved
<1>8. CASE UNCHANGED vars
  BY <1>8 DEF vars, CustomersOK, Unserved
<1>9. ASSUME NEW r \in Request, Serve(r) PROVE CustomersOK'
  BY <1>2, <1>3, <1>4, <1>5, <1>6, <1>9 DEF Serve
<1>10. QED BY <1>1, <1>3, <1>7, <1>8, <1>9 DEF Next

\* Theorem: ensure_customer gives a workspace one billing customer, through every
\* crash, unless two checkouts both found none.
THEOREM OneCustomerHolds == Spec => []OneCustomer
<1>1. Init => CustomersOK
  BY DEF Init, CustomersOK, Unserved
<1>2. CustomersOK => OneCustomer
  BY DEF CustomersOK, Unserved, OneCustomer
<1>3. QED BY <1>1, <1>2, InitTypes, BillingTypesStep, CustomersStep, PTL DEF Spec

-----------------------------------------------------------------------------
\* A session is there when its checkout is answered and not before, in memory and on
\* disk, and what asks for its confirmation comes after the answer.
SessionsOK ==
    \A r \in Request :
        /\ Op[r] = "checkout" /\ pc[r] \in {"idle", "customer", "session"} =>
               mem.session[About[r]] = "absent" /\ disk.session[About[r]] = "absent"
        /\ Op[r] = "checkout" /\ pc[r] = "done" =>
               mem.session[About[r]] # "absent" /\ disk.session[About[r]] # "absent"
        /\ pc[r] \in Confirming \/ (pc[r] = "new" /\ About[r] # NoSession) =>
               Answered(About[r])

\* A step of r that leaves the sessions as they are.
LEMMA SessionsStay ==
    ASSUME TypesOK, SessionsOK, NEW r \in Request, NEW to, pc' = [pc EXCEPT ![r] = to],
           pc[r] # "done", mem'.session = mem.session, disk' = mem' \/ disk' = disk,
           Op[r] = "checkout" => pc[r] \in {"idle", "customer"} /\ to \in {"customer", "session"},
           Op[r] # "checkout" /\ (to \in Confirming \/ (to = "new" /\ About[r] # NoSession)) =>
               Answered(About[r])
    PROVE  SessionsOK'
<1>1. pc \in [Request -> Place]
  BY DEF TypesOK, BillingTypeOK, Place
<1>2. \A s : Answered(s) => Answered(s)'
  BY <1>1 DEF Answered
<1>3. ASSUME NEW q \in Request
      PROVE  /\ Op[q] = "checkout" /\ pc'[q] \in {"idle", "customer", "session"} =>
                    mem'.session[About[q]] = "absent" /\ disk'.session[About[q]] = "absent"
             /\ Op[q] = "checkout" /\ pc'[q] = "done" =>
                    mem'.session[About[q]] # "absent" /\ disk'.session[About[q]] # "absent"
  BY <1>1 DEF SessionsOK
<1>4. ASSUME NEW q \in Request,
             pc'[q] \in Confirming \/ (pc'[q] = "new" /\ About[q] # NoSession)
      PROVE  Answered(About[q])
  <2>1. CASE q = r
    BY <1>1, <1>4, <2>1 DEF Confirming, HalfDone
  <2>2. CASE q # r
    BY <1>1, <1>4, <2>2 DEF SessionsOK
  <2>3. QED BY <2>1, <2>2
<1>5. QED BY <1>2, <1>3, <1>4 DEF SessionsOK

LEMMA SessionsStep ==
    ASSUME TypesOK, SessionsOK, [Next]_vars
    PROVE  SessionsOK'
<1>t. /\ mem \in Collections /\ disk \in Collections /\ pc \in [Request -> Place]
      /\ PlacesOK /\ (disk' = mem' \/ disk' = disk)
  BY AnyStep DEF TypesOK, BillingTypeOK, Place
<1> USE DEF Goto
<1>1. ASSUME NEW r \in Request, BeginCheckout(r) \/ AddCustomer(r) PROVE SessionsOK'
  <2>1. mem'.session = mem.session
    BY <1>1, AddCustomerFields DEF BeginCheckout
  <2>2. Op[r] = "checkout" /\ pc[r] \in {"idle", "customer"}
    BY <1>t, <1>1 DEF BeginCheckout, AddCustomer, PlacesOK
  <2>3. PICK to \in {"customer", "session"} : pc' = [pc EXCEPT ![r] = to]
    BY <1>1 DEF BeginCheckout, AddCustomer
  <2>4. QED BY <1>t, <2>1, <2>2, <2>3, SessionsStay
<1>2. ASSUME NEW r \in Request, AddSession(r) PROVE SessionsOK'
  <2>1. /\ About[r] \in Session /\ Op[r] = "checkout" /\ pc[r] = "session"
        /\ pc' = [pc EXCEPT ![r] = "done"] /\ disk' = mem'
        /\ mem'.session = [mem.session EXCEPT ![About[r]] = "created"]
    BY <1>t, <1>2, AddSessionFields DEF AddSession, Sync, PlacesOK
  <2>2. \A s : Answered(s) => Answered(s)'
    BY <1>t, <2>1 DEF Answered
  <2>3. \A q \in Request \ {r} :
            Op[q] = "checkout" => About[q] \in Session /\ About[q] # About[r]
    BY <2>1, BillingAssumption
  <2>4. mem.session \in [Session -> {"absent", "created", "paid"}]
    BY <1>t DEF Collections
  <2>5. ASSUME NEW q \in Request \ {r}, Op[q] = "checkout", pc[q] = "done"
        PROVE  mem'.session[About[q]] # "absent"
    BY <2>1, <2>3, <2>4, <2>5 DEF SessionsOK
  <2>6. ASSUME NEW q \in Request \ {r}, Op[q] = "checkout",
               pc[q] \in {"idle", "customer", "session"}
        PROVE  mem'.session[About[q]] = "absent"
    BY <2>1, <2>3, <2>4, <2>6 DEF SessionsOK
  <2>7. \A q \in Request :
            pc'[q] \in Confirming \/ (pc'[q] = "new" /\ About[q] # NoSession) =>
                Answered(About[q])
    BY <1>t, <2>1 DEF SessionsOK, Confirming, HalfDone
  <2>8. mem'.session[About[r]] = "created"
    BY <2>1, <2>4
  <2>9. QED BY <1>t, <2>1, <2>2, <2>5, <2>6, <2>7, <2>8 DEF SessionsOK
<1>3. ASSUME NEW r \in Request, LookUpEvent(r) \/ BeginConfirm(r) PROVE SessionsOK'
  <2>1. /\ UNCHANGED mem /\ Op[r] # "checkout" /\ pc[r] = "idle"
        /\ About[r] # NoSession => Answered(About[r])
    BY <1>3 DEF LookUpEvent, BeginConfirm
  <2>2. CASE LookUpEvent(r)
    <3>1. PICK to \in {"new", "done"} : pc' = [pc EXCEPT ![r] = to]
      BY <2>2 DEF LookUpEvent
    <3>2. QED BY <1>t, <2>1, <3>1, SessionsStay DEF Confirming, HalfDone
  <2>3. CASE BeginConfirm(r)
    <3>1. pc' = [pc EXCEPT ![r] = "confirm"] /\ Answered(About[r])
      BY <2>3 DEF BeginConfirm
    <3>2. QED BY <1>t, <2>1, <3>1, SessionsStay
  <2>4. QED BY <1>3, <2>2, <2>3
<1>4. ASSUME NEW r \in Request, StoreEvent(r) \/ FailEvent(r) \/ CloseEvent(r)
      PROVE  SessionsOK'
  <2>1. mem'.session = mem.session
    BY <1>4, EventFields DEF StoreEvent, FailEvent, CloseEvent
  <2>2. Op[r] # "checkout" /\ pc[r] # "done"
    BY <1>t, <1>4 DEF StoreEvent, FailEvent, CloseEvent, PlacesOK
  <2>3. CASE StoreEvent(r)
    <3>1. About[r] # NoSession => Answered(About[r])
      BY <2>3 DEF StoreEvent, SessionsOK
    <3>2. PICK to \in {"failing", "confirm"} :
              pc' = [pc EXCEPT ![r] = to] /\ (to = "confirm" => About[r] # NoSession)
      BY <2>3 DEF StoreEvent
    <3>3. QED BY <1>t, <2>1, <2>2, <3>1, <3>2, SessionsStay DEF Confirming, HalfDone
  <2>4. CASE FailEvent(r) \/ CloseEvent(r)
    <3>1. PICK to \in {"raised", "done"} : pc' = [pc EXCEPT ![r] = to]
      BY <2>4 DEF FailEvent, CloseEvent
    <3>2. QED BY <1>t, <2>1, <2>2, <3>1, SessionsStay DEF Confirming, HalfDone
  <2>5. QED BY <1>4, <2>3, <2>4
<1>5. ASSUME NEW r \in Request,
             CheckSession(r) \/ AddInvoice(r) \/ AddPayment(r) \/ GiveCredits(r)
             \/ AppendEntry(r) \/ SyncGrant(r)
      PROVE  SessionsOK'
  <2>1. pc[r] \in Confirming
    BY <1>5 DEF CheckSession, AddInvoice, AddPayment, GiveCredits, AppendEntry, SyncGrant,
                Confirming, HalfDone
  <2>2. Op[r] # "checkout" /\ pc[r] # "done" /\ About[r] \in Session
    BY <1>t, <2>1 DEF PlacesOK, Confirming, HalfDone
  <2>3. mem'.session = mem.session
    BY <1>5, <2>2, ConfirmFields DEF CheckSession, SyncGrant
  <2>4. \E to : to # "new" /\ pc' = [pc EXCEPT ![r] = to]
    BY <1>5 DEF CheckSession, AddInvoice, AddPayment, GiveCredits, AppendEntry, SyncGrant,
                Returned, Raised
  <2>5. Answered(About[r])
    BY <2>1 DEF SessionsOK
  <2>6. QED BY <1>t, <2>2, <2>3, <2>4, <2>5, SessionsStay
<1>6. ASSUME NEW r \in Request, MarkPaid(r) PROVE SessionsOK'
  <2>1. /\ pc[r] = "checked" /\ pc' = [pc EXCEPT ![r] = "paid"] /\ disk' = disk
        /\ Op[r] # "checkout" /\ About[r] \in Session
    BY <1>t, <1>6 DEF MarkPaid, NoSync, PlacesOK, Confirming
  <2>2. mem'.session = [mem.session EXCEPT ![About[r]] = "paid"]
    BY <1>6, <2>1, ConfirmFields
  <2>3. PICK q \in Request : Op[q] = "checkout" /\ About[q] = About[r] /\ pc[q] = "done"
    BY <2>1 DEF SessionsOK, Confirming, Answered
  <2>4. \A p \in Request \ {q} :
            Op[p] = "checkout" => About[p] \in Session /\ About[p] # About[r]
    BY <2>1, <2>3, BillingAssumption
  <2>5. mem.session \in [Session -> {"absent", "created", "paid"}]
    BY <1>t DEF Collections
  <2>6. \A s : Answered(s) => Answered(s)'
    BY <1>t, <2>1 DEF Answered
  <2>7. ASSUME NEW p \in Request, Op[p] = "checkout"
        PROVE  /\ pc'[p] = pc[p]
               /\ pc[p] \in {"idle", "customer", "session"} =>
                      mem'.session[About[p]] = mem.session[About[p]]
               /\ pc[p] = "done" /\ mem.session[About[p]] # "absent" =>
                      mem'.session[About[p]] # "absent"
    BY <1>t, <2>1, <2>2, <2>3, <2>4, <2>5, <2>7
  <2>8. \A p \in Request :
            pc'[p] \in Confirming \/ (pc'[p] = "new" /\ About[p] # NoSession) =>
                Answered(About[p])
    BY <1>t, <2>1 DEF SessionsOK, Confirming, HalfDone
  <2>9. QED BY <2>1, <2>6, <2>7, <2>8 DEF SessionsOK
<1>7. CASE Crash
  BY <1>t, <1>7 DEF Crash, SessionsOK, Confirming, HalfDone
<1>8. CASE UNCHANGED vars
  BY <1>8 DEF vars, SessionsOK, Answered
<1>9. ASSUME NEW r \in Request, Serve(r) PROVE SessionsOK'
  BY <1>1, <1>2, <1>4, <1>5, <1>6, <1>9 DEF Serve
<1>10. QED BY <1>1, <1>3, <1>7, <1>8, <1>9 DEF Next

LEMMA InitSessions == Init => SessionsOK
BY BillingAssumption DEF Init, SessionsOK, Confirming, HalfDone

-----------------------------------------------------------------------------
\* One stored event of an id.
StoredIn(m, e) == {q \in Request : Op[q] = "webhook" /\ Id[q] = e /\ m.event[q] # "none"}
OneIn(m, e) == \A p, q \in StoredIn(m, e) : p = q

Unstored(e) ==
    /\ OneIn(mem, e) /\ OneIn(disk, e)
    /\ \A r \in Request :
           pc[r] = "new" /\ Id[r] = e =>
               /\ StoredIn(mem, e) = {}
               /\ \A q \in Request \ {r} : pc[q] = "new" => Id[q] # e

\* What a delivery does after its event is stored.
Storing == Confirming \cup {"failing", "closing"}

EventsOK ==
    /\ \A e \in Event \ overlapped : Unstored(e)
    /\ \A r \in Request :
           Op[r] = "webhook" /\ pc[r] \in Storing => mem.event[r] # "none"

\* A step of r that stores no event and looks none up.
LEMMA EventsStay ==
    ASSUME TypesOK, EventsOK, [Next]_vars, NEW r \in Request, NEW to,
           pc' = [pc EXCEPT ![r] = to], to # "new",
           \A q \in Request : mem'.event[q] = "none" <=> mem.event[q] = "none",
           Op[r] = "webhook" /\ to \in Storing => mem.event[r] # "none"
    PROVE  EventsOK'
<1>1. pc \in [Request -> Place] /\ overlapped \subseteq overlapped'
  BY AnyStep DEF TypesOK, BillingTypeOK, Place
<1>2. \A e : StoredIn(mem', e) = StoredIn(mem, e)
  BY DEF StoredIn
<1>3. \A e : StoredIn(disk', e) = StoredIn(mem, e) \/ StoredIn(disk', e) = StoredIn(disk, e)
  BY <1>2, AnyStep
<1>4. ASSUME NEW e \in Event \ overlapped' PROVE Unstored(e)'
  <2>1. Unstored(e) /\ e \notin overlapped
    BY <1>1, <1>4 DEF EventsOK
  <2>2. OneIn(mem', e) /\ OneIn(disk', e)
    BY <1>2, <1>3, <2>1 DEF Unstored, OneIn
  <2>3. QED BY <1>1, <1>2, <2>1, <2>2 DEF Unstored
<1>5. ASSUME NEW q \in Request, Op[q] = "webhook", pc'[q] \in Storing
      PROVE  mem'.event[q] # "none"
  BY <1>1, <1>5 DEF EventsOK
<1>6. QED BY <1>4, <1>5 DEF EventsOK

LEMMA EventsStep ==
    ASSUME TypesOK, EventsOK, [Next]_vars
    PROVE  EventsOK'
<1>t. /\ mem \in Collections /\ disk \in Collections /\ pc \in [Request -> Place]
      /\ PlacesOK /\ (disk' = mem' \/ disk' = disk) /\ overlapped \subseteq overlapped'
  BY AnyStep DEF TypesOK, BillingTypeOK, Place
<1> USE DEF Goto
<1>1. ASSUME NEW r \in Request, BeginCheckout(r) \/ AddCustomer(r) \/ AddSession(r)
      PROVE  EventsOK'
  <2>1. mem'.event = mem.event
    BY <1>1, AddCustomerFields, AddSessionFields DEF BeginCheckout
  <2>2. PICK to \in {"customer", "session", "done"} : pc' = [pc EXCEPT ![r] = to]
    BY <1>1 DEF BeginCheckout, AddCustomer, AddSession
  <2>3. QED BY <2>1, <2>2, EventsStay DEF Storing, Confirming, HalfDone
<1>2. ASSUME NEW r \in Request, BeginConfirm(r) PROVE EventsOK'
  BY <1>2, EventsStay DEF BeginConfirm
<1>3. ASSUME NEW r \in Request, LookUpEvent(r) PROVE EventsOK'
  <2> DEFINE x == Id[r]
  <2>1. /\ UNCHANGED mem /\ disk' = disk
        /\ pc' = [pc EXCEPT ![r] = IF StoredIn(mem, x) # {} THEN "done" ELSE "new"]
        /\ Overlap(x, r, "new", StoredIn(mem, x) = {})
    BY <1>3 DEF LookUpEvent, Stored, StoredIn, NoSync
  <2>2. CASE StoredIn(mem, x) # {}
    BY <2>1, <2>2, EventsStay DEF Storing, Confirming, HalfDone
  <2>3. CASE StoredIn(mem, x) = {}
    <3>1. x \notin overlapped' => \A q \in Request \ {r} : pc[q] = "new" => Id[q] # x
      BY <2>1, <2>3, OverlapTells DEF Subject
    <3>2. ASSUME NEW e \in Event \ overlapped' PROVE Unstored(e)'
      <4>1. Unstored(e)
        BY <1>t, <3>2 DEF EventsOK
      <4>2. CASE e = x
        BY <1>t, <2>1, <2>3, <3>1, <3>2, <4>1, <4>2 DEF Unstored
      <4>3. CASE e # x
        BY <1>t, <2>1, <4>1, <4>3 DEF Unstored
      <4>4. QED BY <4>2, <4>3
    <3>3. \A q \in Request :
              Op[q] = "webhook" /\ pc'[q] \in Storing => mem'.event[q] # "none"
      BY <1>t, <2>1, <2>3 DEF EventsOK, Storing, Confirming, HalfDone
    <3>4. QED BY <3>2, <3>3 DEF EventsOK
  <2>4. QED BY <2>2, <2>3
<1>4. ASSUME NEW r \in Request, StoreEvent(r) PROVE EventsOK'
  <2>1. /\ mem'.event = [mem.event EXCEPT ![r] = "stored"] /\ disk' = disk
        /\ pc[r] = "new" /\ overlapped' = overlapped
    BY <1>4, EventFields DEF StoreEvent, NoSync
  <2>2. PICK to \in {"failing", "confirm"} : pc' = [pc EXCEPT ![r] = to]
    BY <1>4 DEF StoreEvent
  <2>3. mem.event \in [Request -> {"none", "stored", "processed", "failed"}]
    BY <1>t DEF Collections
  <2>4. ASSUME NEW e \in Event \ overlapped' PROVE Unstored(e)'
    <3>1. Unstored(e)
      BY <2>1, <2>4 DEF EventsOK
    <3>2. CASE e = Id[r]
      <4>1. StoredIn(mem, e) = {} /\ \A q \in Request \ {r} : pc[q] = "new" => Id[q] # e
        BY <2>1, <3>1, <3>2 DEF Unstored
      <4>2. StoredIn(mem', e) \subseteq {r}
        BY <2>1, <2>3, <4>1 DEF StoredIn
      <4>3. QED BY <1>t, <2>1, <2>2, <3>1, <4>1, <4>2 DEF Unstored, OneIn
    <3>3. CASE e # Id[r]
      <4>1. StoredIn(mem', e) = StoredIn(mem, e)
        BY <2>1, <2>3, <3>3 DEF StoredIn
      <4>2. QED BY <1>t, <2>1, <2>2, <3>1, <3>3, <4>1 DEF Unstored, OneIn
    <3>4. QED BY <3>2, <3>3
  <2>5. \A q \in Request :
            Op[q] = "webhook" /\ pc'[q] \in Storing => mem'.event[q] # "none"
    BY <1>t, <2>1, <2>2, <2>3 DEF EventsOK
  <2>6. QED BY <2>4, <2>5 DEF EventsOK
<1>5. ASSUME NEW r \in Request, FailEvent(r) \/ CloseEvent(r) PROVE EventsOK'
  <2>1. Op[r] = "webhook" /\ pc[r] \in Storing
    BY <1>t, <1>5 DEF FailEvent, CloseEvent, PlacesOK, Storing
  <2>2. mem.event[r] # "none"
    BY <2>1 DEF EventsOK
  <2>3. PICK x \in {"failed", "processed"} : mem' = [mem EXCEPT !.event[r] = x]
    BY <1>5 DEF FailEvent, CloseEvent
  <2>4. mem'.event = [mem.event EXCEPT ![r] = x]
    BY <2>3, EventFields
  <2>5. \A q \in Request : mem'.event[q] = "none" <=> mem.event[q] = "none"
    BY <1>t, <2>2, <2>4 DEF Collections
  <2>6. PICK to \in {"raised", "done"} : pc' = [pc EXCEPT ![r] = to]
    BY <1>5 DEF FailEvent, CloseEvent
  <2>7. QED BY <2>5, <2>6, EventsStay DEF Storing, Confirming, HalfDone
<1>6. ASSUME NEW r \in Request,
             CheckSession(r) \/ MarkPaid(r) \/ AddInvoice(r) \/ AddPayment(r)
             \/ GiveCredits(r) \/ AppendEntry(r) \/ SyncGrant(r)
      PROVE  EventsOK'
  <2>1. pc[r] \in Confirming
    BY <1>6 DEF CheckSession, MarkPaid, AddInvoice, AddPayment, GiveCredits, AppendEntry,
                SyncGrant, Confirming, HalfDone
  <2>2. mem'.event = mem.event
    BY <1>6, <2>1, ConfirmFields DEF CheckSession, SyncGrant, TypesOK, PlacesOK
  <2>3. \E to : to # "new" /\ pc' = [pc EXCEPT ![r] = to]
    BY <1>6 DEF CheckSession, MarkPaid, AddInvoice, AddPayment, GiveCredits, AppendEntry,
                SyncGrant, Returned, Raised
  <2>4. Op[r] = "webhook" => mem.event[r] # "none"
    BY <2>1 DEF EventsOK, Storing
  <2>5. QED BY <2>2, <2>3, <2>4, EventsStay
<1>7. CASE Crash
  <2>1. /\ mem' = disk /\ disk' = disk /\ overlapped' = overlapped
        /\ \A r \in Request : pc'[r] \in Rest
    BY <1>t, <1>7 DEF Crash, Rest
  <2>2. QED BY <2>1 DEF EventsOK, Unstored, Storing, Confirming, HalfDone, Rest
<1>8. CASE UNCHANGED vars
  BY <1>8 DEF vars, EventsOK, Unstored
<1>9. ASSUME NEW r \in Request, Serve(r) PROVE EventsOK'
  BY <1>1, <1>4, <1>5, <1>6, <1>9 DEF Serve
<1>10. QED BY <1>1, <1>2, <1>3, <1>7, <1>8, <1>9 DEF Next

LEMMA InitEvents == Init => EventsOK
<1> SUFFICES ASSUME Init PROVE EventsOK
  OBVIOUS
<1>1. \A e : StoredIn(mem, e) = {} /\ StoredIn(disk, e) = {}
  BY DEF Init, StoredIn
<1>2. \A r \in Request : pc[r] = "idle"
  BY DEF Init
<1>3. QED BY <1>1, <1>2 DEF EventsOK, Unstored, OneIn, Storing, Confirming, HalfDone

-----------------------------------------------------------------------------
\* One confirmation of a session.
Once(m, s) ==
    /\ m.invoices[s] <= 1 /\ m.payments[s] <= 1 /\ m.credited[s] <= 1 /\ m.entries[s] <= 1
    /\ m.session[s] # "paid" =>
           m.invoices[s] = 0 /\ m.payments[s] = 0 /\ m.credited[s] = 0 /\ m.entries[s] = 0

Inside == {"checked"} \cup HalfDone

\* What a thread inside the confirmation of its session has not added yet.
Ahead(r, s) ==
    /\ pc[r] = "checked" => mem.session[s] = "created"
    /\ pc[r] \in HalfDone \cup {"logged"} => mem.session[s] = "paid"
    /\ pc[r] = "paid" => mem.invoices[s] = 0
    /\ pc[r] \in {"paid", "invoiced"} => mem.payments[s] = 0
    /\ pc[r] \in {"paid", "invoiced", "settled"} => mem.credited[s] = 0
    /\ pc[r] \in HalfDone => mem.entries[s] = 0

Bought(s) ==
    /\ Once(mem, s) /\ Once(disk, s)
    /\ \A r \in Request :
           About[r] = s =>
               /\ Ahead(r, s)
               /\ pc[r] \in Inside =>
                      \A q \in Request \ {r} : About[q] = s => pc[q] \notin Inside

BoughtOK == \A s \in Session \ overlapped : Bought(s)

Same(m, n, s) ==
    /\ n.session[s] = m.session[s] /\ n.invoices[s] = m.invoices[s]
    /\ n.payments[s] = m.payments[s] /\ n.credited[s] = m.credited[s]
    /\ n.entries[s] = m.entries[s]

\* A step of r that adds nothing to s and brings no thread inside its confirmation.
LEMMA BoughtStays ==
    ASSUME TypesOK, [Next]_vars, NEW s \in Session, Bought(s), NEW r \in Request, NEW to,
           pc' = [pc EXCEPT ![r] = to], Same(mem, mem', s),
           About[r] = s /\ to \in Inside \cup {"logged"} => FALSE
    PROVE  Bought(s)'
<1>1. pc \in [Request -> Place] /\ (disk' = mem' \/ disk' = disk)
  BY AnyStep DEF TypesOK, BillingTypeOK, Place
<1>2. Once(mem', s) /\ Once(disk', s)
  BY <1>1 DEF Bought, Once, Same
<1>3. ASSUME NEW q \in Request, About[q] = s
      PROVE  /\ Ahead(q, s)'
             /\ pc'[q] \in Inside =>
                    \A p \in Request \ {q} : About[p] = s => pc'[p] \notin Inside
  <2>1. pc'[q] \in Inside \cup {"logged"} => pc'[q] = pc[q]
    BY <1>1, <1>3
  <2>2. Ahead(q, s)'
    BY <1>3, <2>1 DEF Bought, Ahead, Same, Inside, HalfDone
  <2>3. QED BY <1>1, <1>3, <2>1, <2>2 DEF Bought
<1>4. QED BY <1>2, <1>3 DEF Bought

\* A step of r inside the confirmation of its session s, while no other thread is.
LEMMA BoughtMoves ==
    ASSUME TypesOK, NEW r \in Request, NEW s \in Session, About[r] = s, Bought(s),
           pc[r] \in Inside, NEW to \in HalfDone \cup {"logged"},
           pc' = [pc EXCEPT ![r] = to], disk' = disk,
           Once(mem', s), Ahead(r, s)', mem'.session[s] = "paid",
           pc[r] = "checked" \/ mem'.session[s] = mem.session[s]
    PROVE  Bought(s)'
<1>1. pc \in [Request -> Place]
  BY DEF TypesOK, BillingTypeOK, Place
<1>2. \A q \in Request \ {r} : About[q] = s => pc'[q] = pc[q] /\ pc[q] \notin Inside
  BY <1>1 DEF Bought
<1>3. \A q \in Request \ {r} : About[q] = s => Ahead(q, s)'
  BY <1>2 DEF Ahead, Inside, HalfDone
<1>4. QED BY <1>1, <1>2, <1>3 DEF Bought

LEMMA ConfirmElsewhere ==
    ASSUME TypesOK, NEW r \in Request, About[r] \in Session, NEW t \in Session, t # About[r],
           MarkPaid(r) \/ AddInvoice(r) \/ AddPayment(r) \/ GiveCredits(r) \/ AppendEntry(r)
    PROVE  Same(mem, mem', t)
<1>1. /\ mem.session \in [Session -> {"absent", "created", "paid"}]
      /\ mem.invoices \in [Session -> Nat] /\ mem.payments \in [Session -> Nat]
      /\ mem.credited \in [Session -> Nat] /\ mem.entries \in [Session -> Nat]
  BY DEF TypesOK, BillingTypeOK, Collections
<1>2. CASE MarkPaid(r)
  <2>1. /\ mem'.session = [mem.session EXCEPT ![About[r]] = "paid"]
        /\ mem'.invoices = mem.invoices /\ mem'.payments = mem.payments
        /\ mem'.credited = mem.credited /\ mem'.entries = mem.entries
    BY <1>2, ConfirmFields
  <2>2. QED BY <1>1, <2>1 DEF Same
<1>3. CASE AddInvoice(r)
  <2>1. /\ mem'.invoices = [mem.invoices EXCEPT ![About[r]] = @ + 1]
        /\ mem'.session = mem.session /\ mem'.payments = mem.payments
        /\ mem'.credited = mem.credited /\ mem'.entries = mem.entries
    BY <1>3, ConfirmFields
  <2>2. QED BY <1>1, <2>1 DEF Same
<1>4. CASE AddPayment(r)
  <2>1. /\ mem'.payments = [mem.payments EXCEPT ![About[r]] = @ + 1]
        /\ mem'.session = mem.session /\ mem'.invoices = mem.invoices
        /\ mem'.credited = mem.credited /\ mem'.entries = mem.entries
    BY <1>4, ConfirmFields
  <2>2. QED BY <1>1, <2>1 DEF Same
<1>5. CASE GiveCredits(r)
  <2>1. /\ mem'.credited = [mem.credited EXCEPT ![About[r]] = @ + 1]
        /\ mem'.session = mem.session /\ mem'.invoices = mem.invoices
        /\ mem'.payments = mem.payments /\ mem'.entries = mem.entries
    BY <1>5, ConfirmFields
  <2>2. QED BY <1>1, <2>1 DEF Same
<1>6. CASE AppendEntry(r)
  <2>1. /\ mem'.entries = [mem.entries EXCEPT ![About[r]] = @ + 1]
        /\ mem'.session = mem.session /\ mem'.invoices = mem.invoices
        /\ mem'.payments = mem.payments /\ mem'.credited = mem.credited
    BY <1>6, ConfirmFields
  <2>2. QED BY <1>1, <2>1 DEF Same
<1>7. QED BY <1>2, <1>3, <1>4, <1>5, <1>6

LEMMA BoughtStep ==
    ASSUME TypesOK, SessionsOK, BoughtOK, [Next]_vars
    PROVE  BoughtOK'
<1>t. /\ mem \in Collections /\ disk \in Collections /\ pc \in [Request -> Place]
      /\ PlacesOK /\ (disk' = mem' \/ disk' = disk) /\ overlapped \subseteq overlapped'
  BY AnyStep DEF TypesOK, BillingTypeOK, Place
<1> USE DEF Goto
<1>u. \A s \in Session \ overlapped' : Bought(s)
  BY <1>t DEF BoughtOK
<1>1. ASSUME NEW r \in Request,
             BeginCheckout(r) \/ LookUpEvent(r) \/ BeginConfirm(r) \/ AddCustomer(r)
             \/ StoreEvent(r) \/ FailEvent(r) \/ CloseEvent(r) \/ SyncGrant(r)
      PROVE  BoughtOK'
  <2>1. /\ mem'.session = mem.session /\ mem'.invoices = mem.invoices
        /\ mem'.payments = mem.payments /\ mem'.credited = mem.credited
        /\ mem'.entries = mem.entries
    BY <1>1, AddCustomerFields, EventFields
    DEF BeginCheckout, LookUpEvent, BeginConfirm, StoreEvent, FailEvent, CloseEvent, SyncGrant
  <2>2. PICK to \in {"customer", "session", "new", "done", "confirm", "failing", "raised",
                     "closing"} :
            pc' = [pc EXCEPT ![r] = to]
    BY <1>1 DEF BeginCheckout, LookUpEvent, BeginConfirm, AddCustomer, StoreEvent, FailEvent,
                CloseEvent, SyncGrant, Returned
  <2>3. \A s : Same(mem, mem', s)
    BY <2>1 DEF Same
  <2>4. to \notin Inside \cup {"logged"}
    BY DEF Inside, HalfDone
  <2>5. QED BY <1>u, <2>2, <2>3, <2>4, BoughtStays DEF BoughtOK
<1>2. ASSUME NEW r \in Request, AddSession(r) PROVE BoughtOK'
  <2>1. /\ mem'.session = [mem.session EXCEPT ![About[r]] = "created"]
        /\ mem'.invoices = mem.invoices /\ mem'.payments = mem.payments
        /\ mem'.credited = mem.credited /\ mem'.entries = mem.entries
        /\ disk' = mem' /\ pc[r] = "session" /\ pc' = [pc EXCEPT ![r] = "done"]
    BY <1>2, AddSessionFields DEF AddSession, Sync
  <2>2. mem.session[About[r]] = "absent"
    BY <1>t, <2>1 DEF SessionsOK, PlacesOK
  <2>3. ASSUME NEW s \in Session \ overlapped', s # About[r] PROVE Bought(s)'
    <3>1. Same(mem, mem', s)
      BY <2>1, <2>3 DEF Same
    <3>2. QED BY <1>u, <2>1, <2>3, <3>1, BoughtStays
  <2>4. ASSUME About[r] \in Session \ overlapped' PROVE Bought(About[r])'
    <3> DEFINE s == About[r]
    <3>1. Bought(s) /\ s \in Session
      BY <1>u, <2>4
    <3>2. \A q \in Request : About[q] = s => pc[q] \notin Inside \cup {"logged"}
      BY <2>2, <3>1 DEF Bought, Ahead, Inside
    <3>3. Once(mem', s)
      BY <1>t, <2>1, <2>2, <3>1 DEF Bought, Once, Collections
    <3>4. \A q \in Request : About[q] = s => pc'[q] \notin Inside \cup {"logged"}
      BY <1>t, <2>1, <3>2 DEF Inside, HalfDone
    <3>5. \A q \in Request : About[q] = s => Ahead(q, s)'
      BY <3>4 DEF Ahead, Inside, HalfDone
    <3>6. QED BY <2>1, <3>3, <3>4, <3>5 DEF Bought
  <2>5. QED BY <2>3, <2>4 DEF BoughtOK
<1>3. ASSUME NEW r \in Request, CheckSession(r) PROVE BoughtOK'
  <2>1. /\ UNCHANGED mem /\ disk' = disk /\ pc[r] = "confirm" /\ About[r] \in Session
        /\ Overlap(About[r], r, "checked", mem.session[About[r]] = "created")
    BY <1>t, <1>3 DEF CheckSession, NoSync, PlacesOK, Confirming
  <2>2. \A s : Same(mem, mem', s)
    BY <2>1 DEF Same
  <2>3. CASE mem.session[About[r]] # "created"
    <3>1. PICK to \in {"closing", "done", "failing", "raised"} : pc' = [pc EXCEPT ![r] = to]
      BY <1>3, <2>3 DEF CheckSession, Returned, Raised
    <3>2. to \notin Inside \cup {"logged"}
      BY DEF Inside, HalfDone
    <3>3. QED BY <1>u, <2>2, <3>1, <3>2, BoughtStays DEF BoughtOK
  <2>4. CASE mem.session[About[r]] = "created"
    <3>1. pc' = [pc EXCEPT ![r] = "checked"]
      BY <1>3, <2>4 DEF CheckSession
    <3>2. ASSUME NEW s \in Session \ overlapped', s # About[r] PROVE Bought(s)'
      BY <1>u, <2>2, <3>1, <3>2, BoughtStays
    <3>3. ASSUME About[r] \notin overlapped' PROVE Bought(About[r])'
      <4> DEFINE s == About[r]
      <4>1. Bought(s)
        BY <1>u, <2>1, <3>3
      <4>2. \A q \in Request \ {r} : pc[q] = "checked" => About[q] # s
        BY <2>1, <2>4, <3>3, OverlapTells DEF Subject
      <4>3. \A q \in Request \ {r} : About[q] = s => pc[q] \notin Inside
        BY <2>4, <4>1, <4>2 DEF Bought, Ahead, Inside
      <4>4. Ahead(r, s)' /\ \A q \in Request \ {r} : About[q] = s => Ahead(q, s)'
        BY <1>t, <2>1, <2>4, <3>1, <4>1 DEF Bought, Ahead, HalfDone
      <4>5. QED BY <1>t, <2>1, <3>1, <4>1, <4>3, <4>4 DEF Bought
    <3>4. QED BY <2>1, <3>2, <3>3 DEF BoughtOK
  <2>5. QED BY <2>3, <2>4
<1>4. ASSUME NEW r \in Request,
             MarkPaid(r) \/ AddInvoice(r) \/ AddPayment(r) \/ GiveCredits(r) \/ AppendEntry(r)
      PROVE  BoughtOK'
  <2> DEFINE s == About[r]
  <2>1. pc[r] \in Inside /\ disk' = disk
    BY <1>4 DEF MarkPaid, AddInvoice, AddPayment, GiveCredits, AppendEntry, NoSync, Inside,
                HalfDone
  <2>2. s \in Session
    BY <1>t, <2>1 DEF PlacesOK, Confirming, Inside
  <2>3. PICK to \in HalfDone \cup {"logged"} : pc' = [pc EXCEPT ![r] = to]
    BY <1>4 DEF MarkPaid, AddInvoice, AddPayment, GiveCredits, AppendEntry, HalfDone
  <2>4. ASSUME NEW t \in Session \ overlapped', t # s PROVE Bought(t)'
    <3>1. Same(mem, mem', t)
      BY <1>4, <2>2, <2>4, ConfirmElsewhere
    <3>2. QED BY <1>u, <2>3, <2>4, <3>1, BoughtStays
  <2>5. ASSUME s \notin overlapped' PROVE Bought(s)'
    <3>1. Bought(s) /\ Once(mem, s) /\ Ahead(r, s)
      BY <1>u, <2>2, <2>5 DEF Bought
    <3>2. /\ mem.session \in [Session -> {"absent", "created", "paid"}]
          /\ mem.invoices \in [Session -> Nat] /\ mem.payments \in [Session -> Nat]
          /\ mem.credited \in [Session -> Nat] /\ mem.entries \in [Session -> Nat]
      BY <1>t DEF Collections
    <3>3. ASSUME MarkPaid(r)
         PROVE  /\ Once(mem', s) /\ Ahead(r, s)' /\ mem'.session[s] = "paid"
                /\ pc[r] = "checked" \/ mem'.session[s] = mem.session[s]
      <4>1. pc[r] = "checked" /\ pc'[r] = "paid"
        BY <1>t, <3>3 DEF MarkPaid
      <4>2. /\ mem'.session = [mem.session EXCEPT ![s] = "paid"]
            /\ mem'.invoices = mem.invoices /\ mem'.payments = mem.payments
            /\ mem'.credited = mem.credited /\ mem'.entries = mem.entries
        BY <2>2, <3>3, ConfirmFields
      <4>3. QED BY <2>2, <3>1, <3>2, <4>1, <4>2 DEF Once, Ahead, HalfDone
    <3>4. ASSUME AddInvoice(r)
         PROVE  /\ Once(mem', s) /\ Ahead(r, s)' /\ mem'.session[s] = "paid"
                /\ pc[r] = "checked" \/ mem'.session[s] = mem.session[s]
      <4>1. pc[r] = "paid" /\ pc'[r] = "invoiced"
        BY <1>t, <3>4 DEF AddInvoice
      <4>2. /\ mem'.invoices = [mem.invoices EXCEPT ![s] = @ + 1]
            /\ mem'.session = mem.session /\ mem'.payments = mem.payments
            /\ mem'.credited = mem.credited /\ mem'.entries = mem.entries
        BY <2>2, <3>4, ConfirmFields
      <4>3. QED BY <2>2, <3>1, <3>2, <4>1, <4>2 DEF Once, Ahead, HalfDone
    <3>5. ASSUME AddPayment(r)
         PROVE  /\ Once(mem', s) /\ Ahead(r, s)' /\ mem'.session[s] = "paid"
                /\ pc[r] = "checked" \/ mem'.session[s] = mem.session[s]
      <4>1. pc[r] = "invoiced" /\ pc'[r] = "settled"
        BY <1>t, <3>5 DEF AddPayment
      <4>2. /\ mem'.payments = [mem.payments EXCEPT ![s] = @ + 1]
            /\ mem'.session = mem.session /\ mem'.invoices = mem.invoices
            /\ mem'.credited = mem.credited /\ mem'.entries = mem.entries
        BY <2>2, <3>5, ConfirmFields
      <4>3. QED BY <2>2, <3>1, <3>2, <4>1, <4>2 DEF Once, Ahead, HalfDone
    <3>6. ASSUME GiveCredits(r)
         PROVE  /\ Once(mem', s) /\ Ahead(r, s)' /\ mem'.session[s] = "paid"
                /\ pc[r] = "checked" \/ mem'.session[s] = mem.session[s]
      <4>1. pc[r] = "settled" /\ pc'[r] = "credited"
        BY <1>t, <3>6 DEF GiveCredits
      <4>2. /\ mem'.credited = [mem.credited EXCEPT ![s] = @ + 1]
            /\ mem'.session = mem.session /\ mem'.invoices = mem.invoices
            /\ mem'.payments = mem.payments /\ mem'.entries = mem.entries
        BY <2>2, <3>6, ConfirmFields
      <4>3. QED BY <2>2, <3>1, <3>2, <4>1, <4>2 DEF Once, Ahead, HalfDone
    <3>7. ASSUME AppendEntry(r)
         PROVE  /\ Once(mem', s) /\ Ahead(r, s)' /\ mem'.session[s] = "paid"
                /\ pc[r] = "checked" \/ mem'.session[s] = mem.session[s]
      <4>1. pc[r] = "credited" /\ pc'[r] = "logged"
        BY <1>t, <3>7 DEF AppendEntry
      <4>2. /\ mem'.entries = [mem.entries EXCEPT ![s] = @ + 1]
            /\ mem'.session = mem.session /\ mem'.invoices = mem.invoices
            /\ mem'.payments = mem.payments /\ mem'.credited = mem.credited
        BY <2>2, <3>7, ConfirmFields
      <4>3. QED BY <2>2, <3>1, <3>2, <4>1, <4>2 DEF Once, Ahead, HalfDone
    <3>8. QED BY <1>4, <2>1, <2>2, <2>3, <3>1, <3>3, <3>4, <3>5, <3>6, <3>7, BoughtMoves
  <2>6. QED BY <2>2, <2>4, <2>5 DEF BoughtOK
<1>5. CASE Crash
  <2>1. /\ mem' = disk /\ disk' = disk /\ overlapped' = overlapped
        /\ \A r \in Request : pc'[r] \in Rest
    BY <1>t, <1>5 DEF Crash, Rest
  <2>2. QED BY <1>u, <2>1 DEF BoughtOK, Bought, Ahead, Inside, HalfDone, Rest
<1>6. CASE UNCHANGED vars
  BY <1>6 DEF vars, BoughtOK, Bought, Ahead
<1>7. ASSUME NEW r \in Request, Serve(r) PROVE BoughtOK'
  BY <1>1, <1>2, <1>3, <1>4, <1>7 DEF Serve
<1>8. QED BY <1>1, <1>5, <1>6, <1>7 DEF Next

\* Theorem: a session is credited and logged at most once and a delivery is stored at
\* most once, through every interleaving and every crash, unless two requests looked
\* at it at the same time.
THEOREM BoughtOnceHolds == Spec => []BoughtOnce
<1>1. Init => BoughtOK
  <2> SUFFICES ASSUME Init PROVE BoughtOK
    OBVIOUS
  <2>1. \A s \in Session : Once(mem, s) /\ Once(disk, s)
    BY DEF Init, Once
  <2>2. \A r \in Request : pc[r] = "idle"
    BY DEF Init
  <2>3. QED BY <2>1, <2>2 DEF BoughtOK, Bought, Ahead, Inside, HalfDone
<1>2. TypesOK /\ EventsOK /\ BoughtOK => BoughtOnce
  <2> SUFFICES ASSUME TypesOK, EventsOK, BoughtOK PROVE BoughtOnce
    OBVIOUS
  <2>1. ASSUME NEW s \in Session \ overlapped
        PROVE  mem.invoices[s] <= 1 /\ mem.credited[s] <= 1 /\ mem.entries[s] <= 1
    BY DEF BoughtOK, Bought, Once
  <2>2. ASSUME NEW e \in Event \ overlapped PROVE Cardinality(Stored(e)) <= 1
    <3>1. Stored(e) = StoredIn(mem, e) /\ OneIn(mem, e)
      BY DEF EventsOK, Unstored, Stored, StoredIn
    <3>2. CASE Stored(e) = {}
      BY <3>2, FS_EmptySet
    <3>3. CASE Stored(e) # {}
      <4>1. PICK q \in Stored(e) : TRUE
        BY <3>3
      <4>2. Stored(e) = {q}
        BY <3>1, <4>1 DEF OneIn
      <4>3. QED BY <4>2, FS_Singleton
    <3>4. QED BY <3>2, <3>3
  <2>3. QED BY <2>1, <2>2 DEF BoughtOnce
<1>3. QED
  BY <1>1, <1>2, InitTypes, InitSessions, InitEvents, BillingTypesStep, SessionsStep,
     EventsStep, BoughtStep, PTL DEF Spec

-----------------------------------------------------------------------------
\* The threads about s at a place.
At(p, place, s) == {r \in Request : About[r] = s /\ p[r] = place}

\* What the records of a session differ by: the threads between one and the next.
Counted(m, p, s) ==
    /\ m.invoices[s] = m.payments[s] + Cardinality(At(p, "invoiced", s))
    /\ m.payments[s] = m.credited[s] + Cardinality(At(p, "settled", s))
    /\ m.credited[s] = m.entries[s] + Cardinality(At(p, "credited", s))
    /\ m.session[s] = "paid" <=> m.entries[s] > 0 \/ s \in InTheMiddle(p)

CountsOK ==
    \A s \in Session \ split : Counted(mem, pc, s) /\ (s \notin torn => Whole(disk, s))

Counting == {"invoiced", "settled", "credited"}

LEMMA AtFinite ==
    ASSUME NEW place, NEW s
    PROVE  IsFiniteSet(At(pc, place, s)) /\ Cardinality(At(pc, place, s)) \in Nat
BY BillingAssumption, FS_Subset, FS_CardinalityType DEF At

\* A thread that moves leaves the one place and joins the other.
LEMMA Moving ==
    ASSUME TypesOK, NEW r \in Request, NEW to, pc[r] # to, pc' = [pc EXCEPT ![r] = to]
    PROVE  \A place \in Counting : \A s :
               /\ About[r] # s \/ place \notin {pc[r], to} =>
                      At(pc', place, s) = At(pc, place, s)
               /\ About[r] = s /\ place = pc[r] =>
                      Cardinality(At(pc', place, s)) = Cardinality(At(pc, place, s)) - 1
               /\ About[r] = s /\ place = to =>
                      Cardinality(At(pc', place, s)) = Cardinality(At(pc, place, s)) + 1
<1> TAKE place \in Counting
<1> TAKE s
<1>1. pc \in [Request -> Place]
  BY DEF TypesOK, BillingTypeOK, Place
<1>2. ASSUME About[r] # s \/ place \notin {pc[r], to}
      PROVE  At(pc', place, s) = At(pc, place, s)
  BY <1>1, <1>2 DEF At
<1>3. ASSUME About[r] = s, place = pc[r]
      PROVE  Cardinality(At(pc', place, s)) = Cardinality(At(pc, place, s)) - 1
  <2>1. At(pc', place, s) = At(pc, place, s) \ {r} /\ r \in At(pc, place, s)
    BY <1>1, <1>3 DEF At
  <2>2. QED BY <2>1, AtFinite, FS_RemoveElement
<1>4. ASSUME About[r] = s, place = to
      PROVE  Cardinality(At(pc', place, s)) = Cardinality(At(pc, place, s)) + 1
  <2>1. At(pc', place, s) = At(pc, place, s) \cup {r} /\ r \notin At(pc, place, s)
    BY <1>1, <1>4 DEF At
  <2>2. QED BY <2>1, AtFinite, FS_AddElement
<1>5. QED BY <1>2, <1>3, <1>4

\* Counted sessions with no thread inside are whole.
LEMMA CountedIsWhole ==
    ASSUME NEW m \in Collections, NEW p, NEW s \in Session, s \notin InTheMiddle(p)
    PROVE  Counted(m, p, s) <=> Whole(m, s)
<1>1. At(p, "invoiced", s) = {} /\ At(p, "settled", s) = {} /\ At(p, "credited", s) = {}
  BY DEF InTheMiddle, At, HalfDone
<1>2. m.invoices[s] \in Nat /\ m.payments[s] \in Nat /\ m.credited[s] \in Nat
  BY DEF Collections
<1>3. m.entries[s] \in Nat
  BY DEF Collections
<1>4. /\ Cardinality(At(p, "invoiced", s)) = 0 /\ Cardinality(At(p, "settled", s)) = 0
      /\ Cardinality(At(p, "credited", s)) = 0
  BY <1>1, FS_EmptySet
<1>5. QED BY <1>2, <1>3, <1>4 DEF Counted, Whole

\* A step of r that keeps the sessions counted keeps the disk whole.
LEMMA CountsKeep ==
    ASSUME mem' \in Collections, CountsOK, UNCHANGED split, Sync \/ NoSync,
           \A s \in Session \ split : Counted(mem', pc', s)
    PROVE  CountsOK'
<1>1. ASSUME Sync, NEW s \in Session \ split, s \notin torn' PROVE Whole(disk', s)
  BY <1>1, CountedIsWhole DEF Sync
<1>2. ASSUME NoSync, NEW s \in Session \ split, s \notin torn' PROVE Whole(disk', s)
  BY <1>2 DEF NoSync, CountsOK
<1>3. QED BY <1>1, <1>2 DEF CountsOK

LEMMA CountedStays ==
    ASSUME TypesOK, NEW r \in Request, NEW to, pc[r] # to, pc' = [pc EXCEPT ![r] = to],
           NEW s \in Session, Same(mem, mem', s),
           About[r] # s \/ (pc[r] \notin HalfDone /\ to \notin HalfDone),
           Counted(mem, pc, s)
    PROVE  Counted(mem', pc', s)
<1>1. pc \in [Request -> Place]
  BY DEF TypesOK, BillingTypeOK, Place
<1>2. /\ At(pc', "invoiced", s) = At(pc, "invoiced", s)
      /\ At(pc', "settled", s) = At(pc, "settled", s)
      /\ At(pc', "credited", s) = At(pc, "credited", s)
  <2>1. \A place \in Counting : About[r] # s \/ place \notin {pc[r], to} =>
            At(pc', place, s) = At(pc, place, s)
    BY Moving
  <2>2. About[r] # s \/ {"invoiced", "settled", "credited"} \cap {pc[r], to} = {}
    BY DEF HalfDone
  <2>3. QED BY <2>1, <2>2 DEF Counting
<1>3. s \in InTheMiddle(pc') <=> s \in InTheMiddle(pc)
  BY <1>1 DEF InTheMiddle
<1>4. QED BY <1>2, <1>3 DEF Counted, Same

LEMMA CountsStep ==
    ASSUME TypesOK, SessionsOK, CountsOK, [Next]_vars
    PROVE  CountsOK'
<1>t. /\ mem \in Collections /\ disk \in Collections /\ pc \in [Request -> Place] /\ PlacesOK
  BY DEF TypesOK, BillingTypeOK, Place
<1>u. mem' \in Collections
  BY BillingTypesStep DEF TypesOK, BillingTypeOK
<1>v. \A s \in Session \ split : Counted(mem, pc, s)
  BY DEF CountsOK
<1> USE DEF Goto
<1>1. ASSUME NEW r \in Request,
             BeginCheckout(r) \/ LookUpEvent(r) \/ BeginConfirm(r) \/ AddCustomer(r)
             \/ StoreEvent(r) \/ FailEvent(r) \/ CloseEvent(r) \/ CheckSession(r)
             \/ SyncGrant(r)
      PROVE  CountsOK'
  <2>1. /\ mem'.session = mem.session /\ mem'.invoices = mem.invoices
        /\ mem'.payments = mem.payments /\ mem'.credited = mem.credited
        /\ mem'.entries = mem.entries
    BY <1>1, AddCustomerFields, EventFields
    DEF BeginCheckout, LookUpEvent, BeginConfirm, StoreEvent, FailEvent, CloseEvent,
        CheckSession, SyncGrant
  <2>2. PICK to \in {"customer", "session", "new", "done", "confirm", "failing", "raised",
                     "closing", "checked"} :
            pc' = [pc EXCEPT ![r] = to] /\ pc[r] # to
    BY <1>1 DEF BeginCheckout, LookUpEvent, BeginConfirm, AddCustomer, StoreEvent, FailEvent,
                CloseEvent, CheckSession, SyncGrant, Returned, Raised
  <2>3. pc[r] \notin HalfDone /\ to \notin HalfDone
    BY <1>1 DEF BeginCheckout, LookUpEvent, BeginConfirm, AddCustomer, StoreEvent, FailEvent,
                CloseEvent, CheckSession, SyncGrant, HalfDone
  <2>4. \A s : Same(mem, mem', s)
    BY <2>1 DEF Same
  <2>5. UNCHANGED split /\ (Sync \/ NoSync)
    BY <1>1 DEF BeginCheckout, LookUpEvent, BeginConfirm, AddCustomer, StoreEvent, FailEvent,
                CloseEvent, CheckSession, SyncGrant
  <2>6. \A s \in Session \ split : Counted(mem', pc', s)
    BY <1>v, <2>2, <2>3, <2>4, CountedStays
  <2>7. QED BY <1>u, <2>5, <2>6, CountsKeep
<1>2. ASSUME NEW r \in Request, AddSession(r) PROVE CountsOK'
  <2>1. /\ mem'.session = [mem.session EXCEPT ![About[r]] = "created"]
        /\ mem'.invoices = mem.invoices /\ mem'.payments = mem.payments
        /\ mem'.credited = mem.credited /\ mem'.entries = mem.entries
        /\ pc[r] = "session" /\ pc' = [pc EXCEPT ![r] = "done"]
        /\ UNCHANGED split /\ Sync
    BY <1>2, AddSessionFields DEF AddSession
  <2>2. mem.session[About[r]] = "absent"
    BY <1>t, <2>1 DEF SessionsOK, PlacesOK
  <2>3. ASSUME NEW s \in Session \ split, s # About[r] PROVE Counted(mem', pc', s)
    <3>1. Same(mem, mem', s)
      BY <2>1, <2>3 DEF Same
    <3>2. QED BY <1>v, <2>1, <2>3, <3>1, CountedStays
  <2>4. ASSUME NEW s \in Session \ split, s = About[r] PROVE Counted(mem', pc', s)
    <3>1. Counted(mem, pc, s) /\ mem.session[s] # "paid" /\ mem'.session[s] # "paid"
      BY <1>t, <1>v, <2>1, <2>2, <2>4 DEF Collections
    <3>2. /\ At(pc', "invoiced", s) = At(pc, "invoiced", s)
          /\ At(pc', "settled", s) = At(pc, "settled", s)
          /\ At(pc', "credited", s) = At(pc, "credited", s)
      <4>1. pc[r] # "done" /\ pc' = [pc EXCEPT ![r] = "done"]
        BY <2>1
      <4>2. \A place \in Counting : place \notin {pc[r], "done"} =>
                At(pc', place, s) = At(pc, place, s)
        BY <4>1, Moving
      <4>3. QED BY <2>1, <4>2 DEF Counting
    <3>3. s \in InTheMiddle(pc') <=> s \in InTheMiddle(pc)
      BY <1>t, <2>1 DEF InTheMiddle, HalfDone
    <3>4. QED BY <2>1, <3>1, <3>2, <3>3 DEF Counted
  <2>5. QED BY <1>u, <2>1, <2>3, <2>4, CountsKeep
<1>3. ASSUME NEW r \in Request,
             MarkPaid(r) \/ AddInvoice(r) \/ AddPayment(r) \/ GiveCredits(r) \/ AppendEntry(r)
      PROVE  CountsOK'
  <2> DEFINE s == About[r]
  <2>1. pc[r] \in Inside /\ UNCHANGED split /\ NoSync
    BY <1>3 DEF MarkPaid, AddInvoice, AddPayment, GiveCredits, AppendEntry, Inside, HalfDone
  <2>2. s \in Session
    BY <1>t, <2>1 DEF PlacesOK, Confirming, Inside
  <2>3. ASSUME NEW t \in Session \ split, t # s PROVE Counted(mem', pc', t)
    <3>1. Same(mem, mem', t)
      BY <1>3, <2>2, <2>3, ConfirmElsewhere
    <3>2. PICK to \in HalfDone \cup {"logged"} : pc' = [pc EXCEPT ![r] = to] /\ pc[r] # to
      BY <1>3 DEF MarkPaid, AddInvoice, AddPayment, GiveCredits, AppendEntry, HalfDone
    <3>3. QED BY <1>v, <2>3, <3>1, <3>2, CountedStays
  <2>4. ASSUME s \notin split PROVE Counted(mem', pc', s)
    <3>1. Counted(mem, pc, s)
      BY <1>v, <2>2, <2>4
    <3>2. /\ mem.session \in [Session -> {"absent", "created", "paid"}]
          /\ mem.invoices \in [Session -> Nat] /\ mem.payments \in [Session -> Nat]
          /\ mem.credited \in [Session -> Nat] /\ mem.entries \in [Session -> Nat]
      BY <1>t DEF Collections
    <3>3. /\ Cardinality(At(pc, "invoiced", s)) \in Nat
          /\ Cardinality(At(pc, "settled", s)) \in Nat
          /\ Cardinality(At(pc, "credited", s)) \in Nat
      BY AtFinite
    <3>4. CASE MarkPaid(r)
      <4>1. pc[r] = "checked" /\ pc' = [pc EXCEPT ![r] = "paid"]
        BY <3>4 DEF MarkPaid
      <4>2. /\ mem'.session = [mem.session EXCEPT ![s] = "paid"]
            /\ mem'.invoices = mem.invoices /\ mem'.payments = mem.payments
            /\ mem'.credited = mem.credited /\ mem'.entries = mem.entries
        BY <2>2, <3>4, ConfirmFields
      <4>3. /\ Cardinality(At(pc', "invoiced", s)) = Cardinality(At(pc, "invoiced", s))
            /\ Cardinality(At(pc', "settled", s)) = Cardinality(At(pc, "settled", s))
            /\ Cardinality(At(pc', "credited", s)) = Cardinality(At(pc, "credited", s))
        <5>1. \A place \in Counting :
                  /\ place \notin {pc[r], "paid"} => At(pc', place, s) = At(pc, place, s)
                  /\ place = pc[r] =>
                         Cardinality(At(pc', place, s)) = Cardinality(At(pc, place, s)) - 1
                  /\ place = "paid" =>
                         Cardinality(At(pc', place, s)) = Cardinality(At(pc, place, s)) + 1
          BY <4>1, Moving
        <5>2. QED BY <4>1, <5>1 DEF Counting
      <4>4. s \in InTheMiddle(pc')
        BY <1>t, <2>2, <4>1 DEF InTheMiddle, HalfDone
      <4>5. QED BY <2>2, <3>1, <3>2, <3>3, <4>2, <4>3, <4>4 DEF Counted
    <3>5. CASE AddInvoice(r)
      <4>1. pc[r] = "paid" /\ pc' = [pc EXCEPT ![r] = "invoiced"]
        BY <3>5 DEF AddInvoice
      <4>2. /\ mem'.invoices = [mem.invoices EXCEPT ![s] = @ + 1]
            /\ mem'.session = mem.session /\ mem'.payments = mem.payments
            /\ mem'.credited = mem.credited /\ mem'.entries = mem.entries
        BY <2>2, <3>5, ConfirmFields
      <4>3. /\ Cardinality(At(pc', "invoiced", s)) = Cardinality(At(pc, "invoiced", s)) + 1
            /\ Cardinality(At(pc', "settled", s)) = Cardinality(At(pc, "settled", s))
            /\ Cardinality(At(pc', "credited", s)) = Cardinality(At(pc, "credited", s))
        <5>1. \A place \in Counting :
                  /\ place \notin {pc[r], "invoiced"} => At(pc', place, s) = At(pc, place, s)
                  /\ place = pc[r] =>
                         Cardinality(At(pc', place, s)) = Cardinality(At(pc, place, s)) - 1
                  /\ place = "invoiced" =>
                         Cardinality(At(pc', place, s)) = Cardinality(At(pc, place, s)) + 1
          BY <4>1, Moving
        <5>2. QED BY <4>1, <5>1 DEF Counting
      <4>4. s \in InTheMiddle(pc') /\ s \in InTheMiddle(pc)
        BY <1>t, <2>2, <4>1 DEF InTheMiddle, HalfDone
      <4>5. QED BY <2>2, <3>1, <3>2, <3>3, <4>2, <4>3, <4>4 DEF Counted
    <3>6. CASE AddPayment(r)
      <4>1. pc[r] = "invoiced" /\ pc' = [pc EXCEPT ![r] = "settled"]
        BY <3>6 DEF AddPayment
      <4>2. /\ mem'.payments = [mem.payments EXCEPT ![s] = @ + 1]
            /\ mem'.session = mem.session /\ mem'.invoices = mem.invoices
            /\ mem'.credited = mem.credited /\ mem'.entries = mem.entries
        BY <2>2, <3>6, ConfirmFields
      <4>3. /\ Cardinality(At(pc', "invoiced", s)) = Cardinality(At(pc, "invoiced", s)) - 1
            /\ Cardinality(At(pc', "settled", s)) = Cardinality(At(pc, "settled", s)) + 1
            /\ Cardinality(At(pc', "credited", s)) = Cardinality(At(pc, "credited", s))
        <5>1. \A place \in Counting :
                  /\ place \notin {pc[r], "settled"} => At(pc', place, s) = At(pc, place, s)
                  /\ place = pc[r] =>
                         Cardinality(At(pc', place, s)) = Cardinality(At(pc, place, s)) - 1
                  /\ place = "settled" =>
                         Cardinality(At(pc', place, s)) = Cardinality(At(pc, place, s)) + 1
          BY <4>1, Moving
        <5>2. QED BY <4>1, <5>1 DEF Counting
      <4>4. s \in InTheMiddle(pc') /\ s \in InTheMiddle(pc)
        BY <1>t, <2>2, <4>1 DEF InTheMiddle, HalfDone
      <4>5. QED BY <2>2, <3>1, <3>2, <3>3, <4>2, <4>3, <4>4 DEF Counted
    <3>7. CASE GiveCredits(r)
      <4>1. pc[r] = "settled" /\ pc' = [pc EXCEPT ![r] = "credited"]
        BY <3>7 DEF GiveCredits
      <4>2. /\ mem'.credited = [mem.credited EXCEPT ![s] = @ + 1]
            /\ mem'.session = mem.session /\ mem'.invoices = mem.invoices
            /\ mem'.payments = mem.payments /\ mem'.entries = mem.entries
        BY <2>2, <3>7, ConfirmFields
      <4>3. /\ Cardinality(At(pc', "invoiced", s)) = Cardinality(At(pc, "invoiced", s))
            /\ Cardinality(At(pc', "settled", s)) = Cardinality(At(pc, "settled", s)) - 1
            /\ Cardinality(At(pc', "credited", s)) = Cardinality(At(pc, "credited", s)) + 1
        <5>1. \A place \in Counting :
                  /\ place \notin {pc[r], "credited"} => At(pc', place, s) = At(pc, place, s)
                  /\ place = pc[r] =>
                         Cardinality(At(pc', place, s)) = Cardinality(At(pc, place, s)) - 1
                  /\ place = "credited" =>
                         Cardinality(At(pc', place, s)) = Cardinality(At(pc, place, s)) + 1
          BY <4>1, Moving
        <5>2. QED BY <4>1, <5>1 DEF Counting
      <4>4. s \in InTheMiddle(pc') /\ s \in InTheMiddle(pc)
        BY <1>t, <2>2, <4>1 DEF InTheMiddle, HalfDone
      <4>5. QED BY <2>2, <3>1, <3>2, <3>3, <4>2, <4>3, <4>4 DEF Counted
    <3>8. CASE AppendEntry(r)
      <4>1. pc[r] = "credited" /\ pc' = [pc EXCEPT ![r] = "logged"]
        BY <3>8 DEF AppendEntry
      <4>2. /\ mem'.entries = [mem.entries EXCEPT ![s] = @ + 1]
            /\ mem'.session = mem.session /\ mem'.invoices = mem.invoices
            /\ mem'.payments = mem.payments /\ mem'.credited = mem.credited
        BY <2>2, <3>8, ConfirmFields
      <4>3. /\ Cardinality(At(pc', "invoiced", s)) = Cardinality(At(pc, "invoiced", s))
            /\ Cardinality(At(pc', "settled", s)) = Cardinality(At(pc, "settled", s))
            /\ Cardinality(At(pc', "credited", s)) = Cardinality(At(pc, "credited", s)) - 1
        <5>1. \A place \in Counting :
                  /\ place \notin {pc[r], "logged"} => At(pc', place, s) = At(pc, place, s)
                  /\ place = pc[r] =>
                         Cardinality(At(pc', place, s)) = Cardinality(At(pc, place, s)) - 1
                  /\ place = "logged" =>
                         Cardinality(At(pc', place, s)) = Cardinality(At(pc, place, s)) + 1
          BY <4>1, Moving
        <5>2. QED BY <4>1, <5>1 DEF Counting
      <4>4. s \in InTheMiddle(pc)
        BY <1>t, <2>2, <4>1 DEF InTheMiddle, HalfDone
      <4>5. QED BY <2>2, <3>1, <3>2, <3>3, <4>2, <4>3, <4>4 DEF Counted
    <3>9. QED BY <1>3, <3>4, <3>5, <3>6, <3>7, <3>8
  <2>5. QED BY <1>u, <2>1, <2>2, <2>3, <2>4, CountsKeep
<1>4. CASE Crash
  <2>1. /\ mem' = disk /\ disk' = disk /\ split' = split \cup torn /\ torn' = torn
        /\ \A r \in Request : pc'[r] \in Rest
    BY <1>t, <1>4 DEF Crash, Rest
  <2>2. InTheMiddle(pc') = {}
    BY <2>1 DEF InTheMiddle, HalfDone, Rest
  <2>3. \A s \in Session \ split' : Whole(disk, s)
    BY <2>1 DEF CountsOK
  <2>4. \A s \in Session \ split' : Counted(mem', pc', s)
    BY <1>t, <2>1, <2>2, <2>3, CountedIsWhole
  <2>5. QED BY <2>1, <2>3, <2>4 DEF CountsOK
<1>5. CASE UNCHANGED vars
  BY <1>5 DEF vars, CountsOK
<1>6. ASSUME NEW r \in Request, Serve(r) PROVE CountsOK'
  BY <1>1, <1>2, <1>3, <1>6 DEF Serve
<1>7. QED BY <1>1, <1>4, <1>5, <1>6 DEF Next

LEMMA InitCounts == Init => CountsOK
<1> SUFFICES ASSUME Init PROVE CountsOK
  OBVIOUS
<1>1. mem \in Collections /\ InTheMiddle(pc) = {} /\ disk = mem
  BY InitTypes DEF TypesOK, BillingTypeOK, Init, InTheMiddle, HalfDone
<1>2. \A s \in Session : Whole(mem, s)
  BY DEF Init, Whole
<1>3. QED BY <1>1, <1>2, CountedIsWhole DEF CountsOK

\* Theorem: outside of the confirmations that are under way, and but for those of which
\* a crash has kept what another request's sync had written, every session has as many
\* invoices, payments, credits and ledger entries as it was confirmed, and is paid
\* exactly when it has some.
THEOREM PurchasesAreWhole == Spec => []PurchaseIsWhole
<1>1. TypesOK /\ CountsOK => PurchaseIsWhole
  BY CountedIsWhole DEF TypesOK, BillingTypeOK, CountsOK, PurchaseIsWhole
<1>2. QED
  BY <1>1, InitTypes, InitSessions, InitCounts, BillingTypesStep, SessionsStep, CountsStep,
     PTL DEF Spec

-----------------------------------------------------------------------------
\* A session that is paid, or that a thread will find so or make so.
Underway(s) ==
    \/ mem.session[s] = "paid"
    \/ \E q \in Request : About[q] = s /\ pc[q] \in {"confirm", "checked"}

\* While the process lives, every session of a stored or answered delivery is one.
AcksOK ==
    crashes = 0 =>
        /\ split = {}
        /\ \A r \in Request :
               Op[r] = "webhook" /\ About[r] # NoSession
               /\ (mem.event[r] # "none" \/ pc[r] = "done")
               => Underway(About[r])

\* A step of r that keeps every session under way.
LEMMA AcksStay ==
    ASSUME TypesOK, AcksOK, NEW r \in Request, NEW to, pc' = [pc EXCEPT ![r] = to],
           UNCHANGED <<split, crashes>>,
           \A s \in Session : Underway(s) => Underway(s)',
           \A q \in Request \ {r} : mem'.event[q] = mem.event[q],
           crashes = 0 /\ Op[r] = "webhook" /\ About[r] # NoSession
               /\ (mem'.event[r] # "none" \/ to = "done") => Underway(About[r])'
    PROVE  AcksOK'
<1>1. pc \in [Request -> Place]
  BY DEF TypesOK, BillingTypeOK, Place
<1>2. ASSUME NEW q \in Request, crashes = 0, Op[q] = "webhook", About[q] # NoSession,
             mem'.event[q] # "none" \/ pc'[q] = "done"
      PROVE  Underway(About[q])'
  <2>1. CASE q = r
    BY <1>1, <1>2, <2>1
  <2>2. CASE q # r
    <3>1. About[q] \in Session
      BY <1>2, BillingAssumption
    <3>2. Underway(About[q])
      BY <1>1, <1>2, <2>2 DEF AcksOK
    <3>3. QED BY <3>1, <3>2
  <2>3. QED BY <2>1, <2>2
<1>3. QED BY <1>2 DEF AcksOK

\* What is under way stays so when no session changes and r is not confirming.
LEMMA UnderwayStays ==
    ASSUME TypesOK, NEW r \in Request, NEW to, pc' = [pc EXCEPT ![r] = to],
           NEW s \in Session, mem'.session[s] = mem.session[s],
           About[r] = s => pc[r] \notin {"confirm", "checked"}, Underway(s)
    PROVE  Underway(s)'
<1>1. pc \in [Request -> Place]
  BY DEF TypesOK, BillingTypeOK, Place
<1>2. CASE mem.session[s] = "paid"
  BY <1>2 DEF Underway
<1>3. ASSUME NEW q \in Request, About[q] = s, pc[q] \in {"confirm", "checked"}
      PROVE  Underway(s)'
  BY <1>1, <1>3 DEF Underway
<1>4. QED BY <1>2, <1>3 DEF Underway

LEMMA AcksStep ==
    ASSUME TypesOK, SessionsOK, EventsOK, AcksOK, [Next]_vars
    PROVE  AcksOK'
<1>t. /\ mem \in Collections /\ disk \in Collections /\ pc \in [Request -> Place] /\ PlacesOK
  BY DEF TypesOK, BillingTypeOK, Place
<1>u. \A r \in Request : Op[r] = "webhook" => About[r] = NoSession \/ About[r] \in Session
  BY BillingAssumption
<1> USE DEF Goto
<1>1. ASSUME NEW r \in Request, BeginCheckout(r) \/ AddCustomer(r) \/ AddSession(r)
      PROVE  AcksOK'
  <2>1. mem'.event = mem.event /\ UNCHANGED <<split, crashes>>
    BY <1>1, AddCustomerFields, AddSessionFields DEF BeginCheckout, AddCustomer, AddSession
  <2>2. PICK to \in {"customer", "session", "done"} : pc' = [pc EXCEPT ![r] = to]
    BY <1>1 DEF BeginCheckout, AddCustomer, AddSession
  <2>3. Op[r] = "checkout" /\ pc[r] \in {"idle", "customer", "session"}
    BY <1>t, <1>1 DEF BeginCheckout, AddCustomer, AddSession, PlacesOK
  <2>4. mem.session[About[r]] # "paid"
    BY <2>3 DEF SessionsOK
  <2>5. ASSUME NEW s \in Session, Underway(s) PROVE Underway(s)'
    <3>1. mem'.session[s] = mem.session[s] \/ (s = About[r] /\ mem.session[s] # "paid")
      <4>1. CASE AddSession(r)
        <5>1. mem'.session = [mem.session EXCEPT ![About[r]] = "created"]
          BY <4>1, AddSessionFields
        <5>2. mem.session \in [Session -> {"absent", "created", "paid"}]
          BY <1>t DEF Collections
        <5>3. QED BY <2>4, <5>1, <5>2
      <4>2. CASE BeginCheckout(r) \/ AddCustomer(r)
        BY <4>2, AddCustomerFields DEF BeginCheckout
      <4>3. QED BY <1>1, <4>1, <4>2
    <3>2. CASE mem'.session[s] = mem.session[s]
      BY <2>2, <2>3, <2>5, <3>2, UnderwayStays
    <3>3. CASE mem.session[s] # "paid"
      <4>1. PICK q \in Request : About[q] = s /\ pc[q] \in {"confirm", "checked"}
        BY <2>5, <3>3 DEF Underway
      <4>2. QED BY <1>t, <2>2, <2>3, <4>1 DEF Underway
    <3>4. QED BY <3>1, <3>2, <3>3
  <2>6. QED BY <2>1, <2>2, <2>3, <2>5, AcksStay
<1>2. ASSUME NEW r \in Request, BeginConfirm(r) PROVE AcksOK'
  <2>1. /\ UNCHANGED <<mem, split, crashes>> /\ pc' = [pc EXCEPT ![r] = "confirm"]
        /\ pc[r] = "idle" /\ Op[r] = "confirm"
    BY <1>2 DEF BeginConfirm
  <2>2. \A s \in Session : Underway(s) => Underway(s)'
    BY <2>1, UnderwayStays
  <2>3. QED BY <2>1, <2>2, AcksStay
<1>3. ASSUME NEW r \in Request, LookUpEvent(r) PROVE AcksOK'
  <2>1. /\ UNCHANGED <<mem, split, crashes>> /\ pc[r] = "idle" /\ Op[r] = "webhook"
        /\ pc' = [pc EXCEPT ![r] = IF Stored(Id[r]) # {} THEN "done" ELSE "new"]
    BY <1>3 DEF LookUpEvent
  <2>2. \A s \in Session : Underway(s) => Underway(s)'
    BY <2>1, UnderwayStays
  <2>3. ASSUME crashes = 0, About[r] # NoSession,
               mem.event[r] # "none" \/ Stored(Id[r]) # {}
        PROVE  Underway(About[r])
    <3>1. PICK q \in Request : Op[q] = "webhook" /\ Id[q] = Id[r] /\ mem.event[q] # "none"
      BY <2>1, <2>3 DEF Stored
    <3>2. About[q] = About[r]
      BY <2>1, <3>1, BillingAssumption
    <3>3. QED BY <2>3, <3>1, <3>2 DEF AcksOK
  <2>4. crashes = 0 /\ About[r] # NoSession /\ (mem'.event[r] # "none" \/ pc'[r] = "done")
            => Underway(About[r])'
    <3>1. pc'[r] = "done" => Stored(Id[r]) # {}
      BY <1>t, <2>1
    <3>2. QED BY <1>u, <2>1, <2>2, <2>3, <3>1
  <2>5. pc' = [pc EXCEPT ![r] = pc'[r]]
    BY <1>t, <2>1
  <2>6. QED BY <2>1, <2>2, <2>4, <2>5, AcksStay
<1>4. ASSUME NEW r \in Request, StoreEvent(r) PROVE AcksOK'
  <2>1. /\ mem'.event = [mem.event EXCEPT ![r] = "stored"] /\ mem'.session = mem.session
        /\ UNCHANGED <<split, crashes>> /\ pc[r] = "new" /\ Op[r] = "webhook"
    BY <1>t, <1>4, EventFields DEF StoreEvent, PlacesOK
  <2>2. PICK to \in {"failing", "confirm"} :
            pc' = [pc EXCEPT ![r] = to] /\ (About[r] # NoSession => to = "confirm")
    BY <1>4 DEF StoreEvent
  <2>3. \A s \in Session : Underway(s) => Underway(s)'
    BY <2>1, <2>2, UnderwayStays
  <2>4. About[r] # NoSession => Underway(About[r])'
    BY <1>t, <2>2 DEF Underway
  <2>5. \A q \in Request \ {r} : mem'.event[q] = mem.event[q]
    BY <1>t, <2>1 DEF Collections
  <2>6. QED BY <2>1, <2>2, <2>3, <2>4, <2>5, AcksStay
<1>5. ASSUME NEW r \in Request, FailEvent(r) \/ CloseEvent(r) PROVE AcksOK'
  <2>1. PICK x \in {"failed", "processed"} : mem' = [mem EXCEPT !.event[r] = x]
    BY <1>5 DEF FailEvent, CloseEvent
  <2>2. mem'.event = [mem.event EXCEPT ![r] = x] /\ mem'.session = mem.session
    BY <2>1, EventFields
  <2>3. /\ UNCHANGED <<split, crashes>> /\ pc[r] \in {"failing", "closing"}
        /\ Op[r] = "webhook"
    BY <1>t, <1>5 DEF FailEvent, CloseEvent, PlacesOK
  <2>4. PICK to \in {"raised", "done"} : pc' = [pc EXCEPT ![r] = to]
    BY <1>5 DEF FailEvent, CloseEvent
  <2>5. \A s \in Session : Underway(s) => Underway(s)'
    BY <2>2, <2>3, <2>4, UnderwayStays
  <2>6. mem.event[r] # "none"
    BY <2>3 DEF EventsOK, Storing
  <2>7. crashes = 0 /\ About[r] # NoSession => Underway(About[r])'
    BY <1>u, <2>3, <2>5, <2>6 DEF AcksOK
  <2>8. \A q \in Request \ {r} : mem'.event[q] = mem.event[q]
    BY <1>t, <2>2 DEF Collections
  <2>9. QED BY <2>3, <2>4, <2>5, <2>7, <2>8, AcksStay
<1>6. ASSUME NEW r \in Request,
             CheckSession(r) \/ MarkPaid(r) \/ AddInvoice(r) \/ AddPayment(r)
             \/ GiveCredits(r) \/ AppendEntry(r) \/ SyncGrant(r)
      PROVE  AcksOK'
  <2>1. pc[r] \in Confirming /\ UNCHANGED <<split, crashes>>
    BY <1>6 DEF CheckSession, MarkPaid, AddInvoice, AddPayment, GiveCredits, AppendEntry,
                SyncGrant, Confirming, HalfDone
  <2>2. About[r] \in Session /\ Answered(About[r])
    BY <1>t, <2>1 DEF PlacesOK, SessionsOK
  <2>3. mem'.event = mem.event
    BY <1>6, <2>2, ConfirmFields DEF CheckSession, SyncGrant
  <2>4. \E to : pc' = [pc EXCEPT ![r] = to] /\ (Op[r] = "webhook" => to # "done")
    BY <1>6 DEF CheckSession, MarkPaid, AddInvoice, AddPayment, GiveCredits, AppendEntry,
                SyncGrant, Returned, Raised
  <2>5. Op[r] = "webhook" => mem.event[r] # "none"
    BY <2>1 DEF EventsOK, Storing
  <2>6. mem.session \in [Session -> {"absent", "created", "paid"}]
    BY <1>t DEF Collections
  <2>7. ASSUME NEW s \in Session, Underway(s) PROVE Underway(s)'
    <3>1. CASE MarkPaid(r)
      <4>1. /\ mem'.session = [mem.session EXCEPT ![About[r]] = "paid"]
            /\ pc' = [pc EXCEPT ![r] = "paid"]
        BY <2>2, <3>1, ConfirmFields DEF MarkPaid
      <4>2. CASE s = About[r]
        BY <2>6, <4>1, <4>2 DEF Underway
      <4>3. CASE s # About[r]
        BY <2>6, <2>7, <4>1, <4>3, UnderwayStays
      <4>4. QED BY <4>2, <4>3
    <3>2. CASE CheckSession(r)
      <4>1. UNCHANGED mem /\ pc[r] = "confirm"
        BY <3>2 DEF CheckSession
      <4>2. CASE mem.session[About[r]] = "created"
        <5>1. pc' = [pc EXCEPT ![r] = "checked"]
          BY <3>2, <4>2 DEF CheckSession
        <5>2. QED BY <1>t, <2>7, <4>1, <5>1 DEF Underway
      <4>3. CASE mem.session[About[r]] # "created"
        <5>1. mem.session[About[r]] = "paid"
          BY <2>2, <2>6, <4>3 DEF Answered, SessionsOK
        <5>2. CASE s = About[r]
          BY <4>1, <5>1, <5>2 DEF Underway
        <5>3. CASE s # About[r]
          BY <2>4, <2>7, <4>1, <5>3, UnderwayStays
        <5>4. QED BY <5>2, <5>3
      <4>4. QED BY <4>2, <4>3
    <3>3. CASE AddInvoice(r) \/ AddPayment(r) \/ GiveCredits(r) \/ AppendEntry(r) \/ SyncGrant(r)
      <4>1. mem'.session = mem.session
        BY <2>2, <3>3, ConfirmFields DEF SyncGrant
      <4>2. pc[r] \notin {"confirm", "checked"}
        BY <3>3 DEF AddInvoice, AddPayment, GiveCredits, AppendEntry, SyncGrant
      <4>3. QED BY <2>4, <2>7, <4>1, <4>2, UnderwayStays
    <3>4. QED BY <1>6, <3>1, <3>2, <3>3
  <2>8. crashes = 0 /\ Op[r] = "webhook" => Underway(About[r])'
    BY <1>u, <2>2, <2>5, <2>7, BillingAssumption DEF AcksOK
  <2>9. QED BY <2>1, <2>3, <2>4, <2>7, <2>8, AcksStay
<1>7. CASE Crash
  <2>1. crashes' = crashes + 1 /\ crashes \in Nat
    BY <1>7, BillingAssumption DEF Crash, TypesOK, BillingTypeOK
  <2>2. QED BY <2>1 DEF AcksOK
<1>8. CASE UNCHANGED vars
  BY <1>8 DEF vars, AcksOK, Underway
<1>9. ASSUME NEW r \in Request, Serve(r) PROVE AcksOK'
  BY <1>1, <1>4, <1>5, <1>6, <1>9 DEF Serve
<1>10. QED BY <1>1, <1>2, <1>3, <1>7, <1>8, <1>9 DEF Next

\* Theorem: while the process lives, whatever delivery was answered without an error is
\* about a session that has its credits once no thread works on it.
THEOREM AcknowledgedAreCredited == Spec => []AcknowledgedIsCredited
<1>1. Init => AcksOK
  BY DEF Init, AcksOK
<1>2. TypesOK /\ CountsOK /\ AcksOK => AcknowledgedIsCredited
  <2> SUFFICES ASSUME TypesOK, CountsOK, AcksOK, crashes = 0, NEW r \in Request,
                      Op[r] = "webhook", About[r] # NoSession, pc[r] = "done",
                      Quiet(About[r])
               PROVE  mem.entries[About[r]] > 0
    BY DEF AcknowledgedIsCredited
  <2>1. About[r] \in Session /\ split = {}
    BY BillingAssumption DEF AcksOK
  <2>2. Counted(mem, pc, About[r]) /\ Underway(About[r])
    BY <2>1 DEF CountsOK, AcksOK
  <2>3. \A q \in Request : About[q] = About[r] => pc[q] \notin {"confirm", "checked"} \cup HalfDone
    BY DEF Quiet, HalfDone
  <2>4. mem.session[About[r]] = "paid" /\ About[r] \notin InTheMiddle(pc)
    BY <2>2, <2>3 DEF Underway, InTheMiddle
  <2>5. QED BY <2>2, <2>4 DEF Counted
<1>3. QED
  BY <1>1, <1>2, InitTypes, InitSessions, InitEvents, InitCounts, BillingTypesStep,
     SessionsStep, EventsStep, CountsStep, AcksStep, PTL DEF Spec

-----------------------------------------------------------------------------
\* A session has, over what its records must add up to, what a crash may have left of them.
Backed(m, p, s) ==
    /\ m.invoices[s] >= m.payments[s] + Cardinality(At(p, "invoiced", s))
    /\ m.payments[s] >= m.credited[s] + Cardinality(At(p, "settled", s))
    /\ m.credited[s] >= m.entries[s] + Cardinality(At(p, "credited", s))
    /\ m.invoices[s] > 0 \/ s \in InTheMiddle(p) => m.session[s] = "paid"

BackedOK == \A s \in Session : Backed(mem, pc, s) /\ Reasoned(disk, s)

LEMMA BackedIsReasoned ==
    ASSUME NEW m \in Collections, NEW s \in Session, NEW p
    PROVE  /\ Backed(m, p, s) => Reasoned(m, s)
           /\ Reasoned(m, s) /\ InTheMiddle(p) = {} => Backed(m, p, s)
<1>1. /\ m.invoices[s] \in Nat /\ m.payments[s] \in Nat
      /\ m.credited[s] \in Nat /\ m.entries[s] \in Nat
  BY DEF Collections
<1>2. ASSUME Backed(m, p, s) PROVE Reasoned(m, s)
  <2>1. /\ Cardinality(At(p, "invoiced", s)) \in Nat /\ Cardinality(At(p, "settled", s)) \in Nat
        /\ Cardinality(At(p, "credited", s)) \in Nat
    BY BillingAssumption, FS_Subset, FS_CardinalityType DEF At
  <2>2. QED BY <1>1, <1>2, <2>1 DEF Backed, Reasoned
<1>3. ASSUME Reasoned(m, s), InTheMiddle(p) = {} PROVE Backed(m, p, s)
  <2>1. At(p, "invoiced", s) = {} /\ At(p, "settled", s) = {} /\ At(p, "credited", s) = {}
    BY <1>3 DEF InTheMiddle, At, HalfDone
  <2>2. /\ Cardinality(At(p, "invoiced", s)) = 0 /\ Cardinality(At(p, "settled", s)) = 0
        /\ Cardinality(At(p, "credited", s)) = 0
    BY <2>1, FS_EmptySet
  <2>3. QED BY <1>1, <1>3, <2>2 DEF Backed, Reasoned
<1>4. QED BY <1>2, <1>3

\* A step of r that keeps the sessions backed keeps the disk so.
LEMMA BackedKeep ==
    ASSUME mem' \in Collections, TypesOK, BackedOK, Sync \/ NoSync,
           \A s \in Session : Backed(mem', pc', s)
    PROVE  BackedOK'
<1>1. CASE Sync
  <2>1. \A s \in Session : Reasoned(mem', s)
    BY BackedIsReasoned
  <2>2. disk' = mem'
    BY <1>1 DEF Sync
  <2>3. QED BY <2>1, <2>2 DEF BackedOK
<1>2. CASE NoSync
  BY <1>2 DEF NoSync, BackedOK
<1>3. QED BY <1>1, <1>2

LEMMA BackedStays ==
    ASSUME TypesOK, NEW r \in Request, NEW to, pc[r] # to, pc' = [pc EXCEPT ![r] = to],
           NEW s \in Session, Same(mem, mem', s),
           About[r] # s \/ (pc[r] \notin HalfDone /\ to \notin HalfDone),
           Backed(mem, pc, s)
    PROVE  Backed(mem', pc', s)
<1>1. pc \in [Request -> Place]
  BY DEF TypesOK, BillingTypeOK, Place
<1>2. /\ At(pc', "invoiced", s) = At(pc, "invoiced", s)
      /\ At(pc', "settled", s) = At(pc, "settled", s)
      /\ At(pc', "credited", s) = At(pc, "credited", s)
  <2>1. \A place \in Counting : About[r] # s \/ place \notin {pc[r], to} =>
            At(pc', place, s) = At(pc, place, s)
    BY Moving
  <2>2. About[r] # s \/ {"invoiced", "settled", "credited"} \cap {pc[r], to} = {}
    BY DEF HalfDone
  <2>3. QED BY <2>1, <2>2 DEF Counting
<1>3. s \in InTheMiddle(pc') <=> s \in InTheMiddle(pc)
  BY <1>1 DEF InTheMiddle
<1>4. QED BY <1>2, <1>3 DEF Backed, Same

\* The steps inside a confirmation.
LEMMA BackedConfirm ==
    ASSUME TypesOK, BackedOK, NEW r \in Request,
           MarkPaid(r) \/ AddInvoice(r) \/ AddPayment(r) \/ GiveCredits(r) \/ AppendEntry(r)
    PROVE  BackedOK'
<1>t. /\ mem \in Collections /\ pc \in [Request -> Place] /\ PlacesOK
  BY DEF TypesOK, BillingTypeOK, Place
<1> DEFINE s == About[r]
<1> USE DEF Goto
<1>1. pc[r] \in Inside /\ NoSync /\ s \in Session
  BY <1>t DEF MarkPaid, AddInvoice, AddPayment, GiveCredits, AppendEntry, Inside, HalfDone,
              PlacesOK, Confirming
<1>2. ASSUME NEW t \in Session, t # s PROVE Backed(mem', pc', t)
  <2>1. Same(mem, mem', t)
    BY <1>1, <1>2, ConfirmElsewhere
  <2>2. PICK to \in HalfDone \cup {"logged"} : pc' = [pc EXCEPT ![r] = to] /\ pc[r] # to
    BY DEF MarkPaid, AddInvoice, AddPayment, GiveCredits, AppendEntry, HalfDone
  <2>3. Backed(mem, pc, t)
    BY DEF BackedOK
  <2>4. QED BY <1>2, <2>1, <2>2, <2>3, BackedStays
<1>3. Backed(mem', pc', s)
  <2>2. s \in Session
    BY <1>1
  <2>4. Backed(mem, pc, s)
    BY <2>2 DEF BackedOK
  <2>5. /\ mem.session \in [Session -> {"absent", "created", "paid"}]
        /\ mem.invoices \in [Session -> Nat] /\ mem.payments \in [Session -> Nat]
        /\ mem.credited \in [Session -> Nat] /\ mem.entries \in [Session -> Nat]
    BY <1>t DEF Collections
  <2>6. /\ Cardinality(At(pc, "invoiced", s)) \in Nat
        /\ Cardinality(At(pc, "settled", s)) \in Nat
        /\ Cardinality(At(pc, "credited", s)) \in Nat
    BY AtFinite
  <2>7. CASE MarkPaid(r)
    <3>1. pc[r] = "checked" /\ pc' = [pc EXCEPT ![r] = "paid"]
      BY <2>7 DEF MarkPaid
    <3>2. /\ mem'.session = [mem.session EXCEPT ![s] = "paid"]
          /\ mem'.invoices = mem.invoices /\ mem'.payments = mem.payments
          /\ mem'.credited = mem.credited /\ mem'.entries = mem.entries
      BY <2>2, <2>7, ConfirmFields
    <3>3. /\ Cardinality(At(pc', "invoiced", s)) = Cardinality(At(pc, "invoiced", s))
          /\ Cardinality(At(pc', "settled", s)) = Cardinality(At(pc, "settled", s))
          /\ Cardinality(At(pc', "credited", s)) = Cardinality(At(pc, "credited", s))
      <4>1. \A place \in Counting :
                /\ place \notin {pc[r], "paid"} => At(pc', place, s) = At(pc, place, s)
                /\ place = pc[r] =>
                       Cardinality(At(pc', place, s)) = Cardinality(At(pc, place, s)) - 1
                /\ place = "paid" =>
                       Cardinality(At(pc', place, s)) = Cardinality(At(pc, place, s)) + 1
        BY <3>1, Moving
      <4>2. QED BY <3>1, <4>1 DEF Counting
    <3>4. QED BY <2>2, <2>4, <2>5, <2>6, <3>2, <3>3 DEF Backed
  <2>8. CASE AddInvoice(r)
    <3>1. pc[r] = "paid" /\ pc' = [pc EXCEPT ![r] = "invoiced"]
      BY <2>8 DEF AddInvoice
    <3>2. /\ mem'.invoices = [mem.invoices EXCEPT ![s] = @ + 1]
          /\ mem'.session = mem.session /\ mem'.payments = mem.payments
          /\ mem'.credited = mem.credited /\ mem'.entries = mem.entries
      BY <2>2, <2>8, ConfirmFields
    <3>3. /\ Cardinality(At(pc', "invoiced", s)) = Cardinality(At(pc, "invoiced", s)) + 1
          /\ Cardinality(At(pc', "settled", s)) = Cardinality(At(pc, "settled", s))
          /\ Cardinality(At(pc', "credited", s)) = Cardinality(At(pc, "credited", s))
      <4>1. \A place \in Counting :
                /\ place \notin {pc[r], "invoiced"} => At(pc', place, s) = At(pc, place, s)
                /\ place = pc[r] =>
                       Cardinality(At(pc', place, s)) = Cardinality(At(pc, place, s)) - 1
                /\ place = "invoiced" =>
                       Cardinality(At(pc', place, s)) = Cardinality(At(pc, place, s)) + 1
        BY <3>1, Moving
      <4>2. QED BY <3>1, <4>1 DEF Counting
    <3>4. s \in InTheMiddle(pc)
      BY <1>t, <2>2, <3>1 DEF InTheMiddle, HalfDone
    <3>5. QED BY <2>2, <2>4, <2>5, <2>6, <3>2, <3>3, <3>4 DEF Backed
  <2>9. CASE AddPayment(r)
    <3>1. pc[r] = "invoiced" /\ pc' = [pc EXCEPT ![r] = "settled"]
      BY <2>9 DEF AddPayment
    <3>2. /\ mem'.payments = [mem.payments EXCEPT ![s] = @ + 1]
          /\ mem'.session = mem.session /\ mem'.invoices = mem.invoices
          /\ mem'.credited = mem.credited /\ mem'.entries = mem.entries
      BY <2>2, <2>9, ConfirmFields
    <3>3. /\ Cardinality(At(pc', "invoiced", s)) = Cardinality(At(pc, "invoiced", s)) - 1
          /\ Cardinality(At(pc', "settled", s)) = Cardinality(At(pc, "settled", s)) + 1
          /\ Cardinality(At(pc', "credited", s)) = Cardinality(At(pc, "credited", s))
      <4>1. \A place \in Counting :
                /\ place \notin {pc[r], "settled"} => At(pc', place, s) = At(pc, place, s)
                /\ place = pc[r] =>
                       Cardinality(At(pc', place, s)) = Cardinality(At(pc, place, s)) - 1
                /\ place = "settled" =>
                       Cardinality(At(pc', place, s)) = Cardinality(At(pc, place, s)) + 1
        BY <3>1, Moving
      <4>2. QED BY <3>1, <4>1 DEF Counting
    <3>4. s \in InTheMiddle(pc)
      BY <1>t, <2>2, <3>1 DEF InTheMiddle, HalfDone
    <3>5. QED BY <2>2, <2>4, <2>5, <2>6, <3>2, <3>3, <3>4 DEF Backed
  <2>10. CASE GiveCredits(r)
    <3>1. pc[r] = "settled" /\ pc' = [pc EXCEPT ![r] = "credited"]
      BY <2>10 DEF GiveCredits
    <3>2. /\ mem'.credited = [mem.credited EXCEPT ![s] = @ + 1]
          /\ mem'.session = mem.session /\ mem'.invoices = mem.invoices
          /\ mem'.payments = mem.payments /\ mem'.entries = mem.entries
      BY <2>2, <2>10, ConfirmFields
    <3>3. /\ Cardinality(At(pc', "invoiced", s)) = Cardinality(At(pc, "invoiced", s))
          /\ Cardinality(At(pc', "settled", s)) = Cardinality(At(pc, "settled", s)) - 1
          /\ Cardinality(At(pc', "credited", s)) = Cardinality(At(pc, "credited", s)) + 1
      <4>1. \A place \in Counting :
                /\ place \notin {pc[r], "credited"} => At(pc', place, s) = At(pc, place, s)
                /\ place = pc[r] =>
                       Cardinality(At(pc', place, s)) = Cardinality(At(pc, place, s)) - 1
                /\ place = "credited" =>
                       Cardinality(At(pc', place, s)) = Cardinality(At(pc, place, s)) + 1
        BY <3>1, Moving
      <4>2. QED BY <3>1, <4>1 DEF Counting
    <3>4. s \in InTheMiddle(pc)
      BY <1>t, <2>2, <3>1 DEF InTheMiddle, HalfDone
    <3>5. QED BY <2>2, <2>4, <2>5, <2>6, <3>2, <3>3, <3>4 DEF Backed
  <2>11. CASE AppendEntry(r)
    <3>1. pc[r] = "credited" /\ pc' = [pc EXCEPT ![r] = "logged"]
      BY <2>11 DEF AppendEntry
    <3>2. /\ mem'.entries = [mem.entries EXCEPT ![s] = @ + 1]
          /\ mem'.session = mem.session /\ mem'.invoices = mem.invoices
          /\ mem'.payments = mem.payments /\ mem'.credited = mem.credited
      BY <2>2, <2>11, ConfirmFields
    <3>3. /\ Cardinality(At(pc', "invoiced", s)) = Cardinality(At(pc, "invoiced", s))
          /\ Cardinality(At(pc', "settled", s)) = Cardinality(At(pc, "settled", s))
          /\ Cardinality(At(pc', "credited", s)) = Cardinality(At(pc, "credited", s)) - 1
      <4>1. \A place \in Counting :
                /\ place \notin {pc[r], "logged"} => At(pc', place, s) = At(pc, place, s)
                /\ place = pc[r] =>
                       Cardinality(At(pc', place, s)) = Cardinality(At(pc, place, s)) - 1
                /\ place = "logged" =>
                       Cardinality(At(pc', place, s)) = Cardinality(At(pc, place, s)) + 1
        BY <3>1, Moving
      <4>2. QED BY <3>1, <4>1 DEF Counting
    <3>4. s \in InTheMiddle(pc)
      BY <1>t, <2>2, <3>1 DEF InTheMiddle, HalfDone
    <3>5. QED BY <2>2, <2>4, <2>5, <2>6, <3>2, <3>3, <3>4 DEF Backed
  <2>12. QED BY <2>7, <2>8, <2>9, <2>10, <2>11
<1>4. \A t \in Session : Backed(mem', pc', t)
  BY <1>2, <1>3
<1>5. mem' \in Collections
  BY <1>1, ConfirmFields
<1>6. QED BY <1>1, <1>4, <1>5, BackedKeep

LEMMA BackedStep ==
    ASSUME TypesOK, SessionsOK, BackedOK, [Next]_vars
    PROVE  BackedOK'
<1>t. /\ mem \in Collections /\ disk \in Collections /\ pc \in [Request -> Place] /\ PlacesOK
  BY DEF TypesOK, BillingTypeOK, Place
<1>u. mem' \in Collections
  BY BillingTypesStep DEF TypesOK, BillingTypeOK
<1> USE DEF Goto
<1>1. ASSUME NEW r \in Request,
             BeginCheckout(r) \/ LookUpEvent(r) \/ BeginConfirm(r) \/ AddCustomer(r)
             \/ StoreEvent(r) \/ FailEvent(r) \/ CloseEvent(r) \/ CheckSession(r)
             \/ SyncGrant(r)
      PROVE  BackedOK'
  <2>1. /\ mem'.session = mem.session /\ mem'.invoices = mem.invoices
        /\ mem'.payments = mem.payments /\ mem'.credited = mem.credited
        /\ mem'.entries = mem.entries
    BY <1>1, AddCustomerFields, EventFields
    DEF BeginCheckout, LookUpEvent, BeginConfirm, StoreEvent, FailEvent, CloseEvent,
        CheckSession, SyncGrant
  <2>2. PICK to \in {"customer", "session", "new", "done", "confirm", "failing", "raised",
                     "closing", "checked"} :
            pc' = [pc EXCEPT ![r] = to] /\ pc[r] # to
    BY <1>1 DEF BeginCheckout, LookUpEvent, BeginConfirm, AddCustomer, StoreEvent, FailEvent,
                CloseEvent, CheckSession, SyncGrant, Returned, Raised
  <2>3. pc[r] \notin HalfDone /\ to \notin HalfDone
    BY <1>1 DEF BeginCheckout, LookUpEvent, BeginConfirm, AddCustomer, StoreEvent, FailEvent,
                CloseEvent, CheckSession, SyncGrant, HalfDone
  <2>4. \A s : Same(mem, mem', s)
    BY <2>1 DEF Same
  <2>5. Sync \/ NoSync
    BY <1>1 DEF BeginCheckout, LookUpEvent, BeginConfirm, AddCustomer, StoreEvent, FailEvent,
                CloseEvent, CheckSession, SyncGrant
  <2>6. ASSUME NEW s \in Session PROVE Backed(mem', pc', s)
    <3>1. Backed(mem, pc, s)
      BY DEF BackedOK
    <3>2. QED BY <2>2, <2>3, <2>4, <3>1, BackedStays
  <2>7. QED BY <1>u, <2>5, <2>6, BackedKeep
<1>2. ASSUME NEW r \in Request, AddSession(r) PROVE BackedOK'
  <2>1. /\ mem'.session = [mem.session EXCEPT ![About[r]] = "created"]
        /\ mem'.invoices = mem.invoices /\ mem'.payments = mem.payments
        /\ mem'.credited = mem.credited /\ mem'.entries = mem.entries
        /\ pc[r] = "session" /\ pc' = [pc EXCEPT ![r] = "done"] /\ Sync
    BY <1>2, AddSessionFields DEF AddSession
  <2>2. mem.session[About[r]] = "absent"
    BY <1>t, <2>1 DEF SessionsOK, PlacesOK
  <2>3. ASSUME NEW s \in Session, s # About[r] PROVE Backed(mem', pc', s)
    <3>1. Same(mem, mem', s)
      BY <2>1, <2>3 DEF Same
    <3>2. Backed(mem, pc, s)
      BY DEF BackedOK
    <3>3. QED BY <2>1, <2>3, <3>1, <3>2, BackedStays
  <2>4. ASSUME NEW s \in Session, s = About[r] PROVE Backed(mem', pc', s)
    <3>1. Backed(mem, pc, s) /\ mem.session[s] # "paid"
      BY <2>2, <2>4 DEF BackedOK
    <3>2. /\ At(pc', "invoiced", s) = At(pc, "invoiced", s)
          /\ At(pc', "settled", s) = At(pc, "settled", s)
          /\ At(pc', "credited", s) = At(pc, "credited", s)
      <4>1. pc[r] # "done" /\ pc' = [pc EXCEPT ![r] = "done"]
        BY <2>1
      <4>2. \A place \in Counting : place \notin {pc[r], "done"} =>
                At(pc', place, s) = At(pc, place, s)
        BY <4>1, Moving
      <4>3. QED BY <2>1, <4>2 DEF Counting
    <3>3. s \in InTheMiddle(pc') <=> s \in InTheMiddle(pc)
      BY <1>t, <2>1 DEF InTheMiddle, HalfDone
    <3>4. QED BY <2>1, <3>1, <3>2, <3>3 DEF Backed
  <2>5. QED BY <1>u, <2>1, <2>3, <2>4, BackedKeep
<1>3. CASE Crash
  <2>1. /\ mem' = disk /\ disk' = disk /\ \A r \in Request : pc'[r] \in Rest
    BY <1>t, <1>3 DEF Crash, Rest
  <2>2. InTheMiddle(pc') = {}
    BY <2>1 DEF InTheMiddle, HalfDone, Rest
  <2>3. \A s \in Session : Reasoned(disk, s)
    BY DEF BackedOK
  <2>4. \A s \in Session : Backed(mem', pc', s)
    BY <1>t, <2>1, <2>2, <2>3, BackedIsReasoned
  <2>5. QED BY <2>1, <2>3, <2>4 DEF BackedOK
<1>4. CASE UNCHANGED vars
  BY <1>4 DEF vars, BackedOK
<1>5. ASSUME NEW r \in Request, Serve(r) PROVE BackedOK'
  BY <1>1, <1>2, <1>5, BackedConfirm DEF Serve
<1>6. QED BY <1>1, <1>3, <1>4, <1>5 DEF Next

\* Theorem: no crash and no race of confirmations gives credits that were not paid for,
\* in memory or on disk.
THEOREM CreditsAreBoughtHolds == Spec => []CreditsAreBought
<1>1. TypesOK /\ BackedOK => CreditsAreBought
  BY BackedIsReasoned DEF TypesOK, BillingTypeOK, BackedOK, CreditsAreBought
<1>2. ASSUME Init PROVE BackedOK
  <2>1. mem \in Collections /\ disk = mem /\ InTheMiddle(pc) = {}
    BY <1>2, InitTypes DEF TypesOK, BillingTypeOK, Init, InTheMiddle, HalfDone
  <2>2. \A s \in Session : Reasoned(mem, s)
    BY <1>2 DEF Init, Reasoned
  <2>3. QED BY <2>1, <2>2, BackedIsReasoned DEF BackedOK
<1>3. QED
  BY <1>1, <1>2, InitTypes, InitSessions, BillingTypesStep, SessionsStep, BackedStep,
     PTL DEF Spec
=============================================================================
