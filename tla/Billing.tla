------------------------------ MODULE Billing ------------------------------
(***************************************************************************)
(* BillingService: checkout sessions, their confirmation by a client or by *)
(* a webhook delivery of the payment provider, and the credits they grant. *)
(* Requests are served on threads over one memory (see CreditThreads for   *)
(* where CPython switches them); a step runs from one call to the next.    *)
(* The memory is written to disk as a whole by every sync of every         *)
(* request, so that one request may write another's half of an update.     *)
(*                                                                         *)
(* Each session asks for its own amount of credits, so what it has added   *)
(* to the account is how often it was credited, and its ledger entries are *)
(* the ones whose note says checkout:<id>.  One payment provider.          *)
(*                                                                         *)
(* Left out: amounts, the signature of a delivery and the role of the      *)
(* caller (a request here is past both checks), audit entries.             *)
(***************************************************************************)
EXTENDS Integers, FiniteSets

CONSTANTS
    Workspace,
    Session,        \* checkout sessions
    WorkspaceOf,    \* the workspace each is created for
    Event,          \* provider_event_id of webhook events
    NoSession,      \* a delivery of an unsupported type is about no session
    NoEvent,
    Request,        \* the requests to serve, each on a thread of its own
    Op, About, Id,  \* of a request: what it asks, its session, its event id
    MaxCrashes      \* bound: crashes of the process

ASSUME BillingAssumption ==
    /\ WorkspaceOf \in [Session -> Workspace]
    /\ NoSession \notin Session
    /\ Op \in [Request -> {"checkout", "confirm", "webhook"}]
    /\ About \in [Request -> Session \cup {NoSession}]
    /\ Id \in [Request -> Event \cup {NoEvent}]
    /\ \A r \in Request : IF Op[r] = "webhook" THEN Id[r] # NoEvent ELSE About[r] # NoSession
    \* Ids of sessions are fresh (uuid4), and an event is about one of them.
    /\ \A q, r \in Request :
           /\ Op[q] = "checkout" /\ Op[r] = "checkout" /\ About[q] = About[r] => q = r
           /\ Op[q] = "webhook" /\ Op[r] = "webhook" /\ Id[q] = Id[r] => About[q] = About[r]
    /\ IsFiniteSet(Request)
    /\ MaxCrashes \in Nat

VARIABLES
    mem,        \* the collections of the process
    disk,       \* what sync wrote last
    pc,         \* Request -> where its thread is
    overlapped, \* sessions, events and workspaces two requests looked up at once
    torn,       \* sessions in the middle of a confirmation when disk was written
    split,      \* sessions of which a crash has kept such a half
    crashes

vars == <<mem, disk, pc, overlapped, torn, split, crashes>>

Collections ==
    [session : [Session -> {"absent", "created", "paid"}],
     invoices : [Session -> Nat],
     payments : [Session -> Nat],
     credited : [Session -> Nat],       \* times account.available grew by its amount
     entries : [Session -> Nat],
     event : [Request -> {"none", "stored", "processed", "failed"}],
     customers : [Workspace -> Nat]]

Init ==
    /\ mem = [session |-> [s \in Session |-> "absent"],
              invoices |-> [s \in Session |-> 0],
              payments |-> [s \in Session |-> 0],
              credited |-> [s \in Session |-> 0],
              entries |-> [s \in Session |-> 0],
              event |-> [r \in Request |-> "none"],
              customers |-> [w \in Workspace |-> 0]]
    /\ disk = mem
    /\ pc = [r \in Request |-> "idle"]
    /\ overlapped = {}
    /\ torn = {}
    /\ split = {}
    /\ crashes = 0

Goto(r, from, to) == pc[r] = from /\ pc' = [pc EXCEPT ![r] = to]

\* A client, and through it the provider, knows a session whose checkout was answered.
Answered(s) ==
    \E r \in Request : Op[r] = "checkout" /\ About[r] = s /\ pc[r] = "done"

\* The sessions some thread has marked paid and not yet credited and logged.
HalfDone == {"paid", "invoiced", "settled", "credited"}
InTheMiddle(place) ==
    {s \in Session : \E r \in Request : About[r] = s /\ place[r] \in HalfDone}

Subject(r, place) ==
    CASE place = "customer" -> WorkspaceOf[About[r]]
      [] place = "new" -> Id[r]
      [] place = "checked" -> About[r]

\* Two requests that looked at x while it was not there, before either added it: r
\* does so now, and some other has and is at place.
Overlap(x, r, place, now) ==
    overlapped' = overlapped \cup
        {y \in {x} : now /\ \E q \in Request \ {r} : pc[q] = place /\ Subject(q, place) = y}

Sync == disk' = mem' /\ torn' = InTheMiddle(pc')
NoSync == UNCHANGED <<disk, torn>>

-----------------------------------------------------------------------------
\* Mutant: the customer is not looked for.
BeginCheckout_AlwaysAdds(r) ==
    LET w == WorkspaceOf[About[r]] IN
    /\ Op[r] = "checkout"
    /\ Goto(r, "idle", "customer")
    /\ Overlap(w, r, "customer", mem.customers[w] = 0)
    /\ NoSync
    /\ UNCHANGED <<mem, split, crashes>>

\* create_checkout_session: ensure_customer looks for a customer of the workspace ...
BeginCheckout(r) ==
    LET w == WorkspaceOf[About[r]] IN
    /\ Op[r] = "checkout"
    /\ Goto(r, "idle", IF mem.customers[w] = 0 THEN "customer" ELSE "session")
    /\ Overlap(w, r, "customer", mem.customers[w] = 0)
    /\ NoSync
    /\ UNCHANGED <<mem, split, crashes>>

\* ... and adds one, and syncs, if there was none.
AddCustomer(r) ==
    /\ Goto(r, "customer", "session")
    /\ mem' = [mem EXCEPT !.customers[WorkspaceOf[About[r]]] = @ + 1]
    /\ Sync
    /\ UNCHANGED <<overlapped, split, crashes>>

\* Mutant: a status the confirmation does not know.
AddSession_Open(r) ==
    /\ Goto(r, "session", "done")
    /\ mem' = [mem EXCEPT !.session[About[r]] = "open"]
    /\ Sync
    /\ UNCHANGED <<overlapped, split, crashes>>

AddSession(r) ==
    /\ Goto(r, "session", "done")
    /\ mem' = [mem EXCEPT !.session[About[r]] = "created"]
    /\ Sync
    /\ UNCHANGED <<overlapped, split, crashes>>

\* process_webhook_event: a delivery whose event id is stored already, processed or
\* not, is answered with the stored event.
Stored(e) == {q \in Request : Op[q] = "webhook" /\ Id[q] = e /\ mem.event[q] # "none"}

LookUpEvent(r) ==
    /\ Op[r] = "webhook"
    /\ About[r] # NoSession => Answered(About[r])
    /\ Goto(r, "idle", IF Stored(Id[r]) # {} THEN "done" ELSE "new")
    /\ Overlap(Id[r], r, "new", Stored(Id[r]) = {})
    /\ NoSync
    /\ UNCHANGED <<mem, split, crashes>>

StoreEvent(r) ==
    /\ Goto(r, "new", IF About[r] = NoSession THEN "failing" ELSE "confirm")
    /\ mem' = [mem EXCEPT !.event[r] = "stored"]
    /\ NoSync
    /\ UNCHANGED <<overlapped, split, crashes>>

\* The error is stored on the event, and raised again.
FailEvent(r) ==
    /\ Goto(r, "failing", "raised")
    /\ mem' = [mem EXCEPT !.event[r] = "failed"]
    /\ Sync
    /\ UNCHANGED <<overlapped, split, crashes>>

CloseEvent(r) ==
    /\ Goto(r, "closing", "done")
    /\ mem' = [mem EXCEPT !.event[r] = "processed"]
    /\ Sync
    /\ UNCHANGED <<overlapped, split, crashes>>

-----------------------------------------------------------------------------
\* confirm_checkout_session
BeginConfirm(r) ==
    /\ Op[r] = "confirm"
    /\ Answered(About[r])
    /\ Goto(r, "idle", "confirm")
    /\ NoSync
    /\ UNCHANGED <<mem, overlapped, split, crashes>>

Returned(r) == IF Op[r] = "webhook" THEN "closing" ELSE "done"
Raised(r) == IF Op[r] = "webhook" THEN "failing" ELSE "raised"

\* A paid session is answered with its first invoice, the payment of that invoice and
\* a ledger entry; next() raises StopIteration when one of them is not there.  Where
\* confirmations have overlapped, the first invoice may be one that has no payment yet.
Recorded(s) == mem.invoices[s] > 0 /\ mem.payments[s] > 0 /\ mem.entries[s] > 0
Incomplete(s) == mem.payments[s] < mem.invoices[s] \/ ~Recorded(s)

CheckSession(r) ==
    LET s == About[r] IN
    /\ pc[r] = "confirm"
    /\ \/ mem.session[s] = "created" /\ Goto(r, "confirm", "checked")
       \/ /\ mem.session[s] # "created"
          /\ \/ Recorded(s) /\ Goto(r, "confirm", Returned(r))
             \/ Incomplete(s) /\ Goto(r, "confirm", Raised(r))
    /\ Overlap(s, r, "checked", mem.session[s] = "created")
    /\ NoSync
    /\ UNCHANGED <<mem, split, crashes>>

\* Mutant: the session stays open until it is confirmed again.
MarkPaid_Forgets(r) ==
    /\ Goto(r, "checked", "paid")
    /\ NoSync
    /\ UNCHANGED <<mem, overlapped, split, crashes>>

\* Invoice and payment are constructed, two calls, before the status is set.
MarkPaid(r) ==
    /\ Goto(r, "checked", "paid")
    /\ mem' = [mem EXCEPT !.session[About[r]] = "paid"]
    /\ NoSync
    /\ UNCHANGED <<overlapped, split, crashes>>

AddInvoice(r) ==
    /\ Goto(r, "paid", "invoiced")
    /\ mem' = [mem EXCEPT !.invoices[About[r]] = @ + 1]
    /\ NoSync
    /\ UNCHANGED <<overlapped, split, crashes>>

\* Mutant: one payment is enough.
AddPayment_Once(r) ==
    /\ Goto(r, "invoiced", "settled")
    /\ mem' = [mem EXCEPT !.payments[About[r]] = 1]
    /\ NoSync
    /\ UNCHANGED <<overlapped, split, crashes>>

AddPayment(r) ==
    /\ Goto(r, "invoiced", "settled")
    /\ mem' = [mem EXCEPT !.payments[About[r]] = @ + 1]
    /\ NoSync
    /\ UNCHANGED <<overlapped, split, crashes>>

\* Mutant: whoever finds a second invoice leaves the grant to the other.
GiveCredits_Polite(r) ==
    /\ pc[r] = "settled"
    /\ \/ /\ mem.invoices[About[r]] = 1
          /\ Goto(r, "settled", "credited")
          /\ mem' = [mem EXCEPT !.credited[About[r]] = @ + 1]
       \/ /\ mem.invoices[About[r]] > 1
          /\ Goto(r, "settled", Returned(r))
          /\ UNCHANGED mem
    /\ NoSync
    /\ UNCHANGED <<overlapped, split, crashes>>

\* CreditService.grant: the account grows, the entry is appended, all is synced.
GiveCredits(r) ==
    /\ Goto(r, "settled", "credited")
    /\ mem' = [mem EXCEPT !.credited[About[r]] = @ + 1]
    /\ NoSync
    /\ UNCHANGED <<overlapped, split, crashes>>

AppendEntry(r) ==
    /\ Goto(r, "credited", "logged")
    /\ mem' = [mem EXCEPT !.entries[About[r]] = @ + 1]
    /\ NoSync
    /\ UNCHANGED <<overlapped, split, crashes>>

SyncGrant(r) ==
    /\ Goto(r, "logged", Returned(r))
    /\ UNCHANGED mem
    /\ Sync
    /\ UNCHANGED <<overlapped, split, crashes>>

\* The process dies, and a new one loads the disk.
Crash ==
    /\ crashes < MaxCrashes
    /\ crashes' = crashes + 1
    /\ mem' = disk
    /\ pc' = [r \in Request |->
                 IF pc[r] \in {"idle", "done", "raised"} THEN pc[r] ELSE "crashed"]
    /\ split' = split \cup torn
    /\ UNCHANGED <<disk, overlapped, torn>>

Serve(r) ==
    \/ AddCustomer(r) \/ AddSession(r)
    \/ StoreEvent(r) \/ FailEvent(r) \/ CloseEvent(r)
    \/ CheckSession(r) \/ MarkPaid(r) \/ AddInvoice(r) \/ AddPayment(r)
    \/ GiveCredits(r) \/ AppendEntry(r) \/ SyncGrant(r)

Next ==
    \/ \E r \in Request : BeginCheckout(r) \/ LookUpEvent(r) \/ BeginConfirm(r) \/ Serve(r)
    \/ Crash

Spec == Init /\ [][Next]_vars

-----------------------------------------------------------------------------
BillingTypeOK ==
    /\ mem \in Collections
    /\ disk \in Collections
    /\ pc \in [Request -> HalfDone \cup
                   {"idle", "customer", "session", "new", "failing", "closing", "confirm",
                    "checked", "logged", "done", "raised", "crashed"}]
    /\ overlapped \subseteq Workspace \cup Session \cup Event
    /\ torn \subseteq Session
    /\ split \subseteq Session
    /\ crashes \in 0..MaxCrashes

\* A session all of whose records are of one number: n confirmations of it.
Whole(m, s) ==
    /\ m.invoices[s] = m.payments[s]
    /\ m.payments[s] = m.credited[s]
    /\ m.credited[s] = m.entries[s]
    /\ m.session[s] = "paid" <=> m.entries[s] > 0

\* Safety: a paid session has its invoice, its payment, its credits and its ledger
\* entry, as many of one as of the other, and an unpaid one has none, whenever no
\* thread is inside its confirmation.  The one exception is a crash after another
\* request's sync wrote the middle of the confirmation.
PurchaseIsWhole ==
    \A s \in Session \ (split \cup InTheMiddle(pc)) : Whole(mem, s)

\* Safety (docs/06: "does not grant credits twice"): a session is credited and logged
\* at most once, however often clients confirm it and the provider delivers its
\* event, unless two of them found it unpaid at the same time.  Likewise an event id
\* is stored once, unless two deliveries of it both found none.
BoughtOnce ==
    /\ \A s \in Session \ overlapped :
           mem.invoices[s] <= 1 /\ mem.credited[s] <= 1 /\ mem.entries[s] <= 1
    /\ \A e \in Event \ overlapped : Cardinality(Stored(e)) <= 1

\* Safety: a workspace has one billing customer, unless two checkouts both found none.
OneCustomer == \A w \in Workspace \ overlapped : mem.customers[w] <= 1

\* m has of s nothing whose reason it does not have.
Reasoned(m, s) ==
    /\ m.entries[s] <= m.credited[s] /\ m.credited[s] <= m.payments[s]
    /\ m.payments[s] <= m.invoices[s]
    /\ m.invoices[s] > 0 => m.session[s] = "paid"

\* Safety (docs/06: "create invoice and payment records, then grant"): no credit
\* without a payment, no payment without an invoice, none of them for a session that is
\* still open, in memory or in what a crash would leave of it.  The halves of purchases
\* that crashes and overlapping confirmations leave are never in favour of the buyer,
\* and a session that gave credits is not confirmed again after a restart.
CreditsAreBought == \A m \in {mem, disk}, s \in Session : Reasoned(m, s)

\* No thread is inside a request about s.
Quiet(s) ==
    \A r \in Request : About[r] = s => pc[r] \in {"idle", "done", "raised", "crashed"}

\* Safety: a delivery that was answered without an error, even one that was answered
\* because the first delivery of its event was still being processed, is about a
\* session that has its credits once nobody works on it, unless the process has
\* crashed: the provider may forget the event.
AcknowledgedIsCredited ==
    crashes = 0 =>
        \A r \in Request :
            Op[r] = "webhook" /\ About[r] # NoSession /\ pc[r] = "done" /\ Quiet(About[r])
            => mem.entries[About[r]] > 0
=============================================================================
