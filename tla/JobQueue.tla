------------------------------ MODULE JobQueue ------------------------------
(***************************************************************************)
(* ScanExecutionService in one process, the deployment without a worker:   *)
(* POST /api/scans stores a passive scan and enqueues a job for it, the    *)
(* background thread (KERISLAB_BACKGROUND_WORKER=1) takes jobs off the     *)
(* in-process queue, and so do requests to POST /api/execution/drain.      *)
(*                                                                         *)
(* What requests and jobs do to scans and credits are the steps of         *)
(* CreditThreads: a job runs its scan on the thread that executes it,      *)
(* while the other requests run on theirs.  Every passive scan has one     *)
(* job, so a job is named by its scan.                                     *)
(*                                                                         *)
(* The database holds the memory as it was when some thread last synced,   *)
(* half of an operation included; a restart of the process goes back to    *)
(* it, and loses the queue.                                                *)
(***************************************************************************)
EXTENDS CreditThreads

CONSTANTS
    Background,     \* the background thread
    Drainer,        \* request threads that serve POST /api/execution/drain
    MaxRestarts     \* bound: restarts of the process

\* The run of the job of scan s, a request like the others but served by an executor.
RunOf(s) == [op |-> "run_passive", workspace |-> WorkspaceOf[s], scan |-> s, amount |-> 0]

\* Ids of scans are fresh, so one request creates each; and each has a job to run.
\* POST /api/scans/{id}/run-passive does what POST /api/scans/{id}/complete does to a
\* scan and its credit: as a request of a client it is called "complete" here.
ASSUME JobAssumption ==
    /\ Background \notin Drainer
    /\ \A q, r \in Request : q.op = "create" /\ r.op = "create" /\ q.scan = r.scan => q = r
    /\ \A r \in Request : r.op = "create" => RunOf(r.scan) \in Request
    /\ MaxRestarts \in Nat

VARIABLES
    job,        \* scan_jobs: scan -> status of its job, synced whenever it changes
    queue,      \* _queue: jobs put and not yet taken
    creating,   \* scans whose create request has reserved and not yet enqueued
    at,         \* executor -> where it is in _execute
    holding,    \* executor -> the job it took
    db,         \* store_entities: credits and scans as they were last synced
    overlapped, \* history: scans of which two settlements were past their check at once
    restarts

jobVars == <<job, queue, creating, at, holding, db, overlapped, restarts>>
allVars == <<vars, jobVars>>

Executor == {Background} \cup Drainer
JobStatus == {"absent", "queued", "running", "completed", "failed"}
Place == {"gone", "idle", "taken", "started"}
NoJob == NoScan

\* What a fresh process starts with: the background thread, and no request.
FreshAt == [e \in Executor |-> IF e = Background THEN "idle" ELSE "gone"]

\* The memory of the process, and what sync makes of the database.
Memory ==
    [available |-> available, reserved |-> reserved, consumed |-> consumed,
     reservation |-> reservation, ledger |-> ledger, status |-> status]

Sync == db' = Memory'

JobInit ==
    /\ Init
    /\ job = [s \in Scan |-> "absent"]
    /\ queue = <<>>
    /\ creating = {}
    /\ at = FreshAt
    /\ holding = [e \in Executor |-> NoJob]
    /\ db = Memory
    /\ overlapped = {}
    /\ restarts = 0

Move(e, from, to) == at[e] = from /\ at' = [at EXCEPT ![e] = to]

-----------------------------------------------------------------------------
\* The thread of r makes a step.  In the middle of an operation nothing is synced.
Work(r) ==
    /\ \/ BeginGrant(r) \/ MoveGrant(r)
       \/ BeginCreate(r) \/ CheckReserve(r) \/ StoreReservation(r)
       \/ BeginSettle(r) \/ MoveSettle(r)
    /\ UNCHANGED <<creating, db, overlapped>>

\* Two settlements of one scan may both pass their check.  One that returns early
\* leaves its handler to sync the status.
Check(r) ==
    /\ CheckSettle(r)
    /\ overlapped' =
           IF pc'[r] = "move"
              /\ \E q \in Request \ {r} :
                     q.op \in Settling /\ q.scan = r.scan /\ pc[q] = "move"
           THEN overlapped \cup {r.scan} ELSE overlapped
    /\ IF pc'[r] = "done" THEN Sync ELSE UNCHANGED db
    /\ UNCHANGED creating

\* Every operation ends with a sync.  create_scan goes on to enqueue.
End(r) ==
    /\ AppendEntry(r)
    /\ Sync
    /\ creating' = IF r.op = "create" THEN creating \cup {r.scan} ELSE creating
    /\ UNCHANGED overlapped

Serve(r) ==
    /\ Work(r) \/ Check(r) \/ End(r)
    /\ UNCHANGED <<job, queue, at, holding, restarts>>

\* A client settles a scan whose create request was answered, so after Enqueue.
Client(r) ==
    /\ r.op # "run_passive"
    /\ r.op \in Settling => job[r.scan] # "absent"
    /\ Serve(r)

\* Any other request of a session syncs too, whatever the others are in the middle of.
OtherRequest ==
    /\ UNCHANGED <<vars, job, queue, creating, at, holding, overlapped, restarts>>
    /\ Sync

-----------------------------------------------------------------------------
\* POST /api/scans goes on: enqueue stores the job, puts it on the queue and syncs.
Enqueue(s) ==
    /\ s \in creating
    /\ creating' = creating \ {s}
    /\ job' = [job EXCEPT ![s] = "queued"]
    /\ queue' = Append(queue, s)
    /\ UNCHANGED <<vars, at, holding, overlapped, restarts>>
    /\ Sync

StartDrain(d) ==
    /\ d \in Drainer
    /\ Move(d, "gone", "idle")
    /\ UNCHANGED <<vars, job, queue, creating, holding, db, overlapped, restarts>>

EndDrain(d) ==
    /\ d \in Drainer
    /\ queue = <<>>
    /\ Move(d, "idle", "gone")
    /\ UNCHANGED <<vars, job, queue, creating, holding, db, overlapped, restarts>>

\* Mutant: the job is looked at and left on the queue.
Take_LeavesJob(e) ==
    /\ queue # <<>>
    /\ Move(e, "idle", "taken")
    /\ holding' = [holding EXCEPT ![e] = Head(queue)]
    /\ UNCHANGED <<vars, job, queue, creating, db, overlapped, restarts>>

\* _queue.get / get_nowait
Take(e) ==
    /\ queue # <<>>
    /\ Move(e, "idle", "taken")
    /\ holding' = [holding EXCEPT ![e] = Head(queue)]
    /\ queue' = Tail(queue)
    /\ UNCHANGED <<vars, job, creating, db, overlapped, restarts>>

\* _execute: a job that is not queued is skipped.
StartJob(e) ==
    LET s == holding[e] IN
    /\ UNCHANGED <<vars, queue, creating, holding, overlapped, restarts>>
    /\ \/ /\ Move(e, "taken", "started")
          /\ job[s] = "queued"
          /\ job' = [job EXCEPT ![s] = "running"]
          /\ Sync
       \/ /\ Move(e, "taken", "idle")
          /\ job[s] # "queued"
          /\ UNCHANGED <<job, db>>

\* The scan runs whatever has become of it since it was enqueued.
RunJob(e) ==
    /\ at[e] = "started"
    /\ Serve(RunOf(holding[e]))

\* The outcome of a run that has come to its end is stored on the job.
EndJob(e, end, to, outcome) ==
    LET s == holding[e] IN
    /\ Move(e, "started", to)
    /\ pc[RunOf(s)] = end
    /\ job' = [job EXCEPT ![s] = outcome]
    /\ UNCHANGED <<vars, queue, creating, holding, overlapped, restarts>>
    /\ Sync

\* Mutants: a status outside the enum; a thread that returns after one job; an outcome
\* stored while the run is still going on.
FinishJob_BadStatus(e) == EndJob(e, "done", "idle", "done")
FinishJob_Early(e) == EndJob(e, "move", "idle", "completed")

FinishJob(e) == EndJob(e, "done", "idle", "completed")

\* Mutants: the outcome is stored without looking at the exception; the job is put
\* back on the queue.
FailJob_Completes(e) == EndJob(e, "raised", "gone", "completed")
FailJob_Retries(e) ==
    /\ at[e] = "started"
    /\ pc[RunOf(holding[e])] = "raised"
    /\ at' = [at EXCEPT ![e] = "gone"]
    /\ job' = [job EXCEPT ![holding[e]] = "queued"]
    /\ queue' = Append(queue, holding[e])
    /\ UNCHANGED <<vars, creating, holding, db, overlapped, restarts>>

\* The exception is stored on the job and raised again: it ends the drain request,
\* and it ends the background thread, which nothing starts again.
FailJob(e) == EndJob(e, "raised", "gone", "failed")

\* The process dies and a new one loads the database.  A request that was being served
\* is never answered; a run that was going on is not resumed.
Restart ==
    /\ restarts < MaxRestarts
    /\ restarts' = restarts + 1
    /\ available' = db.available /\ reserved' = db.reserved /\ consumed' = db.consumed
    /\ reservation' = db.reservation /\ ledger' = db.ledger /\ status' = db.status
    /\ pc' = [r \in Request |-> IF pc[r] \in {"check", "move", "log"} THEN "raised" ELSE pc[r]]
    /\ queue' = <<>>
    /\ creating' = {}
    /\ at' = FreshAt
    /\ holding' = [e \in Executor |-> NoJob]
    /\ UNCHANGED <<seen, job, db, overlapped>>

Execute(e) == Take(e) \/ StartJob(e) \/ RunJob(e) \/ FinishJob(e) \/ FailJob(e)

JobNext ==
    \/ \E r \in Request : Client(r)
    \/ OtherRequest
    \/ \E s \in Scan : Enqueue(s)
    \/ \E d \in Drainer : StartDrain(d) \/ EndDrain(d)
    \/ \E e \in Executor : Execute(e)
    \/ Restart

JobSpec == JobInit /\ [][JobNext]_allVars

\* The operating system runs the background thread and any request thread that is
\* in the middle of its work.  Nothing obliges a client to send a request, and
\* nothing obliges the process to die or to live.
Fairness == \A e \in Executor : WF_allVars(Execute(e))

FairJobSpec == JobSpec /\ Fairness

-----------------------------------------------------------------------------
JobTypeOK ==
    /\ ThreadsTypeOK
    /\ job \in [Scan -> JobStatus]
    /\ queue \in Seq(Scan)
    /\ creating \in SUBSET Scan
    /\ at \in [Executor -> Place]
    /\ holding \in [Executor -> Scan \cup {NoJob}]
    /\ overlapped \in SUBSET Scan
    /\ restarts \in 0..MaxRestarts

\* Safety: a job's outcome is its scan's credit: a completed job has had the credit
\* deducted, a failed one found it released, although clients settle the scan while
\* its job waits and runs, and after a restart too.  The exception is the race of
\* released_twice: two settlements of the scan that were past their check at once.
JobTellsCredit ==
    \A s \in Scan \ overlapped :
        /\ job[s] = "completed" => reservation[s] = "deducted"
        /\ job[s] = "failed" => reservation[s] = "released"

\* Safety: that race included, no scan is run to completion for nothing: at every
\* moment the account has consumed a credit for each of the completed jobs, also when
\* the process comes back from a database in which other threads' syncs have stored
\* half of an operation.
CompletedJobsArePaid ==
    \A w \in Workspace :
        Cardinality({s \in Scan : WorkspaceOf[s] = w /\ job[s] = "completed"}) <= consumed[w]

\* Action property: a job is started once and ends once, in that order, however many
\* threads drain the queue and however often the process restarts: no step takes the
\* outcome of an ended job back, starts it again, or ends one that was not started.
JobsMoveForward ==
    [][\A s \in Scan :
           job'[s] # job[s] =>
               <<job[s], job'[s]>> \in {<<"absent", "queued">>, <<"queued", "running">>,
                                        <<"running", "completed">>, <<"running", "failed">>}
      ]_allVars

\* Safety: while the process has not restarted, no accepted job is out of reach.  A
\* queued job is on the queue or in an executor's hands, once, and a running one
\* has one executor: two consumers never share a job.
JobIsSomewhere ==
    restarts = 0 =>
        \A s \in Scan :
            LET onQueue == {i \in 1..Len(queue) : queue[i] = s}
                held(places) == {e \in Executor : holding[e] = s /\ at[e] \in places}
            IN  /\ job[s] = "queued" =>
                       Cardinality(onQueue) + Cardinality(held({"taken"})) = 1
                /\ job[s] = "running" =>
                       Cardinality(held({"started"})) = 1

Pending == {s \in Scan : job[s] \in {"queued", "running"}}


\* Liveness (docs/07: "API creates scan job and worker consumes it"): no job stays
\* queued forever.
QueuedJobsAreConsumed == \A s \in Scan : job[s] = "queued" ~> job[s] # "queued"

\* Liveness (docs/01: "scans must resume or fail clearly after worker restart"): a job
\* that was started comes to an end.
StartedJobsEnd == \A s \in Scan : job[s] = "running" ~> job[s] # "running"
=============================================================================
