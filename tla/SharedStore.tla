---------------------------- MODULE SharedStore ----------------------------
(***************************************************************************)
(* The API process and the worker process (worker.py), each with a store   *)
(* of its own in memory, over their databases and one Redis list.  sync    *)
(* deletes every row of a database and inserts the whole memory of the     *)
(* process that calls it, in one transaction; reload replaces the whole    *)
(* memory by what is in the database.                                      *)
(*                                                                         *)
(* OneFile: the two processes were given one SQLite file, as in            *)
(* tests/test_store.py.  The compose deployment is OneFile = FALSE: both   *)
(* containers are given one PostgreSQL URL, but with psycopg 3             *)
(* PostgresStore closes its connection at the end of its first "with" and  *)
(* raises when it loads, and create_store falls back to the SQLite file of *)
(* its own container.                                                      *)
(*                                                                         *)
(* A step is what a process does up to its next call of a database or of   *)
(* Redis.  A memory, or a database, is one record: the scans, the jobs of  *)
(* passive scans (named by their scan), and the credits of one workspace   *)
(* with their ledger.                                                      *)
(*                                                                         *)
(* Left out: the threads inside the API (CreditThreads, JobQueue); the     *)
(* API's own queue, which it drains only when a client calls POST          *)
(* /api/execution/drain; and the contents of heartbeats: what matters of a *)
(* heartbeat here is its sync.  Redis keeps its list over a restart        *)
(* (compose: --appendonly yes).                                            *)
(***************************************************************************)
EXTENDS Integers, Sequences, FiniteSets

CONSTANTS
    Scan,
    NoScan,
    Credits,        \* credits the workspace was granted when it was created
    OneFile,        \* whether the two processes have one database
    MaxRestarts     \* bound: crashes and restarts of the two processes

ASSUME SharedAssumption ==
    /\ IsFiniteSet(Scan)
    /\ NoScan \notin Scan
    /\ Credits \in Nat
    /\ OneFile \in BOOLEAN
    /\ MaxRestarts \in Nat

VARIABLES
    db,         \* store_entities of each database: the memory synced last
    mem,        \* Process -> its memory
    request,    \* scan -> where its POST /api/scans is
    redis,      \* the list kerislab:scan-jobs
    redisOff,   \* processes that have disabled Redis
    at,         \* where the worker is in its loop
    source,     \* what the worker is draining: the Redis list or the stored jobs
    holding,    \* the job the worker is executing
    todo,       \* jobs drain_persisted_jobs has listed and not executed yet
    restarts

apiVars == <<request>>
redisVars == <<redis, redisOff>>
workerVars == <<at, source, holding, todo>>
vars == <<db, mem, request, redis, redisOff, at, source, holding, todo, restarts>>

API == "api"
Worker == "worker"
Process == {API, Worker}

\* The database create_store opens for process p.
Database(p) == IF OneFile THEN "kerislab.db" ELSE p
Files == {Database(p) : p \in Process}

Image ==
    [status : [Scan -> {"absent", "queued", "completed", "cancelled"}],
     job : [Scan -> {"absent", "queued", "running", "completed", "failed"}],
     reservation : [Scan -> {"none", "reserved", "deducted", "released"}],
     granted : {0, Credits},
     available : Int, reserved : Int, consumed : Int,
     ledger : SUBSET ({"reserve", "deduct", "release"} \X Scan)]

\* A store with one workspace, that was granted g credits and has no scan.
Unused(g) ==
    [status |-> [s \in Scan |-> "absent"],
     job |-> [s \in Scan |-> "absent"],
     reservation |-> [s \in Scan |-> "none"],
     granted |-> g, available |-> g, reserved |-> 0, consumed |-> 0,
     ledger |-> {}]

\* The store where the API created the workspace, and one that was never told of it.
Initial == Unused(Credits)
Empty == Unused(0)

Init ==
    /\ db = [f \in Files |-> IF f = Database(API) THEN Initial ELSE Empty]
    /\ mem = [p \in Process |-> db[Database(p)]]
    /\ request = [s \in Scan |-> "none"]
    /\ redis = <<>>
    /\ redisOff = {}
    /\ at = "idle"
    /\ source = "redis"
    /\ holding = NoScan
    /\ todo = {}
    /\ restarts = 0

-----------------------------------------------------------------------------
\* What the operations of CreditService and ScanService make of a memory.
Reserve(m, s) ==
    [m EXCEPT !.status[s] = "queued", !.reservation[s] = "reserved",
              !.available = @ - 1, !.reserved = @ + 1,
              !.ledger = @ \cup {<<"reserve", s>>}]

\* Mutant: the account is left as it is.
Release_KeepsAccount(m, s) ==
    IF m.reservation[s] # "reserved" THEN m
    ELSE [m EXCEPT !.reservation[s] = "released", !.ledger = @ \cup {<<"release", s>>}]

Release(m, s) ==
    IF m.reservation[s] # "reserved" THEN m
    ELSE [m EXCEPT !.reservation[s] = "released",
                   !.reserved = @ - 1, !.available = @ + 1,
                   !.ledger = @ \cup {<<"release", s>>}]

Deduct(m, s) ==
    IF m.reservation[s] # "reserved" THEN m
    ELSE [m EXCEPT !.reservation[s] = "deducted",
                   !.reserved = @ - 1, !.consumed = @ + 1,
                   !.ledger = @ \cup {<<"deduct", s>>}]

\* store.sync after the memory of p became m; store.reload; neither.
Sync(p, m) == mem' = [mem EXCEPT ![p] = m] /\ db' = [db EXCEPT ![Database(p)] = m]
Reload(p) == mem' = [mem EXCEPT ![p] = db[Database(p)]] /\ UNCHANGED db
Keep(p, m) == mem' = [mem EXCEPT ![p] = m] /\ UNCHANGED db

-----------------------------------------------------------------------------
\* The API.  create_scan: the refused scan stays in memory, and is not synced.
CreateScan(s) ==
    /\ request[s] = "none"
    /\ \/ /\ mem[API].available >= 1
          /\ Sync(API, Reserve(mem[API], s))
          /\ request' = [request EXCEPT ![s] = "reserved"]
       \/ /\ mem[API].available < 1
          /\ Keep(API, [mem[API] EXCEPT !.status[s] = "queued"])
          /\ request' = [request EXCEPT ![s] = "refused"]
    /\ UNCHANGED <<redisVars, workerVars, restarts>>

\* enqueue stores the job in memory and pushes its id to Redis, which may fail and
\* is then not asked again ...
Enqueue(s) ==
    /\ request[s] = "reserved"
    /\ request' = [request EXCEPT ![s] = "pushed"]
    /\ Keep(API, [mem[API] EXCEPT !.job[s] = "queued"])
    /\ \/ API \notin redisOff /\ redis' = Append(redis, s) /\ UNCHANGED redisOff
       \/ redisOff' = redisOff \cup {API} /\ UNCHANGED redis
    /\ UNCHANGED <<workerVars, restarts>>

\* ... before the job is in the database.
EnqueueSync(s) ==
    /\ request[s] = "pushed"
    /\ request' = [request EXCEPT ![s] = "answered"]
    /\ Sync(API, mem[API])
    /\ UNCHANGED <<redisVars, workerVars, restarts>>

\* A client cancels a scan it was told of; a scan the API no longer has is not found.
CancelScan(s) ==
    /\ request[s] = "answered"
    /\ mem[API].status[s] # "absent"
    /\ Sync(API, Release([mem[API] EXCEPT !.status[s] = "cancelled"], s))
    /\ UNCHANGED <<apiVars, redisVars, workerVars, restarts>>

\* Every request with a session token stores when the session was last seen, and
\* every change is recorded in the audit log: both sync.
OtherRequest ==
    /\ Sync(API, mem[API])
    /\ UNCHANGED <<apiVars, redisVars, workerVars, restarts>>

\* GET /api/health/components is the one request that reloads.
HealthComponents ==
    /\ Reload(API)
    /\ UNCHANGED <<apiVars, redisVars, workerVars, restarts>>

-----------------------------------------------------------------------------
\* The worker.  Its loop: heartbeat, drain, heartbeat.
Goto(from, to) == at = from /\ at' = to
NothingInHand == source' = "redis" /\ holding' = NoScan /\ todo' = {}

Heartbeat(from, to) ==
    /\ Goto(from, to)
    /\ Sync(Worker, mem[Worker])
    /\ UNCHANGED <<apiVars, redisVars, source, holding, todo, restarts>>

\* The heartbeat that follows a drain, or the exception that ended one.
LastHeartbeat(from) ==
    /\ Goto(from, "idle")
    /\ Sync(Worker, mem[Worker])
    /\ NothingInHand
    /\ UNCHANGED <<apiVars, redisVars, restarts>>

\* drain_redis_jobs: an id is popped, and the memory reloaded before it is executed.
Pop ==
    /\ Worker \notin redisOff
    /\ redis # <<>>
    /\ Goto("redis", "popped")
    /\ holding' = Head(redis)
    /\ redis' = Tail(redis)
    /\ source' = "redis"
    /\ UNCHANGED <<db, mem, apiVars, redisOff, todo, restarts>>

ReloadForJob ==
    /\ Goto("popped", "execute")
    /\ Reload(Worker)
    /\ UNCHANGED <<apiVars, redisVars, source, holding, todo, restarts>>

\* Mutant: the stored jobs are drained only when Redis could not be asked.
RedisDrained_Skips ==
    /\ \/ /\ redis = <<>> /\ Worker \notin redisOff
          /\ Goto("redis", "drained")
          /\ UNCHANGED redisOff
       \/ /\ Goto("redis", "persisted")
          /\ redisOff' = redisOff \cup {Worker}
    /\ holding' = NoScan
    /\ UNCHANGED <<db, mem, apiVars, redis, source, todo, restarts>>

\* Nothing is left in Redis, or Redis fails and is not asked again.
RedisDrained ==
    /\ Goto("redis", "persisted")
    /\ \/ (redis = <<>> \/ Worker \in redisOff) /\ UNCHANGED redisOff
       \/ redisOff' = redisOff \cup {Worker}
    /\ holding' = NoScan
    /\ UNCHANGED <<db, mem, apiVars, redis, source, todo, restarts>>

\* drain_persisted_jobs: one reload, then every job that was queued in it, in an
\* order (created_at) that the model leaves open.
ListQueued ==
    /\ Goto("persisted", "list")
    /\ Reload(Worker)
    /\ todo' = {s \in Scan : mem'[Worker].job[s] = "queued"}
    /\ source' = "list"
    /\ UNCHANGED <<apiVars, redisVars, holding, restarts>>

NextJob(s) ==
    /\ s \in todo
    /\ Goto("list", "execute")
    /\ todo' = todo \ {s}
    /\ holding' = s
    /\ UNCHANGED <<db, mem, apiVars, redisVars, source, restarts>>

ListDone ==
    /\ todo = {}
    /\ Goto("list", "drained")
    /\ UNCHANGED <<db, mem, apiVars, redisVars, source, holding, todo, restarts>>

\* _execute: an unknown job raises NotFoundError, one that is not queued is skipped.
StartJob ==
    LET s == holding IN
    /\ \/ /\ Goto("execute", "raised")
          /\ mem[Worker].job[s] = "absent"
          /\ UNCHANGED <<db, mem>>
       \/ /\ Goto("execute", source)
          /\ mem[Worker].job[s] \in {"running", "completed", "failed"}
          /\ UNCHANGED <<db, mem>>
       \/ /\ Goto("execute", "started")
          /\ mem[Worker].job[s] = "queued"
          /\ Sync(Worker, [mem[Worker] EXCEPT !.job[s] = "running"])
    /\ UNCHANGED <<apiVars, redisVars, source, holding, todo, restarts>>

\* Mutant: the job is completed before its scan is run.
RunJob_CompletesFirst ==
    LET s == holding
        m == [mem[Worker] EXCEPT !.job[s] = "completed"]
    IN
    /\ \/ /\ Goto("started", "raised")
          /\ m.status[s] = "absent"
          /\ Sync(Worker, m)
       \/ /\ at = "started" /\ Goto("started", IF m.reservation[s] = "released" THEN "raised" ELSE "ran")
          /\ m.status[s] # "absent"
          /\ Sync(Worker, Deduct([m EXCEPT !.status[s] = "completed"], s))
    /\ UNCHANGED <<apiVars, redisVars, source, holding, todo, restarts>>

\* run_passive_scan up to its first sync.  It raises, and fails the job, when the
\* scan is not there or its reservation was released.
RunJob ==
    LET s == holding
        m == mem[Worker]
        completed == [m EXCEPT !.status[s] = "completed"]
    IN
    /\ \/ /\ Goto("started", "raised")
          /\ m.status[s] = "absent"
          /\ Sync(Worker, [m EXCEPT !.job[s] = "failed"])
       \/ /\ Goto("started", "raised")
          /\ m.status[s] # "absent"
          /\ m.reservation[s] = "released"
          /\ Sync(Worker, [completed EXCEPT !.job[s] = "failed"])
       \/ /\ Goto("started", "ran")
          /\ m.status[s] # "absent"
          /\ m.reservation[s] # "released"
          /\ Sync(Worker, Deduct(completed, s))
    /\ UNCHANGED <<apiVars, redisVars, source, holding, todo, restarts>>

\* The syncs of complete_scan and run_passive_scan that follow deduct's.
SyncAgain == Heartbeat("ran", "ran")

\* Mutant: a status outside the enum.
FinishJob_BadStatus ==
    /\ Goto("ran", source)
    /\ Sync(Worker, [mem[Worker] EXCEPT !.job[holding] = "done"])
    /\ UNCHANGED <<apiVars, redisVars, source, holding, todo, restarts>>

FinishJob ==
    /\ Goto("ran", source)
    /\ Sync(Worker, [mem[Worker] EXCEPT !.job[holding] = "completed"])
    /\ UNCHANGED <<apiVars, redisVars, source, holding, todo, restarts>>

\* An exception of the drain is recorded in a heartbeat, and the loop goes on.
WorkerStep ==
    \/ Heartbeat("idle", "redis")
    \/ Pop \/ ReloadForJob \/ RedisDrained
    \/ ListQueued \/ (\E s \in Scan : NextJob(s)) \/ ListDone
    \/ StartJob \/ RunJob \/ FinishJob
    \/ LastHeartbeat("drained") \/ LastHeartbeat("raised")

-----------------------------------------------------------------------------
Restarting == restarts < MaxRestarts /\ restarts' = restarts + 1

\* SIGTERM: the loop ends where it sleeps, with a last heartbeat.  The memory of a
\* process that is gone is shown as Empty.
StopWorker ==
    /\ Restarting
    /\ Goto("idle", "stopped")
    /\ db' = [db EXCEPT ![Database(Worker)] = mem[Worker]]
    /\ mem' = [mem EXCEPT ![Worker] = Empty]
    /\ UNCHANGED <<apiVars, redisVars, source, holding, todo>>

CrashWorker ==
    /\ Restarting
    /\ at # "stopped"
    /\ at' = "stopped"
    /\ mem' = [mem EXCEPT ![Worker] = Empty]
    /\ NothingInHand
    /\ UNCHANGED <<db, apiVars, redisVars>>

\* A new worker process loads the database, and tries Redis again.
StartWorker ==
    /\ Goto("stopped", "idle")
    /\ Reload(Worker)
    /\ redisOff' = redisOff \ {Worker}
    /\ UNCHANGED <<apiVars, redis, source, holding, todo, restarts>>

\* So does a new API process; requests that were being served are never answered.
RestartApi ==
    /\ Restarting
    /\ Reload(API)
    /\ request' = [s \in Scan |-> IF request[s] \in {"reserved", "pushed"} THEN "lost"
                                  ELSE request[s]]
    /\ redisOff' = redisOff \ {API}
    /\ UNCHANGED <<redis, workerVars>>

Next ==
    \/ \E s \in Scan : CreateScan(s) \/ Enqueue(s) \/ EnqueueSync(s) \/ CancelScan(s)
    \/ OtherRequest \/ HealthComponents
    \/ WorkerStep \/ SyncAgain
    \/ StopWorker \/ CrashWorker \/ StartWorker
    \/ RestartApi

Spec == Init /\ [][Next]_vars

\* The worker's loop has no condition it waits for.  Nothing is assumed of clients, of
\* the API, of Redis, or of whoever starts a worker that has stopped.
FairSpec == Spec /\ WF_vars(WorkerStep)

-----------------------------------------------------------------------------
StoreTypeOK ==
    /\ db \in [Files -> Image]
    /\ mem \in [Process -> Image]
    /\ request \in [Scan -> {"none", "reserved", "pushed", "answered", "refused", "lost"}]
    /\ redis \in Seq(Scan)
    /\ redisOff \in SUBSET Process
    /\ at \in {"idle", "redis", "popped", "execute", "started", "ran", "raised",
               "persisted", "list", "drained", "stopped"}
    /\ source \in {"redis", "list"}
    /\ holding \in Scan \cup {NoScan}
    /\ todo \in SUBSET Scan
    /\ restarts \in 0..MaxRestarts

In(m, status) == {s \in Scan : m.reservation[s] = status}

Balanced(m) ==
    /\ m.available >= 0
    /\ m.reserved = Cardinality(In(m, "reserved"))
    /\ m.consumed = Cardinality(In(m, "deducted"))
    /\ m.available + m.reserved + m.consumed = m.granted
    /\ m.ledger = {"reserve"} \X (Scan \ In(m, "none"))
                  \cup {"deduct"} \X In(m, "deducted")
                  \cup {"release"} \X In(m, "released")

\* Safety: what two processes that overwrite each other leave in a database is never
\* torn.  Whole updates are lost, but the counters, the reservations and the ledger
\* of any memory, and of any database, agree with each other, across crashes.
BooksBalance == (\A f \in Files : Balanced(db[f])) /\ \A p \in Process : Balanced(mem[p])

\* Safety: in a database and in either memory, a job that is completed has had its
\* scan's credit deducted, and one that failed found it released, or found no scan;
\* no closed scan holds a credit.  (A crash between two syncs of a job included.)
OutcomesAgree ==
    \A m \in {db[f] : f \in Files} \cup {mem[API], mem[Worker]}, s \in Scan :
        /\ m.job[s] = "completed" => m.reservation[s] = "deducted"
        /\ m.job[s] = "failed" => m.reservation[s] = "released" \/ m.status[s] = "absent"
        /\ m.status[s] \in {"completed", "cancelled"} => m.reservation[s] # "reserved"

\* Liveness (docs/08: "queued jobs can still be recovered if Redis is unavailable or
\* restarted"): a job that is queued where the API stores it is run by the worker,
\* whatever becomes of Redis, of the id that was pushed too early, and of the worker,
\* unless it is overwritten there first, or a job has failed, or the worker is not
\* started again.
StoredJobsRun ==
    \A s \in Scan :
        db[Database(API)].job[s] = "queued" ~>
            \/ mem[Worker].job[s] \in {"running", "completed"}
            \/ db[Database(API)].job[s] = "absent"
            \/ \E t \in Scan : db[Database(API)].job[t] = "failed"
            \/ [](at = "stopped")

\* Action (docs/06: "Record every credit state change in the immutable credit
\* ledger"): no entry of a stored ledger ever disappears.
LedgerIsImmutable == [][\A f \in Files : db[f].ledger \subseteq db'[f].ledger]_vars
=============================================================================
