--------------------------- MODULE JobQueue_proofs ---------------------------
(***************************************************************************)
(* Proofs about JobQueue, for any number of scans, requests, drain threads *)
(* and restarts.  First where the jobs are, which does not depend on the   *)
(* credits; then what the threads of CreditThreads and the database make   *)
(* of a job's credit, which is shown for the scans that were not settled   *)
(* twice at once, and as a count for those that were.                      *)
(***************************************************************************)
EXTENDS JobQueue, CreditThreads_proofs

Busy == {"taken", "started"}

\* The typing of the module's own variables; the database holds a memory.
JobTyping ==
    /\ job \in [Scan -> JobStatus]
    /\ queue \in Seq(Scan)
    /\ creating \in SUBSET Scan
    /\ at \in [Executor -> Place]
    /\ holding \in [Executor -> Scan \cup {NoJob}]
    /\ overlapped \in SUBSET Scan
    /\ restarts \in 0..MaxRestarts

DatabaseOK ==
    /\ db.available \in [Workspace -> Int]
    /\ db.reserved \in [Workspace -> Int]
    /\ db.consumed \in [Workspace -> Int]
    /\ db.reservation \in [Scan -> ReservationStatus]
    /\ db.ledger \in Seq(Entry)
    /\ db.status \in [Scan -> {"absent", "queued", "completed", "failed", "cancelled"}]

\* A job is for a scan whose create request was answered, so it has a run to be.
JobsAsked ==
    /\ \A s \in Scan : job[s] # "absent" \/ s \in creating => Answered(s)
    /\ \A s \in creating : job[s] = "absent"
    /\ \A i \in 1..Len(queue) : job[queue[i]] # "absent"
    /\ \A e \in Executor : at[e] \in Busy => holding[e] \in Scan /\ job[holding[e]] # "absent"

\* What holds of the jobs after restarts too: a thread that has started a job has it to
\* itself, and the run of a job that was not started has not begun.
Exclusive ==
    /\ \A e \in Executor : at[e] = "started" => job[holding[e]] = "running"
    /\ \A e, f \in Executor :
           at[e] = "started" /\ at[f] = "started" /\ holding[e] = holding[f] => e = f
    /\ \A s \in Scan :
           job[s] \in {"absent", "queued"} /\ RunOf(s) \in Request => pc[RunOf(s)] = "idle"

\* A scan whose create request was answered has a reservation, in the database too, and
\* only such a scan is settled.
Reserved ==
    \A r \in Request :
        /\ r.op = "create" /\ pc[r] \in {"log", "done"} => reservation[r.scan] # "none"
        /\ r.op = "create" /\ pc[r] = "done" => db.reservation[r.scan] # "none"
        /\ r.op \in Settling /\ pc[r] # "idle" => Answered(r.scan)

Settled == {"deducted", "released"}

SettledWereAsked ==
    \A s \in Scan : reservation[s] \in Settled \/ db.reservation[s] \in Settled => Answered(s)

\* Unless they overlapped, one settlement of a scan at a time moves the counters, and it
\* finds the credit reserved.
OneSettles ==
    \A r \in Request :
        r.op \in Settling /\ pc[r] = "move" /\ r.scan \notin overlapped =>
            /\ reservation[r.scan] = "reserved"
            /\ \A q \in Request :
                   q.op \in Settling /\ q.scan = r.scan /\ pc[q] = "move" => q = r

\* So the place of a run, and then the outcome of its job, tells what became of the
\* credit, in the memory and in the database.
RunsTell ==
    \A s \in Scan \ overlapped :
        RunOf(s) \in Request =>
            /\ pc[RunOf(s)] \in {"log", "done"} => reservation[s] = "deducted"
            /\ pc[RunOf(s)] = "done" => db.reservation[s] = "deducted"

HandsTell ==
    \A e \in Executor :
        at[e] = "started" /\ holding[e] \notin overlapped /\ pc[RunOf(holding[e])] = "raised"
        => reservation[holding[e]] = "released"

JobsTell ==
    \A s \in Scan \ overlapped :
        /\ job[s] = "completed" => reservation[s] = "deducted" /\ db.reservation[s] = "deducted"
        /\ job[s] = "failed" => reservation[s] = "released" /\ db.reservation[s] = "released"

Typed == ThreadsTypeOK /\ JobTyping /\ DatabaseOK
JobsOK == JobsAsked /\ Exclusive
CreditsTell == Reserved /\ SettledWereAsked /\ OneSettles /\ RunsTell /\ HandsTell /\ JobsTell

\* A scan whose completion moved the counters, as the memory and as the database have it.
Charged(s) ==
    \/ reservation[s] = "deducted" \/ job[s] = "completed"
    \/ RunOf(s) \in Request /\ pc[RunOf(s)] \in {"log", "done"}
ChargedInDb(s) ==
    \/ db.reservation[s] = "deducted" \/ job[s] = "completed"
    \/ RunOf(s) \in Request /\ pc[RunOf(s)] = "done"

AllPaid ==
    \A w \in Workspace :
        /\ Cardinality({s \in Scan : WorkspaceOf[s] = w /\ Charged(s)}) <= consumed[w]
        /\ Cardinality({s \in Scan : WorkspaceOf[s] = w /\ ChargedInDb(s)}) <= db.consumed[w]

\* While the process has not restarted: a queued job is once on the queue or once in
\* an executor's hands, a running one in the hands of one executor.
JobsPlaced ==
    restarts = 0 =>
        /\ \A i, j \in 1..Len(queue) : queue[i] = queue[j] => i = j
        /\ \A i \in 1..Len(queue) :
               /\ job[queue[i]] = "queued"
               /\ \A e \in Executor : at[e] \in Busy => holding[e] # queue[i]
        /\ \A e, f \in Executor :
               at[e] \in Busy /\ at[f] \in Busy /\ holding[e] = holding[f] => e = f
        /\ \A e \in Executor :
               /\ at[e] = "taken" => job[holding[e]] = "queued"
               /\ at[e] = "started" => job[holding[e]] = "running"
        /\ \A s \in Scan :
               /\ job[s] = "queued" =>
                      \/ \E i \in 1..Len(queue) : queue[i] = s
                      \/ \E e \in Executor : at[e] = "taken" /\ holding[e] = s
               /\ job[s] = "running" =>
                      \E e \in Executor : at[e] = "started" /\ holding[e] = s

-----------------------------------------------------------------------------
\* What each step of the thread of r does, seen from the jobs.
Goes(r, from, to) == pc[r] = from /\ pc' = [pc EXCEPT ![r] = to]

Begins(r) ==
    /\ UNCHANGED <<reservation, consumed, db, overlapped, creating>>
    /\ \/ r.op = "grant" /\ \E from \in {"idle", "move"}, to \in {"move", "log"} : Goes(r, from, to)
       \/ /\ r.op = "create"
          /\ \E from \in {"idle", "check"}, to \in {"check", "move", "raised"} : Goes(r, from, to)
       \/ r.op \in Settling /\ Goes(r, "idle", "check") /\ Answered(r.scan)

Stores(r) ==
    /\ r.op = "create" /\ Goes(r, "move", "log")
    /\ reservation' = [reservation EXCEPT ![r.scan] = "reserved"]
    /\ UNCHANGED <<consumed, db, overlapped, creating>>

Overlaps(r) ==
    \E q \in Request \ {r} : q.op \in Settling /\ q.scan = r.scan /\ pc[q] = "move"

Checks(r) ==
    /\ r.op \in Settling
    /\ UNCHANGED <<reservation, consumed, creating>>
    /\ \/ /\ Goes(r, "check", "move") /\ reservation[r.scan] = "reserved" /\ db' = db
          /\ \/ Overlaps(r) /\ overlapped' = overlapped \cup {r.scan}
             \/ ~Overlaps(r) /\ overlapped' = overlapped
       \/ /\ Goes(r, "check", "raised") /\ r.op \in Completing /\ db' = db
          /\ reservation[r.scan] = "released" /\ overlapped' = overlapped
       \/ /\ Goes(r, "check", "done") /\ reservation[r.scan] # "reserved"
          /\ r.op \in Completing => reservation[r.scan] # "released"
          /\ Sync /\ overlapped' = overlapped

Settles(r) ==
    /\ r.op \in Settling /\ Goes(r, "move", "log")
    /\ UNCHANGED <<db, overlapped, creating>>
    /\ \/ /\ r.op \in Completing
          /\ reservation' = [reservation EXCEPT ![r.scan] = "deducted"]
          /\ consumed' = [consumed EXCEPT ![r.workspace] = @ + 1]
       \/ /\ r.op \in Releasing
          /\ reservation' = [reservation EXCEPT ![r.scan] = "released"]
          /\ consumed' = consumed

Ends(r) ==
    /\ Goes(r, "log", "done") /\ Sync
    /\ UNCHANGED <<reservation, consumed, overlapped>>
    /\ creating' = IF r.op = "create" THEN creating \cup {r.scan} ELSE creating

\* What is left alone by any step of a thread.
OutOfServe == UNCHANGED <<job, queue, at, holding, restarts>>

LEMMA ServeKinds ==
    ASSUME ThreadsTypeOK, NEW r \in Request, Serve(r)
    PROVE  /\ OutOfServe /\ Next
           /\ Begins(r) \/ Stores(r) \/ Checks(r) \/ Settles(r) \/ Ends(r)
<1>t. pc \in [Request -> {"idle"} \cup Begun]
  BY DEF ThreadsTypeOK, Begun
<1>1. OutOfServe
  BY DEF Serve, OutOfServe
<1>2. Next
  BY DEF Serve, Work, Check, End, Next
<1>3. ASSUME Work(r) PROVE Begins(r) \/ Stores(r) \/ Settles(r)
  <2>0. UNCHANGED <<creating, db, overlapped>>
    BY <1>3 DEF Work
  <2>1. CASE BeginGrant(r) \/ MoveGrant(r)
    BY <2>0, <2>1 DEF BeginGrant, MoveGrant, Goto, Goes, Begins, creditVars
  <2>2. CASE BeginCreate(r) \/ CheckReserve(r)
    BY <2>0, <2>2 DEF BeginCreate, CheckReserve, Goto, Goes, Begins, creditVars
  <2>3. CASE BeginSettle(r)
    BY <2>0, <2>3 DEF BeginSettle, Goto, Goes, Begins, creditVars
  <2>4. CASE StoreReservation(r)
    BY <2>0, <2>4 DEF StoreReservation, Goto, Goes, Stores
  <2>5. CASE MoveSettle(r)
    <3>1. r.op \in Settling /\ r.workspace = WorkspaceOf[r.scan]
      BY <2>5, Requests DEF MoveSettle, Settling, Completing, Releasing
    <3>2. QED BY <2>0, <2>5, <3>1 DEF MoveSettle, Goto, Goes, Settles
  <2>6. QED BY <1>3, <2>1, <2>2, <2>3, <2>4, <2>5 DEF Work
<1>4. ASSUME Check(r) PROVE Checks(r)
  <2>1. /\ r.op \in Settling /\ creating' = creating /\ UNCHANGED <<reservation, consumed>>
        /\ overlapped' = IF pc'[r] = "move" /\ Overlaps(r)
                         THEN overlapped \cup {r.scan} ELSE overlapped
        /\ IF pc'[r] = "done" THEN Sync ELSE db' = db
    BY <1>4 DEF Check, CheckSettle, Overlaps, creditVars
  <2>2. \/ reservation[r.scan] = "reserved" /\ Goes(r, "check", "move")
        \/ /\ r.op \in Completing /\ reservation[r.scan] = "released"
           /\ Goes(r, "check", "raised")
        \/ /\ reservation[r.scan] # "reserved"
           /\ r.op \in Completing => reservation[r.scan] # "released"
           /\ Goes(r, "check", "done")
    BY <1>4 DEF Check, CheckSettle, Goto, Goes, DeductRaises
  <2>3. \A to : Goes(r, "check", to) => pc'[r] = to
    BY <1>t DEF Goes
  <2>4. QED BY <2>1, <2>2, <2>3 DEF Checks
<1>5. ASSUME End(r) PROVE Ends(r)
  BY <1>5 DEF End, AppendEntry, Goto, Goes, Ends
<1>6. QED BY <1>1, <1>2, <1>3, <1>4, <1>5 DEF Serve

\* The run of a job is a request, and no other scan's.
LEMMA RunIs ==
    ASSUME NEW s \in Scan
    PROVE  /\ RunOf(s).op = "run_passive" /\ RunOf(s).scan = s
           /\ RunOf(s).op \in Settling /\ RunOf(s).op \in Completing /\ RunOf(s).op # "create"
           /\ Answered(s) => RunOf(s) \in Request
BY JobAssumption DEF RunOf, Settling, Completing, Answered

\* Every step but a restart is a step of a thread, or leaves what threads share alone.
LEMMA JobSteps ==
    ASSUME Typed, JobsAsked, [JobNext]_allVars
    PROVE  \/ \E r \in Request :
                  /\ Serve(r)
                  /\ \/ r.op # "run_passive"
                     \/ \E e \in Executor : at[e] = "started" /\ r = RunOf(holding[e])
           \/ UNCHANGED vars /\ (db' = db \/ Sync) /\ overlapped' = overlapped /\ ~Restart
           \/ Restart
<1>1. ASSUME NEW r \in Request, Client(r)
      PROVE  Serve(r) /\ r.op # "run_passive"
  BY <1>1 DEF Client
<1>2. CASE OtherRequest
  BY <1>2 DEF OtherRequest, Restart, Typed, JobTyping
<1>3. ASSUME NEW s \in Scan, Enqueue(s)
      PROVE  UNCHANGED vars /\ Sync /\ overlapped' = overlapped /\ restarts' = restarts
  BY <1>3 DEF Enqueue
<1>4. ASSUME NEW d \in Drainer, StartDrain(d) \/ EndDrain(d)
      PROVE  UNCHANGED vars /\ db' = db /\ overlapped' = overlapped /\ restarts' = restarts
  BY <1>4 DEF StartDrain, EndDrain
<1>5. ASSUME NEW e \in Executor, Take(e) \/ StartJob(e) \/ FinishJob(e) \/ FailJob(e)
      PROVE  /\ UNCHANGED vars /\ (db' = db \/ Sync)
             /\ overlapped' = overlapped /\ restarts' = restarts
  BY <1>5 DEF Take, StartJob, FinishJob, FailJob, EndJob
<1>6. ASSUME NEW e \in Executor, RunJob(e)
      PROVE  /\ RunOf(holding[e]) \in Request /\ Serve(RunOf(holding[e]))
             /\ at[e] = "started"
  <2>1. at[e] = "started" /\ Serve(RunOf(holding[e]))
    BY <1>6 DEF RunJob
  <2>2. holding[e] \in Scan /\ job[holding[e]] # "absent"
    BY <2>1 DEF JobsAsked, Busy
  <2>3. QED BY <2>1, <2>2, RunIs DEF JobsAsked
<1>7. restarts' = restarts => ~Restart
  BY JobAssumption DEF Restart, Typed, JobTyping
<1>8. CASE UNCHANGED allVars
  BY <1>7, <1>8 DEF allVars, jobVars
<1>9. QED
  BY <1>1, <1>2, <1>3, <1>4, <1>5, <1>6, <1>7, <1>8 DEF JobNext, Execute, OtherRequest

-----------------------------------------------------------------------------
LEMMA TypesStep ==
    ASSUME Typed, JobsAsked, [JobNext]_allVars
    PROVE  Typed'
<1> USE DEF JobTyping, Busy, Place, JobStatus
<1>1. ThreadsTypeOK'
  <2>1. ASSUME NEW r \in Request, Serve(r) PROVE ThreadsTypeOK'
    BY <2>1, ServeKinds, ThreadsTypesStep DEF Typed
  <2>2. CASE UNCHANGED vars
    BY <2>2, ThreadsTypesStep DEF Typed
  <2>3. CASE Restart
    BY <2>3 DEF Restart, Typed, DatabaseOK, ThreadsTypeOK, CreditTypeOK
  <2>4. QED BY <2>1, <2>2, <2>3, JobSteps
<1>2. DatabaseOK'
  <2>1. CASE db' = db
    BY <2>1 DEF Typed, DatabaseOK
  <2>2. CASE Sync
    BY <1>1, <2>2 DEF Sync, Memory, DatabaseOK, ThreadsTypeOK, CreditTypeOK
  <2>3. ASSUME NEW r \in Request, Serve(r) PROVE db' = db \/ Sync
    BY <2>3, ServeKinds DEF Typed, Begins, Stores, Checks, Settles, Ends
  <2>4. CASE Restart
    BY <2>1, <2>4 DEF Restart
  <2>5. QED BY <2>1, <2>2, <2>3, <2>4, JobSteps
<1>3. JobTyping'
  <2>0. JobTyping /\ ThreadsTypeOK
    BY DEF Typed
  <2>1. ASSUME NEW r \in Request, Serve(r) PROVE JobTyping'
    <3>1. OutOfServe /\ (Begins(r) \/ Stores(r) \/ Checks(r) \/ Settles(r) \/ Ends(r))
      BY <2>0, <2>1, ServeKinds
    <3>2. r.op = "create" \/ r.op \in Settling => r.scan \in Scan
      BY Requests DEF Settling, Completing, Releasing
    <3>3. overlapped' \in SUBSET Scan /\ creating' \in SUBSET Scan
      BY <2>0, <3>1, <3>2 DEF Begins, Stores, Checks, Settles, Ends
    <3>4. QED BY <2>0, <3>1, <3>3 DEF OutOfServe
  <2>2. CASE OtherRequest
    BY <2>0, <2>2 DEF OtherRequest
  <2>3. ASSUME NEW s \in Scan, Enqueue(s) PROVE JobTyping'
    BY <2>0, <2>3 DEF Enqueue
  <2>4. ASSUME NEW d \in Drainer, StartDrain(d) \/ EndDrain(d) PROVE JobTyping'
    BY <2>0, <2>4 DEF StartDrain, EndDrain, Move
  <2>5. ASSUME NEW e \in Executor, Take(e) PROVE JobTyping'
    <3>1. Head(queue) \in Scan /\ Tail(queue) \in Seq(Scan)
      BY <2>0, <2>5 DEF Take
    <3>2. QED BY <2>0, <2>5, <3>1 DEF Take, Move
  <2>6. ASSUME NEW e \in Executor, StartJob(e) \/ FinishJob(e) \/ FailJob(e) PROVE JobTyping'
    BY <2>0, <2>6 DEF StartJob, FinishJob, FailJob, EndJob, Move
  <2>7. CASE Restart
    <3>1. restarts' \in 0..MaxRestarts
      BY <2>0, <2>7, JobAssumption DEF Restart
    <3>2. at' \in [Executor -> Place] /\ holding' \in [Executor -> Scan \cup {NoJob}]
      BY <2>7 DEF Restart, FreshAt
    <3>3. UNCHANGED <<job, overlapped>> /\ queue' = <<>> /\ creating' = {}
      BY <2>7 DEF Restart
    <3>4. QED BY <2>0, <3>1, <3>2, <3>3
  <2>8. CASE UNCHANGED allVars
    BY <2>0, <2>8 DEF allVars, jobVars
  <2>9. ASSUME NEW e \in Executor, RunJob(e) PROVE JobTyping'
    <3>1. RunOf(holding[e]) \in Request /\ Serve(RunOf(holding[e]))
      BY <2>9, RunIs DEF RunJob, JobsAsked
    <3>2. QED BY <2>1, <3>1
  <2>10. QED
    BY <2>1, <2>2, <2>3, <2>4, <2>5, <2>6, <2>7, <2>8, <2>9 DEF JobNext, Execute, Client
<1>4. QED BY <1>1, <1>2, <1>3 DEF Typed

\* An answered create request stays so, and it is the only one for its scan.
LEMMA AnsweredStays ==
    ASSUME Typed, JobsAsked, [JobNext]_allVars
    PROVE  /\ \A s : Answered(s) => Answered(s)'
           /\ \A r \in Request : pc[r] = "done" => pc'[r] = "done"
<1>1. pc \in [Request -> {"idle"} \cup Begun]
  BY DEF Typed, ThreadsTypeOK, Begun
<1>2. \A r \in Request : pc[r] = "done" => pc'[r] = "done"
  <2>1. ASSUME NEW r \in Request, Serve(r) PROVE \A q \in Request : pc[q] = "done" => pc'[q] = "done"
    BY <1>1, <2>1, ServeKinds DEF Typed, Begins, Stores, Checks, Settles, Ends, Goes
  <2>2. CASE UNCHANGED vars
    BY <2>2 DEF vars, threadVars
  <2>3. CASE Restart
    BY <1>1, <2>3 DEF Restart
  <2>4. QED BY <2>1, <2>2, <2>3, JobSteps
<1>3. QED BY <1>2 DEF Answered

LEMMA OneCreate ==
    ASSUME NEW r \in Request, r.op = "create", Answered(r.scan)
    PROVE  pc[r] = "done"
BY JobAssumption DEF Answered

\* The steps a job may take.
Forward(s) ==
    job'[s] # job[s] =>
        <<job[s], job'[s]>> \in {<<"absent", "queued">>, <<"queued", "running">>,
                                 <<"running", "completed">>, <<"running", "failed">>}

\* A start takes a queued job, so no other thread has started it; an end is reached
\* only by the one thread that has.
LEMMA JobsStep ==
    ASSUME Typed, JobsOK, [JobNext]_allVars
    PROVE  JobsOK' /\ \A s \in Scan : Forward(s)
<1>t. /\ job \in [Scan -> JobStatus] /\ at \in [Executor -> Place] /\ queue \in Seq(Scan)
      /\ holding \in [Executor -> Scan \cup {NoJob}] /\ creating \in SUBSET Scan
      /\ pc \in [Request -> {"idle"} \cup Begun]
  BY DEF Typed, JobTyping, ThreadsTypeOK, Begun
<1>a. /\ \A s \in Scan : Answered(s) => Answered(s)'
      /\ JobsAsked /\ Exclusive
  BY AnsweredStays DEF JobsOK
<1> DEFINE Goal == JobsAsked' /\ Exclusive' /\ \A s \in Scan : Forward(s)
<1> SUFFICES Goal
  BY DEF JobsOK
<1> USE DEF JobsAsked, Exclusive, Forward, Busy
<1>1. ASSUME NEW r \in Request, Serve(r),
             \/ r.op # "run_passive"
             \/ \E e \in Executor : at[e] = "started" /\ r = RunOf(holding[e])
      PROVE  Goal
  <2>1. OutOfServe /\ (Begins(r) \/ Stores(r) \/ Checks(r) \/ Settles(r) \/ Ends(r))
    BY <1>1, ServeKinds DEF Typed
  <2>2. \E to \in Begun : pc' = [pc EXCEPT ![r] = to]
    BY <2>1 DEF Begins, Stores, Checks, Settles, Ends, Goes, Begun
  <2>3. JobsAsked'
    <3>1. CASE creating' = creating
      BY <1>a, <2>1, <3>1 DEF OutOfServe
    <3>2. CASE creating' # creating
      <4>1. /\ r.op = "create" /\ pc[r] = "log" /\ pc'[r] = "done"
            /\ creating' = creating \cup {r.scan}
        BY <1>t, <2>1, <3>2 DEF Begins, Stores, Checks, Settles, Ends, Goes
      <4>2. r.scan \in Scan /\ ~Answered(r.scan) /\ Answered(r.scan)'
        BY <4>1, OneCreate, Requests DEF Answered
      <4>3. job[r.scan] = "absent"
        BY <1>a, <4>2
      <4>4. QED BY <1>a, <2>1, <4>1, <4>2, <4>3 DEF OutOfServe
    <3>3. QED BY <3>1, <3>2
  <2>4. Exclusive'
    <3>1. ASSUME NEW s \in Scan, job[s] \in {"absent", "queued"}, RunOf(s) \in Request
          PROVE  RunOf(s) # r
      <4>1. CASE r.op # "run_passive"
        BY <4>1, RunIs
      <4>2. ASSUME NEW e \in Executor, at[e] = "started", r = RunOf(holding[e])
            PROVE  RunOf(s) # r
        <5>1. job[holding[e]] = "running" /\ holding[e] \in Scan
          BY <1>a, <4>2
        <5>2. RunOf(s).scan = s /\ r.scan = holding[e]
          BY <4>2, <5>1, RunIs
        <5>3. QED BY <3>1, <5>1, <5>2
      <4>3. QED BY <1>1, <4>1, <4>2
    <3>2. \A s \in Scan :
              job[s] \in {"absent", "queued"} /\ RunOf(s) \in Request => pc'[RunOf(s)] = "idle"
      BY <1>a, <1>t, <2>2, <3>1
    <3>3. QED BY <1>a, <2>1, <3>2 DEF OutOfServe
  <2>5. QED BY <2>1, <2>3, <2>4 DEF OutOfServe
<1>2. ASSUME UNCHANGED <<job, queue, creating, at, holding, pc>>
      PROVE  Goal
  BY <1>a, <1>2
<1>3. ASSUME NEW s \in Scan, Enqueue(s)
      PROVE  Goal
  <2>1. /\ s \in creating /\ creating' = creating \ {s}
        /\ job' = [job EXCEPT ![s] = "queued"] /\ queue' = Append(queue, s)
        /\ UNCHANGED <<at, holding, pc>>
    BY <1>3 DEF Enqueue, vars, threadVars
  <2>2. job[s] = "absent" /\ Answered(s)
    BY <1>a, <2>1
  <2>3. \A t \in Scan : job'[t] = IF t = s THEN "queued" ELSE job[t]
    BY <1>t, <2>1
  <2>4. \A i \in 1..Len(queue') : queue'[i] \in Scan /\ job'[queue'[i]] # "absent"
    <3>1. \A i \in 1..Len(queue) : queue[i] \in Scan /\ job[queue[i]] # "absent"
      BY <1>a, <1>t
    <3>2. QED BY <1>t, <2>1, <2>3, <3>1
  <2>5. JobsAsked'
    BY <1>a, <1>t, <2>1, <2>2, <2>3, <2>4
  <2>6. Exclusive'
    BY <1>a, <1>t, <2>1, <2>2, <2>3
  <2>7. QED BY <2>2, <2>3, <2>5, <2>6
<1>4. ASSUME NEW e \in Executor, NEW to \in {"idle", "gone", "taken"},
             at[e] # "started", at' = [at EXCEPT ![e] = to],
             \A f \in Executor \ {e} : holding'[f] = holding[f],
             to = "taken" => holding'[e] \in Scan /\ job[holding'[e]] # "absent",
             \A i \in 1..Len(queue') : \E j \in 1..Len(queue) : queue'[i] = queue[j],
             UNCHANGED <<job, creating, pc>>
      PROVE  Goal
  <2>1. \A f \in Executor : at'[f] = "started" => f # e /\ at[f] = "started"
    BY <1>t, <1>4
  <2>2. Exclusive'
    BY <1>a, <1>4, <2>1
  <2>3. \A f \in Executor : at'[f] \in Busy => holding'[f] \in Scan /\ job'[holding'[f]] # "absent"
    BY <1>a, <1>t, <1>4
  <2>4. \A i \in 1..Len(queue') : job'[queue'[i]] # "absent"
    BY <1>a, <1>4
  <2>5. JobsAsked'
    BY <1>a, <1>4, <2>3, <2>4
  <2>6. QED BY <1>4, <2>2, <2>5
<1>5. ASSUME NEW d \in Drainer, StartDrain(d) \/ EndDrain(d)
      PROVE  Goal
  <2>1. \E to \in {"idle", "gone"} : at[d] # "started" /\ at' = [at EXCEPT ![d] = to]
    BY <1>5 DEF StartDrain, EndDrain, Move
  <2>2. UNCHANGED <<job, queue, creating, holding, pc>>
    BY <1>5 DEF StartDrain, EndDrain, vars, threadVars
  <2>3. QED BY <1>4, <2>1, <2>2 DEF Executor
<1>6. ASSUME NEW e \in Executor, Take(e)
      PROVE  Goal
  <2>1. /\ queue # <<>> /\ at[e] = "idle" /\ at' = [at EXCEPT ![e] = "taken"]
        /\ holding' = [holding EXCEPT ![e] = Head(queue)] /\ queue' = Tail(queue)
        /\ UNCHANGED <<job, creating, pc>>
    BY <1>6 DEF Take, Move, vars, threadVars
  <2>2. /\ 1 \in 1..Len(queue) /\ holding'[e] = queue[1] /\ queue[1] \in Scan
        /\ \A f \in Executor \ {e} : holding'[f] = holding[f]
        /\ \A i \in 1..Len(queue') : i + 1 \in 1..Len(queue) /\ queue'[i] = queue[i + 1]
    BY <1>t, <2>1
  <2>3. job[holding'[e]] # "absent"
    BY <1>a, <2>2
  <2>4. QED BY <1>4, <2>1, <2>2, <2>3
<1>7. ASSUME NEW e \in Executor, StartJob(e)
      PROVE  Goal
  <2>1. at[e] = "taken" /\ UNCHANGED <<queue, creating, holding, pc>>
    BY <1>7 DEF StartJob, Move, vars, threadVars
  <2>2. CASE at' = [at EXCEPT ![e] = "idle"] /\ job' = job
    BY <1>4, <2>1, <2>2
  <2>3. CASE /\ at' = [at EXCEPT ![e] = "started"] /\ job[holding[e]] = "queued"
             /\ job' = [job EXCEPT ![holding[e]] = "running"]
    <3>1. holding[e] \in Scan
      BY <1>a, <2>1
    <3>2. \A s \in Scan : job'[s] = IF s = holding[e] THEN "running" ELSE job[s]
      BY <1>t, <2>3, <3>1
    <3>3. \A f \in Executor \ {e} : at'[f] = "started" =>
              /\ at[f] = "started" /\ holding[f] # holding[e]
              /\ holding[f] \in Scan /\ job[holding[f]] = "running"
      BY <1>a, <1>t, <2>3
    <3>4. Exclusive'
      BY <1>a, <2>1, <3>1, <3>2, <3>3
    <3>5. \A f \in Executor : at'[f] \in Busy => at[f] \in Busy
      BY <1>t, <2>1, <2>3
    <3>6. \A i \in 1..Len(queue) : queue[i] \in Scan
      BY <1>t
    <3>7. JobsAsked'
      BY <1>a, <2>1, <2>3, <3>1, <3>2, <3>5, <3>6
    <3>8. QED BY <2>3, <3>1, <3>2, <3>4, <3>7
  <2>4. QED BY <1>7, <2>2, <2>3 DEF StartJob, Move
<1>8. ASSUME NEW e \in Executor, FinishJob(e) \/ FailJob(e)
      PROVE  Goal
  <2>1. /\ at[e] = "started" /\ UNCHANGED <<queue, creating, holding, pc>>
        /\ \E x \in {"idle", "gone"} : at' = [at EXCEPT ![e] = x]
        /\ \E x \in {"completed", "failed"} : job' = [job EXCEPT ![holding[e]] = x]
    BY <1>8 DEF FinishJob, FailJob, EndJob, Move, vars, threadVars
  <2>2. holding[e] \in Scan /\ job[holding[e]] = "running"
    BY <1>a, <2>1
  <2>3. \A s \in Scan : IF s = holding[e] THEN job'[s] \in {"completed", "failed"}
                                          ELSE job'[s] = job[s]
    BY <1>t, <2>1, <2>2
  <2>4. \A f \in Executor : at'[f] \in Busy => f # e /\ at'[f] = at[f]
    BY <1>t, <2>1
  <2>5. Exclusive'
    BY <1>a, <2>1, <2>2, <2>3, <2>4
  <2>6. \A i \in 1..Len(queue) : queue[i] \in Scan
    BY <1>t
  <2>7. JobsAsked'
    BY <1>a, <2>1, <2>2, <2>3, <2>4, <2>6
  <2>8. QED BY <2>2, <2>3, <2>5, <2>7
<1>9. CASE Restart
  <2>1. /\ job' = job /\ queue' = <<>> /\ creating' = {}
        /\ \A e \in Executor : at'[e] \in {"idle", "gone"}
    BY <1>9 DEF Restart, FreshAt
  <2>2. \A r \in Request : pc[r] = "idle" => pc'[r] = "idle"
    BY <1>9 DEF Restart
  <2>3. QED BY <1>a, <2>1, <2>2
<1>10. CASE UNCHANGED allVars
  BY <1>2, <1>10 DEF allVars, vars, threadVars, jobVars
<1>11. CASE OtherRequest
  BY <1>2, <1>11 DEF OtherRequest, vars, threadVars
<1>12. ASSUME NEW e \in Executor, RunJob(e)
       PROVE  Goal
  <2>1. at[e] = "started" /\ RunOf(holding[e]) \in Request /\ Serve(RunOf(holding[e]))
    BY <1>a, <1>12, RunIs DEF RunJob
  <2>2. QED BY <1>1, <2>1
<1>13. ASSUME NEW r \in Request, Client(r)
       PROVE  Goal
  BY <1>1, <1>13 DEF Client
<1>14. QED
  BY <1>3, <1>5, <1>6, <1>7, <1>8, <1>9, <1>10, <1>11, <1>12, <1>13 DEF JobNext, Execute

-----------------------------------------------------------------------------
\* Two consumers never take the same job, because a take is one step and a job is put
\* on the queue once.
LEMMA PlacedStep ==
    ASSUME Typed, JobsOK, JobsPlaced, [JobNext]_allVars
    PROVE  JobsPlaced'
<1> SUFFICES ASSUME restarts' = 0 PROVE JobsPlaced'
  BY DEF JobsPlaced
<1>1. JobTyping /\ \A e \in Executor : at[e] \in Busy => holding[e] \in Scan
  BY DEF Typed, JobsOK, JobsAsked
<1>2. restarts = 0 /\ ~Restart
  <2>1. restarts \in Nat
    BY <1>1, JobAssumption DEF JobTyping
  <2>2. ~Restart
    BY <2>1 DEF Restart
  <2>3. QED
    BY <2>2 DEF JobNext, Client, Serve, OtherRequest, Enqueue, StartDrain, EndDrain, Execute,
           Take, StartJob, RunJob, FinishJob, FailJob, EndJob, allVars, jobVars
<1> USE DEF Busy
<1>3. ASSUME UNCHANGED <<job, queue, at, holding, restarts>>, creating' = creating
      PROVE  JobsPlaced'
  BY <1>3 DEF JobsPlaced
<1>6. ASSUME NEW s \in Scan, Enqueue(s)
      PROVE  JobsPlaced'
  <2>1. /\ s \in creating /\ creating' = creating \ {s}
        /\ job' = [job EXCEPT ![s] = "queued"] /\ queue' = Append(queue, s)
        /\ UNCHANGED <<at, holding, restarts>>
    BY <1>6 DEF Enqueue
  <2>2. job[s] = "absent"
    BY <2>1 DEF JobsOK, JobsAsked
  <2>3. /\ queue \in Seq(Scan) /\ job \in [Scan -> JobStatus]
        /\ \A e \in Executor : at[e] \in Busy => holding[e] \in Scan
    BY <1>1 DEF JobTyping
  <2>4. /\ Len(queue') = Len(queue) + 1 /\ Len(queue) \in Nat
        /\ queue'[Len(queue) + 1] = s
        /\ \A i \in 1..Len(queue) : queue'[i] = queue[i]
    BY <2>1, <2>3
  <2>5. \A i \in 1..Len(queue) : queue[i] \in Scan /\ queue[i] # s
    BY <1>2, <2>2, <2>3 DEF JobsPlaced
  <2>6. \A i, j \in 1..Len(queue') : queue'[i] = queue'[j] => i = j
    BY <1>2, <2>4, <2>5 DEF JobsPlaced
  <2>7. \A e \in Executor : at[e] \in Busy => holding[e] # s
    BY <1>2, <2>2 DEF JobsPlaced
  <2>8. \A i \in 1..Len(queue') :
            /\ job'[queue'[i]] = "queued"
            /\ \A e \in Executor : at'[e] \in Busy => holding'[e] # queue'[i]
    BY <1>2, <2>1, <2>3, <2>4, <2>5, <2>7 DEF JobsPlaced
  <2>9. \A t \in Scan :
            /\ job'[t] = "queued" =>
                   \/ \E i \in 1..Len(queue') : queue'[i] = t
                   \/ \E e \in Executor : at'[e] = "taken" /\ holding'[e] = t
            /\ job'[t] = "running" =>
                   \E e \in Executor : at'[e] = "started" /\ holding'[e] = t
    <3> SUFFICES ASSUME NEW t \in Scan
                 PROVE  /\ job'[t] = "queued" =>
                               \/ \E i \in 1..Len(queue') : queue'[i] = t
                               \/ \E e \in Executor : at'[e] = "taken" /\ holding'[e] = t
                        /\ job'[t] = "running" =>
                               \E e \in Executor :
                                   at'[e] = "started" /\ holding'[e] = t
      OBVIOUS
    <3>1. CASE t = s
      <4>1. Len(queue) + 1 \in 1..Len(queue')
        BY <2>4
      <4>2. job'[t] = "queued"
        BY <2>1, <2>3, <3>1
      <4>3. QED BY <2>4, <3>1, <4>1, <4>2
    <3>2. CASE t # s
      <4>1. job'[t] = job[t]
        BY <2>1, <2>3, <3>2
      <4>2. QED BY <1>2, <2>1, <2>4, <4>1 DEF JobsPlaced
    <3>3. QED BY <3>1, <3>2
  <2>10. \A e \in Executor :
             /\ at'[e] = "taken" => job'[holding'[e]] = "queued"
             /\ at'[e] = "started" => job'[holding'[e]] = "running"
    BY <1>2, <2>1, <2>3, <2>7 DEF JobsPlaced
  <2>12. QED BY <1>2, <2>1, <2>6, <2>8, <2>9, <2>10 DEF JobsPlaced
<1>8. ASSUME NEW d \in Drainer, StartDrain(d) \/ EndDrain(d)
      PROVE  JobsPlaced'
  <2>1. /\ at[d] \notin Busy
        /\ \E x \in {"idle", "gone"} : at' = [at EXCEPT ![d] = x]
        /\ UNCHANGED <<job, queue, creating, holding, restarts>>
    BY <1>8 DEF StartDrain, EndDrain, Move
  <2>2. \A e \in Executor : at'[e] = at[e] \/ at'[e] \notin Busy
    <3>1. PICK x \in {"idle", "gone"} : at' = [at EXCEPT ![d] = x]
      BY <2>1
    <3>2. at \in [Executor -> Place]
      BY <1>1 DEF JobTyping
    <3>3. QED BY <3>1, <3>2
  <2>3. QED BY <1>2, <2>1, <2>2 DEF JobsPlaced
<1>9. ASSUME NEW e \in Executor, Take(e)
      PROVE  JobsPlaced'
  <2>1. /\ queue # <<>> /\ at[e] = "idle" /\ at' = [at EXCEPT ![e] = "taken"]
        /\ holding' = [holding EXCEPT ![e] = Head(queue)]
        /\ queue' = Tail(queue)
        /\ UNCHANGED <<job, creating, restarts>>
    BY <1>9 DEF Take, Move
  <2>2. /\ queue \in Seq(Scan) /\ at \in [Executor -> Place]
        /\ holding \in [Executor -> Scan \cup {NoJob}]
    BY <1>1 DEF JobTyping
  <2>3. /\ Len(queue) \in Nat \ {0} /\ Head(queue) = queue[1]
        /\ Len(queue') = Len(queue) - 1
        /\ \A i \in 1..Len(queue') : i + 1 \in 1..Len(queue) /\ queue'[i] = queue[i + 1]
    BY <2>1, <2>2
  <2>4. /\ at'[e] = "taken" /\ holding'[e] = queue[1]
        /\ \A f \in Executor \ {e} : at'[f] = at[f] /\ holding'[f] = holding[f]
    BY <2>1, <2>2, <2>3
  <2>5. /\ \A i, j \in 1..Len(queue) : queue[i] = queue[j] => i = j
        /\ \A i \in 1..Len(queue) :
               /\ job[queue[i]] = "queued"
               /\ \A f \in Executor : at[f] \in Busy => holding[f] # queue[i]
    BY <1>2 DEF JobsPlaced
  <2>6. \A i, j \in 1..Len(queue') : queue'[i] = queue'[j] => i = j
    <3> SUFFICES ASSUME NEW i \in 1..Len(queue'), NEW j \in 1..Len(queue'),
                        queue'[i] = queue'[j]
                 PROVE  i = j
      OBVIOUS
    <3>1. i + 1 \in 1..Len(queue) /\ j + 1 \in 1..Len(queue) /\ queue[i + 1] = queue[j + 1]
      BY <2>3
    <3>2. i + 1 = j + 1
      BY <2>5, <3>1
    <3>3. QED BY <3>2
  <2>7. \A i \in 1..Len(queue') : queue'[i] # queue[1] /\ job'[queue'[i]] = "queued"
    BY <2>1, <2>3, <2>5
  <2>8. \A i \in 1..Len(queue') : \A f \in Executor :
            at'[f] \in Busy => holding'[f] # queue'[i]
    <3> SUFFICES ASSUME NEW i \in 1..Len(queue'), NEW f \in Executor, at'[f] \in Busy
                 PROVE  holding'[f] # queue'[i]
      OBVIOUS
    <3>1. CASE f = e
      BY <2>4, <2>7, <3>1
    <3>2. CASE f # e
      BY <2>3, <2>4, <2>5, <3>2
    <3>3. QED BY <3>1, <3>2
  <2>9. \A f \in Executor \ {e} : at'[f] \in Busy => holding'[f] # holding'[e]
    BY <2>3, <2>4, <2>5
  <2>10. \A f, g \in Executor :
             at'[f] \in Busy /\ at'[g] \in Busy /\ holding'[f] = holding'[g] => f = g
    BY <1>2, <2>4, <2>9 DEF JobsPlaced
  <2>11. \A f \in Executor :
             /\ at'[f] = "taken" => job'[holding'[f]] = "queued"
             /\ at'[f] = "started" => job'[holding'[f]] = "running"
    BY <1>2, <2>1, <2>3, <2>4, <2>5 DEF JobsPlaced
  <2>12. \A t \in Scan :
             job'[t] = "queued" =>
                 \/ \E i \in 1..Len(queue') : queue'[i] = t
                 \/ \E f \in Executor : at'[f] = "taken" /\ holding'[f] = t
    <3> SUFFICES ASSUME NEW t \in Scan, job[t] = "queued",
                        ~\E f \in Executor : at'[f] = "taken" /\ holding'[f] = t
                 PROVE  \E i \in 1..Len(queue') : queue'[i] = t
      BY <2>1
    <3>1. ~\E f \in Executor : at[f] = "taken" /\ holding[f] = t
      BY <2>1, <2>4
    <3>2. PICK i \in 1..Len(queue) : queue[i] = t
      BY <1>2, <3>1 DEF JobsPlaced
    <3>3. i # 1
      BY <2>4, <3>2
    <3>4. i - 1 \in 1..Len(queue') /\ queue'[i - 1] = queue[i]
      BY <2>3, <3>3
    <3>5. QED BY <3>2, <3>4
  <2>13. \A t \in Scan :
             job'[t] = "running" =>
                 \E f \in Executor : at'[f] = "started" /\ holding'[f] = t
    <3> SUFFICES ASSUME NEW t \in Scan, job[t] = "running"
                 PROVE  \E f \in Executor : at'[f] = "started" /\ holding'[f] = t
      BY <2>1
    <3>1. PICK f \in Executor : at[f] = "started" /\ holding[f] = t
      BY <1>2 DEF JobsPlaced
    <3>2. f # e
      BY <2>1, <3>1
    <3>3. QED BY <2>4, <3>1, <3>2
  <2>15. QED
    BY <2>6, <2>7, <2>8, <2>10, <2>11, <2>12, <2>13 DEF JobsPlaced
<1>10. ASSUME NEW e \in Executor, NEW new \in JobStatus, NEW to, NEW from \in Busy,
              at[e] = from, at' = [at EXCEPT ![e] = to],
              job' = [job EXCEPT ![holding[e]] = new],
              UNCHANGED <<queue, creating, holding, restarts>>,
              \/ to \notin Busy /\ new \in {"completed", "failed"}
              \/ to = "started" /\ new = "running"
       PROVE  JobsPlaced'
  <2>1. /\ holding[e] \in Scan
        /\ job \in [Scan -> JobStatus] /\ at \in [Executor -> Place]
        /\ creating \in SUBSET Scan /\ queue \in Seq(Scan)
        /\ \A f \in Executor : at[f] \in Busy => holding[f] \in Scan
    BY <1>1, <1>10 DEF JobTyping
  <2>2. /\ \A f \in Executor \ {e} : at'[f] = at[f]
        /\ at'[e] = to
        /\ \A t \in Scan \ {holding[e]} : job'[t] = job[t]
        /\ job'[holding[e]] = new
    BY <1>10, <2>1
  <2>3. \A f \in Executor \ {e} : at[f] \in Busy => holding[f] # holding[e]
    BY <1>2, <1>10 DEF JobsPlaced
  <2>4. \A i \in 1..Len(queue) : queue[i] \in Scan /\ queue[i] # holding[e]
    BY <1>2, <1>10, <2>1 DEF JobsPlaced
  <2>6. \A i \in 1..Len(queue') :
            /\ job'[queue'[i]] = "queued"
            /\ \A f \in Executor : at'[f] \in Busy => holding'[f] # queue'[i]
    BY <1>2, <1>10, <2>2, <2>4 DEF JobsPlaced
  <2>7. \A f, g \in Executor :
            at'[f] \in Busy /\ at'[g] \in Busy /\ holding'[f] = holding'[g] => f = g
    BY <1>2, <1>10, <2>2, <2>3 DEF JobsPlaced
  <2>8. \A f \in Executor :
            /\ at'[f] = "taken" => job'[holding'[f]] = "queued"
            /\ at'[f] = "started" => job'[holding'[f]] = "running"
    <3> SUFFICES ASSUME NEW f \in Executor
                 PROVE  /\ at'[f] = "taken" => job'[holding[f]] = "queued"
                        /\ at'[f] = "started" => job'[holding[f]] = "running"
      BY <1>10
    <3>1. CASE f = e
      BY <1>10, <2>2, <3>1
    <3>2. CASE f # e
      <4>1. at'[f] = at[f]
        BY <2>2, <3>2
      <4>2. at[f] \in Busy => job'[holding[f]] = job[holding[f]]
        BY <2>1, <2>2, <2>3, <3>2
      <4>3. QED BY <1>2, <4>1, <4>2 DEF JobsPlaced
    <3>3. QED BY <3>1, <3>2
  <2>9. \A t \in Scan :
            /\ job'[t] = "queued" =>
                   \/ \E i \in 1..Len(queue') : queue'[i] = t
                   \/ \E f \in Executor : at'[f] = "taken" /\ holding'[f] = t
            /\ job'[t] = "running" =>
                   \E f \in Executor : at'[f] = "started" /\ holding'[f] = t
    <3> SUFFICES ASSUME NEW t \in Scan
                 PROVE  /\ job'[t] = "queued" =>
                               \/ \E i \in 1..Len(queue) : queue[i] = t
                               \/ \E f \in Executor : at'[f] = "taken" /\ holding[f] = t
                        /\ job'[t] = "running" =>
                               \E f \in Executor :
                                   at'[f] = "started" /\ holding[f] = t
      BY <1>10
    <3>1. CASE t = holding[e]
      BY <1>10, <2>2, <3>1
    <3>2. CASE t # holding[e]
      BY <1>2, <2>2, <3>2 DEF JobsPlaced
    <3>3. QED BY <3>1, <3>2
  <2>11. QED BY <1>2, <1>10, <2>6, <2>7, <2>8, <2>9 DEF JobsPlaced
<1>11. ASSUME NEW e \in Executor, StartJob(e)
       PROVE  JobsPlaced'
  <2>1. at[e] = "taken" /\ job[holding[e]] = "queued"
    BY <1>2, <1>11 DEF StartJob, Move, JobsPlaced
  <2>2. QED BY <1>10, <1>11, <2>1 DEF StartJob, Move, JobStatus
<1>12. ASSUME NEW r \in Request, Serve(r)
       PROVE  JobsPlaced'
  BY <1>12 DEF Serve, JobsPlaced
<1>13. ASSUME NEW e \in Executor, RunJob(e)
       PROVE  JobsPlaced'
  BY <1>13 DEF RunJob, Serve, JobsPlaced
<1>14. ASSUME NEW e \in Executor, FinishJob(e) \/ FailJob(e)
       PROVE  JobsPlaced'
  BY <1>10, <1>14 DEF FinishJob, FailJob, EndJob, Move, JobStatus
<1>15. CASE UNCHANGED allVars
  BY <1>3, <1>15 DEF allVars, jobVars
<1>16. CASE OtherRequest
  BY <1>3, <1>16 DEF OtherRequest
<1>17. QED
  BY <1>2, <1>6, <1>8, <1>9, <1>11, <1>12, <1>13, <1>14, <1>15, <1>16
     DEF JobNext, Execute, Client

-----------------------------------------------------------------------------
\* For a scan that was not settled twice at once, a credit once deducted or released
\* stays so, in the memory and in the database.
Keeping(s) ==
    \A x \in Settled :
        /\ reservation[s] = x => reservation'[s] = x
        /\ reservation[s] = x /\ db.reservation[s] = x => db'.reservation[s] = x

LEMMA SettledStays ==
    ASSUME Typed, JobsOK, CreditsTell, NEW r \in Request, Serve(r),
           NEW s \in Scan, s \notin overlapped
    PROVE  Keeping(s)
<1>t. /\ reservation \in [Scan -> ReservationStatus] /\ pc \in [Request -> {"idle"} \cup Begun]
      /\ (r.op = "create" \/ r.op \in Settling => r.scan \in Scan)
  BY Requests DEF Typed, ThreadsTypeOK, CreditTypeOK, Begun, Settling, Completing, Releasing
<1>k. OutOfServe /\ (Begins(r) \/ Stores(r) \/ Checks(r) \/ Settles(r) \/ Ends(r))
  BY ServeKinds DEF Typed
<1>1. CASE reservation' = reservation
  <2>1. db' = db \/ Sync
    BY <1>k DEF Begins, Stores, Checks, Settles, Ends
  <2>2. QED BY <1>1, <2>1 DEF Keeping, Sync, Memory
<1>2. CASE Stores(r)
  <2>1. r.scan # s => reservation'[s] = reservation[s]
    BY <1>t, <1>2 DEF Stores
  <2>2. r.scan = s => ~Answered(s)
    BY <1>2, OneCreate DEF Stores, Goes
  <2>3. r.scan = s => reservation[s] \notin Settled
    BY <2>2 DEF CreditsTell, SettledWereAsked
  <2>4. db' = db
    BY <1>2 DEF Stores
  <2>5. QED BY <2>1, <2>3, <2>4 DEF Keeping
<1>3. CASE Settles(r)
  <2>1. r.scan = s => reservation[s] = "reserved"
    BY <1>3 DEF Settles, Goes, CreditsTell, OneSettles
  <2>2. r.scan # s => reservation'[s] = reservation[s]
    BY <1>t, <1>3 DEF Settles
  <2>3. db' = db
    BY <1>3 DEF Settles
  <2>4. QED BY <2>1, <2>2, <2>3 DEF Keeping, Settled
<1>4. QED BY <1>1, <1>2, <1>3, <1>k DEF Begins, Checks, Ends

\* A step of a thread keeps what is known of the credits.
LEMMA ServeTells ==
    ASSUME Typed, JobsOK, CreditsTell, NEW r \in Request, Serve(r),
           \A s : Answered(s) => Answered(s)'
    PROVE  CreditsTell'
<1>t. /\ reservation \in [Scan -> ReservationStatus] /\ pc \in [Request -> {"idle"} \cup Begun]
      /\ overlapped \in SUBSET Scan
      /\ \A q \in Request : q.op = "create" \/ q.op \in Settling => q.scan \in Scan
  BY Requests DEF Typed, JobTyping, ThreadsTypeOK, CreditTypeOK, Begun, Settling, Completing,
                  Releasing
<1>k. OutOfServe /\ (Begins(r) \/ Stores(r) \/ Checks(r) \/ Settles(r) \/ Ends(r))
  BY ServeKinds DEF Typed
<1>c. Reserved /\ SettledWereAsked /\ OneSettles /\ RunsTell /\ HandsTell /\ JobsTell
  BY DEF CreditsTell
<1>g. \A q \in Request \ {r} : pc'[q] = pc[q]
  BY <1>t, <1>k DEF Begins, Stores, Checks, Settles, Ends, Goes
<1>d. (db' = db \/ Sync) /\ overlapped \subseteq overlapped'
  BY <1>k DEF Begins, Stores, Checks, Settles, Ends
<1>s. \A s \in Scan \ overlapped' : s \in Scan \ overlapped /\ Keeping(s)
  BY <1>d, SettledStays
<1>n. \A s \in Scan : reservation[s] # "none" => reservation'[s] # "none"
  BY <1>t, <1>k DEF Begins, Stores, Checks, Settles, Ends
<1>o. Settling \cap {"create", "grant"} = {}
  BY DEF Settling, Completing, Releasing
<1>1. Reserved'
  <2> SUFFICES ASSUME NEW q \in Request
               PROVE  /\ q.op = "create" /\ pc'[q] \in {"log", "done"} => reservation'[q.scan] # "none"
                      /\ q.op = "create" /\ pc'[q] = "done" => db'.reservation[q.scan] # "none"
                      /\ q.op \in Settling /\ pc'[q] # "idle" => Answered(q.scan)'
    BY DEF Reserved
  <2>1. CASE q # r
    <3>1. pc'[q] = pc[q]
      BY <1>g, <2>1
    <3>2. QED BY <1>c, <1>d, <1>n, <1>t, <3>1 DEF Reserved, Sync, Memory
  <2>2. CASE q = r /\ r.op = "create"
    <3>1. pc'[r] = "done" => pc[r] = "log" /\ Sync
      BY <1>t, <1>k, <1>o, <2>2 DEF Begins, Stores, Checks, Settles, Ends, Goes
    <3>2. pc'[r] = "log" => reservation'[r.scan] = "reserved"
      BY <1>t, <1>k, <1>o, <2>2 DEF Begins, Stores, Checks, Settles, Ends, Goes
    <3>3. QED BY <1>c, <1>n, <1>o, <1>t, <2>2, <3>1, <3>2 DEF Reserved, Sync, Memory
  <2>3. CASE q = r /\ r.op \in Settling
    <3>1. pc[r] # "idle" \/ Answered(r.scan)
      BY <1>k, <1>o, <2>3 DEF Begins, Stores, Checks, Settles, Ends, Goes
    <3>2. QED BY <1>c, <1>o, <2>3, <3>1 DEF Reserved
  <2>4. QED BY <2>1, <2>2, <2>3
<1>2. SettledWereAsked'
  <2>1. \A s \in Scan : reservation'[s] \in Settled => reservation[s] \in Settled \/ Answered(s)
    <3>1. CASE reservation' = reservation
      BY <3>1
    <3>2. CASE Stores(r)
      BY <1>t, <3>2 DEF Stores, Settled
    <3>3. CASE Settles(r)
      <4>1. r.scan \in Scan /\ Answered(r.scan)
        BY <1>c, <1>t, <3>3 DEF Settles, Goes, Reserved
      <4>2. QED BY <1>t, <3>3, <4>1 DEF Settles
    <3>4. QED BY <1>k, <3>1, <3>2, <3>3 DEF Begins, Checks, Ends
  <2>2. \A s \in Scan : db'.reservation[s] \in {db.reservation[s], reservation'[s]}
    BY <1>d DEF Sync, Memory
  <2>3. QED BY <1>c, <2>1, <2>2 DEF SettledWereAsked
<1>3. OneSettles'
  <2> SUFFICES ASSUME NEW q \in Request, q.op \in Settling, pc'[q] = "move",
                      q.scan \notin overlapped'
               PROVE  /\ reservation'[q.scan] = "reserved"
                      /\ \A p \in Request :
                             p.op \in Settling /\ p.scan = q.scan /\ pc'[p] = "move" => p = q
    BY DEF OneSettles
  <2>0. q.scan \notin overlapped
    BY <1>d
  <2>1. CASE q # r
    <3>1. pc[q] = "move" /\ reservation[q.scan] = "reserved"
      BY <1>c, <1>g, <2>0, <2>1 DEF OneSettles
    <3>2. ~(r.op \in Settling /\ r.scan = q.scan /\ pc'[r] = "move")
      <4> SUFFICES ASSUME r.op \in Settling, r.scan = q.scan, pc'[r] = "move" PROVE FALSE
        OBVIOUS
      <4>1. Checks(r) /\ pc'[r] = "move"
        BY <1>k, <1>o, <1>t DEF Begins, Stores, Settles, Ends, Goes
      <4>2. Overlaps(r)
        BY <2>1, <3>1 DEF Overlaps
      <4>3. QED BY <1>t, <4>1, <4>2 DEF Checks, Goes
    <3>3. reservation'[q.scan] = "reserved"
      <4>1. CASE reservation' = reservation
        BY <3>1, <4>1
      <4>2. CASE Stores(r)
        BY <1>t, <3>1, <4>2 DEF Stores
      <4>3. CASE Settles(r)
        <5>1. r.scan # q.scan
          BY <1>c, <2>0, <2>1, <3>1, <4>3 DEF Settles, Goes, OneSettles
        <5>2. QED BY <1>t, <3>1, <4>3, <5>1 DEF Settles
      <4>4. QED BY <1>k, <4>1, <4>2, <4>3 DEF Begins, Checks, Ends
    <3>4. \A p \in Request :
              p.op \in Settling /\ p.scan = q.scan /\ pc'[p] = "move" => p = q
      BY <1>c, <1>g, <2>0, <3>1, <3>2 DEF OneSettles
    <3>5. QED BY <3>3, <3>4
  <2>2. CASE q = r
    <3>1. Checks(r) /\ pc'[r] = "move"
      BY <1>k, <1>o, <1>t, <2>2 DEF Begins, Stores, Settles, Ends, Goes
    <3>2. reservation' = reservation /\ reservation[r.scan] = "reserved" /\ ~Overlaps(r)
      BY <1>t, <2>2, <3>1 DEF Checks, Goes
    <3>3. \A p \in Request :
              p.op \in Settling /\ p.scan = r.scan /\ pc'[p] = "move" => p = r
      BY <1>g, <3>2 DEF Overlaps
    <3>4. QED BY <2>2, <3>2, <3>3
  <2>3. QED BY <2>1, <2>2
<1>4. RunsTell'
  <2> SUFFICES ASSUME NEW s \in Scan \ overlapped', RunOf(s) \in Request
               PROVE  /\ pc'[RunOf(s)] \in {"log", "done"} => reservation'[s] = "deducted"
                      /\ pc'[RunOf(s)] = "done" => db'.reservation[s] = "deducted"
    BY DEF RunsTell
  <2>0. s \in Scan \ overlapped /\ Keeping(s)
    BY <1>s
  <2>1. CASE RunOf(s) # r
    <3>1. pc'[RunOf(s)] = pc[RunOf(s)]
      BY <1>g, <2>1
    <3>2. QED BY <1>c, <2>0, <3>1 DEF RunsTell, Keeping, Settled
  <2>2. CASE RunOf(s) = r
    <3>0. r.op \in Completing /\ r.op \in Settling /\ r.scan = s /\ r.op \notin Releasing
      BY <2>2, RunIs DEF RunOf, Releasing
    <3>1. CASE Begins(r) \/ Stores(r)
      BY <1>o, <1>t, <2>2, <3>0, <3>1 DEF Begins, Stores, Goes
    <3>2. CASE Checks(r)
      <4>1. reservation[s] # "none"
        <5>1. Answered(s)
          BY <1>c, <3>0, <3>2 DEF Reserved, Checks, Goes
        <5>2. QED BY <1>c, <5>1 DEF Answered, Reserved
      <4>2. pc'[r] = "done" => reservation'[s] = "deducted" /\ Sync
        BY <1>t, <3>0, <3>2, <4>1 DEF Checks, Goes, ReservationStatus
      <4>3. pc'[r] # "log"
        BY <1>t, <3>2 DEF Checks, Goes
      <4>4. QED BY <2>2, <4>2, <4>3 DEF Sync, Memory
    <3>3. CASE Settles(r)
      BY <1>t, <2>2, <3>0, <3>3 DEF Settles, Goes
    <3>4. CASE Ends(r)
      <4>1. reservation'[s] = "deducted"
        BY <1>c, <2>0, <2>2, <3>4 DEF Ends, Goes, RunsTell, Keeping, Settled
      <4>2. QED BY <2>2, <3>4, <4>1 DEF Ends, Sync, Memory
    <3>5. QED BY <1>k, <3>1, <3>2, <3>3, <3>4
  <2>3. QED BY <2>1, <2>2
<1>5. HandsTell'
  <2> SUFFICES ASSUME NEW e \in Executor, at[e] = "started", holding[e] \notin overlapped',
                      pc'[RunOf(holding[e])] = "raised"
               PROVE  reservation'[holding[e]] = "released"
    BY <1>k DEF HandsTell, OutOfServe
  <2> DEFINE s == holding[e]
  <2>1. s \in Scan \ overlapped /\ Keeping(s) /\ RunOf(s) \in Request
    <3>1. s \in Scan /\ Answered(s)
      BY DEF JobsOK, JobsAsked, Busy
    <3>2. QED BY <1>s, <3>1, RunIs
  <2>2. CASE RunOf(s) # r
    <3>1. reservation[s] = "released"
      BY <1>c, <1>g, <2>1, <2>2 DEF HandsTell
    <3>2. QED BY <2>1, <3>1 DEF Keeping, Settled
  <2>3. CASE RunOf(s) = r
    <3>1. r.op \in Settling /\ r.scan = s
      BY <2>1, <2>3, RunIs
    <3>2. reservation[s] = "released" /\ reservation' = reservation
      BY <1>k, <1>o, <1>t, <2>3, <3>1 DEF Begins, Stores, Checks, Settles, Ends, Goes
    <3>3. QED BY <3>2
  <2>4. QED BY <2>2, <2>3
<1>6. JobsTell'
  BY <1>c, <1>k, <1>s DEF JobsTell, OutOfServe, Keeping, Settled
<1>7. QED BY <1>1, <1>2, <1>3, <1>4, <1>5, <1>6 DEF CreditsTell

\* What a step that leaves the scans and their credits alone does to jobs: an end is
\* stored when the run has come to it.
LEMMA QuietJobs ==
    ASSUME Typed, JobsOK, [JobNext]_allVars, UNCHANGED vars, ~Restart
    PROVE  \/ OutOfServe
           \/ /\ \A e \in Executor :
                     at'[e] = "started" =>
                         \/ at[e] = "started" /\ holding'[e] = holding[e]
                         \/ holding'[e] \in Scan /\ job[holding'[e]] = "queued" /\ Answered(holding'[e])
              /\ \A s \in Scan :
                     /\ job'[s] = "completed" =>
                            \/ job[s] = "completed"
                            \/ RunOf(s) \in Request /\ pc[RunOf(s)] = "done" /\ Sync
                     /\ job'[s] = "failed" =>
                            \/ job[s] = "failed"
                            \/ /\ pc[RunOf(s)] = "raised" /\ Sync
                               /\ \E e \in Executor : at[e] = "started" /\ holding[e] = s
<1>t. /\ job \in [Scan -> JobStatus] /\ at \in [Executor -> Place]
      /\ \A e \in Executor : at[e] \in Busy =>
             /\ holding[e] \in Scan /\ Answered(holding[e]) /\ RunOf(holding[e]) \in Request
  BY RunIs DEF Typed, JobTyping, JobsOK, JobsAsked
<1> USE DEF Busy
<1>1. ASSUME NEW s \in Scan, Enqueue(s)
      PROVE  /\ UNCHANGED <<at, holding>>
             /\ \A x \in Scan : job'[x] \in {job[x], "queued"}
  BY <1>t, <1>1 DEF Enqueue
<1>2. ASSUME NEW d \in Drainer, StartDrain(d) \/ EndDrain(d)
      PROVE  UNCHANGED <<job, holding>> /\ \A e \in Executor : at'[e] = "started" => at[e] = "started"
  BY <1>t, <1>2 DEF StartDrain, EndDrain, Move
<1>3. ASSUME NEW e \in Executor, Take(e)
      PROVE  /\ job' = job
             /\ \A f \in Executor : at'[f] = "started" => at[f] = "started" /\ holding'[f] = holding[f]
  <2>1. at' = [at EXCEPT ![e] = "taken"] /\ job' = job
        /\ holding' = [holding EXCEPT ![e] = Head(queue)]
    BY <1>3 DEF Take, Move
  <2>2. holding \in [Executor -> Scan \cup {NoJob}]
    BY DEF Typed, JobTyping
  <2>3. QED BY <1>t, <2>1, <2>2
<1>4. ASSUME NEW e \in Executor, StartJob(e)
      PROVE  /\ holding' = holding /\ \A s \in Scan : job'[s] \in {job[s], "running"}
             /\ \A f \in Executor : at'[f] = "started" =>
                    \/ at[f] = "started"
                    \/ /\ holding[f] \in Scan /\ job[holding[f]] = "queued"
                       /\ Answered(holding[f])
  BY <1>t, <1>4 DEF StartJob, Move
<1>5. ASSUME NEW e \in Executor, FinishJob(e)
      PROVE  /\ holding' = holding /\ \A f \in Executor : at'[f] = "started" => at[f] = "started"
             /\ \A s \in Scan :
                    /\ job'[s] = job[s] \/ s = holding[e]
                    /\ s = holding[e] => job'[s] = "completed"
             /\ RunOf(holding[e]) \in Request /\ pc[RunOf(holding[e])] = "done" /\ Sync
  BY <1>t, <1>5 DEF FinishJob, EndJob, Move
<1>6. ASSUME NEW e \in Executor, FailJob(e)
      PROVE  /\ holding' = holding /\ \A f \in Executor : at'[f] = "started" => at[f] = "started"
             /\ \A s \in Scan :
                    /\ job'[s] = job[s] \/ s = holding[e]
                    /\ s = holding[e] => job'[s] = "failed"
             /\ at[e] = "started" /\ pc[RunOf(holding[e])] = "raised" /\ Sync
  BY <1>t, <1>6 DEF FailJob, EndJob, Move
<1>7. ASSUME NEW e \in Executor, RunJob(e) PROVE OutOfServe
  BY <1>7 DEF RunJob, Serve, OutOfServe
<1>8. ASSUME NEW r \in Request, Client(r) PROVE OutOfServe
  BY <1>8 DEF Client, Serve, OutOfServe
<1>9. CASE OtherRequest \/ UNCHANGED allVars
  BY <1>9 DEF OtherRequest, allVars, jobVars, OutOfServe
<1>10. QED
  BY <1>1, <1>2, <1>3, <1>4, <1>5, <1>6, <1>7, <1>8, <1>9 DEF JobNext, Execute

\* ... and so does any step.
LEMMA TellsStep ==
    ASSUME Typed, JobsOK, CreditsTell, [JobNext]_allVars
    PROVE  CreditsTell'
<1>a. \A s : Answered(s) => Answered(s)'
  BY AnsweredStays DEF JobsOK
<1>c. Reserved /\ SettledWereAsked /\ OneSettles /\ RunsTell /\ HandsTell /\ JobsTell
  BY DEF CreditsTell
<1>1. ASSUME NEW r \in Request, Serve(r) PROVE CreditsTell'
  BY <1>1, <1>a, ServeTells
<1>2. CASE UNCHANGED vars /\ (db' = db \/ Sync) /\ overlapped' = overlapped /\ ~Restart
  <2>0. UNCHANGED <<reservation, pc>> /\ (db'.reservation \in {db.reservation, reservation})
    BY <1>2 DEF vars, creditVars, threadVars, Sync, Memory
  <2>1. Reserved' /\ SettledWereAsked' /\ OneSettles' /\ RunsTell'
    <3>1. Reserved'
      BY <1>a, <1>c, <2>0 DEF Reserved
    <3>2. SettledWereAsked'
      BY <1>a, <1>c, <2>0 DEF SettledWereAsked
    <3>3. OneSettles'
      BY <1>2, <1>c, <2>0 DEF OneSettles
    <3>4. RunsTell'
      BY <1>2, <1>c, <2>0 DEF RunsTell
    <3>5. QED BY <3>1, <3>2, <3>3, <3>4
  <2>2. CASE OutOfServe
    <3>1. HandsTell'
      BY <1>2, <1>c, <2>0, <2>2 DEF HandsTell, OutOfServe
    <3>2. JobsTell'
      BY <1>2, <1>c, <2>0, <2>2 DEF JobsTell, OutOfServe
    <3>3. QED BY <2>1, <3>1, <3>2 DEF CreditsTell
  <2>3. CASE ~OutOfServe
    <3>q. /\ \A e \in Executor :
                 at'[e] = "started" =>
                     \/ at[e] = "started" /\ holding'[e] = holding[e]
                     \/ holding'[e] \in Scan /\ job[holding'[e]] = "queued" /\ Answered(holding'[e])
          /\ \A s \in Scan :
                 /\ job'[s] = "completed" =>
                        \/ job[s] = "completed"
                        \/ RunOf(s) \in Request /\ pc[RunOf(s)] = "done" /\ Sync
                 /\ job'[s] = "failed" =>
                        \/ job[s] = "failed"
                        \/ /\ pc[RunOf(s)] = "raised" /\ Sync
                           /\ \E e \in Executor : at[e] = "started" /\ holding[e] = s
      BY <1>2, <2>3, QuietJobs
    <3>1. HandsTell'
      <4> SUFFICES ASSUME NEW e \in Executor, at'[e] = "started", holding'[e] \notin overlapped,
                          pc[RunOf(holding'[e])] = "raised"
                   PROVE  reservation[holding'[e]] = "released"
        BY <1>2, <2>0 DEF HandsTell
      <4>1. CASE at[e] = "started" /\ holding'[e] = holding[e]
        BY <1>c, <4>1 DEF HandsTell
      <4>2. CASE holding'[e] \in Scan /\ job[holding'[e]] = "queued" /\ Answered(holding'[e])
        BY <4>2, RunIs DEF JobsOK, Exclusive
      <4>3. QED BY <3>q, <4>1, <4>2
    <3>2. JobsTell'
      <4> SUFFICES ASSUME NEW s \in Scan \ overlapped
                   PROVE  /\ job'[s] = "completed" =>
                                 reservation[s] = "deducted" /\ db'.reservation[s] = "deducted"
                          /\ job'[s] = "failed" =>
                                 reservation[s] = "released" /\ db'.reservation[s] = "released"
        BY <1>2, <2>0 DEF JobsTell
      <4>1. /\ job[s] = "completed" => reservation[s] = "deducted" /\ db'.reservation[s] = "deducted"
            /\ job[s] = "failed" => reservation[s] = "released" /\ db'.reservation[s] = "released"
        BY <1>c, <2>0 DEF JobsTell
      <4>2. RunOf(s) \in Request /\ pc[RunOf(s)] = "done" => reservation[s] = "deducted"
        BY <1>c DEF RunsTell
      <4>3. ASSUME NEW e \in Executor, at[e] = "started", holding[e] = s, pc[RunOf(s)] = "raised"
            PROVE  reservation[s] = "released"
        BY <1>c, <4>3 DEF HandsTell
      <4>4. Sync => db'.reservation[s] = reservation[s]
        BY <2>0 DEF Sync, Memory
      <4>5. QED BY <3>q, <4>1, <4>2, <4>3, <4>4
    <3>3. QED BY <2>1, <3>1, <3>2 DEF CreditsTell
  <2>4. QED BY <2>2, <2>3
<1>3. CASE Restart
  <2>1. /\ reservation' = db.reservation /\ UNCHANGED <<job, db, overlapped>>
        /\ \A e \in Executor : at'[e] # "started"
        /\ \A r \in Request : /\ pc'[r] \in {"idle", "done"} => pc'[r] = pc[r]
                              /\ pc'[r] \notin {"check", "move", "log"}
    <3>1. \A r \in Request : pc'[r] = IF pc[r] \in {"check", "move", "log"} THEN "raised" ELSE pc[r]
      BY <1>3 DEF Restart
    <3>2. \A e \in Executor : at'[e] # "started"
      BY <1>3 DEF Restart, FreshAt
    <3>3. QED BY <1>3, <3>1, <3>2 DEF Restart
  <2>2. Reserved'
    <3> SUFFICES ASSUME NEW q \in Request
                 PROVE  /\ q.op = "create" /\ pc'[q] \in {"log", "done"} => reservation'[q.scan] # "none"
                        /\ q.op = "create" /\ pc'[q] = "done" => db'.reservation[q.scan] # "none"
                        /\ q.op \in Settling /\ pc'[q] # "idle" => Answered(q.scan)'
      BY DEF Reserved
    <3>1. pc'[q] = "done" => pc[q] = "done"
      BY <2>1
    <3>2. pc'[q] # "idle" => pc[q] # "idle"
      BY <1>3 DEF Restart
    <3>3. QED BY <1>a, <1>c, <2>1, <3>1, <3>2 DEF Reserved
  <2>3. SettledWereAsked'
    BY <1>a, <1>c, <2>1 DEF SettledWereAsked
  <2>4. OneSettles' /\ HandsTell' /\ JobsTell'
    BY <1>c, <2>1 DEF OneSettles, HandsTell, JobsTell
  <2>5. RunsTell'
    BY <1>c, <2>1 DEF RunsTell
  <2>6. QED BY <2>2, <2>3, <2>4, <2>5 DEF CreditsTell
<1>4. QED BY <1>1, <1>2, <1>3, JobSteps DEF JobsOK

-----------------------------------------------------------------------------
\* The scans of w that were charged, and that the database knows to have been.
ChargedIn(w) == {s \in Scan : WorkspaceOf[s] = w /\ Charged(s)}
ChargedInDbIn(w) == {s \in Scan : WorkspaceOf[s] = w /\ ChargedInDb(s)}

LEMMA SmallerCount ==
    ASSUME NEW S, NEW T, S \subseteq T, T \subseteq Scan
    PROVE  /\ Cardinality(S) \in Nat /\ Cardinality(T) \in Nat
           /\ Cardinality(S) <= Cardinality(T)
BY CreditAssumption, FS_Subset, FS_CardinalityType

\* The counter of consumed credits grows whenever a scan is newly charged, and a sync
\* stores both.
LEMMA PaidStep ==
    ASSUME Typed, JobsOK, CreditsTell, AllPaid, [JobNext]_allVars
    PROVE  AllPaid'
<1>t. /\ reservation \in [Scan -> ReservationStatus] /\ pc \in [Request -> {"idle"} \cup Begun]
      /\ consumed \in [Workspace -> Int] /\ db.consumed \in [Workspace -> Int]
      /\ \A q \in Request : q.op \in Settling => q.scan \in Scan /\ q.workspace = WorkspaceOf[q.scan]
      /\ Settling \cap {"create", "grant"} = {} /\ Completing \cap Releasing = {}
      /\ Completing \subseteq Settling
  BY Requests DEF Typed, DatabaseOK, ThreadsTypeOK, CreditTypeOK, Begun, Settling, Completing,
                  Releasing
<1>p. \A w \in Workspace : /\ Cardinality(ChargedIn(w)) <= consumed[w]
                           /\ Cardinality(ChargedInDbIn(w)) <= db.consumed[w]
  BY DEF AllPaid, ChargedIn, ChargedInDbIn
<1>g. ASSUME \A w \in Workspace : /\ Cardinality(ChargedIn(w)') <= consumed'[w]
                                  /\ Cardinality(ChargedInDbIn(w)') <= db'.consumed[w]
      PROVE  AllPaid'
  BY <1>g DEF AllPaid, ChargedIn, ChargedInDbIn
<1>d. \A s : ChargedInDb(s)' /\ Sync => Charged(s)'
  BY DEF Charged, ChargedInDb, Sync, Memory
<1>e. ASSUME NEW w \in Workspace, Cardinality(ChargedIn(w)') <= consumed'[w],
             Sync \/ (db' = db /\ ChargedInDbIn(w)' \subseteq ChargedInDbIn(w)),
             consumed' \in [Workspace -> Int]
      PROVE  Cardinality(ChargedInDbIn(w)') <= db'.consumed[w]
  <2>1. CASE Sync
    <3>1. ChargedInDbIn(w)' \subseteq ChargedIn(w)' /\ ChargedIn(w)' \subseteq Scan
      BY <1>d, <2>1 DEF ChargedIn, ChargedInDbIn
    <3>2. db'.consumed[w] = consumed'[w]
      BY <2>1 DEF Sync, Memory
    <3>3. QED BY <1>e, <3>1, <3>2, SmallerCount
  <2>2. CASE db' = db /\ ChargedInDbIn(w)' \subseteq ChargedInDbIn(w)
    <3>1. ChargedInDbIn(w) \subseteq Scan
      BY DEF ChargedInDbIn
    <3>2. QED BY <1>p, <1>t, <2>2, <3>1, SmallerCount
  <2>3. QED BY <1>e, <2>1, <2>2
<1>1. ASSUME NEW r \in Request, Serve(r) PROVE AllPaid'
  <2>k. OutOfServe /\ (Begins(r) \/ Stores(r) \/ Checks(r) \/ Settles(r) \/ Ends(r))
    BY <1>1, ServeKinds DEF Typed
  <2>o. \A q \in Request \ {r} : pc'[q] = pc[q]
    BY <1>t, <2>k DEF Begins, Stores, Checks, Settles, Ends, Goes
  <2>1. ASSUME NEW s \in Scan, Charged(s)'
        PROVE  Charged(s) \/ (s = r.scan /\ r.op \in Completing /\ Settles(r))
    <3>1. CASE reservation'[s] = "deducted"
      <4>1. CASE reservation' = reservation
        BY <3>1, <4>1 DEF Charged
      <4>2. CASE Stores(r)
        BY <1>t, <3>1, <4>2 DEF Stores, Charged
      <4>3. CASE Settles(r)
        BY <1>t, <3>1, <4>3 DEF Settles, Charged
      <4>4. QED BY <2>k, <4>1, <4>2, <4>3 DEF Begins, Checks, Ends
    <3>2. CASE job'[s] = "completed"
      BY <2>k, <3>2 DEF OutOfServe, Charged
    <3>3. CASE RunOf(s) \in Request /\ pc'[RunOf(s)] \in {"log", "done"}
      <4>1. CASE RunOf(s) # r
        BY <2>o, <3>3, <4>1 DEF Charged
      <4>2. CASE RunOf(s) = r
        <5>0. r.op \in Completing /\ r.op \in Settling /\ r.scan = s
          BY <4>2, RunIs
        <5>1. CASE Begins(r) \/ Stores(r)
          BY <1>t, <3>3, <4>2, <5>0, <5>1 DEF Begins, Stores, Goes
        <5>2. CASE Checks(r)
          <6>1. Answered(s)
            BY <5>0, <5>2 DEF CreditsTell, Reserved, Checks, Goes
          <6>2. reservation[s] # "none"
            BY <6>1 DEF Answered, CreditsTell, Reserved
          <6>3. reservation[s] = "deducted"
            BY <1>t, <3>3, <4>2, <5>0, <5>2, <6>2 DEF Checks, Goes, ReservationStatus
          <6>4. QED BY <6>3 DEF Charged
        <5>3. CASE Settles(r)
          BY <5>0, <5>3
        <5>4. CASE Ends(r)
          BY <3>3, <4>2, <5>4 DEF Ends, Goes, Charged
        <5>5. QED BY <2>k, <5>1, <5>2, <5>3, <5>4
      <4>3. QED BY <4>1, <4>2
    <3>4. QED BY <1>1, <2>1, <3>1, <3>2, <3>3 DEF Charged
  <2>2. ASSUME NEW w \in Workspace PROVE Cardinality(ChargedIn(w)') <= consumed'[w]
    <3>0. ChargedIn(w) \subseteq Scan /\ IsFiniteSet(ChargedIn(w))
      BY CreditAssumption, FS_Subset DEF ChargedIn
    <3>1. CASE Settles(r) /\ r.op \in Completing /\ WorkspaceOf[r.scan] = w
      <4>1. ChargedIn(w)' \subseteq ChargedIn(w) \cup {r.scan} /\ r.scan \in Scan
        BY <1>t, <2>1, <3>1 DEF ChargedIn
      <4>2. consumed'[w] = consumed[w] + 1
        BY <1>t, <3>1 DEF Settles
      <4>3. Cardinality(ChargedIn(w) \cup {r.scan}) <= Cardinality(ChargedIn(w)) + 1
        <5>1. Cardinality(ChargedIn(w)) \in Nat
          BY <3>0, FS_CardinalityType
        <5>2. \/ Cardinality(ChargedIn(w) \cup {r.scan}) = Cardinality(ChargedIn(w))
              \/ Cardinality(ChargedIn(w) \cup {r.scan}) = Cardinality(ChargedIn(w)) + 1
          BY <3>0, FS_AddElement
        <5>3. QED BY <5>1, <5>2
      <4>4. QED BY <1>p, <1>t, <3>0, <4>1, <4>2, <4>3, SmallerCount
    <3>2. CASE ~(Settles(r) /\ r.op \in Completing /\ WorkspaceOf[r.scan] = w)
      <4>1. ChargedIn(w)' \subseteq ChargedIn(w)
        BY <2>1, <3>2 DEF ChargedIn
      <4>2. consumed'[w] = consumed[w]
        BY <1>t, <2>k, <3>2 DEF Begins, Stores, Checks, Settles, Ends
      <4>3. QED BY <1>p, <1>t, <3>0, <4>1, <4>2, SmallerCount
    <3>3. QED BY <3>1, <3>2
  <2>3. consumed' \in [Workspace -> Int]
    BY <1>t, <2>k DEF Begins, Stores, Checks, Settles, Ends
  <2>4. ASSUME NEW w \in Workspace
        PROVE  Sync \/ (db' = db /\ ChargedInDbIn(w)' \subseteq ChargedInDbIn(w))
    <3> SUFFICES ASSUME ~Sync PROVE db' = db /\ ChargedInDbIn(w)' \subseteq ChargedInDbIn(w)
      OBVIOUS
    <3>1. db' = db
      BY <2>k DEF Begins, Stores, Checks, Settles, Ends
    <3>2. pc'[r] # "done"
      BY <1>t, <2>k DEF Begins, Stores, Checks, Settles, Ends, Goes
    <3>3. \A s \in Scan : ChargedInDb(s)' => ChargedInDb(s)
      BY <2>k, <2>o, <3>1, <3>2 DEF ChargedInDb, OutOfServe
    <3>4. QED BY <3>1, <3>3 DEF ChargedInDbIn
  <2>5. QED BY <1>e, <1>g, <2>2, <2>3, <2>4
<1>2. CASE UNCHANGED vars /\ (db' = db \/ Sync) /\ overlapped' = overlapped /\ ~Restart
  <2>0. UNCHANGED <<reservation, consumed, pc>>
    BY <1>2 DEF vars, creditVars, threadVars
  <2>1. \A s \in Scan :
            job'[s] = "completed" =>
                \/ job[s] = "completed"
                \/ RunOf(s) \in Request /\ pc[RunOf(s)] = "done" /\ Sync
    BY <1>2, QuietJobs DEF OutOfServe
  <2>2. \A s \in Scan : Charged(s)' => Charged(s)
    BY <2>0, <2>1 DEF Charged
  <2>3. \A s \in Scan : ~Sync /\ ChargedInDb(s)' => ChargedInDb(s)
    BY <1>2, <2>0, <2>1 DEF ChargedInDb
  <2>4. ASSUME NEW w \in Workspace PROVE Cardinality(ChargedIn(w)') <= consumed'[w]
    <3>1. ChargedIn(w)' \subseteq ChargedIn(w) /\ ChargedIn(w) \subseteq Scan
      BY <2>2 DEF ChargedIn
    <3>2. QED BY <1>p, <1>t, <2>0, <3>1, SmallerCount
  <2>5. ASSUME NEW w \in Workspace
        PROVE  Sync \/ (db' = db /\ ChargedInDbIn(w)' \subseteq ChargedInDbIn(w))
    BY <1>2, <2>3 DEF ChargedInDbIn
  <2>6. QED BY <1>e, <1>g, <1>t, <2>0, <2>4, <2>5
<1>3. CASE Restart
  <2>1. /\ reservation' = db.reservation /\ consumed' = db.consumed /\ UNCHANGED <<job, db>>
        /\ \A r \in Request : pc'[r] \in {"log", "done"} => pc[r] = "done"
    BY <1>3 DEF Restart
  <2>2. \A s \in Scan : (Charged(s)' => ChargedInDb(s)) /\ (ChargedInDb(s)' => ChargedInDb(s))
    BY <2>1 DEF Charged, ChargedInDb
  <2>3. ASSUME NEW w \in Workspace
        PROVE  /\ Cardinality(ChargedIn(w)') <= consumed'[w]
               /\ Cardinality(ChargedInDbIn(w)') <= db'.consumed[w]
    <3>1. /\ ChargedIn(w)' \subseteq ChargedInDbIn(w) /\ ChargedInDbIn(w) \subseteq Scan
          /\ ChargedInDbIn(w)' \subseteq ChargedInDbIn(w)
      BY <2>2 DEF ChargedIn, ChargedInDbIn
    <3>2. QED BY <1>p, <1>t, <2>1, <3>1, SmallerCount
  <2>4. QED BY <1>g, <2>3
<1>4. QED BY <1>1, <1>2, <1>3, JobSteps DEF JobsOK

-----------------------------------------------------------------------------
\* Everything the theorems rest on, of the first state and of every later one.
JobInv == Typed /\ JobsOK /\ JobsPlaced /\ CreditsTell /\ AllPaid

LEMMA JobStarts == JobInit => JobInv
<1> SUFFICES ASSUME JobInit PROVE JobInv
  OBVIOUS
<1>0. /\ Init /\ db = Memory /\ overlapped = {} /\ creating = {} /\ queue = <<>>
      /\ job = [s \in Scan |-> "absent"] /\ restarts = 0
      /\ \A e \in Executor : at[e] \in {"idle", "gone"}
      /\ \A r \in Request : pc[r] = "idle"
      /\ \A s \in Scan : reservation[s] = "none" /\ db.reservation[s] = "none"
  BY DEF JobInit, Init, CreditInit, FreshAt, Memory
<1>1. Typed
  <2>1. ThreadsTypeOK
    BY <1>0, InitThreadsTypes
  <2>2. DatabaseOK
    BY <1>0, <2>1 DEF Memory, DatabaseOK, ThreadsTypeOK, CreditTypeOK
  <2>3. JobTyping
    BY <1>0, JobAssumption DEF JobInit, JobTyping, JobStatus, Place, FreshAt
  <2>4. QED BY <2>1, <2>2, <2>3 DEF Typed
<1>2. JobsOK /\ JobsPlaced
  BY <1>0 DEF JobsOK, JobsAsked, Exclusive, JobsPlaced, Busy
<1>3. CreditsTell
  BY <1>0 DEF CreditsTell, Reserved, SettledWereAsked, OneSettles, RunsTell, HandsTell, JobsTell,
              Settled
<1>4. AllPaid
  <2>1. \A w \in Workspace : /\ {s \in Scan : WorkspaceOf[s] = w /\ Charged(s)} = {}
                             /\ {s \in Scan : WorkspaceOf[s] = w /\ ChargedInDb(s)} = {}
    BY <1>0 DEF Charged, ChargedInDb
  <2>2. \A w \in Workspace : consumed[w] = 0 /\ db.consumed[w] = 0
    BY <1>0 DEF Init, CreditInit, Memory
  <2>3. QED BY <2>1, <2>2, FS_EmptySet DEF AllPaid
<1>5. QED BY <1>1, <1>2, <1>3, <1>4 DEF JobInv

LEMMA JobInvariant == JobSpec => []JobInv
<1>1. ASSUME JobInv, [JobNext]_allVars PROVE JobInv'
  <2>1. Typed' /\ JobsOK'
    BY <1>1, TypesStep, JobsStep DEF JobInv, JobsOK
  <2>2. JobsPlaced' /\ CreditsTell' /\ AllPaid'
    BY <1>1, PlacedStep, TellsStep, PaidStep DEF JobInv
  <2>3. QED BY <2>1, <2>2 DEF JobInv
<1>2. JobInv /\ [JobNext]_allVars => JobInv'
  BY <1>1
<1>3. QED BY <1>2, JobStarts, PTL DEF JobSpec

\* Theorem: type correctness of the queue, of the threads and of what they share.
THEOREM JobTypes == JobSpec => []JobTypeOK
<1>1. JobInv => JobTypeOK
  BY DEF JobInv, Typed, JobTyping, JobTypeOK
<1>2. QED BY <1>1, JobInvariant, PTL

\* Theorem: a job's outcome is its scan's credit, in whatever order threads and jobs
\* settle the scan, over any number of restarts, unless two were past their check at once.
THEOREM JobTellsCreditInvariant == JobSpec => []JobTellsCredit
<1>1. JobInv => JobTellsCredit
  BY DEF JobInv, CreditsTell, JobsTell, JobTellsCredit
<1>2. QED BY <1>1, JobInvariant, PTL

\* Theorem: however scans are settled twice at once and whatever half of an operation the
\* process restarts with, an account has consumed a credit for each completed job.
THEOREM CompletedJobsArePaidInvariant == JobSpec => []CompletedJobsArePaid
<1>1. JobInv => CompletedJobsArePaid
  <2> SUFFICES ASSUME JobInv, NEW w \in Workspace
               PROVE  Cardinality({s \in Scan : WorkspaceOf[s] = w /\ job[s] = "completed"})
                          <= consumed[w]
    BY DEF CompletedJobsArePaid
  <2> DEFINE S == {s \in Scan : WorkspaceOf[s] = w /\ job[s] = "completed"}
  <2>1. S \subseteq ChargedIn(w) /\ ChargedIn(w) \subseteq Scan
    BY DEF ChargedIn, Charged
  <2>2. Cardinality(ChargedIn(w)) <= consumed[w] /\ consumed[w] \in Int
    BY DEF JobInv, AllPaid, ChargedIn, Typed, ThreadsTypeOK, CreditTypeOK
  <2> HIDE DEF S
  <2>3. Cardinality(S) <= consumed[w]
    BY <2>1, <2>2, SmallerCount
  <2>4. QED BY <2>3 DEF S
<1>2. QED BY <1>1, JobInvariant, PTL

\* Theorem: over any number of restarts and of threads that drain the queue, a job is
\* started once and ends once.
THEOREM JobsMoveForwardHolds == JobSpec => JobsMoveForward
<1>1. JobInv /\ [JobNext]_allVars => [\A s \in Scan : Forward(s)]_allVars
  BY JobsStep DEF JobInv
<1>2. [\A s \in Scan : Forward(s)]_allVars <=>
          [\A s \in Scan :
               job'[s] # job[s] =>
                   <<job[s], job'[s]>> \in {<<"absent", "queued">>, <<"queued", "running">>,
                                            <<"running", "completed">>, <<"running", "failed">>}
          ]_allVars
  BY DEF Forward
<1>3. QED BY <1>1, <1>2, JobInvariant, PTL DEF JobSpec, JobsMoveForward

\* Theorem: until the first restart every queued job is in exactly one place and every
\* running job has exactly one executor, whatever number of threads drain the queue.
THEOREM JobIsSomewhereInvariant == JobSpec => []JobIsSomewhere
<1>1. JobInv => JobIsSomewhere
  <2> SUFFICES ASSUME JobsPlaced, restarts = 0, NEW s \in Scan
               PROVE  LET onQueue == {i \in 1..Len(queue) : queue[i] = s}
                          held(places) == {e \in Executor : holding[e] = s /\ at[e] \in places}
                      IN  /\ job[s] = "queued" =>
                                 Cardinality(onQueue) + Cardinality(held({"taken"})) = 1
                          /\ job[s] = "running" =>
                                 Cardinality(held({"started"})) = 1
    BY DEF JobIsSomewhere, JobInv
  <2> DEFINE onQueue == {i \in 1..Len(queue) : queue[i] = s}
             held(places) == {e \in Executor : holding[e] = s /\ at[e] \in places}
  <2> USE DEF Busy
  <2>1. ASSUME job[s] = "queued", NEW i \in 1..Len(queue), queue[i] = s
        PROVE  Cardinality(onQueue) + Cardinality(held({"taken"})) = 1
    <3>1. onQueue = {i} /\ held({"taken"}) = {}
      BY <2>1 DEF JobsPlaced
    <3>2. Cardinality(onQueue) = 1 /\ Cardinality(held({"taken"})) = 0
      BY <3>1, FS_Singleton, FS_EmptySet
    <3> HIDE DEF onQueue, held
    <3>3. QED BY <3>2
  <2>2. ASSUME job[s] = "queued", NEW e \in Executor, at[e] = "taken", holding[e] = s
        PROVE  Cardinality(onQueue) + Cardinality(held({"taken"})) = 1
    <3>1. onQueue = {} /\ held({"taken"}) = {e}
      BY <2>2 DEF JobsPlaced
    <3>2. Cardinality(onQueue) = 0 /\ Cardinality(held({"taken"})) = 1
      BY <3>1, FS_Singleton, FS_EmptySet
    <3> HIDE DEF onQueue, held
    <3>3. QED BY <3>2
  <2>3. ASSUME job[s] = "running" PROVE Cardinality(held({"started"})) = 1
    <3>1. PICK e \in Executor : at[e] = "started" /\ holding[e] = s
      BY <2>3 DEF JobsPlaced
    <3>2. held({"started"}) = {e}
      BY <3>1 DEF JobsPlaced
    <3>3. QED BY <3>2, FS_Singleton
  <2>4. job[s] = "queued" => Cardinality(onQueue) + Cardinality(held({"taken"})) = 1
    BY <2>1, <2>2 DEF JobsPlaced
  <2>5. QED BY <2>3, <2>4
<1>2. QED BY <1>1, JobInvariant, PTL

\* Theorem: the background thread is gone only if a job has failed, in this process or
\* in one before it: no drain request, cancellation, restart or job that is skipped
\* ends it.  (FailJob is the only step that moves it there, and a failed job stays one.)
THEOREM BackgroundDiesOfFailure ==
    JobSpec => [](at[Background] = "gone" => \E s \in Scan : job[s] = "failed")
<1> DEFINE Explained == at[Background] = "gone" => \E s \in Scan : job[s] = "failed"
<1>1. JobInit => Explained
  BY DEF JobInit, FreshAt, Executor
<1>2. JobInv /\ Explained /\ [JobNext]_allVars => Explained'
  <2> SUFFICES ASSUME JobInv, Explained, [JobNext]_allVars, at'[Background] = "gone"
               PROVE  \E s \in Scan : job'[s] = "failed"
    OBVIOUS
  <2>1. at \in [Executor -> Place] /\ Background \in Executor /\ job \in [Scan -> JobStatus]
    BY DEF JobInv, Typed, JobTyping, Executor
  <2>2. CASE at[Background] = "gone"
    <3>1. PICK s \in Scan : job[s] = "failed"
      BY <2>2
    <3>2. Forward(s)
      BY JobsStep DEF JobInv
    <3>3. QED BY <3>1, <3>2 DEF Forward
  <2>3. CASE at[Background] # "gone"
    <3>1. at' # at /\ at'[Background] # at[Background]
      BY <2>3
    <3>2. ASSUME NEW d \in Drainer, StartDrain(d) \/ EndDrain(d)
          PROVE  FALSE
      BY <2>1, <3>1, <3>2, JobAssumption DEF StartDrain, EndDrain, Move
    <3>3. ASSUME NEW e \in Executor, Take(e) \/ StartJob(e) \/ FinishJob(e)
          PROVE  FALSE
      <4>1. \E to \in {"taken", "started", "idle"} : at' = [at EXCEPT ![e] = to]
        BY <3>3 DEF Take, StartJob, FinishJob, EndJob, Move
      <4>2. QED BY <2>1, <2>3, <4>1
    <3>4. ASSUME NEW e \in Executor, FailJob(e)
          PROVE  \E s \in Scan : job'[s] = "failed"
      <4>1. at[e] = "started" /\ job' = [job EXCEPT ![holding[e]] = "failed"]
        BY <3>4 DEF FailJob, EndJob, Move
      <4>2. holding[e] \in Scan
        BY <4>1 DEF JobInv, JobsOK, JobsAsked, Busy
      <4>3. QED BY <2>1, <4>1, <4>2
    <3>5. ~Restart
      BY <2>1 DEF Restart, FreshAt
    <3>6. ASSUME \/ UNCHANGED at \/ OtherRequest
                 \/ \E r \in Request : Client(r)
                 \/ \E s \in Scan : Enqueue(s)
                 \/ \E e \in Executor : RunJob(e)
          PROVE  FALSE
      BY <3>1, <3>6 DEF OtherRequest, Client, RunJob, Serve, Enqueue
    <3>7. QED
      BY <3>2, <3>3, <3>4, <3>5, <3>6 DEF JobNext, Execute, allVars, jobVars
  <2>4. QED BY <2>2, <2>3
<1>3. QED BY <1>1, <1>2, JobInvariant, PTL DEF JobSpec

-----------------------------------------------------------------------------
\* Between two restarts the job machinery is a client of CreditThreads.
LEMMA ThreadsOrRestart ==
    ASSUME JobInv, [JobNext]_allVars
    PROVE  [Next]_vars \/ Restart
<1>1. ASSUME NEW r \in Request, Serve(r) PROVE Next
  BY <1>1, ServeKinds DEF JobInv, Typed
<1>2. QED BY <1>1, JobSteps DEF JobInv, JobsOK

\* Theorem: until the first restart, the ledger adds up to the accounts at every moment,
\* with the jobs of all executors and the requests of clients interleaved.
THEOREM JobsKeepTheLedger == JobSpec => [](restarts = 0 => LedgerAddsUp)
<1> DEFINE Adds == restarts = 0 => FewStarted /\ LedgerAddsUp
<1>1. JobInit => Adds
  BY InitFewStarted, InitAddsUp DEF JobInit
<1>2. JobInv /\ Adds /\ [JobNext]_allVars => Adds'
  <2> SUFFICES ASSUME JobInv, Adds, [JobNext]_allVars, restarts' = 0
               PROVE  FewStarted' /\ LedgerAddsUp'
    OBVIOUS
  <2>1. restarts = 0 /\ ~Restart
    <3>1. restarts \in Nat
      BY JobAssumption DEF JobInv, Typed, JobTyping
    <3>2. ~Restart
      BY <3>1 DEF Restart
    <3>3. QED
      BY <3>2 DEF JobNext, Client, Serve, OtherRequest, Enqueue, StartDrain, EndDrain, Execute,
             Take, StartJob, RunJob, FinishJob, FailJob, EndJob, allVars, jobVars
  <2>2. ThreadsTypeOK /\ FewStarted /\ LedgerAddsUp /\ [Next]_vars
    BY <2>1, ThreadsOrRestart DEF JobInv, Typed
  <2>3. QED BY <2>2, FewStartedStep, AddsUpStep
<1>3. QED BY <1>1, <1>2, JobInvariant, PTL DEF JobSpec

\* Theorem: no account is ever overdrawn, also when the process comes back from a
\* database in which another thread's sync has stored half of an operation.
THEOREM JobsNeverOverdraw == JobSpec => []NeverOverdrawn
<1> DEFINE Solvent == /\ GrantsPositive /\ NeverOverdrawn
                      /\ \A w \in Workspace : db.available[w] >= 0
<1>1. JobInit => Solvent
  BY DEF JobInit, Init, CreditInit, GrantsPositive, NeverOverdrawn, Memory
<1>2. JobInv /\ Solvent /\ [JobNext]_allVars => Solvent'
  <2> SUFFICES ASSUME JobInv, Solvent, [JobNext]_allVars PROVE Solvent'
    OBVIOUS
  <2>1. CASE [Next]_vars /\ ~Restart
    <3>1. GrantsPositive' /\ NeverOverdrawn'
      BY <2>1, OverdrawnStep DEF JobInv, Typed
    <3>2. ASSUME NEW r \in Request, Serve(r) PROVE db' = db \/ Sync
      BY <3>2, ServeKinds DEF JobInv, Typed, Begins, Stores, Checks, Settles, Ends
    <3>3. db' = db \/ Sync
      BY <2>1, <3>2, JobSteps DEF JobInv, JobsOK
    <3>4. QED BY <3>1, <3>3 DEF Sync, Memory, NeverOverdrawn
  <2>2. CASE Restart
    <3>1. GrantsPositive'
      BY <2>2 DEF Restart, GrantsPositive
    <3>2. QED BY <2>2, <3>1 DEF Restart, NeverOverdrawn
  <2>3. QED BY <2>1, <2>2, ThreadsOrRestart
<1>3. QED BY <1>1, <1>2, JobInvariant, PTL DEF JobSpec
=============================================================================
