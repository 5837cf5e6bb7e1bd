------------------------ MODULE SharedStore_proofs ------------------------
(***************************************************************************)
(* Proofs about SharedStore, for any number of scans, credits and restarts *)
(* of the two processes, over one database or two: no memory and no        *)
(* database is ever torn, however they overwrite each other.               *)
(***************************************************************************)
EXTENDS SharedStore, FiniteSetTheorems, TLAPS

Reservations == {"none", "reserved", "deducted", "released"}

\* What one memory m says of a scan s agrees with itself, and with where the request
\* that created the scan is: q[s].
Agrees(q, m, s) ==
    /\ m.job[s] = "completed" => m.reservation[s] = "deducted"
    /\ m.job[s] = "failed" => m.reservation[s] = "released" \/ m.status[s] = "absent"
    /\ m.status[s] \in {"completed", "cancelled"} => m.reservation[s] # "reserved"
    /\ m.status[s] # "absent" => q[s] # "none"
    /\ m.job[s] # "absent" => q[s] \in {"pushed", "answered", "lost"}
    /\ m.reservation[s] # "none" => q[s] \notin {"none", "refused"}
    /\ m.status[s] # "absent" /\ m.reservation[s] = "none" => q[s] = "refused"

ImageOK(q, m) == m \in Image /\ Balanced(m) /\ \A s \in Scan : Agrees(q, m, s)

\* What the worker knows of the job in its hands.
WorkerOK ==
    /\ at \in {"popped", "execute", "started", "ran"} => holding \in Scan
    /\ at \in {"started", "ran"} => mem[Worker].job[holding] = "running"
    /\ at = "ran" => mem[Worker].reservation[holding] = "deducted"

RequestPlace == {"none", "reserved", "pushed", "answered", "refused", "lost"}

Rest ==
    /\ db \in [Files -> Image]
    /\ mem \in [Process -> Image]
    /\ request \in [Scan -> RequestPlace]
    /\ redis \in Seq(Scan)
    /\ redisOff \in SUBSET Process
    /\ at \in {"idle", "redis", "popped", "execute", "started", "ran", "raised",
               "persisted", "list", "drained", "stopped"}
    /\ source \in {"redis", "list"}
    /\ holding \in Scan \cup {NoScan}
    /\ todo \in SUBSET Scan
    /\ restarts \in 0..MaxRestarts

\* The inductive invariant.
StoreInv ==
    /\ Rest
    /\ \A f \in Files : ImageOK(request, db[f])
    /\ \A p \in Process : ImageOK(request, mem[p])
    /\ WorkerOK

-----------------------------------------------------------------------------
\* Moving the reservation of one scan from an old to a new state moves it between the
\* sets that Balanced counts.
LEMMA InMoves ==
    ASSUME NEW m \in Image, NEW n \in Image, NEW s \in Scan, NEW new \in Reservations,
           m.reservation[s] # new, n.reservation = [m.reservation EXCEPT ![s] = new],
           NEW status \in Reservations
    PROVE  /\ status = new => Cardinality(In(n, status)) = Cardinality(In(m, status)) + 1
           /\ status = m.reservation[s] =>
                  Cardinality(In(n, status)) = Cardinality(In(m, status)) - 1
           /\ status \notin {new, m.reservation[s]} =>
                  Cardinality(In(n, status)) = Cardinality(In(m, status))
           /\ Cardinality(In(m, status)) \in Nat
<1> DEFINE S == In(m, status)
<1>0. m.reservation \in [Scan -> Reservations]
  BY DEF Image, Reservations
<1>1. IsFiniteSet(S) /\ Cardinality(S) \in Nat
  BY FS_Subset, FS_CardinalityType, SharedAssumption DEF In
<1>2. CASE status = new
  <2>1. In(n, status) = S \cup {s} /\ s \notin S
    BY <1>0, <1>2 DEF In
  <2>2. QED BY <1>1, <1>2, <2>1, FS_AddElement
<1>3. CASE status # new /\ status = m.reservation[s]
  <2>1. In(n, status) = S \ {s} /\ s \in S
    BY <1>0, <1>3 DEF In
  <2>2. QED BY <1>1, <1>3, <2>1, FS_RemoveElement
<1>4. CASE status \notin {new, m.reservation[s]}
  <2>1. In(n, status) = S
    BY <1>0, <1>4 DEF In
  <2>2. QED BY <1>1, <1>4, <2>1
<1>5. QED BY <1>2, <1>3, <1>4

\* The ledger part of Balanced, entry by entry.
LedgerTells(m) ==
    /\ m.ledger \in SUBSET ({"reserve", "deduct", "release"} \X Scan)
    /\ \A t \in Scan :
           /\ <<"reserve", t>> \in m.ledger <=> m.reservation[t] # "none"
           /\ <<"deduct", t>> \in m.ledger <=> m.reservation[t] = "deducted"
           /\ <<"release", t>> \in m.ledger <=> m.reservation[t] = "released"

LEMMA LedgerByEntry ==
    ASSUME NEW m \in Image
    PROVE  LedgerTells(m) <=>
               m.ledger = {"reserve"} \X (Scan \ In(m, "none"))
                          \cup {"deduct"} \X In(m, "deducted")
                          \cup {"release"} \X In(m, "released")
<1> DEFINE L == {"reserve"} \X (Scan \ In(m, "none"))
                \cup {"deduct"} \X In(m, "deducted")
                \cup {"release"} \X In(m, "released")
<1>0. m.ledger \in SUBSET ({"reserve", "deduct", "release"} \X Scan)
  BY DEF Image
<1>1. L \in SUBSET ({"reserve", "deduct", "release"} \X Scan)
  BY DEF In
<1>2. \A t \in Scan :
          /\ <<"reserve", t>> \in L <=> m.reservation[t] # "none"
          /\ <<"deduct", t>> \in L <=> m.reservation[t] = "deducted"
          /\ <<"release", t>> \in L <=> m.reservation[t] = "released"
  BY DEF In
<1>3. ASSUME LedgerTells(m) PROVE m.ledger = L
  <2>1. \A e \in {"reserve", "deduct", "release"} \X Scan : e \in m.ledger <=> e \in L
    <3> SUFFICES ASSUME NEW e \in {"reserve", "deduct", "release"} \X Scan
                 PROVE  e \in m.ledger <=> e \in L
      OBVIOUS
    <3>1. PICK k \in {"reserve", "deduct", "release"}, t \in Scan : e = <<k, t>>
      OBVIOUS
    <3>2. <<k, t>> \in m.ledger <=> <<k, t>> \in L
      BY <1>2, <1>3 DEF LedgerTells
    <3>3. QED BY <3>1, <3>2
  <2>2. QED BY <1>0, <1>1, <2>1
<1>4. ASSUME m.ledger = L PROVE LedgerTells(m)
  BY <1>0, <1>2, <1>4 DEF LedgerTells
<1>5. QED BY <1>3, <1>4

\* Balanced, in the form the operations below keep.
BalancedNow(m) ==
    /\ m.available >= 0
    /\ m.reserved = Cardinality(In(m, "reserved"))
    /\ m.consumed = Cardinality(In(m, "deducted"))
    /\ m.available + m.reserved + m.consumed = m.granted
    /\ LedgerTells(m)

LEMMA BalancedForms ==
    ASSUME NEW m \in Image
    PROVE  Balanced(m) <=> BalancedNow(m)
BY LedgerByEntry DEF Balanced, BalancedNow

-----------------------------------------------------------------------------
\* The operations keep an image well formed and balanced.
LEMMA ReserveBalances ==
    ASSUME NEW m \in Image, NEW s \in Scan, Balanced(m),
           m.reservation[s] = "none", m.available >= 1
    PROVE  Reserve(m, s) \in Image /\ Balanced(Reserve(m, s))
<1> SUFFICES ASSUME NEW n, n = Reserve(m, s)
             PROVE  n \in Image /\ Balanced(n)
  OBVIOUS
<1>0. n = [status |-> n.status, job |-> n.job, reservation |-> n.reservation,
            granted |-> n.granted, available |-> n.available, reserved |-> n.reserved,
            consumed |-> n.consumed, ledger |-> n.ledger]
  BY Zenon DEF Reserve, Image
<1>1. n \in Image
  <2>1. /\ n.status = [m.status EXCEPT ![s] = "queued"]
        /\ n.job = m.job
        /\ n.reservation = [m.reservation EXCEPT ![s] = "reserved"]
        /\ n.granted = m.granted
        /\ n.available = m.available - 1 /\ n.reserved = m.reserved + 1
        /\ n.consumed = m.consumed /\ n.ledger = m.ledger \cup {<<"reserve", s>>}
    BY DEF Reserve, Image
  <2>2. QED BY <1>0, <2>1 DEF Image
<1>2. n.reservation = [m.reservation EXCEPT ![s] = "reserved"]
  BY DEF Reserve, Image
<1>3. /\ Cardinality(In(n, "reserved")) = Cardinality(In(m, "reserved")) + 1
      /\ Cardinality(In(n, "deducted")) = Cardinality(In(m, "deducted"))
  BY <1>1, <1>2, InMoves DEF Reservations
<1>4. BalancedNow(m)
  BY BalancedForms
<1>5. /\ n.granted = m.granted
      /\ n.available = m.available - 1 /\ n.reserved = m.reserved + 1
      /\ n.consumed = m.consumed /\ n.ledger = m.ledger \cup {<<"reserve", s>>}
  BY DEF Reserve, Image
<1>6. m.granted \in Int /\ m.available \in Int /\ m.reserved \in Int /\ m.consumed \in Int
  BY SharedAssumption DEF Image
<1>7. LedgerTells(n)
  BY <1>2, <1>4, <1>5 DEF BalancedNow, LedgerTells, Image
<1>8. BalancedNow(n)
  BY <1>3, <1>4, <1>5, <1>6, <1>7, SharedAssumption DEF BalancedNow
<1>9. QED BY <1>1, <1>8, BalancedForms

LEMMA DeductBalances ==
    ASSUME NEW m \in Image, NEW s \in Scan, Balanced(m)
    PROVE  Deduct(m, s) \in Image /\ Balanced(Deduct(m, s))
<1>1. CASE m.reservation[s] # "reserved"
  BY <1>1 DEF Deduct
<1>2. CASE m.reservation[s] = "reserved"
  <2> SUFFICES ASSUME NEW n,
                      n = [m EXCEPT !.reservation[s] = "deducted",
                                    !.reserved = @ - 1, !.consumed = @ + 1,
                                    !.ledger = @ \cup {<<"deduct", s>>}]
               PROVE  n \in Image /\ Balanced(n)
    BY <1>2 DEF Deduct
  <2>a. n = [status |-> n.status, job |-> n.job, reservation |-> n.reservation,
              granted |-> n.granted, available |-> n.available, reserved |-> n.reserved,
              consumed |-> n.consumed, ledger |-> n.ledger]
    BY Zenon DEF Image
  <2>1. n \in Image
    <3>1. /\ n.status = m.status /\ n.job = m.job
          /\ n.reservation = [m.reservation EXCEPT ![s] = "deducted"]
          /\ n.granted = m.granted
          /\ n.available = m.available /\ n.reserved = m.reserved - 1
          /\ n.consumed = m.consumed + 1 /\ n.ledger = m.ledger \cup {<<"deduct", s>>}
      BY DEF Image
    <3>2. QED BY <2>a, <3>1 DEF Image
  <2>2. n.reservation = [m.reservation EXCEPT ![s] = "deducted"]
    BY DEF Image
  <2>3. /\ Cardinality(In(n, "reserved")) = Cardinality(In(m, "reserved")) - 1
        /\ Cardinality(In(n, "deducted")) = Cardinality(In(m, "deducted")) + 1
    BY <1>2, <2>1, <2>2, InMoves DEF Reservations
  <2>4. BalancedNow(m)
    BY BalancedForms
  <2>5. /\ n.granted = m.granted
        /\ n.available = m.available /\ n.reserved = m.reserved - 1
        /\ n.consumed = m.consumed + 1 /\ n.ledger = m.ledger \cup {<<"deduct", s>>}
    BY DEF Image
  <2>6. m.granted \in Int /\ m.available \in Int /\ m.reserved \in Int /\ m.consumed \in Int
    BY SharedAssumption DEF Image
  <2>7. LedgerTells(n)
    BY <1>2, <2>2, <2>4, <2>5 DEF BalancedNow, LedgerTells, Image
  <2>8. BalancedNow(n)
    BY <2>3, <2>4, <2>5, <2>6, <2>7, SharedAssumption DEF BalancedNow
  <2>9. QED BY <2>1, <2>8, BalancedForms
<1>3. QED BY <1>1, <1>2

LEMMA ReleaseBalances ==
    ASSUME NEW m \in Image, NEW s \in Scan, Balanced(m)
    PROVE  Release(m, s) \in Image /\ Balanced(Release(m, s))
<1>1. CASE m.reservation[s] # "reserved"
  BY <1>1 DEF Release
<1>2. CASE m.reservation[s] = "reserved"
  <2> SUFFICES ASSUME NEW n,
                      n = [m EXCEPT !.reservation[s] = "released",
                                    !.reserved = @ - 1, !.available = @ + 1,
                                    !.ledger = @ \cup {<<"release", s>>}]
               PROVE  n \in Image /\ Balanced(n)
    BY <1>2 DEF Release
  <2>a. n = [status |-> n.status, job |-> n.job, reservation |-> n.reservation,
              granted |-> n.granted, available |-> n.available, reserved |-> n.reserved,
              consumed |-> n.consumed, ledger |-> n.ledger]
    BY Zenon DEF Image
  <2>1. n \in Image
    <3>1. /\ n.status = m.status /\ n.job = m.job
          /\ n.reservation = [m.reservation EXCEPT ![s] = "released"]
          /\ n.granted = m.granted
          /\ n.available = m.available + 1 /\ n.reserved = m.reserved - 1
          /\ n.consumed = m.consumed /\ n.ledger = m.ledger \cup {<<"release", s>>}
      BY DEF Image
    <3>2. QED BY <2>a, <3>1 DEF Image
  <2>2. n.reservation = [m.reservation EXCEPT ![s] = "released"]
    BY DEF Image
  <2>3. /\ Cardinality(In(n, "reserved")) = Cardinality(In(m, "reserved")) - 1
        /\ Cardinality(In(n, "deducted")) = Cardinality(In(m, "deducted"))
    BY <1>2, <2>1, <2>2, InMoves DEF Reservations
  <2>4. BalancedNow(m)
    BY BalancedForms
  <2>5. /\ n.granted = m.granted
        /\ n.available = m.available + 1 /\ n.reserved = m.reserved - 1
        /\ n.consumed = m.consumed /\ n.ledger = m.ledger \cup {<<"release", s>>}
    BY DEF Image
  <2>6. m.granted \in Int /\ m.available \in Int /\ m.reserved \in Int /\ m.consumed \in Int
    BY SharedAssumption DEF Image
  <2>7. LedgerTells(n)
    BY <1>2, <2>2, <2>4, <2>5 DEF BalancedNow, LedgerTells, Image
  <2>8. BalancedNow(n)
    BY <2>3, <2>4, <2>5, <2>6, <2>7, SharedAssumption DEF BalancedNow
  <2>9. QED BY <2>1, <2>8, BalancedForms
<1>3. QED BY <1>1, <1>2

\* Setting the status or the job of a scan touches nothing that Balanced is about.
LEMMA StatusBalances ==
    ASSUME NEW m \in Image, NEW n \in Image, Balanced(m),
           n.reservation = m.reservation, n.ledger = m.ledger, n.granted = m.granted,
           n.available = m.available, n.reserved = m.reserved, n.consumed = m.consumed
    PROVE  Balanced(n)
<1>1. \A status : In(n, status) = In(m, status)
  BY DEF In
<1>2. QED BY <1>1 DEF Balanced

-----------------------------------------------------------------------------
\* What the operations make of the fields that Agrees is about.
LEMMA ReserveFields ==
    ASSUME NEW m \in Image, NEW s \in Scan
    PROVE  /\ Reserve(m, s).status = [m.status EXCEPT ![s] = "queued"]
           /\ Reserve(m, s).job = m.job
           /\ Reserve(m, s).reservation = [m.reservation EXCEPT ![s] = "reserved"]
BY DEF Reserve, Image

LEMMA DeductFields ==
    ASSUME NEW m \in Image, NEW s \in Scan
    PROVE  /\ Deduct(m, s).status = m.status
           /\ Deduct(m, s).job = m.job
           /\ Deduct(m, s).reservation =
                  IF m.reservation[s] = "reserved"
                  THEN [m.reservation EXCEPT ![s] = "deducted"] ELSE m.reservation
BY DEF Deduct, Image

LEMMA ReleaseFields ==
    ASSUME NEW m \in Image, NEW s \in Scan
    PROVE  /\ Release(m, s).status = m.status
           /\ Release(m, s).job = m.job
           /\ Release(m, s).reservation =
                  IF m.reservation[s] = "reserved"
                  THEN [m.reservation EXCEPT ![s] = "released"] ELSE m.reservation
BY DEF Release, Image

\* Setting the status, or the job, of a scan leaves a balanced image.
LEMMA SetStatus ==
    ASSUME NEW m \in Image, NEW s \in Scan, Balanced(m),
           NEW x \in {"absent", "queued", "completed", "cancelled"}
    PROVE  LET n == [m EXCEPT !.status[s] = x] IN
           /\ n \in Image /\ Balanced(n)
           /\ n.status = [m.status EXCEPT ![s] = x]
           /\ n.job = m.job /\ n.reservation = m.reservation
<1> DEFINE n == [m EXCEPT !.status[s] = x]
<1>1. n \in Image
  BY DEF Image
<1>2. /\ n.status = [m.status EXCEPT ![s] = x]
      /\ n.job = m.job /\ n.reservation = m.reservation /\ n.ledger = m.ledger
      /\ n.granted = m.granted /\ n.available = m.available /\ n.reserved = m.reserved /\ n.consumed = m.consumed
  BY DEF Image
<1>3. Balanced(n)
  BY <1>1, <1>2, StatusBalances
<1>4. QED BY <1>1, <1>2, <1>3

LEMMA SetJob ==
    ASSUME NEW m \in Image, NEW s \in Scan, Balanced(m),
           NEW x \in {"absent", "queued", "running", "completed", "failed"}
    PROVE  LET n == [m EXCEPT !.job[s] = x] IN
           /\ n \in Image /\ Balanced(n)
           /\ n.job = [m.job EXCEPT ![s] = x]
           /\ n.status = m.status /\ n.reservation = m.reservation
<1> DEFINE n == [m EXCEPT !.job[s] = x]
<1>1. n \in Image
  BY DEF Image
<1>2. /\ n.job = [m.job EXCEPT ![s] = x]
      /\ n.status = m.status /\ n.reservation = m.reservation /\ n.ledger = m.ledger
      /\ n.granted = m.granted /\ n.available = m.available /\ n.reserved = m.reserved /\ n.consumed = m.consumed
  BY DEF Image
<1>3. Balanced(n)
  BY <1>1, <1>2, StatusBalances
<1>4. QED BY <1>1, <1>2, <1>3

-----------------------------------------------------------------------------
\* The ways in which the request that created a scan goes on.
Advances(q, r) ==
    \A s \in Scan :
        \/ r[s] = q[s]
        \/ q[s] = "none" /\ r[s] \in {"reserved", "refused"}
        \/ q[s] = "reserved" /\ r[s] \in {"pushed", "lost"}
        \/ q[s] = "pushed" /\ r[s] \in {"answered", "lost"}

\* A memory that nobody writes agrees with a request that goes on.
LEMMA AgreesLater ==
    ASSUME NEW q, NEW r, NEW m, ImageOK(q, m), Advances(q, r)
    PROVE  ImageOK(r, m)
<1> SUFFICES ASSUME NEW s \in Scan PROVE Agrees(r, m, s)
  BY DEF ImageOK
<1>1. Agrees(q, m, s)
  BY DEF ImageOK
<1>2. m.reservation[s] \in Reservations
  BY DEF ImageOK, Image, Reservations
<1>3. QED BY <1>1, <1>2 DEF Agrees, Advances

\* A sync leaves images that agree if the one it writes does; so do a reload and a
\* change of one memory.
Images ==
    /\ db' \in [Files -> Image]
    /\ mem' \in [Process -> Image]
    /\ \A f \in Files : ImageOK(request', db'[f])
    /\ \A p \in Process : ImageOK(request', mem'[p])

LEMMA HasDatabase == \A p \in Process : Database(p) \in Files
BY DEF Files

LEMMA SyncKeeps ==
    ASSUME StoreInv, Advances(request, request'), NEW p \in Process, NEW m,
           ImageOK(request', m), Sync(p, m)
    PROVE  Images
<1>1. m \in Image
  BY DEF ImageOK
<1>2. /\ \A f \in Files : ImageOK(request', db[f])
      /\ \A o \in Process : ImageOK(request', mem[o])
  BY AgreesLater DEF StoreInv
<1>3. QED BY <1>1, <1>2 DEF Sync, Images, StoreInv, Rest

LEMMA KeepKeeps ==
    ASSUME StoreInv, Advances(request, request'), NEW p \in Process, NEW m,
           ImageOK(request', m), Keep(p, m)
    PROVE  Images
<1>1. m \in Image
  BY DEF ImageOK
<1>2. /\ \A f \in Files : ImageOK(request', db[f])
      /\ \A o \in Process : ImageOK(request', mem[o])
  BY AgreesLater DEF StoreInv
<1>3. QED BY <1>1, <1>2 DEF Keep, Images, StoreInv, Rest

LEMMA ReloadKeeps ==
    ASSUME StoreInv, Advances(request, request'), NEW p \in Process, Reload(p)
    PROVE  Images
<1>1. db[Database(p)] \in Image
  BY HasDatabase DEF StoreInv, ImageOK
<1>2. /\ \A f \in Files : ImageOK(request', db[f])
      /\ \A o \in Process : ImageOK(request', mem[o])
  BY AgreesLater DEF StoreInv
<1>3. QED BY <1>1, <1>2, HasDatabase DEF Reload, Images, StoreInv, Rest

LEMMA NothingKeeps ==
    ASSUME StoreInv, Advances(request, request'), UNCHANGED <<db, mem>>
    PROVE  Images
BY AgreesLater DEF StoreInv, Rest, Images

-----------------------------------------------------------------------------
\* The API's steps.
LEMMA ProcessNames == API \in Process /\ Worker \in Process /\ API # Worker
BY DEF Process, API, Worker

\* They leave the worker and its memory alone.
ApiQuiet == mem'[Worker] = mem[Worker] /\ UNCHANGED <<workerVars, restarts>>

LEMMA ApiKeeps ==
    ASSUME StoreInv, Images, ApiQuiet, request' \in [Scan -> RequestPlace],
           redis' \in Seq(Scan), redisOff' \in SUBSET Process
    PROVE  StoreInv'
<1>1. Rest'
  BY DEF StoreInv, Rest, Images, ApiQuiet, workerVars
<1>2. WorkerOK'
  BY DEF StoreInv, WorkerOK, ApiQuiet, workerVars
<1>3. QED BY <1>1, <1>2 DEF StoreInv, Images

LEMMA OtherMemory ==
    ASSUME StoreInv, NEW m, Sync(API, m) \/ Keep(API, m) \/ Reload(API)
    PROVE  mem'[Worker] = mem[Worker]
BY ProcessNames DEF Sync, Keep, Reload, StoreInv, Rest

LEMMA CreateScanKeeps ==
    ASSUME StoreInv, NEW s \in Scan, CreateScan(s)
    PROVE  StoreInv'
<1> DEFINE m == mem[API]
<1>1. ImageOK(request, m) /\ m \in Image /\ Balanced(m)
  BY ProcessNames DEF StoreInv, ImageOK
<1>2. request \in [Scan -> RequestPlace] /\ request[s] = "none"
  BY DEF StoreInv, Rest, CreateScan
<1>3. m.status[s] = "absent" /\ m.job[s] = "absent" /\ m.reservation[s] = "none"
  BY <1>1, <1>2 DEF ImageOK, Agrees
<1>4. CASE m.available >= 1 /\ Sync(API, Reserve(m, s))
           /\ request' = [request EXCEPT ![s] = "reserved"]
  <2>1. Reserve(m, s) \in Image /\ Balanced(Reserve(m, s))
    BY <1>1, <1>3, <1>4, ReserveBalances
  <2>2. \A t \in Scan : Agrees(request', Reserve(m, s), t)
    <3> DEFINE n == Reserve(m, s)
    <3>1. /\ n.status = [m.status EXCEPT ![s] = "queued"] /\ n.job = m.job
          /\ n.reservation = [m.reservation EXCEPT ![s] = "reserved"]
      BY <1>1, ReserveFields
    <3> HIDE DEF n
    <3>2. \A t \in Scan : Agrees(request', n, t)
      BY <1>1, <1>2, <1>3, <1>4, <3>1 DEF ImageOK, Agrees, Image
    <3>3. QED BY <3>2 DEF n
  <2>3. Advances(request, request')
    BY <1>2, <1>4 DEF Advances
  <2>4. Images
    BY <1>4, <2>1, <2>2, <2>3, SyncKeeps, ProcessNames DEF ImageOK
  <2>5. request' \in [Scan -> RequestPlace]
    BY <1>2, <1>4 DEF RequestPlace
  <2>6. QED
    BY <1>4, <2>4, <2>5, OtherMemory, ApiKeeps
    DEF ApiQuiet, CreateScan, redisVars, StoreInv, Rest
<1>5. CASE Keep(API, [m EXCEPT !.status[s] = "queued"])
           /\ request' = [request EXCEPT ![s] = "refused"]
  <2> DEFINE n == [m EXCEPT !.status[s] = "queued"]
  <2>1. /\ n \in Image /\ Balanced(n) /\ n.status = [m.status EXCEPT ![s] = "queued"]
        /\ n.job = m.job /\ n.reservation = m.reservation
    BY <1>1, SetStatus
  <2>2. \A t \in Scan : Agrees(request', n, t)
    <3> HIDE DEF n
    <3> QED BY <1>1, <1>2, <1>3, <1>5, <2>1 DEF ImageOK, Agrees, Image
  <2>3. Advances(request, request')
    BY <1>2, <1>5 DEF Advances
  <2>4. Images
    BY <1>5, <2>1, <2>2, <2>3, KeepKeeps, ProcessNames DEF ImageOK
  <2>5. request' \in [Scan -> RequestPlace]
    BY <1>2, <1>5 DEF RequestPlace
  <2>6. QED
    BY <1>5, <2>4, <2>5, OtherMemory, ApiKeeps
    DEF ApiQuiet, CreateScan, redisVars, StoreInv, Rest
<1>6. QED BY <1>4, <1>5 DEF CreateScan

LEMMA EnqueueKeeps ==
    ASSUME StoreInv, NEW s \in Scan, Enqueue(s)
    PROVE  StoreInv'
<1> DEFINE m == mem[API]
           n == [m EXCEPT !.job[s] = "queued"]
<1>1. ImageOK(request, m) /\ m \in Image /\ Balanced(m)
  BY ProcessNames DEF StoreInv, ImageOK
<1>2. /\ request \in [Scan -> RequestPlace] /\ request[s] = "reserved"
      /\ request' = [request EXCEPT ![s] = "pushed"] /\ Keep(API, n)
  BY DEF StoreInv, Rest, Enqueue
<1>3. /\ n \in Image /\ Balanced(n) /\ n.job = [m.job EXCEPT ![s] = "queued"]
      /\ n.status = m.status /\ n.reservation = m.reservation
  BY <1>1, SetJob
<1>4. \A t \in Scan : Agrees(request', n, t)
  <2> HIDE DEF n
  <2> QED BY <1>1, <1>2, <1>3 DEF ImageOK, Agrees, Image
<1>5. Advances(request, request')
  BY <1>2 DEF Advances
<1>6. Images
  BY <1>2, <1>3, <1>4, <1>5, KeepKeeps, ProcessNames DEF ImageOK
<1>7. request' \in [Scan -> RequestPlace]
  BY <1>2 DEF RequestPlace
<1>8. redis' \in Seq(Scan) /\ redisOff' \in SUBSET Process
  <2>1. redis \in Seq(Scan) /\ redisOff \in SUBSET Process
    BY DEF StoreInv, Rest
  <2>2. CASE redis' = Append(redis, s) /\ redisOff' = redisOff
    BY <2>1, <2>2
  <2>3. CASE redisOff' = redisOff \cup {API} /\ redis' = redis
    BY <2>1, <2>3, ProcessNames
  <2>4. QED BY <2>2, <2>3 DEF Enqueue
<1>9. ApiQuiet
  BY <1>2, OtherMemory DEF ApiQuiet, Enqueue
<1>10. QED BY <1>6, <1>7, <1>8, <1>9, ApiKeeps

LEMMA ApiSyncKeeps ==
    ASSUME StoreInv, Advances(request, request'), request' \in [Scan -> RequestPlace],
           Sync(API, mem[API]) \/ Reload(API),
           redis' \in Seq(Scan), redisOff' \in SUBSET Process,
           UNCHANGED <<workerVars, restarts>>
    PROVE  StoreInv'
<1>1. ImageOK(request', mem[API])
  BY AgreesLater, ProcessNames DEF StoreInv
<1>2. Images
  BY <1>1, SyncKeeps, ReloadKeeps, ProcessNames
<1>3. ApiQuiet
  BY OtherMemory DEF ApiQuiet
<1>4. QED BY <1>2, <1>3, ApiKeeps

LEMMA CancelScanKeeps ==
    ASSUME StoreInv, NEW s \in Scan, CancelScan(s)
    PROVE  StoreInv'
<1> DEFINE m == mem[API]
           c == [m EXCEPT !.status[s] = "cancelled"]
           n == Release(c, s)
<1>1. ImageOK(request, m) /\ m \in Image /\ Balanced(m)
  BY ProcessNames DEF StoreInv, ImageOK
<1>2. /\ request[s] = "answered" /\ UNCHANGED request
      /\ m.status[s] # "absent" /\ Sync(API, n)
  BY DEF CancelScan, apiVars
<1>3. /\ c \in Image /\ Balanced(c) /\ c.status = [m.status EXCEPT ![s] = "cancelled"]
      /\ c.job = m.job /\ c.reservation = m.reservation
  BY <1>1, SetStatus
<1>4. n \in Image /\ Balanced(n)
  BY <1>3, ReleaseBalances
<1>5. /\ n.status = [m.status EXCEPT ![s] = "cancelled"] /\ n.job = m.job
      /\ n.reservation = IF m.reservation[s] = "reserved"
                         THEN [m.reservation EXCEPT ![s] = "released"] ELSE m.reservation
  <2> HIDE DEF c
  <2> QED BY <1>3, ReleaseFields
<1>6. \A t \in Scan : Agrees(request', n, t)
  <2> HIDE DEF n
  <2> QED BY <1>1, <1>2, <1>5 DEF ImageOK, Agrees, Image
<1>7. Images
  BY <1>2, <1>4, <1>6, SyncKeeps, ProcessNames DEF ImageOK, Advances
<1>8. QED
  BY <1>2, <1>7, OtherMemory, ApiKeeps
  DEF ApiQuiet, CancelScan, redisVars, StoreInv, Rest

LEMMA RestartApiKeeps ==
    ASSUME StoreInv, RestartApi
    PROVE  StoreInv'
<1>1. request \in [Scan -> RequestPlace] /\ restarts \in 0..MaxRestarts
  BY DEF StoreInv, Rest
<1>2. request' \in [Scan -> RequestPlace] /\ Advances(request, request')
  BY <1>1 DEF RestartApi, RequestPlace, Advances
<1>3. Images
  BY <1>2, ReloadKeeps, ProcessNames DEF RestartApi
<1>4. mem'[Worker] = mem[Worker]
  BY OtherMemory DEF RestartApi
<1>5. restarts' \in 0..MaxRestarts
  BY <1>1, SharedAssumption DEF RestartApi, Restarting
<1>6. Rest'
  BY <1>2, <1>3, <1>5 DEF StoreInv, Rest, Images, RestartApi, workerVars
<1>7. WorkerOK'
  BY <1>4 DEF StoreInv, WorkerOK, RestartApi, workerVars
<1>8. QED BY <1>3, <1>6, <1>7 DEF StoreInv, Images

-----------------------------------------------------------------------------
\* The worker's steps.  They leave the requests alone.
LEMMA WorkerKeeps ==
    ASSUME StoreInv, Images, Rest', WorkerOK'
    PROVE  StoreInv'
BY DEF StoreInv, Images

LEMMA SameRequests ==
    ASSUME UNCHANGED request
    PROVE  Advances(request, request')
BY DEF Advances

\* Where the worker is, by name, and that a Sync of the worker sets its memory.
Place == {"idle", "redis", "popped", "execute", "started", "ran", "raised",
          "persisted", "list", "drained", "stopped"}

LEMMA WorkerMemory ==
    ASSUME StoreInv, NEW m, Sync(Worker, m) \/ Keep(Worker, m)
    PROVE  mem'[Worker] = m
BY ProcessNames DEF Sync, Keep, StoreInv, Rest

LEMMA HeartbeatKeeps ==
    ASSUME StoreInv, NEW from, NEW to \in {"redis", "ran"}, Heartbeat(from, to),
           to = "ran" => from = "ran"
    PROVE  StoreInv'
<1>1. ImageOK(request', mem[Worker]) /\ UNCHANGED request
  BY ProcessNames DEF StoreInv, Heartbeat, apiVars
<1>2. Images
  BY <1>1, SyncKeeps, SameRequests, ProcessNames DEF Heartbeat
<1>3. mem'[Worker] = mem[Worker]
  BY WorkerMemory DEF Heartbeat
<1>4. Rest'
  BY <1>2 DEF StoreInv, Rest, Images, Heartbeat, Goto, apiVars, redisVars
<1>5. WorkerOK'
  BY <1>3 DEF StoreInv, WorkerOK, Heartbeat, Goto
<1>6. QED BY <1>2, <1>4, <1>5, WorkerKeeps

LEMMA LastHeartbeatKeeps ==
    ASSUME StoreInv, NEW from, LastHeartbeat(from)
    PROVE  StoreInv'
<1>1. ImageOK(request', mem[Worker]) /\ UNCHANGED request
  BY ProcessNames DEF StoreInv, LastHeartbeat, apiVars
<1>2. Images
  BY <1>1, SyncKeeps, SameRequests, ProcessNames DEF LastHeartbeat
<1>3. Rest'
  BY <1>2 DEF StoreInv, Rest, Images, LastHeartbeat, Goto, NothingInHand, apiVars, redisVars
<1>4. WorkerOK'
  BY DEF WorkerOK, LastHeartbeat, Goto
<1>5. QED BY <1>2, <1>3, <1>4, WorkerKeeps

LEMMA PopKeeps ==
    ASSUME StoreInv, Pop
    PROVE  StoreInv'
<1>1. redis \in Seq(Scan) /\ redis # <<>>
  BY DEF StoreInv, Rest, Pop
<1>2. Head(redis) \in Scan /\ Tail(redis) \in Seq(Scan)
  BY <1>1
<1>3. Images
  BY NothingKeeps, SameRequests DEF Pop, apiVars
<1>4. Rest'
  BY <1>2, <1>3 DEF StoreInv, Rest, Images, Pop, Goto, apiVars
<1>5. WorkerOK'
  BY <1>2 DEF WorkerOK, Pop, Goto
<1>6. QED BY <1>3, <1>4, <1>5, WorkerKeeps

LEMMA ReloadForJobKeeps ==
    ASSUME StoreInv, ReloadForJob
    PROVE  StoreInv'
<1>1. Images
  BY ReloadKeeps, SameRequests, ProcessNames DEF ReloadForJob, apiVars
<1>2. Rest'
  BY <1>1 DEF StoreInv, Rest, Images, ReloadForJob, Goto, apiVars, redisVars
<1>3. WorkerOK'
  BY DEF StoreInv, WorkerOK, ReloadForJob, Goto
<1>4. QED BY <1>1, <1>2, <1>3, WorkerKeeps

LEMMA RedisDrainedKeeps ==
    ASSUME StoreInv, RedisDrained
    PROVE  StoreInv'
<1>1. Images
  BY NothingKeeps, SameRequests DEF RedisDrained, apiVars
<1>2. redisOff' \in SUBSET Process
  BY ProcessNames DEF RedisDrained, StoreInv, Rest
<1>3. Rest'
  BY <1>1, <1>2 DEF StoreInv, Rest, Images, RedisDrained, Goto, apiVars
<1>4. WorkerOK'
  BY DEF WorkerOK, RedisDrained, Goto
<1>5. QED BY <1>1, <1>3, <1>4, WorkerKeeps

LEMMA ListQueuedKeeps ==
    ASSUME StoreInv, ListQueued
    PROVE  StoreInv'
<1>1. Images
  BY ReloadKeeps, SameRequests, ProcessNames DEF ListQueued, apiVars
<1>2. Rest'
  BY <1>1 DEF StoreInv, Rest, Images, ListQueued, Goto, apiVars, redisVars
<1>3. WorkerOK'
  BY DEF WorkerOK, ListQueued, Goto
<1>4. QED BY <1>1, <1>2, <1>3, WorkerKeeps

LEMMA NextJobKeeps ==
    ASSUME StoreInv, NEW s \in Scan, NextJob(s)
    PROVE  StoreInv'
<1>1. Images
  BY NothingKeeps, SameRequests DEF NextJob, apiVars
<1>2. Rest'
  BY <1>1 DEF StoreInv, Rest, Images, NextJob, Goto, apiVars, redisVars
<1>3. WorkerOK'
  BY DEF WorkerOK, NextJob, Goto
<1>4. QED BY <1>1, <1>2, <1>3, WorkerKeeps

LEMMA ListDoneKeeps ==
    ASSUME StoreInv, ListDone
    PROVE  StoreInv'
<1>1. Images
  BY NothingKeeps, SameRequests DEF ListDone, apiVars
<1>2. Rest'
  BY <1>1 DEF StoreInv, Rest, Images, ListDone, Goto, apiVars, redisVars
<1>3. WorkerOK'
  BY DEF WorkerOK, ListDone, Goto
<1>4. QED BY <1>1, <1>2, <1>3, WorkerKeeps

\* A job is started in a memory where it is queued, so its scan has been reserved.
LEMMA StartJobKeeps ==
    ASSUME StoreInv, StartJob
    PROVE  StoreInv'
<1> DEFINE s == holding
           m == mem[Worker]
           n == [m EXCEPT !.job[s] = "running"]
<1>1. ImageOK(request, m) /\ m \in Image /\ Balanced(m)
  BY ProcessNames DEF StoreInv, ImageOK
<1>2. at = "execute" /\ s \in Scan /\ UNCHANGED request
  BY DEF StartJob, Goto, StoreInv, WorkerOK, apiVars
<1>3. CASE /\ Goto("execute", "raised") \/ Goto("execute", source)
           /\ UNCHANGED <<db, mem>>
  <2>1. Images
    BY <1>2, <1>3, NothingKeeps, SameRequests
  <2>2. Rest'
    BY <1>3, <2>1 DEF StoreInv, Rest, Images, StartJob, Goto, apiVars, redisVars
  <2>3. WorkerOK'
    BY <1>3 DEF StoreInv, Rest, WorkerOK, Goto
  <2>4. QED BY <2>1, <2>2, <2>3, WorkerKeeps
<1>4. CASE Goto("execute", "started") /\ m.job[s] = "queued" /\ Sync(Worker, n)
  <2>1. /\ n \in Image /\ Balanced(n) /\ n.job = [m.job EXCEPT ![s] = "running"]
        /\ n.status = m.status /\ n.reservation = m.reservation
    BY <1>1, <1>2, SetJob
  <2>2. n.job[s] = "running"
    BY <1>1, <1>2, <2>1 DEF Image
  <2>3. mem'[Worker] = n
    BY <1>4, WorkerMemory
  <2>4. Images
    <3> HIDE DEF n
    <3>1. \A t \in Scan : Agrees(request, n, t)
      BY <1>1, <1>2, <1>4, <2>1 DEF ImageOK, Agrees, Image
    <3>2. ImageOK(request', n)
      BY <1>2, <2>1, <3>1 DEF ImageOK
    <3>3. QED BY <1>2, <1>4, <3>2, SyncKeeps, SameRequests, ProcessNames
  <2>5. Rest'
    BY <1>4, <2>4 DEF StoreInv, Rest, Images, StartJob, Goto, apiVars, redisVars
  <2>6. WorkerOK'
    <3> HIDE DEF n
    <3> QED BY <1>2, <1>4, <2>2, <2>3 DEF WorkerOK, StartJob, Goto
  <2>7. QED BY <2>4, <2>5, <2>6, WorkerKeeps
<1>5. QED BY <1>3, <1>4 DEF StartJob

LEMMA RunJobKeeps ==
    ASSUME StoreInv, RunJob
    PROVE  StoreInv'
<1> DEFINE s == holding
           m == mem[Worker]
           c == [m EXCEPT !.status[s] = "completed"]
<1>1. ImageOK(request, m) /\ m \in Image /\ Balanced(m)
  BY ProcessNames DEF StoreInv, ImageOK
<1>2. s \in Scan /\ m.job[s] = "running" /\ UNCHANGED request
  BY DEF RunJob, Goto, StoreInv, WorkerOK, apiVars
<1>3. Agrees(request, m, s)
  BY <1>1, <1>2 DEF ImageOK
<1>c. /\ c \in Image /\ Balanced(c) /\ c.status = [m.status EXCEPT ![s] = "completed"]
      /\ c.job = m.job /\ c.reservation = m.reservation
  BY <1>1, <1>2, SetStatus
<1>4. CASE /\ Goto("started", "raised") /\ m.status[s] = "absent"
           /\ Sync(Worker, [m EXCEPT !.job[s] = "failed"])
  <2> DEFINE n == [m EXCEPT !.job[s] = "failed"]
  <2>1. /\ n \in Image /\ Balanced(n) /\ n.job = [m.job EXCEPT ![s] = "failed"]
        /\ n.status = m.status /\ n.reservation = m.reservation
    BY <1>1, <1>2, SetJob
  <2>2. Images
    <3> HIDE DEF n
    <3>1. \A t \in Scan : Agrees(request, n, t)
      BY <1>1, <1>2, <1>3, <1>4, <2>1 DEF ImageOK, Agrees, Image
    <3>2. ImageOK(request', n)
      BY <1>2, <2>1, <3>1 DEF ImageOK
    <3>3. QED BY <1>2, <1>4, <3>2, SyncKeeps, SameRequests, ProcessNames DEF n
  <2>3. Rest'
    BY <1>4, <2>2 DEF StoreInv, Rest, Images, RunJob, Goto, apiVars, redisVars
  <2>4. WorkerOK'
    BY <1>4 DEF WorkerOK, Goto
  <2>5. QED BY <2>2, <2>3, <2>4, WorkerKeeps
<1>5. CASE /\ Goto("started", "raised") /\ m.status[s] # "absent"
           /\ m.reservation[s] = "released"
           /\ Sync(Worker, [c EXCEPT !.job[s] = "failed"])
  <2> DEFINE n == [c EXCEPT !.job[s] = "failed"]
  <2> HIDE DEF c
  <2>1. /\ n \in Image /\ Balanced(n) /\ n.job = [c.job EXCEPT ![s] = "failed"]
        /\ n.status = c.status /\ n.reservation = c.reservation
    BY <1>2, <1>c, SetJob
  <2>2. Images
    <3> HIDE DEF n
    <3>1. \A t \in Scan : Agrees(request, n, t)
      BY <1>1, <1>2, <1>3, <1>5, <1>c, <2>1 DEF ImageOK, Agrees, Image
    <3>2. ImageOK(request', n)
      BY <1>2, <2>1, <3>1 DEF ImageOK
    <3>3. QED BY <1>2, <1>5, <3>2, SyncKeeps, SameRequests, ProcessNames DEF n
  <2>3. Rest'
    BY <1>5, <2>2 DEF StoreInv, Rest, Images, RunJob, Goto, apiVars, redisVars
  <2>4. WorkerOK'
    BY <1>5 DEF WorkerOK, Goto
  <2>5. QED BY <2>2, <2>3, <2>4, WorkerKeeps
<1>6. CASE /\ Goto("started", "ran") /\ m.status[s] # "absent"
           /\ m.reservation[s] # "released" /\ Sync(Worker, Deduct(c, s))
  <2> DEFINE n == Deduct(c, s)
  <2> HIDE DEF c
  <2>1. m.reservation[s] \in {"reserved", "deducted"}
    BY <1>1, <1>2, <1>3, <1>6 DEF Agrees, Image
  <2>2. n \in Image /\ Balanced(n)
    BY <1>2, <1>c, DeductBalances
  <2>3. /\ n.status = c.status /\ n.job = c.job
        /\ n.reservation = IF c.reservation[s] = "reserved"
                           THEN [c.reservation EXCEPT ![s] = "deducted"] ELSE c.reservation
    BY <1>2, <1>c, DeductFields
  <2>4. n.reservation[s] = "deducted"
    <3> HIDE DEF n
    <3> QED BY <1>1, <1>2, <1>c, <2>1, <2>3 DEF Image
  <2>5. mem'[Worker] = n
    BY <1>6, WorkerMemory
  <2>6. Images
    <3> HIDE DEF n
    <3>1. \A t \in Scan : Agrees(request, n, t)
      BY <1>1, <1>2, <1>3, <1>6, <1>c, <2>1, <2>3 DEF ImageOK, Agrees, Image
    <3>2. ImageOK(request', n)
      BY <1>2, <2>2, <3>1 DEF ImageOK
    <3>3. QED BY <1>2, <1>6, <3>2, SyncKeeps, SameRequests, ProcessNames DEF n
  <2>7. Rest'
    BY <1>6, <2>6 DEF StoreInv, Rest, Images, RunJob, Goto, apiVars, redisVars
  <2>8. WorkerOK'
    <3> HIDE DEF n
    <3> QED BY <1>2, <1>6, <1>c, <2>3, <2>4, <2>5 DEF WorkerOK, RunJob, Goto
  <2>9. QED BY <2>6, <2>7, <2>8, WorkerKeeps
<1>7. QED BY <1>4, <1>5, <1>6 DEF RunJob

LEMMA FinishJobKeeps ==
    ASSUME StoreInv, FinishJob
    PROVE  StoreInv'
<1> DEFINE s == holding
           m == mem[Worker]
           n == [m EXCEPT !.job[s] = "completed"]
<1>1. ImageOK(request, m) /\ m \in Image /\ Balanced(m)
  BY ProcessNames DEF StoreInv, ImageOK
<1>2. /\ s \in Scan /\ m.reservation[s] = "deducted" /\ m.job[s] = "running"
      /\ UNCHANGED request
      /\ at' = source /\ Sync(Worker, n)
  BY DEF FinishJob, Goto, StoreInv, WorkerOK, apiVars
<1>3. /\ n \in Image /\ Balanced(n) /\ n.job = [m.job EXCEPT ![s] = "completed"]
      /\ n.status = m.status /\ n.reservation = m.reservation
  BY <1>1, <1>2, SetJob
<1>4. Images
  <2> HIDE DEF n
  <2>1. request[s] \in RequestPlace
    BY <1>2 DEF StoreInv, Rest
  <2>2. \A t \in Scan : Agrees(request, n, t)
    BY <1>1, <1>2, <1>3, <2>1 DEF ImageOK, Agrees, Image, RequestPlace
  <2>3. ImageOK(request', n)
    BY <1>2, <1>3, <2>2 DEF ImageOK
  <2>4. QED BY <1>2, <2>3, SyncKeeps, SameRequests, ProcessNames
<1>5. Rest'
  BY <1>2, <1>4 DEF StoreInv, Rest, Images, FinishJob, apiVars, redisVars
<1>6. WorkerOK'
  BY <1>2 DEF StoreInv, Rest, WorkerOK
<1>7. QED BY <1>4, <1>5, <1>6, WorkerKeeps

-----------------------------------------------------------------------------
\* Stops, crashes and starts of the worker.
LEMMA UnusedOK ==
    ASSUME NEW q, NEW g \in {0, Credits}
    PROVE  Unused(g) \in Image /\ ImageOK(q, Unused(g))
<1> DEFINE m == Unused(g)
<1>1. m \in Image
  BY SharedAssumption DEF Unused, Image
<1>2. /\ In(m, "none") = Scan /\ In(m, "reserved") = {}
      /\ In(m, "deducted") = {} /\ In(m, "released") = {}
  BY DEF In, Unused
<1>3. Balanced(m)
  <2>1. /\ m.granted = g /\ m.available = g /\ m.reserved = 0 /\ m.consumed = 0
        /\ m.ledger = {}
    BY DEF Unused
  <2>2. {"reserve"} \X (Scan \ Scan) = {} /\ {"deduct"} \X {} = {} /\ {"release"} \X {} = {}
    OBVIOUS
  <2> HIDE DEF m
  <2>3. QED BY <1>2, <2>1, <2>2, FS_EmptySet, SharedAssumption DEF Balanced
<1>4. \A s \in Scan : Agrees(q, m, s)
  BY DEF Agrees, Unused
<1>5. QED BY <1>1, <1>3, <1>4 DEF ImageOK

LEMMA WorkerGone ==
    ASSUME StoreInv, mem' = [mem EXCEPT ![Worker] = Empty], UNCHANGED request,
           UNCHANGED db \/ db' = [db EXCEPT ![Database(Worker)] = mem[Worker]]
    PROVE  Images
<1>1. ImageOK(request', Empty) /\ Empty \in Image
  BY UnusedOK DEF Empty
<1>2. QED BY <1>1, ProcessNames DEF StoreInv, Rest, Images

LEMMA StopWorkerKeeps ==
    ASSUME StoreInv, StopWorker
    PROVE  StoreInv'
<1>1. Images
  BY WorkerGone DEF StopWorker, apiVars
<1>2. restarts' \in 0..MaxRestarts
  BY SharedAssumption DEF StopWorker, Restarting, StoreInv, Rest
<1>3. Rest'
  BY <1>1, <1>2 DEF StoreInv, Rest, Images, StopWorker, Goto, apiVars, redisVars
<1>4. WorkerOK'
  BY DEF WorkerOK, StopWorker, Goto
<1>5. QED BY <1>1, <1>3, <1>4, WorkerKeeps

LEMMA CrashWorkerKeeps ==
    ASSUME StoreInv, CrashWorker
    PROVE  StoreInv'
<1>1. Images
  BY WorkerGone DEF CrashWorker, apiVars
<1>2. restarts' \in 0..MaxRestarts
  BY SharedAssumption DEF CrashWorker, Restarting, StoreInv, Rest
<1>3. Rest'
  BY <1>1, <1>2
  DEF StoreInv, Rest, Images, CrashWorker, NothingInHand, apiVars, redisVars
<1>4. WorkerOK'
  BY DEF WorkerOK, CrashWorker
<1>5. QED BY <1>1, <1>3, <1>4, WorkerKeeps

LEMMA StartWorkerKeeps ==
    ASSUME StoreInv, StartWorker
    PROVE  StoreInv'
<1>1. Images
  BY ReloadKeeps, SameRequests, ProcessNames DEF StartWorker, apiVars
<1>2. redisOff' \in SUBSET Process
  BY DEF StartWorker, StoreInv, Rest
<1>3. Rest'
  BY <1>1, <1>2 DEF StoreInv, Rest, Images, StartWorker, Goto, apiVars
<1>4. WorkerOK'
  BY DEF WorkerOK, StartWorker, Goto
<1>5. QED BY <1>1, <1>3, <1>4, WorkerKeeps

-----------------------------------------------------------------------------
\* The invariant holds at the start and every step of the two processes keeps it.
LEMMA InitStoreInv == Init => StoreInv
<1> SUFFICES ASSUME Init PROVE StoreInv
  OBVIOUS
<1>1. /\ ImageOK(request, Initial) /\ Initial \in Image
      /\ ImageOK(request, Empty) /\ Empty \in Image
  BY UnusedOK DEF Initial, Empty
<1>2. /\ db \in [Files -> Image] /\ \A f \in Files : ImageOK(request, db[f])
      /\ mem \in [Process -> Image] /\ \A p \in Process : ImageOK(request, mem[p])
  BY <1>1, HasDatabase DEF Init
<1>3. Rest
  BY <1>2, SharedAssumption DEF Init, Rest, RequestPlace
<1>4. WorkerOK
  BY DEF Init, WorkerOK
<1>5. QED BY <1>2, <1>3, <1>4 DEF StoreInv

LEMMA WorkerStepKeeps ==
    ASSUME StoreInv, WorkerStep \/ SyncAgain
    PROVE  StoreInv'
<1>1. CASE Heartbeat("idle", "redis") \/ SyncAgain
  BY <1>1, HeartbeatKeeps DEF SyncAgain
<1>2. CASE LastHeartbeat("drained") \/ LastHeartbeat("raised")
  BY <1>2, LastHeartbeatKeeps
<1>3. CASE Pop \/ ReloadForJob \/ RedisDrained
  BY <1>3, PopKeeps, ReloadForJobKeeps, RedisDrainedKeeps
<1>4. CASE ListQueued \/ (\E s \in Scan : NextJob(s)) \/ ListDone
  BY <1>4, ListQueuedKeeps, NextJobKeeps, ListDoneKeeps
<1>5. CASE StartJob \/ RunJob \/ FinishJob
  BY <1>5, StartJobKeeps, RunJobKeeps, FinishJobKeeps
<1>6. QED BY <1>1, <1>2, <1>3, <1>4, <1>5 DEF WorkerStep

LEMMA NextStoreInv == StoreInv /\ [Next]_vars => StoreInv'
<1> SUFFICES ASSUME StoreInv, [Next]_vars PROVE StoreInv'
  OBVIOUS
<1>r. /\ request \in [Scan -> RequestPlace] /\ redis \in Seq(Scan)
      /\ redisOff \in SUBSET Process
  BY DEF StoreInv, Rest
<1>1. CASE \E s \in Scan : CreateScan(s) \/ Enqueue(s) \/ CancelScan(s)
  BY <1>1, CreateScanKeeps, EnqueueKeeps, CancelScanKeeps
<1>2. ASSUME NEW s \in Scan, EnqueueSync(s) PROVE StoreInv'
  <2>1. /\ request' = [request EXCEPT ![s] = "answered"] /\ request[s] = "pushed"
        /\ Sync(API, mem[API]) /\ UNCHANGED <<redis, redisOff>>
        /\ UNCHANGED <<workerVars, restarts>>
    BY <1>2 DEF EnqueueSync, redisVars
  <2>2. request' \in [Scan -> RequestPlace] /\ Advances(request, request')
    BY <1>r, <2>1 DEF RequestPlace, Advances
  <2>3. QED BY <1>r, <2>1, <2>2, ApiSyncKeeps
<1>3. CASE OtherRequest \/ HealthComponents
  <2>1. UNCHANGED <<request, redis, redisOff>>
    BY <1>3 DEF OtherRequest, HealthComponents, apiVars, redisVars
  <2>2. Sync(API, mem[API]) \/ Reload(API)
    BY <1>3 DEF OtherRequest, HealthComponents
  <2>3. UNCHANGED <<workerVars, restarts>>
    BY <1>3 DEF OtherRequest, HealthComponents
  <2>4. QED BY <1>r, <2>1, <2>2, <2>3, SameRequests, ApiSyncKeeps
<1>4. CASE WorkerStep \/ SyncAgain
  BY <1>4, WorkerStepKeeps
<1>5. CASE StopWorker \/ CrashWorker \/ StartWorker
  BY <1>5, StopWorkerKeeps, CrashWorkerKeeps, StartWorkerKeeps
<1>6. CASE RestartApi
  BY <1>6, RestartApiKeeps
<1>7. CASE UNCHANGED vars
  <2>1. UNCHANGED <<db, mem, request, redis, redisOff, at, source, holding, todo, restarts>>
    BY <1>7 DEF vars
  <2>2. Images
    BY <2>1, NothingKeeps, SameRequests
  <2>3. Rest' /\ WorkerOK'
    BY <2>1 DEF StoreInv, Rest, WorkerOK
  <2>4. QED BY <2>2, <2>3, WorkerKeeps
<1>8. QED BY <1>1, <1>2, <1>3, <1>4, <1>5, <1>6, <1>7 DEF Next

-----------------------------------------------------------------------------
\* Every reachable state satisfies the invariant, whatever the two processes lose of
\* each other's updates.
THEOREM StoreInvHolds == Spec => []StoreInv
BY InitStoreInv, NextStoreInv, PTL DEF Spec

\* Type correctness.
THEOREM StoreTypes == Spec => []StoreTypeOK
<1>1. StoreInv => StoreTypeOK
  BY DEF StoreInv, Rest, ImageOK, StoreTypeOK, RequestPlace
<1>2. QED BY <1>1, StoreInvHolds, PTL

\* The counters, the reservations and the ledger of any database and of either
\* memory agree with each other (store.py sync and reload, worker.py, services.py).
THEOREM BooksAlwaysBalance == Spec => []BooksBalance
<1>1. StoreInv => BooksBalance
  BY DEF StoreInv, ImageOK, BooksBalance
<1>2. QED BY <1>1, StoreInvHolds, PTL

\* A completed job has had its credit deducted, a failed one found it released or
\* found no scan, and no closed scan holds a credit, in a database and in memory.
THEOREM OutcomesAlwaysAgree == Spec => []OutcomesAgree
<1>1. StoreInv => OutcomesAgree
  <2> SUFFICES ASSUME StoreInv, NEW s \in Scan,
                      NEW m \in {db[f] : f \in Files} \cup {mem[API], mem[Worker]}
               PROVE  Agrees(request, m, s)
    BY DEF OutcomesAgree, Agrees
  <2>1. QED BY ProcessNames DEF StoreInv, ImageOK
<1>2. QED BY <1>1, StoreInvHolds, PTL
=============================================================================
